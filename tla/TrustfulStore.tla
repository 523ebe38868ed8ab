----------------------------- MODULE TrustfulStore -----------------------------
(***************************************************************************)
(* What store_interface.py promises, "Abstract trustful mutable store        *)
(* interface", read as a specification: a name resolves to the record that  *)
(* took effect last.  publish_identity writes one or two records and        *)
(* returns only when they have taken effect; when it raises, the records it *)
(* had not written may still take effect later.  A resolution raises, or    *)
(* answers with what the name held at one moment during the call.           *)
(***************************************************************************)
CONSTANTS
  Clients,   \* whoever holds a store object: a thread or a process
  Names,
  Writes,    \* pairs <<name, value>> that may be published
  NoValue    \* what a name without a record resolves to

VARIABLES
  record,    \* the record each name holds
  todo,      \* what the publication of each client has still to write
  busy,      \* the clients that are inside publish_identity
  late,      \* writes given up on that may still take effect
  answer     \* the last answer each client got from a resolution

storeVars == <<record, todo, busy, late, answer>>

NoAnswer == <<"none">>
Raised == <<"raised">>
Found(name, value) == <<"found", name, value>>

Init ==
  /\ record = [n \in Names |-> NoValue]
  /\ todo = [c \in Clients |-> {}]
  /\ busy = {}
  /\ late = {}
  /\ answer = [c \in Clients |-> NoAnswer]

BeginPublish(c, writes) ==
  /\ c \notin busy
  /\ busy' = busy \cup {c}
  /\ todo' = [todo EXCEPT ![c] = writes]
  /\ UNCHANGED <<record, late, answer>>

TakeEffect(c, w) ==
  /\ w \in todo[c]
  /\ record' = [record EXCEPT ![w[1]] = w[2]]
  /\ todo' = [todo EXCEPT ![c] = @ \ {w}]
  /\ UNCHANGED <<busy, late, answer>>

EndPublish(c) ==
  /\ c \in busy
  /\ todo[c] = {}
  /\ busy' = busy \ {c}
  /\ UNCHANGED <<record, todo, late, answer>>

FailPublish(c, pending) ==
  /\ c \in busy
  /\ pending \subseteq todo[c]
  /\ busy' = busy \ {c}
  /\ todo' = [todo EXCEPT ![c] = {}]
  /\ late' = late \cup pending
  /\ UNCHANGED <<record, answer>>

TakeEffectLate(w) ==
  /\ w \in late
  /\ record' = [record EXCEPT ![w[1]] = w[2]]
  /\ late' \in {late, late \ {w}}
  /\ UNCHANGED <<todo, busy, answer>>

Forget(w) ==
  /\ w \in late
  /\ late' = late \ {w}
  /\ UNCHANGED <<record, todo, busy, answer>>

Resolve(c, n) ==
  /\ answer' = [answer EXCEPT ![c] = Found(n, record[n])]
  /\ UNCHANGED <<record, todo, busy, late>>

Raise(c) ==
  /\ answer' = [answer EXCEPT ![c] = Raised]
  /\ UNCHANGED <<record, todo, busy, late>>

Next ==
  \/ \E c \in Clients :
       \/ \E writes \in SUBSET Writes : BeginPublish(c, writes) \/ FailPublish(c, writes)
       \/ \E w \in Writes : TakeEffect(c, w)
       \/ \E n \in Names : Resolve(c, n)
       \/ EndPublish(c)
       \/ Raise(c)
  \/ \E w \in Writes : TakeEffectLate(w) \/ Forget(w)

Spec == Init /\ [][Next]_storeVars
=============================================================================
