---------------------------- MODULE WriteOnceStore ----------------------------
(***************************************************************************)
(* A weaker promise than TrustfulStore, with the same actions but for one:  *)
(* a name keeps the first value that took effect.  Later publications are   *)
(* accepted and have no effect, so that no update is ever seen.            *)
(***************************************************************************)
EXTENDS TrustfulStore

TakeEffectOnce(c, w) ==
  /\ w \in todo[c]
  /\ record' = IF record[w[1]] = NoValue THEN [record EXCEPT ![w[1]] = w[2]] ELSE record
  /\ todo' = [todo EXCEPT ![c] = @ \ {w}]
  /\ UNCHANGED <<busy, late, answer>>

NextOnce ==
  \E c \in Clients :
    \/ \E writes \in SUBSET Writes : BeginPublish(c, writes)
    \/ \E w \in Writes : TakeEffectOnce(c, w)
    \/ \E n \in Names : Resolve(c, n)
    \/ EndPublish(c)
    \/ Raise(c)

SpecOnce == Init /\ [][NextOnce]_storeVars
=============================================================================
