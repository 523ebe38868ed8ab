-------------------------------- MODULE Idap --------------------------------
(***************************************************************************)
(* The IDAP authorizer (idap.py) and the part of DAP it relies on          *)
(* (dap.py).  One process holds two module globals, _SEEN_PRESENTATIONS    *)
(* and _CAPABILITY_USE_COUNT; the threads of that process run              *)
(* authenticate_and_authorize with no lock around them.  Every access to   *)
(* the globals is an action of its own, so that calls interleave wherever  *)
(* the interpreter may switch threads; the checks that only read the       *)
(* arguments of the call are one action.                                   *)
(*                                                                         *)
(* Cryptography is abstracted by what it decides: an EncCAP opens only     *)
(* with the private key it was sealed to, a signature verifies or not, a   *)
(* nonce from secrets.token_hex(8) names one capability.  The service keys *)
(* are regenerated whenever the runtime is reset; `generation' counts      *)
(* them, and a sealed capability remembers the generation it is sealed to. *)
(***************************************************************************)
EXTENDS Integers, FiniteSets

CONSTANTS
  Workers,       \* threads that serve requests
  CapIds,        \* control.nonce of the capabilities
  Contents,      \* signed capability bodies (dap.create_capability)
  Variants,      \* the ways a request wraps a capability
  Nonces,        \* values of request_nonce
  NoNonce,       \* the request carries no request_nonce
  NoKey,         \* service_private_key is None
  NoSequence,    \* the capability fixes no sequence
  NoCap,         \* the capability id has not been issued
  NoCall,        \* the thread serves no request
  MaxGeneration, \* bound: resets of the runtime explored, plus one
  MaxTime        \* bound: ticks of the clock explored

ContentType ==
  [s1: STRING, action: STRING, permits: SUBSET STRING, overflows: SUBSET STRING,
   sequence: STRING \cup {NoSequence}, endorsed: BOOLEAN, stamp: {"aware", "naive", "unreadable"},
   lifetime: Int, quota: Int]

VariantType ==
  [sealed: BOOLEAN, receiver: STRING \cup {NoKey}, target: STRING, action: STRING,
   payload: STRING, sequence: STRING \cup {NoSequence}, signed: BOOLEAN,
   ephemeral: {"missing", "malformed", "valid"}]

ASSUME ContentsAssumption == Contents \subseteq ContentType
ASSUME VariantsAssumption == Variants \subseteq VariantType
ASSUME BoundsAssumption == MaxGeneration \in Nat \ {0} /\ MaxTime \in Nat

(* A capability in circulation: its body, the generation of the service   *)
(* key it is sealed to, and the instant control.expiry names.             *)
CapType == [body: Contents, generation: Nat, expiry: Int]

(* One call of authenticate_and_authorize: the arguments that matter.     *)
CallType == [id: CapIds, nonce: Nonces \cup {NoNonce}, variant: Variants]

ASSUME NoCapAssumption == NoCap \notin CapType
ASSUME NoCallAssumption == NoCall \notin CallType

VARIABLES
  caps,         \* CapIds -> the capability issued under that id, or NoCap
  generation,   \* generation of the identities, hence of the service keys
  now,          \* the clock
  seen,         \* _SEEN_PRESENTATIONS
  useCount,     \* _CAPABILITY_USE_COUNT (0 where the dict has no entry)
  pc,           \* the point each thread has reached in idap.py
  call,         \* the request each thread serves
  count,        \* the value each thread read from _CAPABILITY_USE_COUNT
  outcome,      \* the last answer of each thread
  authorized,   \* history: AUTHORIZED answers, per capability
  granted       \* history: the presentations ever answered AUTHORIZED

ledger  == <<seen, useCount>>
threads == <<pc, call, count, outcome>>
history == <<authorized, granted>>
vars    == <<caps, generation, now, ledger, threads, history>>

-----------------------------------------------------------------------------
(* What the checks of authenticate_and_authorize decide.                   *)

(* Mutant: the replay set is keyed by the request nonce alone.             *)
PresentationIdByNonce(c) == <<c.nonce>>

(* _presentation_id: the nonce, or else the signature.  Ed25519 signatures *)
(* are deterministic, so the signature names the request's content.        *)
PresentationId(c) ==
  <<c.id, IF c.nonce = NoNonce THEN <<"signature", c.variant>> ELSE <<"nonce", c.nonce>> >>

(* Mutant: the service keys survive a restart.                             *)
CanOpenWithKeptKeys(c) ==
  c.variant.sealed => c.variant.receiver = caps[c.id].body.s1

(* _capability_from_request, dap.decrypt_capability: a clear capability is *)
(* taken as it is, an EncCAP needs the very private key it was sealed to.  *)
CanOpen(c) ==
  c.variant.sealed =>
    /\ c.variant.receiver = caps[c.id].body.s1
    /\ caps[c.id].generation = generation

(* dap.verify_capability_signatures.                                       *)
Endorsed(body) == body.endorsed

SequenceMatches(body, v) == body.sequence = NoSequence \/ v.sequence = body.sequence

(* `permits' is the set of payloads that the constraints accept.           *)
ConstraintsMatch(body, v) == v.payload \in body.permits

(* `overflows' is the set of payloads on which a comparison may raise       *)
(* OverflowError: an integer there is too large for a float.               *)
ComparisonRaises(body, v) == v.payload \in body.overflows

(* The checks from the capability's signatures to its sequence.            *)
ReachesConstraints(c) ==
  LET body == caps[c.id].body
      v    == c.variant
  IN  /\ Endorsed(body)
      /\ v.signed
      /\ body.s1 = v.target
      /\ body.action = v.action
      /\ SequenceMatches(body, v)

(* And its constraints.                                                    *)
MeetsPolicy(c) == ReachesConstraints(c) /\ ConstraintsMatch(caps[c.id].body, c.variant)

(* _expiry_passed; a timestamp that cannot be parsed counts as passed.     *)
ExpiryPassed(c) ==
  LET cap == caps[c.id]
  IN  cap.body.stamp = "unreadable" \/ (cap.body.stamp = "aware" /\ now > cap.expiry)

(* A quota that is no integer counts as 0 here.                            *)
QuotaAvailable(quota) == quota > 0

(* Mutants: the comparison with the quota is off by one, either way.       *)
UsageAvailableOneMore(c) ==
  LET quota == caps[c.id].body.quota
  IN  QuotaAvailable(quota) /\ useCount[c.id] <= quota

UsageAvailableOneLess(c) ==
  LET quota == caps[c.id].body.quota
  IN  QuotaAvailable(quota) /\ useCount[c.id] + 1 < quota

(* _usage_available.                                                       *)
UsageAvailable(c) ==
  LET quota == caps[c.id].body.quota
  IN  QuotaAvailable(quota) /\ useCount[c.id] < quota

-----------------------------------------------------------------------------
Init ==
  /\ caps = [id \in CapIds |-> NoCap]
  /\ generation = 1
  /\ now = 0
  /\ seen = {}
  /\ useCount = [id \in CapIds |-> 0]
  /\ pc = [w \in Workers |-> "idle"]
  /\ call = [w \in Workers |-> NoCall]
  /\ count = [w \in Workers |-> 0]
  /\ outcome = [w \in Workers |-> "none"]
  /\ authorized = [id \in CapIds |-> 0]
  /\ granted = {}

(* dap.create_capability then dap.encrypt_capability to the key of         *)
(* generation g.                                                           *)
Issue(id, body, g) ==
  /\ caps[id] = NoCap
  /\ caps' = [caps EXCEPT ![id] =
       [body |-> body, generation |-> g, expiry |-> now + body.lifetime]]
  /\ UNCHANGED <<generation, now, ledger, threads, history>>

(* A thread enters authenticate_and_authorize.                             *)
Present(w, id, nonce, variant) ==
  /\ pc[w] = "idle"
  /\ caps[id] # NoCap
  /\ pc' = [pc EXCEPT ![w] = "open"]
  /\ call' = [call EXCEPT ![w] = [id |-> id, nonce |-> nonce, variant |-> variant]]
  /\ outcome' = [outcome EXCEPT ![w] = "none"]
  /\ UNCHANGED <<caps, generation, now, ledger, count, history>>

(* The thread goes on to the next check.                                   *)
Proceed(w, label) ==
  /\ pc' = [pc EXCEPT ![w] = label]
  /\ UNCHANGED <<call, count, outcome>>

(* The thread leaves authenticate_and_authorize: a status, or an exception.*)
Answer(w, status) ==
  /\ pc' = [pc EXCEPT ![w] = "idle"]
  /\ call' = [call EXCEPT ![w] = NoCall]
  /\ count' = [count EXCEPT ![w] = 0]
  /\ outcome' = [outcome EXCEPT ![w] = status]

OpenCapability(w) ==
  /\ pc[w] = "open"
  /\ IF CanOpen(call[w]) THEN Proceed(w, "resolve") ELSE Answer(w, "REJECTED")
  /\ UNCHANGED <<caps, generation, now, ledger, history>>

(* Four store.resolve_public_key calls: the keys are found, some key is    *)
(* absent, or the store raises (SID mismatch, DNSSEC failure, network).    *)
ResolveKeys(w) ==
  /\ pc[w] = "resolve"
  /\ \/ Proceed(w, "policy")
     \/ Answer(w, "REJECTED")
     \/ Answer(w, "RAISED")
  /\ UNCHANGED <<caps, generation, now, ledger, history>>

(* The checks that read only the request and the capability.  Whether a     *)
(* comparison raises or one before it fails is left open.                  *)
CheckPolicy(w) ==
  /\ pc[w] = "policy"
  /\ \/ MeetsPolicy(call[w]) /\ Proceed(w, "expiry")
     \/ ~MeetsPolicy(call[w]) /\ Answer(w, "REJECTED")
     \/ /\ ReachesConstraints(call[w])
        /\ ComparisonRaises(caps[call[w].id].body, call[w].variant)
        /\ Answer(w, "RAISED")
  /\ UNCHANGED <<caps, generation, now, ledger, history>>

(* Mutant: the replay check marks the presentation at once, before the     *)
(* quota check and the handshake.                                          *)
CheckReplayAndMark(w) ==
  /\ pc[w] = "replay"
  /\ seen' = seen \cup {PresentationId(call[w])}
  /\ IF PresentationId(call[w]) \in seen
       THEN Answer(w, "REJECTED")
       ELSE Proceed(w, "quota")
  /\ UNCHANGED <<caps, generation, now, useCount, history>>

(* Comparing the clock with a timestamp that has no zone is a TypeError,   *)
(* raised outside the try of _expiry_passed.                               *)
CheckExpiry(w) ==
  /\ pc[w] = "expiry"
  /\ \/ /\ caps[call[w].id].body.stamp = "naive"
        /\ Answer(w, "RAISED")
     \/ /\ caps[call[w].id].body.stamp # "naive"
        /\ IF ExpiryPassed(call[w]) THEN Answer(w, "REJECTED") ELSE Proceed(w, "replay")
  /\ UNCHANGED <<caps, generation, now, ledger, history>>

CheckReplay(w) ==
  /\ pc[w] = "replay"
  /\ IF PresentationId(call[w]) \in seen
       THEN Answer(w, "REJECTED")
       ELSE Proceed(w, "quota")
  /\ UNCHANGED <<caps, generation, now, ledger, history>>

CheckQuota(w) ==
  /\ pc[w] = "quota"
  /\ IF UsageAvailable(call[w]) THEN Proceed(w, "handshake") ELSE Answer(w, "REJECTED")
  /\ UNCHANGED <<caps, generation, now, ledger, history>>

(* Everything between the quota check and _mark_presentation_used: without *)
(* a service key there is no handshake; a client ephemeral that is not a   *)
(* hexadecimal X25519 key raises.                                          *)
Handshake(w) ==
  /\ pc[w] = "handshake"
  /\ LET v == call[w].variant
     IN  \/ v.receiver = NoKey /\ Proceed(w, "mark")
         \/ v.receiver # NoKey /\ v.ephemeral = "valid" /\ Proceed(w, "mark")
         \/ v.receiver # NoKey /\ v.ephemeral = "missing" /\ Answer(w, "REJECTED")
         \/ v.receiver # NoKey /\ v.ephemeral = "malformed" /\ Answer(w, "RAISED")
  /\ UNCHANGED <<caps, generation, now, ledger, history>>

(* Mutant: only the use count is recorded.                                 *)
MarkNothing(w) ==
  /\ pc[w] = "mark"
  /\ Proceed(w, "read")
  /\ UNCHANGED <<caps, generation, now, ledger, history>>

(* _mark_presentation_used is three steps: the set, the read of the count  *)
(* and the store of its successor.                                         *)
MarkSeen(w) ==
  /\ pc[w] = "mark"
  /\ seen' = seen \cup {PresentationId(call[w])}
  /\ Proceed(w, "read")
  /\ UNCHANGED <<caps, generation, now, useCount, history>>

(* Mutant: the count is stored back without the increment.                 *)
WriteSameCount(w) ==
  /\ pc[w] = "write"
  /\ useCount' = [useCount EXCEPT ![call[w].id] = count[w]]
  /\ authorized' = [authorized EXCEPT ![call[w].id] = @ + 1]
  /\ granted' = granted \cup {PresentationId(call[w])}
  /\ Answer(w, "AUTHORIZED")
  /\ UNCHANGED <<caps, generation, now, seen>>

ReadUseCount(w) ==
  /\ pc[w] = "read"
  /\ count' = [count EXCEPT ![w] = useCount[call[w].id]]
  /\ pc' = [pc EXCEPT ![w] = "write"]
  /\ UNCHANGED <<caps, generation, now, ledger, call, outcome, history>>

WriteUseCount(w) ==
  /\ pc[w] = "write"
  /\ useCount' = [useCount EXCEPT ![call[w].id] = count[w] + 1]
  /\ authorized' = [authorized EXCEPT ![call[w].id] = @ + 1]
  /\ granted' = granted \cup {PresentationId(call[w])}
  /\ Answer(w, "AUTHORIZED")
  /\ UNCHANGED <<caps, generation, now, seen>>

Tick ==
  /\ now < MaxTime
  /\ now' = now + 1
  /\ UNCHANGED <<caps, generation, ledger, threads, history>>

(* The process is restarted, or the gateway initialises again: calls in    *)
(* progress are gone, reset_runtime_state has emptied both globals and the *)
(* identities are new, so older EncCAPs are sealed to keys nobody holds.   *)
ResetRuntime ==
  /\ generation < MaxGeneration
  /\ generation' = generation + 1
  /\ seen' = {}
  /\ useCount' = [id \in CapIds |-> 0]
  /\ pc' = [w \in Workers |-> "idle"]
  /\ call' = [w \in Workers |-> NoCall]
  /\ count' = [w \in Workers |-> 0]
  /\ outcome' = [w \in Workers |-> "none"]
  /\ UNCHANGED <<caps, now, history>>

Step(w) ==
  \/ OpenCapability(w)
  \/ ResolveKeys(w)
  \/ CheckPolicy(w)
  \/ CheckExpiry(w)
  \/ CheckReplay(w)
  \/ CheckQuota(w)
  \/ Handshake(w)
  \/ MarkSeen(w)
  \/ ReadUseCount(w)
  \/ WriteUseCount(w)

Next ==
  \/ \E w \in Workers : Step(w)
  \/ \E w \in Workers, id \in CapIds, nonce \in Nonces \cup {NoNonce}, v \in Variants :
       Present(w, id, nonce, v)
  \/ Tick
  \/ ResetRuntime
  \/ \E id \in CapIds, body \in Contents, g \in 1..generation : Issue(id, body, g)

Spec == Init /\ [][Next]_vars

-----------------------------------------------------------------------------
Stages == {"idle", "open", "resolve", "policy", "expiry", "replay", "quota",
           "handshake", "mark", "read", "write"}

Presentations == CapIds \X (({"nonce"} \X Nonces) \cup ({"signature"} \X Variants))

(* The type invariant; in particular a thread is idle exactly when it      *)
(* serves no request, and it only serves capabilities that were issued.    *)
TypeOK ==
  /\ caps \in [CapIds -> CapType \cup {NoCap}]
  /\ generation \in Nat \ {0}
  /\ now \in Nat
  /\ seen \subseteq Presentations
  /\ useCount \in [CapIds -> Nat]
  /\ pc \in [Workers -> Stages]
  /\ call \in [Workers -> CallType \cup {NoCall}]
  /\ count \in [Workers -> Nat]
  /\ outcome \in [Workers -> {"none", "AUTHORIZED", "REJECTED", "RAISED"}]
  /\ authorized \in [CapIds -> Nat]
  /\ granted \subseteq Presentations
  /\ \A w \in Workers : IF pc[w] = "idle"
                          THEN call[w] = NoCall
                          ELSE call[w] \in CallType /\ caps[call[w].id] # NoCap

(* The two conditions under which idap.py keeps its promises: one thread   *)
(* at a time, and capabilities that travel as EncCAP only.                 *)
Serial == \A v, w \in Workers : v = w
SealedOnly == \A v \in Variants : v.sealed

QuotaOf(id) == IF caps[id] = NoCap \/ caps[id].body.quota < 0 THEN 0 ELSE caps[id].body.quota

(* The limit of idap.py 68-71 and 253: over the whole life of a            *)
(* capability, restarts of the service included, it is answered AUTHORIZED *)
(* no more often than control.quota allows.                                *)
QuotaRespected == \A id \in CapIds : authorized[id] <= QuotaOf(id)

(* The limit of idap.py 250: a presentation that was answered AUTHORIZED   *)
(* is never answered AUTHORIZED again, not even after a restart.           *)
Authorizes(w) == pc[w] = "write" /\ pc'[w] = "idle" /\ outcome'[w] = "AUTHORIZED"

NoReplay == [][\A w \in Workers : Authorizes(w) => PresentationId(call[w]) \notin granted]_vars

(* A refusal at stage s, as opposed to a thread lost in a restart.         *)
Refuses(w, s) == pc[w] = s /\ pc'[w] = "idle" /\ outcome'[w] = "REJECTED"

(* A call is refused at idap.py 253 only when the quota is really spent:   *)
(* the use counter may lag behind the AUTHORIZED answers but it never      *)
(* counts a call that failed, and no interleaving makes it count one twice.*)
QuotaRefusalJustified ==
  [][\A w \in Workers : Refuses(w, "quota") => authorized[call[w].id] >= QuotaOf(call[w].id)]_vars

(* A call is refused at idap.py 250 only for a presentation that was       *)
(* answered AUTHORIZED or is about to be: a request that failed any check  *)
(* or the handshake can be sent again unchanged.                           *)
AboutToBeGranted(p) ==
  \E w \in Workers : pc[w] \in {"read", "write"} /\ PresentationId(call[w]) = p

ReplayRefusalJustified ==
  [][\A w \in Workers : Refuses(w, "replay") =>
       LET p == PresentationId(call[w]) IN p \in granted \/ AboutToBeGranted(p)]_vars

(* How far the race between the check at 253 and the store at 147 can go:  *)
(* a one-shot capability is answered AUTHORIZED at most once per thread.   *)
OneShotOverrun ==
  \A id \in CapIds : QuotaOf(id) = 1 =>
    authorized[id] <= Cardinality(Workers)

(* With one thread and EncCAPs only, idap.py implements the ledger: the    *)
(* replay set and the use counter of idap.py 13-14, restarts and all, grant *)
(* exactly as UseLedger does.                                              *)
Ledger == INSTANCE UseLedger WITH
  Quotas <- {IF c.quota < 0 THEN 0 ELSE c.quota : c \in Contents},
  quota  <- [id \in CapIds |-> QuotaOf(id)],
  spent  <- authorized,
  served <- granted

ImplementsLedger == Ledger!Spec
=============================================================================
