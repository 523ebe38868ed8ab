----------------------------- MODULE Idap_proofs -----------------------------
(***************************************************************************)
(* Proofs about Idap, for every set of threads, capabilities, contents and  *)
(* request variants, and any number of restarts.                           *)
(***************************************************************************)
EXTENDS Idap, TLAPS, FiniteSetTheorems

(* The type invariant holds initially and is preserved by every action.    *)
LEMMA InitTypeOK == Init => TypeOK
  BY BoundsAssumption DEF Init, TypeOK, Stages

(* The presentation a call stands for is one of Presentations.             *)
LEMMA PresentationType ==
  ASSUME NEW c \in CallType
  PROVE  PresentationId(c) \in Presentations
  BY DEF CallType, PresentationId, Presentations

(* Moving on to the next check keeps the threads well typed.               *)
LEMMA ProceedTypeOK ==
  ASSUME TypeOK, NEW w \in Workers, NEW label \in Stages \ {"idle"},
         pc[w] # "idle", Proceed(w, label), UNCHANGED <<caps, generation, now, ledger, history>>
  PROVE  TypeOK'
  BY DEF TypeOK, Proceed, ledger, history, Presentations

(* So does leaving authenticate_and_authorize.                             *)
LEMMA AnswerTypeOK ==
  ASSUME TypeOK, NEW w \in Workers, NEW status \in {"AUTHORIZED", "REJECTED", "RAISED"},
         Answer(w, status), UNCHANGED <<caps, generation, now, ledger, history>>
  PROVE  TypeOK'
  BY DEF TypeOK, Answer, Stages, ledger, history, Presentations

LEMMA NextTypeOK == TypeOK /\ [Next]_vars => TypeOK'
<1> SUFFICES ASSUME TypeOK, [Next]_vars PROVE TypeOK'
  OBVIOUS
<1>1. ASSUME NEW id \in CapIds, NEW body \in Contents, NEW g \in 1..generation,
             Issue(id, body, g)
      PROVE  TypeOK'
  <2>1. caps' \in [CapIds -> CapType \cup {NoCap}] /\ \A i \in CapIds : caps[i] # NoCap => caps'[i] # NoCap
    BY <1>1, ContentsAssumption, NoCapAssumption DEF Issue, TypeOK, CapType, ContentType
  <2>2. QED
    BY <1>1, <2>1 DEF Issue, TypeOK, ledger, threads, history, Presentations, CallType
<1>2. ASSUME NEW w \in Workers, NEW id \in CapIds, NEW nonce \in Nonces \cup {NoNonce},
             NEW v \in Variants, Present(w, id, nonce, v)
      PROVE  TypeOK'
  BY <1>2, NoCallAssumption DEF Present, TypeOK, CallType, Stages, ledger, history, Presentations
<1>3. ASSUME NEW w \in Workers, OpenCapability(w) PROVE TypeOK'
  BY <1>3, ProceedTypeOK, AnswerTypeOK DEF OpenCapability, Stages
<1>4. ASSUME NEW w \in Workers, ResolveKeys(w) PROVE TypeOK'
  BY <1>4, ProceedTypeOK, AnswerTypeOK DEF ResolveKeys, Stages
<1>5. ASSUME NEW w \in Workers, CheckPolicy(w) PROVE TypeOK'
  BY <1>5, ProceedTypeOK, AnswerTypeOK DEF CheckPolicy, Stages
<1>6. ASSUME NEW w \in Workers, CheckExpiry(w) PROVE TypeOK'
  BY <1>6, ProceedTypeOK, AnswerTypeOK DEF CheckExpiry, Stages
<1>7. ASSUME NEW w \in Workers, CheckReplay(w) PROVE TypeOK'
  BY <1>7, ProceedTypeOK, AnswerTypeOK DEF CheckReplay, Stages
<1>8. ASSUME NEW w \in Workers, CheckQuota(w) PROVE TypeOK'
  BY <1>8, ProceedTypeOK, AnswerTypeOK DEF CheckQuota, Stages
<1>9. ASSUME NEW w \in Workers, Handshake(w) PROVE TypeOK'
  BY <1>9, ProceedTypeOK, AnswerTypeOK DEF Handshake, Stages
<1>10. ASSUME NEW w \in Workers, MarkSeen(w) PROVE TypeOK'
  <2>1. call[w] \in CallType
    BY <1>10 DEF MarkSeen, TypeOK
  <2>2. seen' \subseteq Presentations
    BY <1>10, <2>1, PresentationType DEF MarkSeen, TypeOK
  <2>3. QED
    BY <1>10, <2>2 DEF MarkSeen, Proceed, TypeOK, Stages, history, Presentations
<1>11. ASSUME NEW w \in Workers, ReadUseCount(w) PROVE TypeOK'
  <2>1. call[w].id \in CapIds
    BY <1>11 DEF ReadUseCount, TypeOK, CallType
  <2>2. QED
    BY <1>11, <2>1 DEF ReadUseCount, TypeOK, Stages, ledger, history, Presentations
<1>12. ASSUME NEW w \in Workers, WriteUseCount(w) PROVE TypeOK'
  <2>1. call[w] \in CallType /\ call[w].id \in CapIds
    BY <1>12 DEF WriteUseCount, TypeOK, CallType
  <2>2. granted' \subseteq Presentations
    BY <1>12, <2>1, PresentationType DEF WriteUseCount, TypeOK
  <2>3. useCount' \in [CapIds -> Nat] /\ authorized' \in [CapIds -> Nat]
    BY <1>12, <2>1 DEF WriteUseCount, TypeOK
  <2>4. QED
    BY <1>12, <2>2, <2>3 DEF WriteUseCount, Answer, TypeOK, Stages, Presentations
<1>13. ASSUME Tick PROVE TypeOK'
  BY <1>13 DEF Tick, TypeOK, ledger, threads, history, Presentations
<1>14. ASSUME ResetRuntime PROVE TypeOK'
  BY <1>14 DEF ResetRuntime, TypeOK, Stages, history, Presentations
<1>15. ASSUME UNCHANGED vars PROVE TypeOK'
  BY <1>15 DEF vars, TypeOK, ledger, threads, history, Presentations
<1>16. QED
  BY <1>1, <1>2, <1>3, <1>4, <1>5, <1>6, <1>7, <1>8, <1>9, <1>10, <1>11, <1>12,
     <1>13, <1>14, <1>15 DEF Next, Step

(* Every reachable state is well typed.                                    *)
THEOREM TypeCorrect == Spec => []TypeOK
<1>1. QED
  BY InitTypeOK, NextTypeOK, PTL DEF Spec

-----------------------------------------------------------------------------
(* What holds however many threads race: the use counter never exceeds the *)
(* AUTHORIZED answers, not even with the increment a thread is about to    *)
(* store, and every presentation in the replay set was answered AUTHORIZED *)
(* or is past the last check.                                              *)
CounterLags ==
  /\ \A id \in CapIds : useCount[id] <= authorized[id]
  /\ \A w \in Workers : pc[w] = "write" => count[w] <= authorized[call[w].id]

SeenIsGranted == \A p \in seen : p \in granted \/ AboutToBeGranted(p)

RaceInv == TypeOK /\ CounterLags /\ SeenIsGranted

(* A step that reads the globals or touches neither of them: the thread is *)
(* not inside _mark_presentation_used and does not get past its first step.*)
Check(w) ==
  /\ pc[w] \in Stages \ {"idle", "mark", "read", "write"}
  /\ \/ \E label \in Stages \ {"idle", "read", "write"} : Proceed(w, label)
     \/ \E status \in {"REJECTED", "RAISED"} : Answer(w, status)
  /\ UNCHANGED <<caps, generation, now, ledger, history>>

(* The seven checks are such steps.                                        *)
LEMMA ChecksOnlyCheck ==
  ASSUME NEW w \in Workers,
         \/ OpenCapability(w) \/ ResolveKeys(w) \/ CheckPolicy(w) \/ CheckExpiry(w)
         \/ CheckReplay(w) \/ CheckQuota(w) \/ Handshake(w)
  PROVE  Check(w)
<1>1. CASE OpenCapability(w)
  BY <1>1 DEF OpenCapability, Check, Stages
<1>2. CASE ResolveKeys(w)
  BY <1>2 DEF ResolveKeys, Check, Stages
<1>3. CASE CheckPolicy(w)
  BY <1>3 DEF CheckPolicy, Check, Stages
<1>4. CASE CheckExpiry(w)
  BY <1>4 DEF CheckExpiry, Check, Stages
<1>5. CASE CheckReplay(w)
  BY <1>5 DEF CheckReplay, Check, Stages
<1>6. CASE CheckQuota(w)
  BY <1>6 DEF CheckQuota, Check, Stages
<1>7. CASE Handshake(w)
  BY <1>7 DEF Handshake, Check, Stages
<1>8. QED
  BY <1>1, <1>2, <1>3, <1>4, <1>5, <1>6, <1>7

LEMMA NextRaceInv == RaceInv /\ [Next]_vars => RaceInv'
<1> SUFFICES ASSUME RaceInv, [Next]_vars PROVE CounterLags' /\ SeenIsGranted'
  BY NextTypeOK DEF RaceInv
<1> USE DEF RaceInv
<1>1. ASSUME NEW id \in CapIds, NEW body \in Contents, NEW g \in 1..generation,
             Issue(id, body, g)
      PROVE  CounterLags' /\ SeenIsGranted'
  BY <1>1 DEF Issue, CounterLags, SeenIsGranted, AboutToBeGranted, ledger, threads, history
<1>2. ASSUME NEW w \in Workers, NEW id \in CapIds, NEW nonce \in Nonces \cup {NoNonce},
             NEW v \in Variants, Present(w, id, nonce, v)
      PROVE  CounterLags' /\ SeenIsGranted'
  <2>1. \A x \in Workers : pc'[x] \in {"read", "write"} <=> pc[x] \in {"read", "write"}
    BY <1>2 DEF Present, TypeOK
  <2>2. \A x \in Workers : pc[x] \in {"read", "write"} => call'[x] = call[x]
    BY <1>2 DEF Present, TypeOK
  <2>3. CounterLags'
    BY <1>2, <2>1, <2>2 DEF Present, CounterLags, TypeOK, ledger, history
  <2>4. SeenIsGranted'
    BY <1>2, <2>1, <2>2 DEF Present, SeenIsGranted, AboutToBeGranted, PresentationId, ledger, history
  <2>5. QED
    BY <2>3, <2>4
<1>3. ASSUME NEW w \in Workers, Check(w) PROVE CounterLags' /\ SeenIsGranted'
  <2>1. \A x \in Workers : pc'[x] \in {"read", "write"} <=> pc[x] \in {"read", "write"}
    BY <1>3 DEF Check, Proceed, Answer, TypeOK
  <2>2. \A x \in Workers : pc[x] \in {"read", "write"} =>
          pc'[x] = pc[x] /\ call'[x] = call[x] /\ count'[x] = count[x]
    BY <1>3 DEF Check, Proceed, Answer, TypeOK
  <2>3. CounterLags'
    BY <1>3, <2>1, <2>2 DEF Check, CounterLags, ledger, history
  <2>4. SeenIsGranted'
    BY <1>3, <2>1, <2>2 DEF Check, SeenIsGranted, AboutToBeGranted, PresentationId, ledger, history
  <2>5. QED
    BY <2>3, <2>4
<1>4. ASSUME NEW w \in Workers, MarkSeen(w) PROVE CounterLags' /\ SeenIsGranted'
  <2>1. CounterLags'
    BY <1>4 DEF MarkSeen, Proceed, CounterLags, TypeOK, history
  <2>2. PresentationId(call[w])' = PresentationId(call[w]) /\ pc'[w] = "read"
    BY <1>4 DEF MarkSeen, Proceed, PresentationId, TypeOK
  <2>3. \A p : AboutToBeGranted(p) => AboutToBeGranted(p)'
    BY <1>4 DEF MarkSeen, Proceed, AboutToBeGranted, PresentationId, TypeOK
  <2>4. SeenIsGranted'
    BY <1>4, <2>2, <2>3 DEF MarkSeen, SeenIsGranted, AboutToBeGranted, history
  <2>5. QED
    BY <2>1, <2>4
<1>5. ASSUME NEW w \in Workers, ReadUseCount(w) PROVE CounterLags' /\ SeenIsGranted'
  <2>1. call[w].id \in CapIds
    BY <1>5 DEF ReadUseCount, TypeOK, CallType
  <2>2. CounterLags'
    BY <1>5, <2>1 DEF ReadUseCount, CounterLags, TypeOK, ledger, history
  <2>3. \A p : AboutToBeGranted(p) => AboutToBeGranted(p)'
    BY <1>5 DEF ReadUseCount, AboutToBeGranted, PresentationId, TypeOK
  <2>4. SeenIsGranted'
    BY <1>5, <2>3 DEF ReadUseCount, SeenIsGranted, ledger, history
  <2>5. QED
    BY <2>2, <2>4
<1>6. ASSUME NEW w \in Workers, WriteUseCount(w) PROVE CounterLags' /\ SeenIsGranted'
  <2>1. call[w].id \in CapIds
    BY <1>6 DEF WriteUseCount, TypeOK, CallType
  <2>2. \A x \in Workers : pc'[x] = "write" =>
          x # w /\ pc[x] = "write" /\ call'[x] = call[x] /\ count'[x] = count[x]
    BY <1>6 DEF WriteUseCount, Answer, TypeOK
  <2>3. \A x \in Workers : pc[x] = "write" => call[x].id \in CapIds
    BY DEF TypeOK, CallType
  <2>4. CounterLags'
    BY <1>6, <2>1, <2>2, <2>3 DEF WriteUseCount, CounterLags, TypeOK
  <2>5. ASSUME NEW p, AboutToBeGranted(p) PROVE p \in granted' \/ AboutToBeGranted(p)'
    BY <1>6, <2>5 DEF WriteUseCount, Answer, AboutToBeGranted, PresentationId, TypeOK
  <2>6. SeenIsGranted'
    BY <1>6, <2>5 DEF WriteUseCount, SeenIsGranted
  <2>7. QED
    BY <2>4, <2>6
<1>7. ASSUME Tick PROVE CounterLags' /\ SeenIsGranted'
  BY <1>7 DEF Tick, CounterLags, SeenIsGranted, AboutToBeGranted, ledger, threads, history
<1>8. ASSUME ResetRuntime PROVE CounterLags' /\ SeenIsGranted'
  BY <1>8 DEF ResetRuntime, CounterLags, SeenIsGranted, TypeOK, history
<1>9. ASSUME UNCHANGED vars PROVE CounterLags' /\ SeenIsGranted'
  BY <1>9 DEF vars, CounterLags, SeenIsGranted, AboutToBeGranted, ledger, threads, history
<1>10. QED
  BY <1>1, <1>2, <1>3, <1>4, <1>5, <1>6, <1>7, <1>8, <1>9, ChecksOnlyCheck DEF Next, Step

THEOREM RaceInvariant == Spec => []RaceInv
<1>1. Init => RaceInv
  BY InitTypeOK DEF Init, RaceInv, CounterLags, SeenIsGranted, TypeOK
<1>2. QED
  BY <1>1, NextRaceInv, PTL DEF Spec

(* A thread leaves a stage with a status only by its own step at that stage. *)
LEMMA LeavingStep ==
  ASSUME TypeOK, Next, NEW w \in Workers, pc'[w] = "idle",
         outcome'[w] \in {"AUTHORIZED", "REJECTED"}
  PROVE  /\ pc[w] = "quota" => CheckQuota(w)
         /\ pc[w] = "replay" => CheckReplay(w)
         /\ pc[w] = "write" => WriteUseCount(w)
<1> SUFFICES ASSUME pc[w] \in {"quota", "replay", "write"} PROVE Step(w)
  BY DEF Step, OpenCapability, ResolveKeys, CheckPolicy, CheckExpiry, CheckReplay,
         CheckQuota, Handshake, MarkSeen, ReadUseCount, WriteUseCount
<1>1. ASSUME NEW id \in CapIds, NEW body \in Contents, NEW g \in 1..generation,
             Issue(id, body, g)
      PROVE  FALSE
  BY <1>1 DEF Issue, threads
<1>2. ASSUME NEW x \in Workers, NEW id \in CapIds, NEW nonce \in Nonces \cup {NoNonce},
             NEW v \in Variants, Present(x, id, nonce, v)
      PROVE  FALSE
  BY <1>2 DEF Present, TypeOK
<1>3. ASSUME NEW x \in Workers, Step(x), x # w PROVE FALSE
  <2>1. pc'[w] = pc[w]
    <3>1. CASE Check(x)
      BY <3>1, <1>3 DEF Check, Proceed, Answer, TypeOK
    <3>2. CASE MarkSeen(x) \/ ReadUseCount(x) \/ WriteUseCount(x)
      BY <3>2, <1>3 DEF MarkSeen, ReadUseCount, WriteUseCount, Proceed, Answer, TypeOK
    <3>3. QED
      BY <3>1, <3>2, <1>3, ChecksOnlyCheck DEF Step
  <2>2. QED
    BY <2>1
<1>4. ASSUME Tick PROVE FALSE
  BY <1>4 DEF Tick, threads
<1>5. ASSUME ResetRuntime PROVE FALSE
  BY <1>5 DEF ResetRuntime
<1>6. QED
  BY <1>1, <1>2, <1>3, <1>4, <1>5 DEF Next

(* A refusal at the quota check means that the quota is spent, whatever    *)
(* the interleaving: _mark_presentation_used never over-counts.            *)
THEOREM QuotaRefusals == Spec => QuotaRefusalJustified
<1>1. RaceInv /\ [Next]_vars =>
        [\A w \in Workers : Refuses(w, "quota") => authorized[call[w].id] >= QuotaOf(call[w].id)]_vars
  <2> SUFFICES ASSUME RaceInv, Next, NEW w \in Workers, Refuses(w, "quota")
               PROVE  authorized[call[w].id] >= QuotaOf(call[w].id)
    OBVIOUS
  <2>1. call[w].id \in CapIds /\ caps[call[w].id] \in CapType /\ caps[call[w].id] # NoCap
    BY DEF RaceInv, TypeOK, CallType, Refuses
  <2>2. ~UsageAvailable(call[w])
    BY LeavingStep DEF RaceInv, Refuses, CheckQuota, Proceed, TypeOK
  <2>3. QED
    BY <2>1, <2>2, ContentsAssumption
    DEF UsageAvailable, QuotaAvailable, QuotaOf, RaceInv, CounterLags, TypeOK, CapType, ContentType
<1>2. QED
  BY <1>1, RaceInvariant, PTL DEF Spec, QuotaRefusalJustified

(* A refusal at the replay check means that the same presentation was      *)
(* answered AUTHORIZED or is being marked: failed requests may be retried. *)
THEOREM ReplayRefusals == Spec => ReplayRefusalJustified
<1>1. RaceInv /\ [Next]_vars =>
        [\A w \in Workers : Refuses(w, "replay") =>
           LET p == PresentationId(call[w]) IN p \in granted \/ AboutToBeGranted(p)]_vars
  <2> SUFFICES ASSUME RaceInv, Next, NEW w \in Workers, Refuses(w, "replay")
               PROVE  PresentationId(call[w]) \in granted \/ AboutToBeGranted(PresentationId(call[w]))
    OBVIOUS
  <2>1. PresentationId(call[w]) \in seen
    BY LeavingStep DEF RaceInv, Refuses, CheckReplay, Proceed, TypeOK
  <2>2. QED
    BY <2>1 DEF RaceInv, SeenIsGranted
<1>2. QED
  BY <1>1, RaceInvariant, PTL DEF Spec, ReplayRefusalJustified

-----------------------------------------------------------------------------
(* What holds when one thread serves the process and capabilities travel    *)
(* as EncCAP only.  The counter is then exact for every capability that can *)
(* still be opened, and what was granted under an older generation stays as *)
(* it was because nobody holds the key any more: that is why emptying the   *)
(* two globals at a restart does no harm.                                   *)
Current(id) == caps[id] # NoCap /\ caps[id].generation = generation

OpenedIsCurrent ==
  /\ \A id \in CapIds : caps[id] # NoCap => caps[id].generation <= generation
  /\ \A w \in Workers : pc[w] \notin {"idle", "open"} => Current(call[w].id)

CounterExact ==
  /\ \A id \in CapIds : Current(id) => useCount[id] = authorized[id]
  /\ \A id \in CapIds : caps[id] = NoCap => authorized[id] = 0 /\ useCount[id] = 0
  /\ \A w \in Workers : pc[w] \in {"handshake", "mark", "read", "write"} =>
       useCount[call[w].id] < QuotaOf(call[w].id)
  /\ \A w \in Workers : pc[w] = "write" => count[w] = useCount[call[w].id]

ReplaySetComplete ==
  /\ \A p \in granted : caps[p[1]] # NoCap /\ (Current(p[1]) => p \in seen)
  /\ \A w \in Workers : pc[w] \in {"quota", "handshake", "mark"} =>
       PresentationId(call[w]) \notin seen
  /\ \A w \in Workers : pc[w] \in {"read", "write"} =>
       PresentationId(call[w]) \in seen /\ PresentationId(call[w]) \notin granted

SerialInv ==
  TypeOK /\ OpenedIsCurrent /\ QuotaRespected /\ CounterExact /\ ReplaySetComplete

LEMMA InitSerialInv == Init => SerialInv
<1> SUFFICES ASSUME Init PROVE SerialInv
  OBVIOUS
<1>1. TypeOK
  BY InitTypeOK
<1>2. QED
  BY <1>1 DEF Init, SerialInv, OpenedIsCurrent, QuotaRespected, QuotaOf, CounterExact,
              ReplaySetComplete, Current

(* The first component of a presentation is the capability of the call.    *)
LEMMA PresentationOfCall ==
  ASSUME NEW c \in CallType
  PROVE  PresentationId(c)[1] = c.id
  BY DEF CallType, PresentationId

LEMMA NextSerialInv ==
  ASSUME Serial, SealedOnly, SerialInv, [Next]_vars
  PROVE  SerialInv'
<1> USE DEF SerialInv
<1> DEFINE Goal == OpenedIsCurrent' /\ QuotaRespected' /\ CounterExact' /\ ReplaySetComplete'
<1>0. SUFFICES Goal
  BY NextTypeOK
<1>q. \A id \in CapIds : caps[id] # NoCap =>
        /\ caps[id] \in CapType
        /\ caps[id].body.quota \in Int
        /\ caps[id].generation \in Nat
  BY ContentsAssumption DEF TypeOK, CapType, ContentType
<1>c. \A w \in Workers : pc[w] # "idle" =>
        call[w] \in CallType /\ call[w].id \in CapIds /\ PresentationId(call[w])[1] = call[w].id
  BY PresentationOfCall DEF TypeOK, CallType
<1>p. \A p \in granted : p[1] \in CapIds
  BY DEF TypeOK, Presentations
<1>1. ASSUME NEW id \in CapIds, NEW body \in Contents, NEW g \in 1..generation,
             Issue(id, body, g)
      PROVE  Goal
  <2>1. \A i \in CapIds : caps[i] # NoCap => caps'[i] = caps[i]
    BY <1>1 DEF Issue, TypeOK
  <2>2. /\ caps'[id].generation = g /\ g \in Nat /\ g <= generation
        /\ caps'[id].body = body /\ caps'[id] # NoCap
        /\ \A i \in CapIds \ {id} : caps'[i] = caps[i]
    BY <1>1, NoCapAssumption, ContentsAssumption DEF Issue, TypeOK, CapType, ContentType
  <2>3. authorized[id] = 0 /\ useCount[id] = 0
    BY <1>1 DEF Issue, CounterExact
  <2>4. body.quota \in Int
    BY ContentsAssumption DEF ContentType
  <2>5. \A w \in Workers : pc[w] # "idle" => caps'[call[w].id] = caps[call[w].id]
    BY <2>1, <1>c DEF TypeOK
  <2>6. OpenedIsCurrent'
    BY <1>1, <2>1, <2>2, <2>5 DEF Issue, OpenedIsCurrent, Current, threads, TypeOK
  <2>7. QuotaRespected'
    BY <1>1, <2>2, <2>3, <2>4 DEF Issue, QuotaRespected, QuotaOf, history, TypeOK
  <2>8. CounterExact'
    BY <1>1, <2>2, <2>3, <2>5 DEF Issue, CounterExact, Current, QuotaOf, ledger, threads, history, TypeOK
  <2>9. ReplaySetComplete'
    <3>1. \A p \in granted : caps'[p[1]] = caps[p[1]]
      BY <2>1, <1>p DEF ReplaySetComplete
    <3>2. \A w \in Workers : PresentationId(call[w])' = PresentationId(call[w])
      BY <1>1 DEF Issue, threads, PresentationId
    <3>3. QED
      BY <1>1, <3>1, <3>2 DEF Issue, ReplaySetComplete, Current, ledger, threads, history
  <2>10. QED
    BY <2>6, <2>7, <2>8, <2>9
<1>2. ASSUME NEW w \in Workers, NEW id \in CapIds, NEW nonce \in Nonces \cup {NoNonce},
             NEW v \in Variants, Present(w, id, nonce, v)
      PROVE  Goal
  <2>1. \A x \in Workers : pc'[x] \in {"idle", "open"}
    BY <1>2 DEF Present, TypeOK, Serial
  <2>2. QED
    BY <1>2, <2>1 DEF Present, OpenedIsCurrent, QuotaRespected, QuotaOf, CounterExact,
                      ReplaySetComplete, Current, ledger, history
<1>3. ASSUME NEW w \in Workers, Check(w), pc'[w] = "idle" PROVE Goal
  <2>1. \A x \in Workers : pc'[x] = "idle"
    BY <1>3 DEF Serial
  <2>2. QED
    BY <1>3, <2>1 DEF Check, OpenedIsCurrent, QuotaRespected, QuotaOf, CounterExact,
                      ReplaySetComplete, Current, ledger, history
<1>4. ASSUME NEW w \in Workers,
             \/ OpenCapability(w) \/ ResolveKeys(w) \/ CheckPolicy(w) \/ CheckExpiry(w)
             \/ CheckReplay(w) \/ CheckQuota(w) \/ Handshake(w),
             pc'[w] # "idle"
      PROVE  Goal
  <2>1. Check(w)
    BY <1>4, ChecksOnlyCheck
  <2>2. \A x \in Workers : x = w
    BY DEF Serial
  <2>3. call' = call /\ count' = count /\ pc[w] # "idle" /\ pc'[w] # "write" /\ pc'[w] # "read"
    BY <1>4, <2>1 DEF Check, Proceed, Answer, TypeOK
  <2>4. Current(call[w].id)' = Current(call[w].id) /\ PresentationId(call[w])' = PresentationId(call[w])
    BY <2>1, <2>3 DEF Check, Current, PresentationId
  <2>5. Current(call[w].id)
    <3>1. CASE OpenCapability(w)
      BY <3>1, <1>4, <1>c
      DEF OpenCapability, Answer, TypeOK, CanOpen, SealedOnly, Current, CallType
    <3>2. CASE ~OpenCapability(w)
      BY <3>2, <1>4 DEF OpenedIsCurrent, ResolveKeys, CheckPolicy, CheckExpiry, CheckReplay,
                        CheckQuota, Handshake
    <3>3. QED
      BY <3>1, <3>2
  <2>6. pc'[w] \in {"handshake", "mark"} => useCount[call[w].id] < QuotaOf(call[w].id)
    <3>1. CASE CheckQuota(w)
      <4>1. UsageAvailable(call[w])
        BY <3>1, <1>4 DEF CheckQuota, Answer, TypeOK
      <4>2. QED
        BY <4>1, <2>5, <1>q, <1>c, <2>3 DEF UsageAvailable, QuotaAvailable, QuotaOf, Current
    <3>2. CASE Handshake(w)
      BY <3>2 DEF Handshake, CounterExact
    <3>3. CASE ~CheckQuota(w) /\ ~Handshake(w)
      BY <3>3, <1>4 DEF OpenCapability, ResolveKeys, CheckPolicy, CheckExpiry, CheckReplay,
                        Proceed, Answer, TypeOK
    <3>4. QED
      BY <3>1, <3>2, <3>3
  <2>7. pc'[w] \in {"quota", "handshake", "mark"} => PresentationId(call[w]) \notin seen
    <3>1. CASE CheckReplay(w)
      BY <3>1, <1>4 DEF CheckReplay, Answer, TypeOK
    <3>2. CASE CheckQuota(w) \/ Handshake(w)
      BY <3>2 DEF CheckQuota, Handshake, ReplaySetComplete
    <3>3. CASE ~CheckReplay(w) /\ ~CheckQuota(w) /\ ~Handshake(w)
      BY <3>3, <1>4 DEF OpenCapability, ResolveKeys, CheckPolicy, CheckExpiry,
                        Proceed, Answer, TypeOK
    <3>4. QED
      BY <3>1, <3>2, <3>3
  <2>8. caps' = caps /\ generation' = generation /\ seen' = seen /\ useCount' = useCount
        /\ authorized' = authorized /\ granted' = granted
    BY <2>1 DEF Check, ledger, history
  <2>9. OpenedIsCurrent' /\ QuotaRespected'
    BY <2>2, <2>4, <2>5, <2>8, <2>3 DEF OpenedIsCurrent, QuotaRespected, QuotaOf, Current
  <2>10. CounterExact'
    BY <2>2, <2>3, <2>6, <2>8 DEF CounterExact, Current, QuotaOf
  <2>11. ReplaySetComplete'
    BY <2>2, <2>3, <2>4, <2>7, <2>8 DEF ReplaySetComplete, Current
  <2>12. QED
    BY <2>9, <2>10, <2>11
<1>5. ASSUME NEW w \in Workers, MarkSeen(w) PROVE Goal
  <2>1. \A x \in Workers : x = w
    BY DEF Serial
  <2>2. /\ pc[w] = "mark" /\ pc'[w] = "read" /\ call' = call /\ count' = count
        /\ caps' = caps /\ generation' = generation /\ useCount' = useCount
        /\ authorized' = authorized /\ granted' = granted
        /\ seen' = seen \cup {PresentationId(call[w])}
        /\ PresentationId(call[w])' = PresentationId(call[w])
    BY <1>5 DEF MarkSeen, Proceed, history, PresentationId, TypeOK
  <2>3. Current(call[w].id) /\ PresentationId(call[w]) \notin seen
    BY <2>2 DEF OpenedIsCurrent, ReplaySetComplete
  <2>4. PresentationId(call[w]) \notin granted
    BY <2>2, <2>3, <1>c DEF ReplaySetComplete
  <2>5. OpenedIsCurrent' /\ QuotaRespected' /\ CounterExact'
    BY <2>1, <2>2 DEF OpenedIsCurrent, QuotaRespected, QuotaOf, CounterExact, Current
  <2>6. ReplaySetComplete'
    BY <2>1, <2>2, <2>4 DEF ReplaySetComplete, Current
  <2>7. QED
    BY <2>5, <2>6
<1>6. ASSUME NEW w \in Workers, ReadUseCount(w) PROVE Goal
  <2>1. \A x \in Workers : x = w
    BY DEF Serial
  <2>2. /\ pc[w] = "read" /\ pc'[w] = "write" /\ call' = call
        /\ count'[w] = useCount[call[w].id]
        /\ caps' = caps /\ generation' = generation /\ useCount' = useCount /\ seen' = seen
        /\ authorized' = authorized /\ granted' = granted
        /\ PresentationId(call[w])' = PresentationId(call[w])
    BY <1>6 DEF ReadUseCount, ledger, history, PresentationId, TypeOK
  <2>3. OpenedIsCurrent' /\ QuotaRespected' /\ CounterExact'
    BY <2>1, <2>2 DEF OpenedIsCurrent, QuotaRespected, QuotaOf, CounterExact, Current
  <2>4. ReplaySetComplete'
    BY <2>1, <2>2 DEF ReplaySetComplete, Current
  <2>5. QED
    BY <2>3, <2>4
<1>7. ASSUME NEW w \in Workers, WriteUseCount(w) PROVE Goal
  <2>1. \A x \in Workers : pc'[x] = "idle"
    BY <1>7 DEF WriteUseCount, Answer, TypeOK, Serial
  <2>2. call[w].id \in CapIds /\ PresentationId(call[w])[1] = call[w].id /\ Current(call[w].id)
    BY <1>7, <1>c DEF WriteUseCount, OpenedIsCurrent
  <2>3. /\ count[w] = useCount[call[w].id]
        /\ useCount[call[w].id] = authorized[call[w].id]
        /\ useCount[call[w].id] < QuotaOf(call[w].id)
        /\ PresentationId(call[w]) \in seen
    BY <1>7, <2>2 DEF WriteUseCount, CounterExact, ReplaySetComplete
  <2>4. /\ useCount' = [useCount EXCEPT ![call[w].id] = authorized[call[w].id] + 1]
        /\ authorized' = [authorized EXCEPT ![call[w].id] = authorized[call[w].id] + 1]
        /\ granted' = granted \cup {PresentationId(call[w])}
        /\ caps' = caps /\ generation' = generation /\ seen' = seen
    BY <1>7, <2>3 DEF WriteUseCount
  <2>5. QuotaOf(call[w].id) \in Nat
    BY <1>q, <2>2 DEF QuotaOf
  <2>6. OpenedIsCurrent'
    BY <2>1, <2>4 DEF OpenedIsCurrent, Current
  <2>7. QuotaRespected'
    BY <2>2, <2>3, <2>4, <2>5 DEF QuotaRespected, QuotaOf, TypeOK
  <2>8. CounterExact'
    BY <2>1, <2>2, <2>4 DEF CounterExact, Current, TypeOK
  <2>9. ReplaySetComplete'
    BY <2>1, <2>2, <2>3, <2>4 DEF ReplaySetComplete, Current
  <2>10. QED
    BY <2>6, <2>7, <2>8, <2>9
<1>8. ASSUME Tick PROVE Goal
  BY <1>8 DEF Tick, OpenedIsCurrent, QuotaRespected, QuotaOf, CounterExact, ReplaySetComplete,
              Current, PresentationId, ledger, threads, history
<1>9. ASSUME ResetRuntime PROVE Goal
  <2>1. \A w \in Workers : pc'[w] = "idle"
    BY <1>9 DEF ResetRuntime
  <2>2. \A id \in CapIds : ~Current(id)' /\ (caps[id] # NoCap => caps[id].generation <= generation')
    BY <1>9, <1>q DEF ResetRuntime, Current, OpenedIsCurrent, TypeOK
  <2>3. OpenedIsCurrent' /\ QuotaRespected' /\ CounterExact'
    BY <1>9, <2>1, <2>2 DEF ResetRuntime, OpenedIsCurrent, QuotaRespected, QuotaOf, CounterExact, history
  <2>4. ReplaySetComplete'
    BY <1>9, <1>p, <2>1, <2>2 DEF ResetRuntime, ReplaySetComplete, history
  <2>5. QED
    BY <2>3, <2>4
<1>10. ASSUME UNCHANGED vars PROVE Goal
  BY <1>10 DEF vars, OpenedIsCurrent, QuotaRespected, QuotaOf, CounterExact, ReplaySetComplete,
               Current, PresentationId, ledger, threads, history
<1>11. QED
  BY <1>1, <1>2, <1>3, <1>4, <1>5, <1>6, <1>7, <1>8, <1>9, <1>10, ChecksOnlyCheck DEF Next, Step

(* The quota of a capability bounds its AUTHORIZED answers over its whole   *)
(* life, across restarts, for any number of capabilities and any quota.    *)
THEOREM QuotaSafety == Serial /\ SealedOnly => (Spec => []QuotaRespected)
<1> SUFFICES ASSUME Serial, SealedOnly PROVE Spec => []QuotaRespected
  OBVIOUS
<1>1. SerialInv /\ [Next]_vars => SerialInv'
  BY NextSerialInv
<1>2. SerialInv => QuotaRespected
  BY DEF SerialInv
<1>3. QED
  BY <1>1, <1>2, InitSerialInv, PTL DEF Spec

(* No presentation is answered AUTHORIZED twice, before or after a restart. *)
THEOREM ReplaySafety == Serial /\ SealedOnly => (Spec => NoReplay)
<1> SUFFICES ASSUME Serial, SealedOnly PROVE Spec => NoReplay
  OBVIOUS
<1>1. SerialInv /\ [Next]_vars => SerialInv'
  BY NextSerialInv
<1>2. SerialInv /\ [Next]_vars =>
        [\A w \in Workers : Authorizes(w) => PresentationId(call[w]) \notin granted]_vars
  BY DEF SerialInv, Authorizes, ReplaySetComplete
<1>3. QED
  BY <1>1, <1>2, InitSerialInv, PTL DEF Spec, NoReplay

(* idap.py implements the ledger: Issue and WriteUseCount are the ledger's  *)
(* Issue and Grant, every other action, the restart included, a stutter.    *)
THEOREM LedgerRefinement == Serial /\ SealedOnly => (Spec => ImplementsLedger)
<1> SUFFICES ASSUME Serial, SealedOnly PROVE Spec => ImplementsLedger
  OBVIOUS
<1>1. Init => Ledger!Init
  BY DEF Init, Ledger!Init, QuotaOf
<1>2. SerialInv /\ [Next]_vars => [Ledger!Next]_(Ledger!ledgerVars)
  <2> SUFFICES ASSUME SerialInv, [Next]_vars PROVE [Ledger!Next]_(Ledger!ledgerVars)
    OBVIOUS
  <2> USE DEF SerialInv
  <2>1. ASSUME NEW id \in CapIds, NEW body \in Contents, NEW g \in 1..generation,
               Issue(id, body, g)
        PROVE  \E i \in CapIds, q \in {IF c.quota < 0 THEN 0 ELSE c.quota : c \in Contents} :
                 Ledger!Issue(i, q)
    <3> DEFINE q == IF body.quota < 0 THEN 0 ELSE body.quota
    <3>1. QuotaOf(id) = 0 /\ QuotaOf(id)' = q
      BY <2>1, NoCapAssumption, ContentsAssumption DEF Issue, QuotaOf, TypeOK, CapType, ContentType
    <3>2. \A i \in CapIds \ {id} : QuotaOf(i)' = QuotaOf(i)
      BY <2>1 DEF Issue, QuotaOf, TypeOK
    <3>3. [i \in CapIds |-> QuotaOf(i)]' = [[i \in CapIds |-> QuotaOf(i)] EXCEPT ![id] = q]
      BY <3>1, <3>2
    <3>4. Ledger!Issue(id, q)
      BY <2>1, <3>1, <3>3 DEF Ledger!Issue, Issue, history
    <3>5. QED
      BY <3>4
  <2>2. ASSUME NEW w \in Workers, WriteUseCount(w)
        PROVE  \E i \in CapIds, p \in Presentations : Ledger!Grant(i, p)
    <3>1. call[w] \in CallType /\ call[w].id \in CapIds
      BY <2>2 DEF WriteUseCount, TypeOK, CallType
    <3>2. authorized[call[w].id] < QuotaOf(call[w].id)
      BY <2>2, <3>1 DEF WriteUseCount, CounterExact, OpenedIsCurrent
    <3>3. PresentationId(call[w]) \in Presentations \ granted
      BY <2>2, <3>1, PresentationType DEF WriteUseCount, ReplaySetComplete
    <3>4. [i \in CapIds |-> QuotaOf(i)]' = [i \in CapIds |-> QuotaOf(i)]
      BY <2>2 DEF WriteUseCount, QuotaOf
    <3>5. Ledger!Grant(call[w].id, PresentationId(call[w]))
      BY <2>2, <3>1, <3>2, <3>3, <3>4 DEF Ledger!Grant, WriteUseCount
    <3>6. QED
      BY <3>1, <3>3, <3>5
  <2>3. ASSUME UNCHANGED <<caps, history>> PROVE UNCHANGED Ledger!ledgerVars
    BY <2>3 DEF Ledger!ledgerVars, QuotaOf, history
  <2>4. ASSUME \/ \E w \in Workers, id \in CapIds, nonce \in Nonces \cup {NoNonce}, v \in Variants :
                    Present(w, id, nonce, v)
               \/ \E w \in Workers : Check(w) \/ MarkSeen(w) \/ ReadUseCount(w)
               \/ Tick \/ ResetRuntime \/ UNCHANGED vars
        PROVE  UNCHANGED <<caps, history>>
    BY <2>4 DEF Present, Check, MarkSeen, ReadUseCount, Tick, ResetRuntime, vars
  <2>5. QED
    BY <2>1, <2>2, <2>3, <2>4, ChecksOnlyCheck DEF Next, Step, Ledger!Next
<1>3. SerialInv /\ [Next]_vars => SerialInv'
  BY NextSerialInv
<1>4. QED
  BY <1>1, <1>2, <1>3, InitSerialInv, PTL DEF Spec, ImplementsLedger, Ledger!Spec
-----------------------------------------------------------------------------
(* How far threads can overrun a one-shot capability.  The threads past the  *)
(* quota check got there while nothing had been authorized, so that each of *)
(* them is authorized at most once before the counter turns others away.    *)
Spending(id) ==
  {w \in Workers : pc[w] \in {"handshake", "mark", "read", "write"} /\ call[w].id = id}

(* Capabilities that IDAP may still accept: with EncCAPs only those of the  *)
(* current generation.                                                     *)
Usable(id) == caps[id] # NoCap /\ (SealedOnly => Current(id))

UseOnRecord ==
  /\ \A id \in CapIds : caps[id] # NoCap => caps[id].generation <= generation
  /\ \A id \in CapIds : caps[id] = NoCap => authorized[id] = 0
  /\ \A id \in CapIds : Usable(id) /\ authorized[id] > 0 => useCount[id] > 0
  /\ \A w \in Workers : pc[w] \notin {"idle", "open"} => Usable(call[w].id)

OverrunBounded ==
  \A id \in CapIds : QuotaOf(id) = 1 =>
    authorized[id] + Cardinality(Spending(id)) <= Cardinality(Workers)

OverrunInv == TypeOK /\ UseOnRecord /\ OverrunBounded

LEMMA SpendingFinite ==
  ASSUME IsFiniteSet(Workers), NEW id
  PROVE  /\ IsFiniteSet(Spending(id)) /\ Cardinality(Spending(id)) \in Nat
         /\ Cardinality(Workers) \in Nat
         /\ Cardinality(Spending(id)) <= Cardinality(Workers)
<1>1. Spending(id) \subseteq Workers
  BY DEF Spending
<1> QED BY <1>1, FS_Subset, FS_CardinalityType

(* A step after which no thread is newly past the quota check.             *)
LEMMA NoneSpends ==
  ASSUME IsFiniteSet(Workers), OverrunInv, TypeOK', UNCHANGED authorized,
         \A id \in CapIds : QuotaOf(id)' = 1 => QuotaOf(id) = 1 \/ authorized[id] = 0,
         \A id \in CapIds : QuotaOf(id) = 1 => Spending(id)' \subseteq Spending(id)
  PROVE  OverrunBounded'
<1> SUFFICES ASSUME NEW id \in CapIds, QuotaOf(id)' = 1
             PROVE  authorized[id] + Cardinality(Spending(id)') <= Cardinality(Workers)
  BY DEF OverrunBounded
<1>1. authorized[id] \in Nat
  BY DEF OverrunInv, TypeOK
<1>2. CASE authorized[id] = 0
  <2>1. Spending(id)' \subseteq Workers
    BY DEF Spending
  <2>2. Cardinality(Spending(id)') <= Cardinality(Workers) /\ Cardinality(Spending(id)') \in Nat
    BY <2>1, FS_Subset, FS_CardinalityType
  <2> QED BY <1>2, <2>2
<1>3. CASE QuotaOf(id) = 1
  <2>1. IsFiniteSet(Spending(id)) /\ Cardinality(Spending(id)) \in Nat
        /\ Cardinality(Workers) \in Nat
    BY SpendingFinite
  <2>2. Cardinality(Spending(id)') <= Cardinality(Spending(id)) /\ Cardinality(Spending(id)') \in Nat
    BY <1>3, <2>1, FS_Subset, FS_CardinalityType
  <2>3. authorized[id] + Cardinality(Spending(id)) <= Cardinality(Workers)
    BY <1>3 DEF OverrunInv, OverrunBounded
  <2> QED BY <1>1, <2>1, <2>2, <2>3
<1> QED BY <1>2, <1>3

LEMMA NextOverrunInv ==
  ASSUME IsFiniteSet(Workers), SealedOnly \/ MaxGeneration = 1, OverrunInv, [Next]_vars
  PROVE  OverrunInv'
<1> DEFINE Goal == UseOnRecord' /\ OverrunBounded'
<1>0. TypeOK /\ TypeOK'
  BY NextTypeOK DEF OverrunInv
<1>t. /\ \A id \in CapIds : authorized[id] \in Nat /\ useCount[id] \in Nat
      /\ \A id \in CapIds : caps[id] # NoCap => caps[id] \in CapType /\ caps[id].generation \in Nat
      /\ \A w \in Workers : pc[w] # "idle" => call[w] \in CallType /\ call[w].id \in CapIds
                                              /\ caps[call[w].id] # NoCap
      /\ DOMAIN caps = CapIds /\ DOMAIN pc = Workers /\ DOMAIN call = Workers
      /\ generation \in Nat \ {0}
  BY <1>0 DEF TypeOK, CapType, CallType
<1>1. SUFFICES Goal
  BY <1>0 DEF OverrunInv
<1>2. ASSUME NEW id \in CapIds, NEW body \in Contents, NEW g \in 1..generation,
             Issue(id, body, g)
      PROVE  Goal
  <2>1. /\ caps[id] = NoCap /\ authorized[id] = 0
        /\ caps' = [caps EXCEPT ![id] =
             [body |-> body, generation |-> g, expiry |-> now + body.lifetime]]
        /\ UNCHANGED <<generation, useCount, authorized, pc, call>>
    BY <1>2 DEF Issue, ledger, threads, history, OverrunInv, UseOnRecord
  <2>2. /\ \A i \in CapIds : i # id => caps'[i] = caps[i]
        /\ caps'[id].generation = g /\ g <= generation
    BY <1>t, <2>1
  <2>3. UseOnRecord'
    <3>1. \A i \in CapIds : i # id => Usable(i)' = Usable(i)
      BY <2>1, <2>2 DEF Usable, Current
    <3>2. \A w \in Workers : pc[w] # "idle" => call[w].id # id
      BY <1>t, <2>1
    <3> QED BY <1>t, <2>1, <2>2, <3>1, <3>2 DEF OverrunInv, UseOnRecord
  <2>4. OverrunBounded'
    <3>1. \A i \in CapIds : QuotaOf(i)' = 1 => QuotaOf(i) = 1 \/ authorized[i] = 0
      BY <2>1, <2>2 DEF QuotaOf
    <3>2. \A i \in CapIds : Spending(i)' \subseteq Spending(i)
      BY <2>1 DEF Spending
    <3> QED BY <1>0, <2>1, <3>1, <3>2, NoneSpends
  <2> QED BY <2>3, <2>4
<1>3. ASSUME NEW w \in Workers, NEW id \in CapIds, NEW nonce \in Nonces \cup {NoNonce},
             NEW v \in Variants, Present(w, id, nonce, v)
      PROVE  Goal
  <2>1. /\ pc[w] = "idle" /\ pc'[w] = "open"
        /\ \A x \in Workers : x # w => pc'[x] = pc[x] /\ call'[x] = call[x]
        /\ UNCHANGED <<caps, generation, useCount, authorized>>
    BY <1>t, <1>3 DEF Present, ledger, history
  <2>2. UseOnRecord'
    BY <2>1 DEF OverrunInv, UseOnRecord, Usable, Current
  <2>3. \A i \in CapIds : Spending(i)' \subseteq Spending(i) /\ QuotaOf(i)' = QuotaOf(i)
    BY <2>1 DEF Spending, QuotaOf
  <2> QED BY <1>0, <2>1, <2>2, <2>3, NoneSpends
<1>4. ASSUME NEW w \in Workers, Check(w), ~ CheckQuota(w) \/ pc'[w] = "idle",
             pc'[w] \notin {"idle", "open"} => Usable(call[w].id),
             pc'[w] \in {"handshake", "mark"} => CheckQuota(w) \/ pc[w] = "handshake"
      PROVE  Goal
  <2>1. /\ \A x \in Workers : x # w => pc'[x] = pc[x] /\ call'[x] = call[x]
        /\ pc'[w] # "idle" => call'[w] = call[w]
        /\ pc'[w] \notin {"read", "write"}
        /\ UNCHANGED <<caps, generation, useCount, authorized>>
    BY <1>t, <1>4 DEF Check, Proceed, Answer, Stages, ledger, history
  <2>2. UseOnRecord'
    BY <1>4, <2>1 DEF OverrunInv, UseOnRecord, Usable, Current
  <2>3. \A i \in CapIds : Spending(i)' \subseteq Spending(i) /\ QuotaOf(i)' = QuotaOf(i)
    BY <1>4, <2>1 DEF Spending, QuotaOf
  <2> QED BY <1>0, <2>1, <2>2, <2>3, NoneSpends
<1>5. ASSUME NEW w \in Workers, OpenCapability(w) PROVE Goal
  <2>1. pc[w] = "open" /\ pc'[w] \in {"idle", "resolve"} /\ (pc'[w] = "resolve" => CanOpen(call[w]))
    BY <1>t, <1>5 DEF OpenCapability, Proceed, Answer
  <2>2. CanOpen(call[w]) => Usable(call[w].id)
    BY <1>t, <2>1 DEF CanOpen, Usable, Current, SealedOnly, CallType
  <2> QED BY <1>4, <1>5, <2>1, <2>2, ChecksOnlyCheck DEF CheckQuota
<1>6. ASSUME NEW w \in Workers,
             ResolveKeys(w) \/ CheckPolicy(w) \/ CheckExpiry(w) \/ CheckReplay(w) \/ Handshake(w)
      PROVE  Goal
  <2>1. /\ pc[w] \notin {"idle", "open", "quota"}
        /\ pc'[w] \in {"handshake", "mark"} => pc[w] = "handshake"
    BY <1>t, <1>6 DEF ResolveKeys, CheckPolicy, CheckExpiry, CheckReplay, Handshake,
                      Proceed, Answer
  <2>2. Usable(call[w].id)
    BY <2>1 DEF OverrunInv, UseOnRecord
  <2> QED BY <1>4, <1>6, <2>1, <2>2, ChecksOnlyCheck DEF CheckQuota
<1>7. ASSUME NEW w \in Workers, CheckQuota(w) PROVE Goal
  <2>1. Usable(call[w].id) /\ Check(w)
    BY <1>7, ChecksOnlyCheck DEF CheckQuota, OverrunInv, UseOnRecord
  <2>2. CASE pc'[w] = "idle"
    BY <1>4, <1>7, <2>1, <2>2
  <2>3. CASE pc'[w] # "idle"
    <3>1. UsageAvailable(call[w]) /\ Proceed(w, "handshake")
      BY <1>t, <1>7, <2>3 DEF CheckQuota, Answer
    <3>2. /\ \A x \in Workers : x # w => pc'[x] = pc[x]
          /\ pc'[w] = "handshake" /\ pc[w] = "quota"
          /\ UNCHANGED <<caps, generation, useCount, authorized, call>>
      BY <1>t, <1>7, <3>1 DEF CheckQuota, Proceed, ledger, history
    <3>3. UseOnRecord'
      BY <2>1, <3>2 DEF OverrunInv, UseOnRecord, Usable, Current
    <3>4. QuotaOf(call[w].id) = 1 => authorized[call[w].id] = 0
      <4>1. call[w].id \in CapIds /\ caps[call[w].id] # NoCap
        BY <1>t, <3>2
      <4>2. caps[call[w].id].body.quota \in Int
        BY <1>t, <4>1, ContentsAssumption DEF CapType, ContentType
      <4>3. QuotaOf(call[w].id) = 1 => useCount[call[w].id] = 0
        BY <1>t, <3>1, <4>1, <4>2 DEF UsageAvailable, QuotaOf
      <4> QED BY <1>t, <2>1, <4>1, <4>3 DEF OverrunInv, UseOnRecord
    <3>5. ASSUME NEW i \in CapIds, QuotaOf(i)' = 1
          PROVE  authorized'[i] + Cardinality(Spending(i)') <= Cardinality(Workers)
      <4>1. QuotaOf(i) = 1
        BY <3>2, <3>5 DEF QuotaOf
      <4>2. CASE i = call[w].id
        <5>1. Spending(i)' \subseteq Workers
          BY DEF Spending
        <5>2. Cardinality(Spending(i)') <= Cardinality(Workers) /\ Cardinality(Spending(i)') \in Nat
          BY <5>1, FS_Subset, FS_CardinalityType
        <5>3. authorized'[i] = 0
          BY <3>2, <3>4, <4>1, <4>2
        <5> QED BY <5>2, <5>3
      <4>3. CASE i # call[w].id
        <5>1. Spending(i)' = Spending(i)
          BY <3>2, <4>3 DEF Spending
        <5> QED BY <3>2, <4>1, <5>1 DEF OverrunInv, OverrunBounded
      <4> QED BY <4>2, <4>3
    <3> QED BY <3>3, <3>5 DEF OverrunBounded
  <2> QED BY <2>2, <2>3
<1>8. ASSUME NEW w \in Workers, MarkSeen(w) \/ ReadUseCount(w) PROVE Goal
  <2>1. /\ \A x \in Workers : x # w => pc'[x] = pc[x]
        /\ pc[w] \in {"mark", "read"} /\ pc'[w] \in {"read", "write"}
        /\ UNCHANGED <<caps, generation, useCount, authorized, call>>
    BY <1>t, <1>8 DEF MarkSeen, ReadUseCount, Proceed, ledger, history
  <2>2. UseOnRecord'
    BY <2>1 DEF OverrunInv, UseOnRecord, Usable, Current
  <2>3. \A i \in CapIds : Spending(i)' \subseteq Spending(i) /\ QuotaOf(i)' = QuotaOf(i)
    BY <2>1 DEF Spending, QuotaOf
  <2> QED BY <1>0, <2>1, <2>2, <2>3, NoneSpends
<1>9. ASSUME NEW w \in Workers, WriteUseCount(w) PROVE Goal
  <2> DEFINE id == call[w].id
  <2>1. /\ pc[w] = "write" /\ pc'[w] = "idle" /\ id \in CapIds
        /\ \A x \in Workers : x # w => pc'[x] = pc[x] /\ call'[x] = call[x]
        /\ useCount' = [useCount EXCEPT ![id] = count[w] + 1]
        /\ authorized' = [authorized EXCEPT ![id] = @ + 1]
        /\ UNCHANGED <<caps, generation>>
    BY <1>t, <1>9 DEF WriteUseCount, Answer
  <2>2. /\ useCount'[id] > 0 /\ authorized'[id] = authorized[id] + 1
        /\ \A i \in CapIds : i # id => useCount'[i] = useCount[i] /\ authorized'[i] = authorized[i]
    BY <1>0, <2>1 DEF TypeOK
  <2>3. UseOnRecord'
    <3>1. caps[id] # NoCap
      BY <1>t, <2>1
    <3> QED BY <2>1, <2>2, <3>1 DEF OverrunInv, UseOnRecord, Usable, Current
  <2>4. ASSUME NEW i \in CapIds, QuotaOf(i)' = 1
        PROVE  authorized'[i] + Cardinality(Spending(i)') <= Cardinality(Workers)
    <3>1. QuotaOf(i) = 1
      BY <2>1, <2>4 DEF QuotaOf
    <3>2. authorized[i] + Cardinality(Spending(i)) <= Cardinality(Workers)
      BY <3>1 DEF OverrunInv, OverrunBounded
    <3>3. CASE i = id
      <4>1. w \in Spending(i) /\ Spending(i)' = Spending(i) \ {w}
        BY <2>1, <3>3 DEF Spending
      <4>2. Cardinality(Spending(i)') = Cardinality(Spending(i)) - 1
        BY <4>1, SpendingFinite, FS_RemoveElement
      <4> QED BY <1>t, <2>2, <3>2, <3>3, <4>2, SpendingFinite
    <3>4. CASE i # id
      <4>1. Spending(i)' = Spending(i)
        BY <2>1, <3>4 DEF Spending
      <4> QED BY <2>2, <3>2, <3>4, <4>1
    <3> QED BY <3>3, <3>4
  <2> QED BY <2>3, <2>4 DEF OverrunBounded
<1>10. CASE Tick \/ UNCHANGED vars
  <2>1. UNCHANGED <<caps, generation, useCount, authorized, pc, call>>
    BY <1>10 DEF Tick, vars, ledger, threads, history
  <2>2. UseOnRecord'
    BY <2>1 DEF OverrunInv, UseOnRecord, Usable, Current
  <2>3. \A i \in CapIds : Spending(i)' \subseteq Spending(i) /\ QuotaOf(i)' = QuotaOf(i)
    BY <2>1 DEF Spending, QuotaOf
  <2> QED BY <1>0, <2>1, <2>2, <2>3, NoneSpends
<1>11. CASE ResetRuntime
  <2>1. /\ \A x \in Workers : pc'[x] = "idle"
        /\ UNCHANGED <<caps, authorized>> /\ generation' = generation + 1
        /\ generation < MaxGeneration
    BY <1>11 DEF ResetRuntime, history
  <2>2. SealedOnly
    BY <1>t, <2>1, BoundsAssumption
  <2>3. UseOnRecord'
    BY <1>t, <2>1, <2>2 DEF OverrunInv, UseOnRecord, Usable, Current
  <2>4. \A i \in CapIds : Spending(i)' \subseteq Spending(i) /\ QuotaOf(i)' = QuotaOf(i)
    BY <2>1 DEF Spending, QuotaOf
  <2> QED BY <1>0, <2>1, <2>3, <2>4, NoneSpends
<1> HIDE DEF Goal
<1> QED BY <1>2, <1>3, <1>5, <1>6, <1>7, <1>8, <1>9, <1>10, <1>11 DEF Next, Step

(* A one-shot capability is answered AUTHORIZED at most once per thread, with *)
(* any number of threads; restarts included if only EncCAPs are presented.  *)
THEOREM Overrun ==
  IsFiniteSet(Workers) /\ (SealedOnly \/ MaxGeneration = 1) => (Spec => []OneShotOverrun)
<1> SUFFICES ASSUME IsFiniteSet(Workers), SealedOnly \/ MaxGeneration = 1
             PROVE  Spec => []OneShotOverrun
  OBVIOUS
<1>1. Init => OverrunInv
  <2> SUFFICES ASSUME Init PROVE OverrunInv
    OBVIOUS
  <2>1. TypeOK
    BY InitTypeOK
  <2> QED BY <2>1 DEF Init, OverrunInv, UseOnRecord, OverrunBounded, QuotaOf, Usable
<1>2. OverrunInv /\ [Next]_vars => OverrunInv'
  BY NextOverrunInv
<1>3. OverrunInv => OneShotOverrun
  <2> SUFFICES ASSUME OverrunInv, NEW id \in CapIds, QuotaOf(id) = 1
               PROVE  authorized[id] <= Cardinality(Workers)
    BY DEF OneShotOverrun
  <2>1. authorized[id] + Cardinality(Spending(id)) <= Cardinality(Workers) /\ authorized[id] \in Nat
    BY DEF OverrunInv, OverrunBounded, TypeOK
  <2> QED BY <2>1, SpendingFinite
<1> QED BY <1>1, <1>2, <1>3, PTL DEF Spec
-----------------------------------------------------------------------------
(* Every presentation that was granted used up an authorization of its      *)
(* capability: there are no more of them than AUTHORIZED answers, restarts *)
(* included, and however many threads there are.                           *)
Grants(id) == {p \in granted : p[1] = id}

GrantsCounted ==
  \A id \in CapIds : IsFiniteSet(Grants(id)) /\ Cardinality(Grants(id)) <= authorized[id]

LEMMA NextGrants ==
  ASSUME TypeOK, GrantsCounted, [Next]_vars
  PROVE  GrantsCounted'
<1>1. ASSUME UNCHANGED history PROVE GrantsCounted'
  BY <1>1 DEF history, GrantsCounted, Grants
<1>2. ASSUME NEW w \in Workers, WriteUseCount(w) PROVE GrantsCounted'
  <2> DEFINE p == PresentationId(call[w])
  <2>1. /\ granted' = granted \cup {p} /\ p[1] = call[w].id
        /\ call[w].id \in CapIds
        /\ authorized \in [CapIds -> Nat]
        /\ authorized' = [authorized EXCEPT ![call[w].id] = @ + 1]
    BY <1>2 DEF WriteUseCount, PresentationId, TypeOK, CallType
  <2> HIDE DEF p
  <2>2. SUFFICES ASSUME NEW id \in CapIds
                 PROVE  IsFiniteSet(Grants(id)') /\ Cardinality(Grants(id)') <= authorized'[id]
    BY DEF GrantsCounted
  <2>3. /\ IsFiniteSet(Grants(id)) /\ Cardinality(Grants(id)) \in Nat
        /\ Cardinality(Grants(id)) <= authorized[id]
    BY FS_CardinalityType DEF GrantsCounted
  <2>4. CASE id = call[w].id
    <3>1. Grants(id)' = Grants(id) \cup {p}
      BY <2>1, <2>4 DEF Grants
    <3>2. /\ IsFiniteSet(Grants(id)')
          /\ Cardinality(Grants(id)') \in {Cardinality(Grants(id)), Cardinality(Grants(id)) + 1}
      <4>1. /\ IsFiniteSet(Grants(id) \cup {p})
            /\ Cardinality(Grants(id) \cup {p}) =
                 IF p \in Grants(id) THEN Cardinality(Grants(id)) ELSE Cardinality(Grants(id)) + 1
        BY <2>3, FS_AddElement
      <4> QED BY <3>1, <4>1
    <3>3. authorized'[id] = authorized[id] + 1 /\ authorized[id] \in Nat
      BY <2>1, <2>4
    <3> QED BY <2>3, <3>2, <3>3
  <2>5. CASE id # call[w].id
    <3>1. Grants(id)' = Grants(id) /\ authorized'[id] = authorized[id]
      BY <2>1, <2>5 DEF Grants
    <3> QED BY <2>3, <3>1
  <2> QED BY <2>4, <2>5
<1>3. ASSUME NEW w \in Workers, Step(w), ~ WriteUseCount(w) PROVE UNCHANGED history
  BY <1>3 DEF Step, OpenCapability, ResolveKeys, CheckPolicy, CheckExpiry, CheckReplay,
              CheckQuota, Handshake, MarkSeen, ReadUseCount
<1>4. CASE UNCHANGED vars \/ (Next /\ ~ \E w \in Workers : Step(w))
  BY <1>1, <1>4 DEF vars, Next, Present, Tick, ResetRuntime, Issue
<1> QED BY <1>1, <1>2, <1>3, <1>4 DEF Next

LEMMA GrantsAreUses == Spec => []GrantsCounted
<1>1. Init => GrantsCounted
  <2> SUFFICES ASSUME Init, NEW id \in CapIds
               PROVE  IsFiniteSet(Grants(id)) /\ Cardinality(Grants(id)) <= authorized[id]
    BY DEF GrantsCounted
  <2>1. Grants(id) = {} /\ authorized[id] = 0
    BY DEF Init, Grants
  <2> QED BY <2>1, FS_EmptySet
<1>2. TypeOK /\ GrantsCounted /\ [Next]_vars => GrantsCounted'
  BY NextGrants
<1> QED BY <1>1, <1>2, TypeCorrect, PTL DEF Spec
=============================================================================
