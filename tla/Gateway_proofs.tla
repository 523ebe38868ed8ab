---------------------------- MODULE Gateway_proofs ----------------------------
(***************************************************************************)
(* Proofs about Gateway, for any number of threads and requests, any plan of *)
(* publication, any payloads and any constraints that clients bring.        *)
(* IdapProofs makes the theorems about Idap available, for the Idap that    *)
(* the gateway drives.                                                     *)
(***************************************************************************)
EXTENDS Gateway, PaymentConstraints_proofs, FiniteSetTheorems, WellFoundedInduction

IdapProofs == INSTANCE Idap_proofs

(* What a capability's constraints permit.                                 *)
LEMMA PermitsOf ==
  /\ \A c \in Circulating : /\ Permits[c] = {p \in Payloads : ConstraintsMatch(c, Fields[p])}
                           /\ Raising[c] \in SUBSET Payloads
  /\ \A p \in Payloads : PurchaseConstraints(Fields[p]) \in Circulating
  /\ \A a \in Actions, own \in ClientConstraints \cup {NoConstraints} :
       ConstraintsForRequest(a, own) \in Circulating
  BY DEF Permits, Raising, Circulating

(* What Idap assumes of its constants holds of the gateway's.              *)
LEMMA IdapAssumptions ==
  /\ IdapProofs!ContentsAssumption
  /\ IdapProofs!VariantsAssumption
  /\ IdapProofs!BoundsAssumption
  /\ IdapProofs!NoCapAssumption
  /\ IdapProofs!NoCallAssumption
<1>1. /\ \A p \in Payloads : p \in STRING
      /\ \A c \in CapabilityActions : c \in STRING
      /\ \A a \in Actions : a \in STRING
  <2>1. \A r \in Requests : r.payload \in STRING /\ r.capability_action \in STRING
    BY RequestsAssumption DEF RequestType
  <2>2. \A a \in Actions : a \in STRING
    BY ActionsAssumption
  <2> QED BY <2>1, <2>2 DEF Payloads, CapabilityActions
<1>2. \A c \in Circulating : Permits[c] \in SUBSET STRING /\ Raising[c] \in SUBSET STRING
  BY <1>1, PermitsOf
<1>3. IdapProofs!ContentsAssumption
  <2>1. ASSUME NEW s \in STRING, NEW c \in STRING, NEW k \in Circulating
        PROVE  /\ RequestCapability(s, c, k) \in IdapProofs!ContentType
               /\ [RequestCapability(s, c, k) EXCEPT !.lifetime = 0]
                    \in IdapProofs!ContentType
    <3>1. RequestCapability(s, c, k) \in IdapProofs!ContentType
      BY <1>2 DEF RequestCapability, IdapProofs!ContentType
    <3>2. \A r \in IdapProofs!ContentType : [r EXCEPT !.lifetime = 0] \in IdapProofs!ContentType
      BY DEF IdapProofs!ContentType
    <3> QED BY <3>1, <3>2
  <2>2. ASSUME NEW p \in Payloads
        PROVE  PurchaseCapability(p) \in IdapProofs!ContentType
    <3>1. Buy \in STRING /\ PurchaseConstraints(Fields[p]) \in Circulating
      BY <1>1, <2>2, PermitsOf DEF Actions
    <3> QED BY <2>1, <3>1 DEF PurchaseCapability
  <2>3. ASSUME NEW a \in Actions, NEW c \in CapabilityActions,
               NEW own \in ClientConstraints \cup {NoConstraints}
        PROVE  RequestCapability(a, c, ConstraintsForRequest(a, own)) \in IdapProofs!ContentType
    BY <1>1, <2>1, PermitsOf
  <2> QED BY <2>2, <2>3 DEF Contents, IdapProofs!ContentsAssumption
<1>4. IdapProofs!VariantsAssumption
  <2>1. ASSUME NEW a \in Actions, NEW p \in Payloads
        PROVE  Wrapped(a, a, p) \in IdapProofs!VariantType
    BY <1>1 DEF Wrapped, IdapProofs!VariantType
  <2> QED BY <2>1 DEF Variants, IdapProofs!VariantsAssumption
<1>5. IdapProofs!BoundsAssumption
  BY LimitsAssumption DEF IdapProofs!BoundsAssumption
<1>6. IdapProofs!NoCapAssumption
  BY NoCapAssumption DEF IdapProofs!NoCapAssumption, IdapProofs!CapType, Auth!CapType
<1>7. IdapProofs!NoCallAssumption
  BY NoCallAssumption DEF IdapProofs!NoCallAssumption, IdapProofs!CallType, Auth!CallType
<1> QED BY <1>3, <1>4, <1>5, <1>6, <1>7

(* Both instances of Idap are the same one.                                *)
LEMMA SameTypeOK == Auth!TypeOK <=> IdapProofs!TypeOK
  BY DEF Auth!TypeOK, IdapProofs!TypeOK, Auth!CapType, IdapProofs!CapType,
         Auth!Presentations, IdapProofs!Presentations, Auth!Stages, IdapProofs!Stages,
         Auth!CallType, IdapProofs!CallType

LEMMA SameInit == Auth!Init <=> IdapProofs!Init
  BY DEF Auth!Init, IdapProofs!Init

LEMMA SameNext == Auth!Next <=> IdapProofs!Next
<1> USE DEF Auth!Proceed, IdapProofs!Proceed, Auth!Answer, IdapProofs!Answer,
            Auth!ledger, IdapProofs!ledger, Auth!history, IdapProofs!history
<1>1. ASSUME NEW w \in Workers PROVE Auth!Step(w) <=> IdapProofs!Step(w)
  <2>1. Auth!OpenCapability(w) <=> IdapProofs!OpenCapability(w)
    BY DEF Auth!OpenCapability, IdapProofs!OpenCapability, Auth!CanOpen,
           IdapProofs!CanOpen
  <2>2. Auth!ResolveKeys(w) <=> IdapProofs!ResolveKeys(w)
    BY DEF Auth!ResolveKeys, IdapProofs!ResolveKeys
  <2>3. Auth!CheckPolicy(w) <=> IdapProofs!CheckPolicy(w)
    BY DEF Auth!CheckPolicy, IdapProofs!CheckPolicy, Auth!MeetsPolicy,
           IdapProofs!MeetsPolicy, Auth!Endorsed, IdapProofs!Endorsed,
           Auth!SequenceMatches, IdapProofs!SequenceMatches, Auth!ConstraintsMatch,
           IdapProofs!ConstraintsMatch, Auth!ReachesConstraints, IdapProofs!ReachesConstraints,
           Auth!ComparisonRaises, IdapProofs!ComparisonRaises
  <2>4. Auth!CheckExpiry(w) <=> IdapProofs!CheckExpiry(w)
    BY DEF Auth!CheckExpiry, IdapProofs!CheckExpiry, Auth!ExpiryPassed,
           IdapProofs!ExpiryPassed
  <2>5. Auth!CheckReplay(w) <=> IdapProofs!CheckReplay(w)
    BY DEF Auth!CheckReplay, IdapProofs!CheckReplay, Auth!PresentationId,
           IdapProofs!PresentationId
  <2>6. Auth!CheckQuota(w) <=> IdapProofs!CheckQuota(w)
    BY DEF Auth!CheckQuota, IdapProofs!CheckQuota, Auth!UsageAvailable,
           IdapProofs!UsageAvailable, Auth!QuotaAvailable, IdapProofs!QuotaAvailable
  <2>7. Auth!Handshake(w) <=> IdapProofs!Handshake(w)
    BY DEF Auth!Handshake, IdapProofs!Handshake
  <2>8. Auth!MarkSeen(w) <=> IdapProofs!MarkSeen(w)
    BY DEF Auth!MarkSeen, IdapProofs!MarkSeen, Auth!PresentationId,
           IdapProofs!PresentationId
  <2>9. Auth!ReadUseCount(w) <=> IdapProofs!ReadUseCount(w)
    BY DEF Auth!ReadUseCount, IdapProofs!ReadUseCount
  <2>10. Auth!WriteUseCount(w) <=> IdapProofs!WriteUseCount(w)
    BY DEF Auth!WriteUseCount, IdapProofs!WriteUseCount, Auth!PresentationId,
           IdapProofs!PresentationId
  <2> QED BY <2>1, <2>2, <2>3, <2>4, <2>5, <2>6, <2>7, <2>8, <2>9, <2>10
          DEF Auth!Step, IdapProofs!Step
<1>2. ASSUME NEW w \in Workers, NEW id \in CapIds, NEW nonce \in Nonces \cup {NoNonce},
             NEW v \in Variants
      PROVE  Auth!Present(w, id, nonce, v) <=> IdapProofs!Present(w, id, nonce, v)
  BY DEF Auth!Present, IdapProofs!Present
<1>3. Auth!Tick <=> IdapProofs!Tick
  BY DEF Auth!Tick, IdapProofs!Tick, Auth!threads, IdapProofs!threads
<1>4. Auth!ResetRuntime <=> IdapProofs!ResetRuntime
  BY DEF Auth!ResetRuntime, IdapProofs!ResetRuntime
<1>5. ASSUME NEW id \in CapIds, NEW body \in Contents, NEW g \in 1 .. generation
      PROVE  Auth!Issue(id, body, g) <=> IdapProofs!Issue(id, body, g)
  BY DEF Auth!Issue, IdapProofs!Issue, Auth!threads, IdapProofs!threads
<1> QED BY <1>1, <1>2, <1>3, <1>4, <1>5 DEF Auth!Next, IdapProofs!Next

-----------------------------------------------------------------------------
(* The invariant behind the results.  A thread that serves a request has    *)
(* got as far as its stage says: to a runtime that is initialised, to a     *)
(* known action, to a capability that was issued, to a payload that this    *)
(* capability permits, and to a payment on record.                         *)
Ready   == {"discover", "prepare", "authorize", "await", "verify", "execute", "delegate"}
Chosen  == Ready \ {"discover"}
Holding == Chosen \ {"prepare"}
Granted == {"verify", "execute", "delegate"}
Checked == {"expiry", "replay", "quota", "handshake", "mark", "read", "write"}

RequestRecord ==
  [action: STRING, provider: STRING \cup {NoProvider}, payload: Payloads,
   constraints: ClientConstraints \cup {NoConstraints},
   capability_action: CapabilityActions, authorization: {NoAuthorization} \cup CapIds,
   number: Nonces, uses: Nat]

HandedOut(id) == \E d \in delegated : d.capability = id

Presented(w) ==
  [id |-> cap[w], nonce |-> request[w].number,
   variant |-> Wrapped(request[w].action, request[w].action, request[w].payload)]

RequestPermits(r) == Permits[ConstraintsForRequest(r.action, r.constraints)]

(* IDAP has compared the payload with the constraints.                     *)
Cleared(w) ==
  \/ stage[w] \in Granted
  \/ stage[w] = "await" /\ pc[w] \in Checked
  \/ stage[w] = "await" /\ pc[w] = "idle" /\ outcome[w] = "AUTHORIZED"

WorkerInv(w) ==
  /\ stage[w] # "idle" =>
       /\ request[w] \in RequestRecord
       /\ request[w].authorization # NoAuthorization => HandedOut(request[w].authorization)
  /\ stage[w] \in Ready => initialized
  /\ stage[w] \in Chosen => request[w].action \in Actions
  /\ stage[w] \in Holding =>
       /\ cap[w] \in CapIds
       /\ caps[cap[w]] # NoCap
       /\ IF request[w].action = Buy
            THEN HandedOut(cap[w])
            ELSE caps[cap[w]].body.permits = RequestPermits(request[w])
  /\ pc[w] # "idle" => call[w] = Presented(w)
  /\ Cleared(w) => request[w].payload \in caps[cap[w]].body.permits
  /\ stage[w] = "delegate" =>
       \E p \in paid : p.number = request[w].number /\ p.payload = request[w].payload

(* A delegated capability permits what the constraints of a recorded        *)
(* payment accept; the ticket service is registered once the runtime is    *)
(* initialised.                                                            *)
Backed(d) ==
  /\ caps[d.capability] # NoCap
  /\ \E p \in paid : 
       /\ p.number = d.payment
       /\ caps[d.capability].body.permits = Permits[PurchaseConstraints(Fields[p.payload])]

HasBuy == \E i \in DOMAIN services : services[i].action = Buy

RuntimeInv ==
  /\ generation \in 1 .. MaxGeneration
  /\ \A i \in DOMAIN services : services[i].generation <= generation
  /\ initialized => HasBuy
  /\ lock # NoWorker =>
       /\ setup \in 1 .. Len(InitPlan)
       /\ ~initialized
       /\ \A i \in 1 .. setup - 1 : InitPlan[i] = Buy => HasBuy

(* The policy accepted the payments made under it, and the constraints of   *)
(* its payment each ticket.                                                *)
PaymentsAccepted ==
  \A p \in paid :
    /\ p.payload \in Payloads
    /\ p.constraints = NoConstraints =>
         ConstraintsMatch(DefaultPaymentConstraints, Fields[p.payload])

TicketsBacked ==
  \A t \in tickets :
    /\ t.payload \in Payloads
    /\ \E p \in paid :
         /\ StemsFrom(t, p)
         /\ ConstraintsMatch(PurchaseConstraints(Fields[p.payload]), Fields[t.payload])

LedgerInv ==
  /\ \A d \in delegated : Backed(d)
  /\ PaymentsAccepted
  /\ TicketsBacked

Inv == TypeOK /\ RuntimeInv /\ LedgerInv /\ \A w \in Workers : WorkerInv(w)

-----------------------------------------------------------------------------
(* The rest of a step: what is not the thread's own only grows, and its own *)
(* is not touched.                                                         *)
Grows ==
  /\ \A id \in CapIds : caps[id] # NoCap => caps'[id] = caps[id]
  /\ delegated \subseteq delegated'
  /\ paid \subseteq paid'
  /\ initialized => initialized'

Untouched(v) ==
  /\ stage'[v] = stage[v]
  /\ request'[v] = request[v]
  /\ cap'[v] = cap[v]
  /\ pc'[v] = pc[v]
  /\ call'[v] = call[v]
  /\ outcome'[v] = outcome[v]

LEMMA UntouchedInv ==
  ASSUME NEW v \in Workers, WorkerInv(v), Grows, Untouched(v)
  PROVE  WorkerInv(v)'
<1> USE DEF Untouched
<1>1. \A id \in CapIds : HandedOut(id) => HandedOut(id)'
  BY DEF Grows, HandedOut
<1>2. stage[v] \in Holding => caps'[cap[v]] = caps[cap[v]]
  BY DEF Grows, WorkerInv
<1>3. Cleared(v)' => stage[v] \in Holding /\ Cleared(v)
  BY DEF Cleared, Holding, Chosen, Ready, Granted
<1>4. (stage[v] # "idle" =>
         /\ request[v] \in RequestRecord
         /\ request[v].authorization # NoAuthorization => HandedOut(request[v].authorization))'
  <2>1. request[v] \in RequestRecord /\ request[v].authorization # NoAuthorization
          => request[v].authorization \in CapIds
    BY DEF RequestRecord
  <2> QED BY <1>1, <2>1 DEF WorkerInv, RequestRecord
<1>5. (pc[v] # "idle" => call[v] = Presented(v))'
  BY DEF WorkerInv, Presented
<1>6. (stage[v] = "delegate" =>
        \E p \in paid : p.number = request[v].number /\ p.payload = request[v].payload)'
  BY DEF WorkerInv, Grows
<1>7. (stage[v] \in Holding =>
       /\ cap[v] \in CapIds
       /\ caps[cap[v]] # NoCap
       /\ IF request[v].action = Buy
            THEN HandedOut(cap[v])
            ELSE caps[cap[v]].body.permits = RequestPermits(request[v]))'
  BY <1>1, <1>2 DEF WorkerInv, RequestPermits, ConstraintsForRequest
<1>8. (Cleared(v) => request[v].payload \in caps[cap[v]].body.permits)'
  BY <1>2, <1>3 DEF WorkerInv
<1>9. (stage[v] \in Ready => initialized)' /\ (stage[v] \in Chosen => request[v].action \in Actions)'
  BY DEF WorkerInv, Grows
<1> QED BY <1>4, <1>5, <1>6, <1>7, <1>8, <1>9 DEF WorkerInv

-----------------------------------------------------------------------------
(* What a step of IDAP does to the threads: it moves one of them, and the    *)
(* checks of the policy are passed on the way to the others.                *)
LEMMA IdapStepFacts ==
  ASSUME NEW w \in Workers, Auth!TypeOK, Auth!Step(w)
  PROVE  /\ UNCHANGED <<caps, generation, now>>
         /\ pc[w] # "idle"
         /\ \A v \in Workers : v # w => /\ pc'[v] = pc[v]
                                        /\ call'[v] = call[v]
                                        /\ outcome'[v] = outcome[v]
         /\ pc'[w] # "idle" => call'[w] = call[w]
         /\ pc'[w] \in Checked => pc[w] \in Checked \/ Auth!MeetsPolicy(call[w])
         /\ pc'[w] = "idle" /\ outcome'[w] = "AUTHORIZED" => pc[w] = "write"
<1>1. DOMAIN pc = Workers /\ DOMAIN call = Workers /\ DOMAIN outcome = Workers
  BY DEF Auth!TypeOK
<1> USE <1>1 DEF Auth!Proceed, Auth!Answer, Checked
<1>2. CASE Auth!OpenCapability(w)
  BY <1>2 DEF Auth!OpenCapability
<1>3. CASE Auth!ResolveKeys(w)
  BY <1>3 DEF Auth!ResolveKeys
<1>4. CASE Auth!CheckPolicy(w)
  BY <1>4 DEF Auth!CheckPolicy
<1>5. CASE Auth!CheckExpiry(w)
  BY <1>5 DEF Auth!CheckExpiry
<1>6. CASE Auth!CheckReplay(w)
  BY <1>6 DEF Auth!CheckReplay
<1>7. CASE Auth!CheckQuota(w)
  BY <1>7 DEF Auth!CheckQuota
<1>8. CASE Auth!Handshake(w)
  BY <1>8 DEF Auth!Handshake
<1>9. CASE Auth!MarkSeen(w)
  BY <1>9 DEF Auth!MarkSeen
<1>10. CASE Auth!ReadUseCount(w)
  BY <1>10 DEF Auth!ReadUseCount
<1>11. CASE Auth!WriteUseCount(w)
  BY <1>11 DEF Auth!WriteUseCount
<1> QED BY <1>2, <1>3, <1>4, <1>5, <1>6, <1>7, <1>8, <1>9, <1>10, <1>11 DEF Auth!Step

(* What the issue of a capability changes.                                 *)
LEMMA IssueFacts ==
  ASSUME Auth!TypeOK, NEW id \in CapIds, NEW body \in Contents, NEW g \in Nat,
         Auth!Issue(id, body, g)
  PROVE  /\ caps[id] = NoCap
         /\ caps'[id].body = body
         /\ caps'[id].generation = g
         /\ caps'[id] # NoCap
         /\ \A i \in CapIds : caps[i] # NoCap => caps'[i] = caps[i]
         /\ UNCHANGED <<generation, now, pc, call, outcome>>
<1>1. caps[id] = NoCap /\ caps' = [caps EXCEPT ![id] =
        [body |-> body, generation |-> g, expiry |-> now + body.lifetime]]
  BY DEF Auth!Issue
<1>2. now + body.lifetime \in Int
  <2>1. body \in IdapProofs!ContentType
    BY IdapAssumptions DEF IdapProofs!ContentsAssumption
  <2> QED BY <2>1 DEF Auth!TypeOK, IdapProofs!ContentType
<1>3. [body |-> body, generation |-> g, expiry |-> now + body.lifetime] \in Auth!CapType
  BY <1>2 DEF Auth!CapType
<1>4. DOMAIN caps = CapIds
  BY DEF Auth!TypeOK
<1> QED BY <1>1, <1>3, <1>4, NoCapAssumption DEF Auth!Issue, Auth!threads

LEMMA ElementOfSequence ==
  ASSUME NEW S, NEW s \in Seq(S), NEW i \in DOMAIN s
  PROVE  s[i] \in S
OBVIOUS

(* The entry found for the ticket service is one of the runtime's.         *)
LEMMA BuyEntryFound ==
  ASSUME TypeOK, RuntimeInv, initialized
  PROVE  \E k \in DOMAIN services : ServiceEntryForAction(Buy) = services[k]
<1> DEFINE T == {i \in DOMAIN services : services[i].action = Buy}
<1>1. /\ services \in Seq([action: Actions, generation: 1 .. MaxGeneration])
      /\ DOMAIN services = 1 .. Len(services) /\ Len(services) \in Nat
  BY DEF TypeOK, HandlersTyped
<1>2. PICK i \in T : \A j \in T : ~ (<<j, i>> \in OpToRel(<, Nat))
  <2>1. T # {} /\ T \subseteq Nat
    BY <1>1 DEF RuntimeInv, HasBuy
  <2> HIDE DEF T
  <2> QED BY <2>1, WFMin, NatLessThanWellFounded
<1>3. \A j \in 1 .. i - 1 : services[j].action # Buy
  <2> SUFFICES ASSUME NEW j \in 1 .. i - 1, services[j].action = Buy PROVE FALSE
    OBVIOUS
  <2>1. j \in T /\ j < i /\ i \in Nat /\ j \in Nat
    BY <1>1
  <2>2. <<j, i>> \in OpToRel(<, Nat)
    BY <2>1 DEF OpToRel
  <2> QED BY <1>2, <2>1, <2>2
<1> DEFINE Q(k) == services[k].action = Buy /\ \A j \in 1 .. k - 1 : services[j].action # Buy
<1>4. Q(CHOOSE k \in DOMAIN services : Q(k)) /\ (CHOOSE k \in DOMAIN services : Q(k)) \in DOMAIN services
  BY <1>2, <1>3
<1> QED BY <1>4 DEF ServiceEntryForAction

LEMMA BuyEntry ==
  ASSUME TypeOK, RuntimeInv, initialized
  PROVE  ServiceEntryForAction(Buy).generation \in 1 .. generation
<1>1. \A k \in DOMAIN services : services[k] \in [action: Actions, generation: 1 .. MaxGeneration]
  BY ElementOfSequence DEF TypeOK, HandlersTyped
<1>2. \A k \in DOMAIN services : services[k].generation \in Nat /\ services[k].generation > 0
  BY <1>1, LimitsAssumption
<1>3. generation \in Nat /\ \A k \in DOMAIN services : services[k].generation <= generation
  BY LimitsAssumption DEF RuntimeInv
<1>4. \A k \in DOMAIN services : services[k].generation \in 1 .. generation
  BY <1>2, <1>3
<1> QED BY <1>4, BuyEntryFound

-----------------------------------------------------------------------------
Kept == HandlersTyped' /\ RuntimeInv' /\ LedgerInv' /\ \A v \in Workers : WorkerInv(v)'

(* The ways the state of the thread's handler changes.                     *)
HandlersMove(w) ==
  /\ stage' \in [Workers -> Stages]
  /\ cap' \in [Workers -> {0} \cup CapIds]
  /\ response' \in [Workers -> {0, 200, 403, 404, 500}]
  /\ requests' \in 0 .. MaxRequests
  /\ DOMAIN request' = Workers
  /\ request'[w] = NoRequest <=> stage'[w] = "idle"
  /\ \A v \in Workers : v # w => /\ stage'[v] = stage[v]
                                 /\ request'[v] = request[v]
                                 /\ cap'[v] = cap[v]

OthersWait(w) ==
  \A v \in Workers : v # w => pc'[v] = pc[v] /\ call'[v] = call[v] /\ outcome'[v] = outcome[v]

LEMMA NotNoRequest == \A r \in RequestRecord : r # NoRequest
<1>1. \A r \in RequestRecord :
        DOMAIN r = {"action", "provider", "payload", "constraints", "capability_action",
                    "authorization", "number", "uses"}
  BY DEF RequestRecord
<1>2. DOMAIN NoRequest = {"action"}
  BY DEF NoRequest
<1> QED BY <1>1, <1>2

(* An answer.                                                              *)
LEMMA RespondMove ==
  ASSUME Inv, NEW w \in Workers, NEW code \in {200, 403, 404, 500}, Respond(w, code),
         pc[w] = "idle", UNCHANGED <<pc, call, outcome>>
  PROVE  HandlersMove(w) /\ OthersWait(w) /\ stage'[w] = "idle" /\ WorkerInv(w)'
<1>1. HandlersMove(w) /\ OthersWait(w) /\ stage'[w] = "idle"
  BY DEF Respond, HandlersMove, OthersWait, Inv, TypeOK, HandlersTyped, Stages
<1>2. WorkerInv(w)'
  BY <1>1 DEF WorkerInv, Cleared, Ready, Chosen, Holding, Granted
<1> QED BY <1>1, <1>2

(* A step to the next stage, the request as before.                        *)
LEMMA ContinueMove ==
  ASSUME Inv, NEW w \in Workers, NEW s \in Stages \ {"idle"}, Continue(w, s),
         stage[w] # "idle"
  PROVE  /\ HandlersMove(w) /\ stage'[w] = s
         /\ request' = request /\ cap' = cap
         /\ request'[w] \in RequestRecord
         /\ request'[w].authorization # NoAuthorization
              => HandedOut(request'[w].authorization)
<1>1. /\ request[w] \in RequestRecord
      /\ request[w].authorization # NoAuthorization => HandedOut(request[w].authorization)
  BY DEF Inv, WorkerInv
<1> QED BY <1>1, NotNoRequest
        DEF Continue, Goto, HandlersMove, Inv, TypeOK, HandlersTyped, Stages

(* A step that leaves the runtime and the ledgers alone.                   *)
QuietStep(w) ==
  /\ HandlersMove(w)
  /\ OthersWait(w)
  /\ UNCHANGED <<lock, initialized, setup, services, delegated, paid, tickets, generation>>
  /\ \A id \in CapIds : caps[id] # NoCap => caps'[id] = caps[id]
  /\ stage[w] # "setup" /\ stage'[w] # "setup"
  /\ pc'[w] # "idle" => stage'[w] = "await"
  /\ WorkerInv(w)'

LEMMA LedgerKept ==
  ASSUME Inv, UNCHANGED <<delegated, paid, tickets>>,
         \A id \in CapIds : caps[id] # NoCap => caps'[id] = caps[id]
  PROVE  LedgerInv'
<1>1. ASSUME NEW d \in delegated' PROVE Backed(d)'
  <2>1. d \in delegated /\ d.capability \in CapIds /\ Backed(d)
    BY <1>1 DEF Inv, TypeOK, HandlersTyped, LedgerInv
  <2> QED BY <2>1 DEF Backed
<1>2. PaymentsAccepted' /\ TicketsBacked'
  BY DEF Inv, LedgerInv, PaymentsAccepted, TicketsBacked, StemsFrom, BoughtWith
<1> QED BY <1>1, <1>2 DEF LedgerInv

LEMMA Quiet == ASSUME Inv, NEW w \in Workers, QuietStep(w) PROVE Kept
<1> USE DEF QuietStep, HandlersMove, OthersWait
<1>1. HandlersTyped'
  <2>1. HandlersTyped
    BY DEF Inv, TypeOK
  <2>2. ASSUME NEW v \in Workers
        PROVE  /\ lock' = v <=> stage'[v] = "setup"
               /\ request'[v] = NoRequest <=> stage'[v] = "idle"
               /\ pc'[v] # "idle" => stage'[v] = "await"
    BY <2>1 DEF HandlersTyped
  <2> QED BY <2>1, <2>2 DEF HandlersTyped
<1>2. RuntimeInv'
  BY DEF QuietStep, Inv, RuntimeInv, HasBuy
<1>3. LedgerInv'
  BY LedgerKept DEF QuietStep
<1>4. ASSUME NEW v \in Workers PROVE WorkerInv(v)'
  <2>1. CASE v = w
    BY <2>1 DEF QuietStep
  <2>2. CASE v # w
    BY <2>2, UntouchedInv DEF QuietStep, HandlersMove, OthersWait, Untouched, Grows, Inv
  <2> QED BY <2>1, <2>2
<1> QED BY <1>1, <1>2, <1>3, <1>4 DEF Kept

-----------------------------------------------------------------------------
(* The quiet steps, and what they do to IDAP.                              *)
IdapMove == UNCHANGED idapVars \/ Auth!Next

LEMMA InvokeStep ==
  ASSUME Inv, NEW w \in Workers, NEW r \in Requests, NEW a \in Authorizations(r),
         Invoke(w, r, a)
  PROVE  QuietStep(w) /\ IdapMove
<1>1. /\ stage[w] = "idle" /\ pc[w] = "idle" /\ lock # w
      /\ requests \in 0 .. MaxRequests /\ requests < MaxRequests /\ requests' = requests + 1
      /\ stage' = [stage EXCEPT ![w] = "ensure"]
      /\ response' = [response EXCEPT ![w] = 0]
      /\ UNCHANGED <<idapVars, runtime, cap, ledgers>>
  BY DEF Invoke, Goto, Inv, TypeOK, HandlersTyped
<1> DEFINE q == [action |-> r.action, provider |-> r.provider, payload |-> r.payload,
                 capability_action |-> r.capability_action, constraints |-> r.constraints,
                 authorization |-> a, number |-> requests + 1, uses |-> 0]
<1>2. request' = [request EXCEPT ![w] = q]
  BY DEF Invoke
<1>3. q \in RequestRecord /\ (q.authorization # NoAuthorization => HandedOut(q.authorization))
  <2>1. /\ r.action \in STRING /\ r.provider \in STRING \cup {NoProvider}
        /\ r.payload \in Payloads /\ r.capability_action \in CapabilityActions
        /\ r.constraints \in ClientConstraints \cup {NoConstraints}
    BY RequestsAssumption DEF RequestType, Payloads, CapabilityActions
  <2>2. requests + 1 \in Nonces
    BY <1>1, LimitsAssumption DEF Nonces
  <2>3. a = NoAuthorization \/ (a \in CapIds /\ HandedOut(a))
    BY DEF Authorizations, HandedOut, Inv, TypeOK, HandlersTyped
  <2> QED BY <2>1, <2>2, <2>3 DEF RequestRecord
<1>4. request'[w] = q /\ stage'[w] = "ensure"
  BY <1>1, <1>2 DEF Inv, TypeOK, HandlersTyped
<1>5. UNCHANGED <<pc, call, outcome, caps, generation, lock, initialized, setup, services,
                  delegated, paid, tickets, cap>>
  BY <1>1 DEF idapVars, runtime, ledgers
<1>6. HandlersMove(w)
  <2> HIDE DEF q
  <2>1. request'[w] # NoRequest /\ stage'[w] # "idle"
    BY <1>3, <1>4, NotNoRequest
  <2>2. requests' \in 0 .. MaxRequests
    BY <1>1, LimitsAssumption
  <2>3. /\ stage' \in [Workers -> Stages]
        /\ response' \in [Workers -> {0, 200, 403, 404, 500}]
        /\ cap' \in [Workers -> {0} \cup CapIds]
        /\ DOMAIN request' = Workers
    BY <1>1, <1>2, <1>5 DEF Inv, TypeOK, HandlersTyped, Stages
  <2>4. \A v \in Workers : v # w => /\ stage'[v] = stage[v]
                                   /\ request'[v] = request[v]
                                   /\ cap'[v] = cap[v]
    BY <1>1, <1>2, <1>5 DEF Inv, TypeOK, HandlersTyped
  <2> QED BY <2>1, <2>2, <2>3, <2>4 DEF HandlersMove
<1>7. WorkerInv(w)'
  <2> HIDE DEF q
  <2> QED BY <1>1, <1>3, <1>4, <1>5
          DEF WorkerInv, HandedOut, Cleared, Ready, Chosen, Holding, Granted
<1> QED BY <1>1, <1>4, <1>5, <1>6, <1>7 DEF QuietStep, OthersWait, IdapMove

LEMMA FindInitializedStep ==
  ASSUME Inv, NEW w \in Workers, FindInitialized(w)
  PROVE  QuietStep(w) /\ IdapMove
<1>1. /\ stage[w] = "ensure" /\ initialized /\ Continue(w, "discover")
      /\ UNCHANGED <<pc, call, outcome, caps, generation, lock, initialized, setup, services,
                     delegated, paid, tickets>>
      /\ UNCHANGED idapVars
  BY DEF FindInitialized, idapVars, runtime, ledgers
<1>2. pc[w] = "idle"
  BY <1>1 DEF Inv, TypeOK, HandlersTyped
<1>3. /\ HandlersMove(w) /\ stage'[w] = "discover"
      /\ request'[w] \in RequestRecord
      /\ request'[w].authorization # NoAuthorization => HandedOut(request'[w].authorization)
  BY <1>1, ContinueMove DEF Stages
<1>4. WorkerInv(w)'
  BY <1>1, <1>2, <1>3 DEF WorkerInv, HandedOut, Cleared, Ready, Chosen, Holding, Granted
<1> QED BY <1>1, <1>2, <1>3, <1>4 DEF QuietStep, OthersWait, IdapMove

LEMMA DiscoverStep ==
  ASSUME Inv, NEW w \in Workers, Discover(w)
  PROVE  QuietStep(w) /\ IdapMove
<1>1. /\ stage[w] = "discover"
      /\ \/ request[w].action \in Actions /\ Continue(w, "prepare")
         \/ \E code \in {404, 500} : Respond(w, code)
      /\ UNCHANGED <<pc, call, outcome, caps, generation, lock, initialized, setup, services,
                     delegated, paid, tickets>>
      /\ UNCHANGED idapVars
  BY DEF Discover, idapVars, runtime, ledgers
<1>2. pc[w] = "idle" /\ initialized
  BY <1>1 DEF Inv, TypeOK, HandlersTyped, WorkerInv, Ready
<1>3. CASE request[w].action \in Actions /\ Continue(w, "prepare")
  <2>1. /\ HandlersMove(w) /\ stage'[w] = "prepare" /\ request' = request
        /\ request'[w] \in RequestRecord
        /\ request'[w].authorization # NoAuthorization => HandedOut(request'[w].authorization)
    BY <1>1, <1>3, ContinueMove DEF Stages
  <2>2. WorkerInv(w)'
    BY <1>1, <1>2, <1>3, <2>1
       DEF WorkerInv, HandedOut, Cleared, Ready, Chosen, Holding, Granted
  <2> QED BY <1>1, <1>2, <2>1, <2>2 DEF QuietStep, OthersWait, IdapMove
<1>4. ASSUME NEW code \in {404, 500}, Respond(w, code)
      PROVE  QuietStep(w) /\ IdapMove
  <2>1. HandlersMove(w) /\ OthersWait(w) /\ stage'[w] = "idle" /\ WorkerInv(w)'
    BY <1>1, <1>2, <1>4, RespondMove
  <2> QED BY <1>1, <1>2, <2>1 DEF QuietStep, IdapMove
<1> QED BY <1>1, <1>3, <1>4

LEMMA OpenDelegatedStep ==
  ASSUME Inv, NEW w \in Workers, OpenDelegated(w)
  PROVE  QuietStep(w) /\ IdapMove
<1>1. /\ stage[w] = "prepare" /\ request[w].action = Buy
      /\ UNCHANGED <<pc, call, outcome, caps, generation, lock, initialized, setup, services,
                     delegated, paid, tickets>>
      /\ UNCHANGED idapVars
  BY DEF OpenDelegated, idapVars, runtime, ledgers
<1>2. /\ pc[w] = "idle" /\ initialized /\ request[w] \in RequestRecord
      /\ request[w].authorization # NoAuthorization => HandedOut(request[w].authorization)
  BY <1>1 DEF Inv, TypeOK, HandlersTyped, WorkerInv, Ready
<1>3. CASE /\ request[w].authorization # NoAuthorization
           /\ cap' = [cap EXCEPT ![w] = request[w].authorization]
           /\ Goto(w, "authorize")
           /\ UNCHANGED <<request, response, requests>>
  <2>1. request[w].authorization \in CapIds /\ caps[request[w].authorization] # NoCap
    <3>1. PICK d \in delegated : d.capability = request[w].authorization
      BY <1>2, <1>3 DEF HandedOut
    <3> QED BY <3>1 DEF Inv, LedgerInv, Backed, TypeOK, HandlersTyped
  <2>2. stage'[w] = "authorize" /\ cap'[w] = request[w].authorization
    BY <1>3 DEF Goto, Inv, TypeOK, HandlersTyped
  <2>3. HandlersMove(w)
    BY <1>2, <1>3, <2>1, <2>2, NotNoRequest
       DEF Goto, HandlersMove, Inv, TypeOK, HandlersTyped, Stages
  <2>4. WorkerInv(w)'
    BY <1>1, <1>2, <1>3, <2>1, <2>2
       DEF WorkerInv, HandedOut, Cleared, Ready, Chosen, Holding, Granted, Actions
  <2> QED BY <1>1, <1>2, <2>2, <2>3, <2>4 DEF QuietStep, OthersWait, IdapMove
<1>4. CASE Respond(w, 403)
  <2>1. HandlersMove(w) /\ OthersWait(w) /\ stage'[w] = "idle" /\ WorkerInv(w)'
    BY <1>1, <1>2, <1>4, RespondMove
  <2> QED BY <1>1, <1>2, <2>1 DEF QuietStep, IdapMove
<1> QED BY <1>3, <1>4 DEF OpenDelegated

LEMMA MintStep ==
  ASSUME Inv, NEW w \in Workers, MintCapability(w)
  PROVE  QuietStep(w) /\ IdapMove
<1>1. /\ stage[w] = "prepare" /\ request[w].action # Buy
      /\ UNCHANGED <<lock, initialized, setup, services, delegated, paid, tickets>>
  BY DEF MintCapability, runtime, ledgers
<1>2. /\ pc[w] = "idle" /\ initialized /\ request[w] \in RequestRecord
      /\ request[w].authorization # NoAuthorization => HandedOut(request[w].authorization)
      /\ request[w].action \in Actions
      /\ generation \in 1 .. MaxGeneration
  BY <1>1 DEF Inv, TypeOK, HandlersTyped, WorkerInv, Ready, Chosen, RuntimeInv
<1> DEFINE body == RequestCapability(request[w].action, request[w].capability_action,
                                     ConstraintsForRequest(request[w].action, request[w].constraints))
<1>3. body \in Contents /\ body.permits = RequestPermits(request[w])
  <2>1. request[w].capability_action \in CapabilityActions
    BY <1>2 DEF RequestRecord
  <2>2. body \in Contents
    BY <1>2, <2>1 DEF Contents, RequestRecord
  <2>3. body.permits = RequestPermits(request[w])
    BY DEF RequestCapability, RequestPermits
  <2> QED BY <2>2, <2>3
<1>4. ASSUME NEW id \in CapIds, Auth!Issue(id, body, generation),
             cap' = [cap EXCEPT ![w] = id], Goto(w, "authorize"),
             UNCHANGED <<request, response, requests>>
      PROVE  QuietStep(w) /\ IdapMove
  <2> HIDE DEF body
  <2>1. /\ caps'[id].body = body /\ caps'[id] # NoCap
        /\ \A i \in CapIds : caps[i] # NoCap => caps'[i] = caps[i]
        /\ UNCHANGED <<generation, now, pc, call, outcome>>
    <3>1. generation \in Nat
      BY <1>2, LimitsAssumption
    <3> QED BY <1>3, <1>4, <3>1, IssueFacts DEF Inv, TypeOK
  <2>2. stage'[w] = "authorize" /\ cap'[w] = id
    BY <1>4 DEF Goto, Inv, TypeOK, HandlersTyped
  <2>3. HandlersMove(w)
    BY <1>2, <1>4, <2>2, NotNoRequest
       DEF Goto, HandlersMove, Inv, TypeOK, HandlersTyped, Stages
  <2>4. WorkerInv(w)'
    <3>1. RequestPermits(request[w])' = RequestPermits(request[w])
      BY <1>4 DEF RequestPermits, ConstraintsForRequest
    <3> QED BY <1>1, <1>2, <1>3, <1>4, <2>1, <2>2, <3>1
       DEF WorkerInv, HandedOut, Cleared, Ready, Chosen, Holding, Granted
  <2>5. Auth!Next
    <3>1. generation \in 1 .. generation
      BY <1>2, LimitsAssumption
    <3> QED BY <1>3, <1>4, <3>1 DEF Auth!Next
  <2> QED BY <1>1, <1>2, <2>1, <2>2, <2>3, <2>4, <2>5 DEF QuietStep, OthersWait, IdapMove
<1> QED BY <1>4 DEF MintCapability

LEMMA CallIdapStep ==
  ASSUME Inv, NEW w \in Workers, CallIdap(w)
  PROVE  QuietStep(w) /\ IdapMove
<1>1. CASE /\ Auth!Present(w, cap[w], request[w].number,
                          Wrapped(request[w].action, request[w].action, request[w].payload))
           /\ request' = [request EXCEPT ![w].uses = authorized[cap[w]]]
           /\ Goto(w, "await")
           /\ UNCHANGED <<cap, response, requests>>
  <2> DEFINE v == Wrapped(request[w].action, request[w].action, request[w].payload)
  <2>1. /\ stage[w] = "authorize" /\ Auth!Present(w, cap[w], request[w].number, v)
        /\ request' = [request EXCEPT ![w].uses = authorized[cap[w]]]
        /\ stage' = [stage EXCEPT ![w] = "await"]
        /\ UNCHANGED <<lock, initialized, setup, services, cap, response, requests,
                       delegated, paid, tickets>>
    BY <1>1 DEF CallIdap, Goto, runtime, ledgers
  <2>2. /\ initialized /\ request[w] \in RequestRecord
        /\ request[w].authorization # NoAuthorization => HandedOut(request[w].authorization)
        /\ request[w].action \in Actions /\ cap[w] \in CapIds /\ caps[cap[w]] # NoCap
        /\ IF request[w].action = Buy
             THEN HandedOut(cap[w])
             ELSE caps[cap[w]].body.permits = RequestPermits(request[w])
    BY <2>1 DEF Inv, WorkerInv, Ready, Chosen, Holding
  <2>3. /\ pc' = [pc EXCEPT ![w] = "open"]
        /\ call' = [call EXCEPT ![w] = [id |-> cap[w], nonce |-> request[w].number, variant |-> v]]
        /\ outcome' = [outcome EXCEPT ![w] = "none"]
        /\ UNCHANGED <<caps, generation>>
    BY <2>1 DEF Auth!Present
  <2>4. /\ request'[w] = [request[w] EXCEPT !.uses = authorized[cap[w]]]
        /\ stage'[w] = "await" /\ pc'[w] = "open"
        /\ call'[w] = [id |-> cap[w], nonce |-> request[w].number, variant |-> v]
    BY <2>1, <2>3 DEF Inv, TypeOK, HandlersTyped, Auth!TypeOK
  <2>5. /\ request'[w] \in RequestRecord
        /\ request'[w].action = request[w].action
        /\ request'[w].payload = request[w].payload
        /\ request'[w].constraints = request[w].constraints
        /\ request'[w].number = request[w].number
        /\ request'[w].authorization = request[w].authorization
    <3>1. authorized[cap[w]] \in Nat
      BY <2>2 DEF Inv, TypeOK, Auth!TypeOK
    <3> QED BY <2>2, <2>4, <3>1 DEF RequestRecord
  <2>6. HandlersMove(w)
    <3>1. request'[w] # NoRequest
      BY <2>5, NotNoRequest
    <3> QED BY <2>1, <2>4, <3>1 DEF HandlersMove, Inv, TypeOK, HandlersTyped, Stages
  <2>7. OthersWait(w)
    BY <2>3 DEF OthersWait, Inv, TypeOK, Auth!TypeOK
  <2>8. WorkerInv(w)'
    <3>1. call'[w] = Presented(w)'
      BY <2>1, <2>4, <2>5 DEF Presented, Wrapped
    <3>2. ~Cleared(w)'
      BY <2>4 DEF Cleared, Granted, Checked
    <3>3. HandedOut(cap[w])' <=> HandedOut(cap[w])
      BY <2>1 DEF HandedOut
    <3> QED BY <2>1, <2>2, <2>3, <2>4, <2>5, <3>1, <3>2, <3>3
            DEF WorkerInv, HandedOut, Ready, Chosen, Holding, RequestPermits, ConstraintsForRequest
  <2>9. Auth!Next
    <3>1. request[w].number \in Nonces /\ request[w].payload \in Payloads
      BY <2>2 DEF RequestRecord
    <3>2. v \in Variants
      BY <2>2, <3>1 DEF Variants
    <3> QED BY <2>1, <2>2, <3>1, <3>2 DEF Auth!Next
  <2> QED BY <2>1, <2>3, <2>4, <2>6, <2>7, <2>8, <2>9 DEF QuietStep, IdapMove
<1>2. CASE LogFails(w) /\ UNCHANGED idapVars
  <2>1. /\ stage[w] = "authorize" /\ Respond(w, 500)
        /\ UNCHANGED <<lock, initialized, setup, services, delegated, paid, tickets,
                       pc, call, outcome, caps, generation>>
    BY <1>2 DEF CallIdap, LogFails, runtime, ledgers, idapVars
  <2>2. pc[w] = "idle"
    BY <2>1 DEF Inv, TypeOK, HandlersTyped
  <2>3. HandlersMove(w) /\ OthersWait(w) /\ stage'[w] = "idle" /\ WorkerInv(w)'
    BY <2>1, <2>2, RespondMove
  <2> QED BY <1>2, <2>1, <2>2, <2>3 DEF QuietStep, IdapMove
<1> QED BY <1>1, <1>2 DEF CallIdap

LEMMA IdapStepStep ==
  ASSUME Inv, NEW w \in Workers, IdapStep(w)
  PROVE  QuietStep(w) /\ IdapMove
<1>1. /\ stage[w] = "await" /\ Auth!Step(w)
      /\ UNCHANGED <<stage, request, cap, response, requests, lock, initialized, setup,
                     services, delegated, paid, tickets>>
  BY DEF IdapStep, runtime, handlers, ledgers
<1>2. /\ UNCHANGED <<caps, generation, now>>
      /\ pc[w] # "idle"
      /\ \A v \in Workers : v # w => /\ pc'[v] = pc[v]
                                     /\ call'[v] = call[v]
                                     /\ outcome'[v] = outcome[v]
      /\ pc'[w] # "idle" => call'[w] = call[w]
      /\ pc'[w] \in Checked => pc[w] \in Checked \/ Auth!MeetsPolicy(call[w])
      /\ pc'[w] = "idle" /\ outcome'[w] = "AUTHORIZED" => pc[w] = "write"
  BY <1>1, IdapStepFacts DEF Inv, TypeOK
<1>3. WorkerInv(w) /\ call[w] = Presented(w)
  BY <1>2 DEF Inv, WorkerInv
<1>4. HandlersMove(w)
  BY <1>1 DEF HandlersMove, Inv, TypeOK, HandlersTyped
<1>5. Auth!MeetsPolicy(call[w]) => request[w].payload \in caps[cap[w]].body.permits
  BY <1>3 DEF Auth!MeetsPolicy, Auth!ConstraintsMatch, Presented, Wrapped
<1>6. Cleared(w)' => Cleared(w) \/ Auth!MeetsPolicy(call[w])
  BY <1>1, <1>2 DEF Cleared, Granted, Checked
<1>7. (Cleared(w) => request[w].payload \in caps[cap[w]].body.permits)'
  <2>1. Cleared(w) => request[w].payload \in caps[cap[w]].body.permits
    BY <1>3 DEF WorkerInv
  <2> QED BY <1>1, <1>2, <1>5, <1>6, <2>1
<1>8. (pc[w] # "idle" => call[w] = Presented(w))'
  BY <1>1, <1>2, <1>3 DEF Presented
<1>9. (stage[w] \in Holding =>
       /\ cap[w] \in CapIds
       /\ caps[cap[w]] # NoCap
       /\ IF request[w].action = Buy
            THEN HandedOut(cap[w])
            ELSE caps[cap[w]].body.permits = RequestPermits(request[w]))'
  BY <1>1, <1>2, <1>3 DEF WorkerInv, HandedOut, RequestPermits, ConstraintsForRequest
<1>10. WorkerInv(w)'
  BY <1>1, <1>2, <1>3, <1>7, <1>8, <1>9 DEF WorkerInv, HandedOut
<1>11. Auth!Next
  BY <1>1 DEF Auth!Next
<1> QED BY <1>1, <1>2, <1>4, <1>10, <1>11 DEF QuietStep, OthersWait, IdapMove

LEMMA ReturnStep ==
  ASSUME Inv, NEW w \in Workers, ReturnFromIdap(w) \/ VerifyTranscript(w)
  PROVE  QuietStep(w) /\ IdapMove
<1>1. /\ stage[w] \in {"await", "verify"} /\ pc[w] = "idle"
      /\ \/ Cleared(w) /\ \E s \in Granted : Continue(w, s) /\ s # "delegate"
         \/ \E code \in {403, 500} : Respond(w, code)
      /\ UNCHANGED idapVars
      /\ UNCHANGED <<lock, initialized, setup, services, delegated, paid, tickets>>
  <2>1. CASE ReturnFromIdap(w)
    BY <2>1 DEF ReturnFromIdap, LogFails, Cleared, Granted, runtime, ledgers
  <2>2. CASE VerifyTranscript(w)
    BY <2>2 DEF VerifyTranscript, Cleared, Granted, runtime, ledgers, Inv, TypeOK, HandlersTyped
  <2> QED BY <2>1, <2>2
<1>2. UNCHANGED <<pc, call, outcome, caps, generation>>
  BY <1>1 DEF idapVars
<1>3. WorkerInv(w)
  BY DEF Inv
<1>4. ASSUME Cleared(w), NEW s \in Granted, Continue(w, s), s # "delegate"
      PROVE  QuietStep(w) /\ IdapMove
  <2>1. /\ HandlersMove(w) /\ stage'[w] = s /\ request' = request /\ cap' = cap
        /\ request'[w] \in RequestRecord
        /\ request'[w].authorization # NoAuthorization => HandedOut(request'[w].authorization)
    BY <1>1, <1>4, ContinueMove DEF Stages, Granted
  <2>2. RequestPermits(request[w])' = RequestPermits(request[w])
    BY <2>1 DEF RequestPermits, ConstraintsForRequest
  <2>3. WorkerInv(w)'
    BY <1>1, <1>2, <1>3, <1>4, <2>1, <2>2
       DEF WorkerInv, HandedOut, Ready, Chosen, Holding, Granted
  <2> QED BY <1>1, <1>2, <1>4, <2>1, <2>3 DEF QuietStep, OthersWait, IdapMove, Granted
<1>5. ASSUME NEW code \in {403, 500}, Respond(w, code)
      PROVE  QuietStep(w) /\ IdapMove
  <2>1. HandlersMove(w) /\ OthersWait(w) /\ stage'[w] = "idle" /\ WorkerInv(w)'
    BY <1>1, <1>2, <1>5, RespondMove
  <2> QED BY <1>1, <1>2, <2>1 DEF QuietStep, IdapMove
<1> QED BY <1>1, <1>4, <1>5

-----------------------------------------------------------------------------
(* The steps that change the runtime or the ledgers.                       *)
LEMMA EarlyInv ==
  ASSUME NEW v \in Workers, WorkerInv(v), stage'[v] \in {"idle", "ensure", "setup"},
         stage'[v] # "idle" => stage[v] # "idle" /\ request'[v] = request[v],
         pc'[v] = "idle", delegated \subseteq delegated'
  PROVE  WorkerInv(v)'
BY DEF WorkerInv, HandedOut, Cleared, Ready, Chosen, Holding, Granted

LEMMA StartSetupStep ==
  ASSUME Inv, NEW w \in Workers, StartSetup(w)
  PROVE  Kept /\ IdapMove
<1>1. /\ stage[w] = "ensure" /\ lock = NoWorker /\ ~initialized
      /\ lock' = w /\ setup' = 1
      /\ stage' = [stage EXCEPT ![w] = "setup"]
      /\ UNCHANGED <<request, cap, response, requests, initialized, services,
                     delegated, paid, tickets>>
  BY DEF StartSetup, Continue, Goto, ledgers
<1>2. /\ Auth!ResetRuntime
      /\ generation < MaxGeneration /\ generation' = generation + 1
      /\ pc' = [v \in Workers |-> "idle"]
      /\ caps' = caps
  BY DEF StartSetup, Auth!ResetRuntime
<1>3. generation \in 1 .. MaxGeneration /\ generation' \in 1 .. MaxGeneration
  BY <1>2, LimitsAssumption DEF Inv, RuntimeInv
<1>4. \A v \in Workers : stage[v] \in {"idle", "ensure"} /\ (v # w => stage'[v] = stage[v])
  <2>1. \A v \in Workers : stage[v] \in Stages /\ stage[v] \notin Ready /\ stage[v] # "setup"
    BY <1>1, WorkersAssumption DEF Inv, TypeOK, HandlersTyped, WorkerInv
  <2> QED BY <1>1, <2>1 DEF Stages, Ready, Inv, TypeOK, HandlersTyped
<1>5. stage'[w] = "setup"
  BY <1>1 DEF Inv, TypeOK, HandlersTyped
<1>6. HandlersTyped'
  <2>1. HandlersTyped
    BY DEF Inv, TypeOK
  <2>2. ASSUME NEW v \in Workers
        PROVE  /\ lock' = v <=> stage'[v] = "setup"
               /\ request'[v] = NoRequest <=> stage'[v] = "idle"
               /\ pc'[v] # "idle" => stage'[v] = "await"
    BY <1>1, <1>2, <1>4, <1>5, <2>1 DEF HandlersTyped
  <2>3. 1 \in 0 .. Len(InitPlan) /\ stage' \in [Workers -> Stages]
    BY <1>1, <2>1, PlanAssumption DEF HandlersTyped, Stages
  <2> QED BY <1>1, <2>1, <2>2, <2>3 DEF HandlersTyped
<1>7. RuntimeInv'
  <2>1. \A i \in DOMAIN services : services[i].generation <= generation + 1
    <3>1. services \in Seq([action: Actions, generation: 1 .. MaxGeneration])
      BY DEF Inv, TypeOK, HandlersTyped
    <3>2. \A i \in DOMAIN services : services[i] \in [action: Actions, generation: 1 .. MaxGeneration]
      BY <3>1, ElementOfSequence
    <3>3. \A i \in DOMAIN services : services[i].generation \in Int
      BY <3>2
    <3> QED BY <1>3, <3>3, LimitsAssumption DEF Inv, RuntimeInv
  <2>2. 1 \in 1 .. Len(InitPlan)
    BY PlanAssumption
  <2> QED BY <1>1, <1>2, <1>3, <2>1, <2>2 DEF RuntimeInv, HasBuy
<1>8. LedgerInv'
  BY <1>1, <1>2, LedgerKept
<1>9. \A v \in Workers : WorkerInv(v)'
  BY <1>1, <1>2, <1>4, <1>5, EarlyInv DEF Inv
<1>10. Auth!Next
  BY <1>2 DEF Auth!Next
<1> QED BY <1>6, <1>7, <1>8, <1>9, <1>10 DEF Kept, IdapMove

LEMMA SetupStepStep ==
  ASSUME Inv, NEW w \in Workers, SetupStep(w)
  PROVE  Kept /\ IdapMove
<1> DEFINE entry == [action |-> InitPlan[setup], generation |-> generation]
           Same == UNCHANGED <<request, cap, requests>>
<1>1. /\ stage[w] = "setup"
      /\ services' = IF InitPlan[setup] \in Actions THEN Append(services, entry) ELSE services
      /\ UNCHANGED idapVars
      /\ UNCHANGED <<delegated, paid, tickets>>
  BY DEF SetupStep, Registers, ledgers
<1>2. UNCHANGED <<pc, call, outcome, caps, generation>>
  BY <1>1 DEF idapVars
<1>3. /\ lock = w /\ lock # NoWorker /\ pc[w] = "idle"
      /\ setup \in 1 .. Len(InitPlan) /\ ~initialized
      /\ \A i \in 1 .. setup - 1 : InitPlan[i] = Buy => HasBuy
      /\ generation \in 1 .. MaxGeneration
  BY <1>1, WorkersAssumption DEF Inv, TypeOK, HandlersTyped, RuntimeInv
<1>4. /\ services' \in Seq([action: Actions, generation: 1 .. MaxGeneration])
      /\ \A i \in DOMAIN services' : services'[i].generation <= generation
      /\ \A i \in 1 .. setup : InitPlan[i] = Buy => HasBuy'
  <2>1. /\ services \in Seq([action: Actions, generation: 1 .. MaxGeneration])
        /\ \A i \in DOMAIN services : services[i].generation <= generation
    BY DEF Inv, TypeOK, HandlersTyped, RuntimeInv
  <2>2. CASE InitPlan[setup] \in Actions
    <3>1. entry \in [action: Actions, generation: 1 .. MaxGeneration]
      BY <1>3, <2>2
    <3>2. entry.action = InitPlan[setup] /\ entry.generation = generation
      OBVIOUS
    <3> HIDE DEF entry
    <3>3. services' = Append(services, entry) /\ services' \in Seq([action: Actions, generation: 1 .. MaxGeneration])
      BY <1>1, <2>1, <2>2, <3>1
    <3>4. /\ Len(services) \in Nat
          /\ DOMAIN services = 1 .. Len(services)
          /\ DOMAIN services' = 1 .. Len(services) + 1
          /\ \A i \in 1 .. Len(services) : services'[i] = services[i]
          /\ services'[Len(services) + 1] = entry
      BY <2>1, <3>1, <3>3
    <3>5. ASSUME NEW i \in DOMAIN services' PROVE services'[i].generation <= generation
      <4>1. generation <= generation
        BY <1>3, LimitsAssumption
      <4>2. i \in 1 .. Len(services) \/ i = Len(services) + 1
        BY <3>4
      <4> QED BY <2>1, <3>2, <3>4, <4>1, <4>2
    <3>6. HasBuy => HasBuy'
      BY <3>4 DEF HasBuy
    <3>7. InitPlan[setup] = Buy => HasBuy'
      BY <3>2, <3>4 DEF HasBuy
    <3> QED BY <1>3, <3>3, <3>5, <3>6, <3>7
  <2>3. CASE InitPlan[setup] \notin Actions
    <3>1. services' = services /\ InitPlan[setup] # Buy
      BY <1>1, <2>3 DEF Actions
    <3> QED BY <1>3, <2>1, <3>1 DEF HasBuy
  <2> QED BY <2>2, <2>3
<1>5. LedgerInv'
  BY <1>1, <1>2, LedgerKept
<1>6. \A v \in Workers : v # w => stage[v] # "setup"
  BY <1>3 DEF Inv, TypeOK, HandlersTyped
<1>7. CASE setup < Len(InitPlan) /\ setup' = setup + 1 /\ Continue(w, "setup")
           /\ UNCHANGED <<lock, initialized>>
  <2>1. HandlersMove(w) /\ stage'[w] = "setup" /\ request' = request
    BY <1>1, <1>7, ContinueMove DEF Stages
  <2>2. RuntimeInv'
    BY <1>2, <1>3, <1>4, <1>7 DEF RuntimeInv
  <2>3. HandlersTyped'
    <3>1. setup' \in 0 .. Len(InitPlan)
      BY <1>3, <1>7
    <3>2. HandlersTyped
      BY DEF Inv, TypeOK
    <3> QED BY <1>1, <1>2, <1>3, <1>4, <1>6, <1>7, <2>1, <3>1, <3>2
            DEF HandlersMove, HandlersTyped
  <2>4. ASSUME NEW v \in Workers PROVE WorkerInv(v)'
    <3>1. CASE v = w
      BY <1>1, <1>2, <1>3, <2>1, <3>1, EarlyInv DEF Inv
    <3>2. CASE v # w
      BY <1>1, <1>2, <1>7, <2>1, <3>2, UntouchedInv DEF HandlersMove, Untouched, Grows, Inv
    <3> QED BY <3>1, <3>2
  <2> QED BY <1>1, <1>5, <2>2, <2>3, <2>4 DEF Kept, IdapMove
<1>8. CASE setup = Len(InitPlan) /\ setup' = 0 /\ initialized' = TRUE /\ lock' = NoWorker
           /\ Continue(w, "discover")
  <2>1. /\ HandlersMove(w) /\ stage'[w] = "discover" /\ request' = request
        /\ request'[w] \in RequestRecord
        /\ request'[w].authorization # NoAuthorization => HandedOut(request'[w].authorization)
    BY <1>1, <1>8, ContinueMove DEF Stages
  <2>2. RuntimeInv'
    <3>1. PICK i \in 1 .. setup : InitPlan[i] = Buy
      BY <1>8, PlanAssumption
    <3> QED BY <1>2, <1>3, <1>4, <1>8, <3>1 DEF RuntimeInv
  <2>3. HandlersTyped'
    <3>1. HandlersTyped
      BY DEF Inv, TypeOK
    <3>2. 0 \in 0 .. Len(InitPlan)
      BY PlanAssumption
    <3> QED BY <1>1, <1>2, <1>3, <1>4, <1>6, <1>8, <2>1, <3>1, <3>2, WorkersAssumption
            DEF HandlersMove, HandlersTyped
  <2>4. ASSUME NEW v \in Workers PROVE WorkerInv(v)'
    <3>1. CASE v = w
      BY <1>1, <1>2, <1>3, <1>8, <2>1, <3>1
         DEF WorkerInv, HandedOut, Cleared, Ready, Chosen, Holding, Granted
    <3>2. CASE v # w
      BY <1>1, <1>2, <1>8, <2>1, <3>2, UntouchedInv DEF HandlersMove, Untouched, Grows, Inv
    <3> QED BY <3>1, <3>2
  <2> QED BY <1>1, <1>5, <2>2, <2>3, <2>4 DEF Kept, IdapMove
<1>9. CASE setup' = 0 /\ lock' = NoWorker /\ Respond(w, 500) /\ UNCHANGED initialized
  <2>1. HandlersMove(w) /\ OthersWait(w) /\ stage'[w] = "idle" /\ WorkerInv(w)'
    BY <1>2, <1>3, <1>9, RespondMove
  <2>2. RuntimeInv'
    BY <1>2, <1>3, <1>4, <1>9 DEF RuntimeInv
  <2>3. HandlersTyped'
    <3>1. HandlersTyped
      BY DEF Inv, TypeOK
    <3>2. 0 \in 0 .. Len(InitPlan)
      BY PlanAssumption
    <3> QED BY <1>1, <1>2, <1>3, <1>4, <1>6, <1>9, <2>1, <3>1, <3>2, WorkersAssumption
            DEF HandlersMove, HandlersTyped
  <2>4. ASSUME NEW v \in Workers PROVE WorkerInv(v)'
    <3>1. CASE v # w
      BY <1>1, <1>2, <1>9, <2>1, <3>1, UntouchedInv DEF HandlersMove, Untouched, Grows, Inv
    <3> QED BY <2>1, <3>1
  <2> QED BY <1>1, <1>5, <2>2, <2>3, <2>4 DEF Kept, IdapMove
<1> QED BY <1>7, <1>8, <1>9 DEF SetupStep

(* The payload a granted capability permits: of a purchase, one that the    *)
(* payment which delegated it allows; of a payment, one the policy accepts  *)
(* unless the client brought constraints.                                  *)
LEMMA PurchaseIsPaid ==
  ASSUME Inv, NEW w \in Workers, stage[w] = "execute", request[w].action = Buy
  PROVE  \E d \in delegated, p \in paid :
           /\ d.capability = cap[w] /\ d.payment = p.number
           /\ ConstraintsMatch(PurchaseConstraints(Fields[p.payload]), Fields[request[w].payload])
<1>1. HandedOut(cap[w]) /\ request[w].payload \in caps[cap[w]].body.permits
  BY DEF Inv, WorkerInv, Cleared, Granted, Holding, Chosen, Ready
<1>2. PICK d \in delegated : d.capability = cap[w]
  BY <1>1 DEF HandedOut
<1>3. PICK p \in paid :
        /\ p.number = d.payment
        /\ caps[d.capability].body.permits = Permits[PurchaseConstraints(Fields[p.payload])]
  BY <1>2 DEF Inv, LedgerInv, Backed
<1>4. p.payload \in Payloads
  BY <1>3 DEF Inv, LedgerInv, PaymentsAccepted
<1> QED BY <1>1, <1>2, <1>3, <1>4, PermitsOf

LEMMA PaymentIsPolicy ==
  ASSUME Inv, NEW w \in Workers, stage[w] = "execute", request[w].action = Pay
  PROVE  request[w].constraints = NoConstraints =>
           ConstraintsMatch(DefaultPaymentConstraints, Fields[request[w].payload])
<1>1. Pay # Buy /\ Pay \in Actions
  BY DEF Pay, Buy, Actions
<1>2. /\ caps[cap[w]].body.permits = RequestPermits(request[w])
      /\ request[w].payload \in caps[cap[w]].body.permits
  BY <1>1 DEF Inv, WorkerInv, Cleared, Granted, Holding, Chosen, Ready
<1>3. request[w].constraints = NoConstraints
        => ConstraintsForRequest(request[w].action, request[w].constraints) = DefaultPaymentConstraints
  BY DEF ConstraintsForRequest
<1>4. ConstraintsForRequest(Pay, NoConstraints) = DefaultPaymentConstraints
  BY DEF ConstraintsForRequest
<1>5. DefaultPaymentConstraints \in Circulating
  BY <1>1, <1>4, PermitsOf
<1> QED BY <1>2, <1>3, <1>5, PermitsOf DEF RequestPermits

LEMMA ExecuteStep ==
  ASSUME Inv, NEW w \in Workers, ExecuteService(w)
  PROVE  Kept /\ IdapMove
<1> DEFINE entry == [number |-> request[w].number, capability |-> cap[w],
                     payload |-> request[w].payload,
                     constraints |-> request[w].constraints, uses |-> request[w].uses]
<1>1. /\ stage[w] = "execute"
      /\ tickets' = IF request[w].action = Buy THEN tickets \cup {entry} ELSE tickets
      /\ paid' = IF request[w].action = Pay THEN paid \cup {entry} ELSE paid
      /\ \/ request[w].action = Pay /\ Continue(w, "delegate")
         \/ \E code \in {200, 500} : Respond(w, code)
      /\ UNCHANGED <<idapVars, lock, initialized, setup, services, delegated>>
  BY DEF ExecuteService, LogFails, runtime
<1>2. UNCHANGED <<pc, call, outcome, caps, generation>>
  BY <1>1 DEF idapVars
<1>3. /\ pc[w] = "idle" /\ lock # w /\ initialized /\ WorkerInv(w)
      /\ request[w].payload \in caps[cap[w]].body.permits
  BY <1>1 DEF Inv, TypeOK, HandlersTyped, WorkerInv, Ready, Cleared, Granted
<1>4. /\ entry.number = request[w].number /\ entry.capability = cap[w]
      /\ entry.payload = request[w].payload /\ entry.constraints = request[w].constraints
  OBVIOUS
<1> HIDE DEF entry
<1>10. request[w].payload \in Payloads
  BY <1>1, <1>3 DEF WorkerInv, RequestRecord
<1>5. LedgerInv'
  <2>1. ASSUME NEW d \in delegated' PROVE Backed(d)'
    <3>1. d \in delegated /\ Backed(d)
      BY <1>1, <2>1 DEF Inv, LedgerInv
    <3> QED BY <1>1, <1>2, <3>1 DEF Backed
  <2>2. PaymentsAccepted'
    <3>0. ASSUME request[w].action = Pay, request[w].constraints = NoConstraints
          PROVE  ConstraintsMatch(DefaultPaymentConstraints, Fields[request[w].payload])
      BY <1>1, <3>0, PaymentIsPolicy
    <3>1. ASSUME request[w].action = Pay, entry.constraints = NoConstraints
          PROVE  ConstraintsMatch(DefaultPaymentConstraints, Fields[entry.payload])
      BY <1>4, <3>0, <3>1
    <3>2. ASSUME NEW p \in paid
          PROVE  /\ p.payload \in Payloads
                 /\ p.constraints = NoConstraints =>
                      ConstraintsMatch(DefaultPaymentConstraints, Fields[p.payload])
      BY DEF Inv, LedgerInv, PaymentsAccepted
    <3>3. \A p \in paid' : p \in paid \/ (request[w].action = Pay /\ p = entry)
      BY <1>1
    <3>4. ASSUME NEW p \in paid'
          PROVE  /\ p.payload \in Payloads
                 /\ p.constraints = NoConstraints =>
                      ConstraintsMatch(DefaultPaymentConstraints, Fields[p.payload])
      BY <1>4, <1>10, <3>1, <3>2, <3>3
    <3> QED BY <3>4 DEF PaymentsAccepted
  <2>3. TicketsBacked'
    <3>1. ASSUME NEW t \in tickets'
          PROVE  /\ t.payload \in Payloads
                 /\ \E d \in delegated', p \in paid' :
                      /\ d.capability = t.capability /\ d.payment = p.number
                      /\ ConstraintsMatch(PurchaseConstraints(Fields[p.payload]), Fields[t.payload])
      <4>1. CASE t \in tickets
        BY <1>1, <4>1 DEF Inv, LedgerInv, TicketsBacked, StemsFrom, BoughtWith
      <4>2. CASE request[w].action = Buy /\ t = entry
        BY <1>1, <1>4, <1>10, <4>2, PurchaseIsPaid
      <4> QED BY <1>1, <3>1, <4>1, <4>2
    <3> QED BY <3>1 DEF TicketsBacked, StemsFrom, BoughtWith
  <2> QED BY <2>1, <2>2, <2>3 DEF LedgerInv
<1>6. RuntimeInv'
  BY <1>1, <1>2 DEF Inv, RuntimeInv, HasBuy
<1>7. HandlersMove(w) /\ WorkerInv(w)' /\ stage'[w] # "setup"
  <2>1. CASE request[w].action = Pay /\ Continue(w, "delegate")
    <3>1. /\ HandlersMove(w) /\ stage'[w] = "delegate" /\ request' = request /\ cap' = cap
          /\ request'[w] \in RequestRecord
          /\ request'[w].authorization # NoAuthorization => HandedOut(request'[w].authorization)
      BY <1>1, <2>1, ContinueMove DEF Stages
    <3>2. entry \in paid'
      BY <1>1, <2>1
    <3>3. RequestPermits(request[w])' = RequestPermits(request[w])
      BY <3>1 DEF RequestPermits, ConstraintsForRequest
    <3> QED BY <1>1, <1>2, <1>3, <1>4, <3>1, <3>2, <3>3
            DEF WorkerInv, HandedOut, Ready, Chosen, Holding
  <2>2. ASSUME NEW code \in {200, 500}, Respond(w, code)
        PROVE  HandlersMove(w) /\ WorkerInv(w)' /\ stage'[w] # "setup"
    BY <1>2, <1>3, <2>2, RespondMove
  <2> QED BY <1>1, <2>1, <2>2
<1>8. ASSUME NEW v \in Workers, v # w PROVE WorkerInv(v)'
  <2>1. paid \subseteq paid'
    BY <1>1
  <2> QED BY <1>1, <1>2, <1>7, <1>8, <2>1, UntouchedInv
          DEF HandlersMove, Untouched, Grows, Inv
<1>9. HandlersTyped'
  <2>1. HandlersTyped
    BY DEF Inv, TypeOK
  <2> QED BY <1>1, <1>2, <1>3, <1>7, <2>1 DEF HandlersMove, HandlersTyped
<1> QED BY <1>1, <1>5, <1>6, <1>7, <1>8, <1>9 DEF Kept, IdapMove

LEMMA DelegateStep ==
  ASSUME Inv, NEW w \in Workers, Delegate(w)
  PROVE  Kept /\ IdapMove
<1>1. /\ stage[w] = "delegate"
      /\ UNCHANGED <<lock, initialized, setup, services, paid, tickets>>
  BY DEF Delegate, runtime
<1>2. /\ pc[w] = "idle" /\ lock # w /\ initialized /\ request[w] \in RequestRecord
      /\ generation \in 1 .. MaxGeneration
  BY <1>1 DEF Inv, TypeOK, HandlersTyped, WorkerInv, Ready, RuntimeInv
<1>3. PICK p \in paid : p.number = request[w].number /\ p.payload = request[w].payload
  BY <1>1 DEF Inv, WorkerInv
<1> DEFINE body == PurchaseCapability(request[w].payload)
           g == ServiceEntryForAction(Buy).generation
<1>4. ASSUME NEW id \in CapIds, Auth!Issue(id, body, g), Respond(w, 200),
             delegated' = delegated \cup
               {[capability |-> id, payment |-> request[w].number, runtime |-> generation]}
      PROVE  Kept /\ IdapMove
  <2>1. g \in 1 .. generation /\ g \in Nat
    BY <1>2, BuyEntry, LimitsAssumption DEF Inv
  <2>2. /\ body \in Contents
        /\ body.permits = Permits[PurchaseConstraints(Fields[request[w].payload])]
    <3>1. request[w].payload \in Payloads
      BY <1>2 DEF RequestRecord
    <3>2. body \in Contents
      BY <3>1 DEF Contents
    <3>3. body.permits = Permits[PurchaseConstraints(Fields[request[w].payload])]
      BY DEF PurchaseCapability, RequestCapability
    <3> QED BY <3>2, <3>3
  <2> HIDE DEF body, g
  <2>3. /\ caps'[id].body = body /\ caps'[id] # NoCap /\ caps[id] = NoCap
        /\ \A i \in CapIds : caps[i] # NoCap => caps'[i] = caps[i]
        /\ UNCHANGED <<generation, now, pc, call, outcome>>
    BY <1>4, <2>1, <2>2, IssueFacts DEF Inv, TypeOK
  <2>4. HandlersMove(w) /\ OthersWait(w) /\ stage'[w] = "idle" /\ WorkerInv(w)'
    BY <1>2, <1>4, <2>3, RespondMove
  <2>0. PICK new : new = [capability |-> id, payment |-> request[w].number, runtime |-> generation]
    OBVIOUS
  <2>5. /\ new \in [capability: CapIds, payment: Nonces, runtime: 1 .. MaxGeneration]
        /\ new.capability = id /\ new.payment = request[w].number
    BY <1>2, <2>0 DEF RequestRecord
  <2>6. delegated' = delegated \cup {new}
    BY <1>4, <2>0
  <2>7. HandlersTyped'
    <3>1. HandlersTyped
      BY DEF Inv, TypeOK
    <3> QED BY <1>1, <1>2, <2>3, <2>4, <2>5, <2>6, <3>1 DEF HandlersMove, HandlersTyped
  <2>8. RuntimeInv'
    BY <1>1, <2>3 DEF Inv, RuntimeInv, HasBuy
  <2>9. LedgerInv'
    <3>1. ASSUME NEW d \in delegated PROVE Backed(d)'
      <4>1. d.capability \in CapIds /\ Backed(d)
        BY DEF Inv, TypeOK, HandlersTyped, LedgerInv
      <4> QED BY <1>1, <2>3, <4>1 DEF Backed
    <3>2. Backed(new)'
      BY <1>1, <1>3, <2>2, <2>3, <2>5 DEF Backed
    <3>3. PaymentsAccepted' /\ TicketsBacked'
      BY <1>1, <2>6 DEF Inv, LedgerInv, PaymentsAccepted, TicketsBacked, StemsFrom, BoughtWith
    <3> QED BY <2>6, <3>1, <3>2, <3>3 DEF LedgerInv
  <2>10. ASSUME NEW v \in Workers, v # w PROVE WorkerInv(v)'
    BY <1>1, <2>3, <2>4, <2>6, <2>10, UntouchedInv
       DEF HandlersMove, OthersWait, Untouched, Grows, Inv
  <2>11. Auth!Next
    BY <1>4, <2>1, <2>2 DEF Auth!Next
  <2> QED BY <2>4, <2>7, <2>8, <2>9, <2>10, <2>11 DEF Kept, IdapMove
<1>5. ASSUME Respond(w, 500), UNCHANGED <<idapVars, delegated>>
      PROVE  Kept /\ IdapMove
  <2>1. UNCHANGED <<pc, call, outcome, caps, generation>>
    BY <1>5 DEF idapVars
  <2>2. HandlersMove(w) /\ OthersWait(w) /\ stage'[w] = "idle" /\ WorkerInv(w)'
    BY <1>1, <1>2, <1>5, <2>1, RespondMove
  <2>3. QuietStep(w)
    BY <1>1, <1>2, <1>5, <2>1, <2>2 DEF QuietStep
  <2> QED BY <1>5, <2>3, Quiet DEF IdapMove
<1> QED BY <1>4, <1>5 DEF Delegate, LogFails

LEMMA CrashStep == ASSUME Inv, Crash PROVE Kept /\ IdapMove
<1>1. /\ lock' = NoWorker /\ initialized' = FALSE /\ setup' = 0 /\ services' = <<>>
      /\ stage' = [w \in Workers |-> "idle"]
      /\ request' = [w \in Workers |-> NoRequest]
      /\ cap' = [w \in Workers |-> 0]
      /\ response' = [w \in Workers |-> 0]
      /\ UNCHANGED <<requests, delegated, paid, tickets>>
      /\ Auth!ResetRuntime
  BY DEF Crash, ledgers
<1>2. /\ generation < MaxGeneration /\ generation' = generation + 1
      /\ pc' = [v \in Workers |-> "idle"]
      /\ caps' = caps
  BY <1>1 DEF Auth!ResetRuntime
<1>3. HandlersTyped'
  <2>1. HandlersTyped
    BY DEF Inv, TypeOK
  <2>2. ASSUME NEW v \in Workers
        PROVE  /\ lock' = v <=> stage'[v] = "setup"
               /\ request'[v] = NoRequest <=> stage'[v] = "idle"
               /\ pc'[v] # "idle" => stage'[v] = "await"
    BY <1>1, <1>2, WorkersAssumption
  <2>3. 0 \in 0 .. Len(InitPlan) /\ services' \in Seq([action: Actions, generation: 1 .. MaxGeneration])
    BY <1>1, PlanAssumption
  <2>4. /\ stage' \in [Workers -> Stages]
        /\ cap' \in [Workers -> {0} \cup CapIds]
        /\ response' \in [Workers -> {0, 200, 403, 404, 500}]
        /\ DOMAIN request' = Workers
    BY <1>1 DEF Stages
  <2> QED BY <1>1, <2>1, <2>2, <2>3, <2>4 DEF HandlersTyped
<1>4. RuntimeInv'
  <2>1. generation + 1 \in 1 .. MaxGeneration
    BY <1>2, LimitsAssumption DEF Inv, RuntimeInv
  <2> QED BY <1>1, <1>2, <2>1 DEF RuntimeInv
<1>5. LedgerInv'
  BY <1>1, <1>2, LedgerKept
<1>6. \A v \in Workers : WorkerInv(v)'
  BY <1>1, <1>2 DEF WorkerInv, Cleared, Ready, Chosen, Holding, Granted
<1>7. Auth!Next
  BY <1>1 DEF Auth!Next
<1> QED BY <1>3, <1>4, <1>5, <1>6, <1>7 DEF Kept, IdapMove

LEMMA IdleStep == ASSUME Inv, Tick \/ UNCHANGED vars PROVE Kept /\ IdapMove
<1>1. /\ UNCHANGED <<caps, generation, pc, call, outcome>>
      /\ UNCHANGED <<lock, initialized, setup, services, stage, request, cap, response,
                     requests, delegated, paid, tickets>>
      /\ IdapMove
  <2>1. CASE Tick
    <3>1. Auth!Tick
      BY <2>1 DEF Tick
    <3>2. Auth!Next
      BY <3>1 DEF Auth!Next
    <3> QED BY <2>1, <3>1, <3>2
            DEF Tick, Auth!Tick, Auth!threads, IdapMove, runtime, handlers, ledgers
  <2>2. CASE UNCHANGED vars
    BY <2>2 DEF vars, idapVars, runtime, handlers, ledgers, IdapMove
  <2> QED BY <2>1, <2>2
<1>2. HandlersTyped'
  BY <1>1 DEF Inv, TypeOK, HandlersTyped
<1>3. RuntimeInv'
  BY <1>1 DEF Inv, RuntimeInv, HasBuy
<1>4. LedgerInv'
  BY <1>1, LedgerKept
<1>5. \A v \in Workers : WorkerInv(v)'
  BY <1>1, UntouchedInv DEF Untouched, Grows, Inv
<1> QED BY <1>1, <1>2, <1>3, <1>4, <1>5 DEF Kept

-----------------------------------------------------------------------------
(* Every step keeps the invariant, and is a step of IDAP or none of it.     *)
LEMMA NextKept == ASSUME Inv, [Next]_vars PROVE Kept /\ IdapMove
<1>1. ASSUME NEW w \in Workers, NEW r \in Requests, NEW a \in Authorizations(r), Invoke(w, r, a)
      PROVE  Kept /\ IdapMove
  BY <1>1, InvokeStep, Quiet
<1>2. ASSUME NEW w \in Workers, Handle(w) PROVE Kept /\ IdapMove
  <2>1. CASE FindInitialized(w)
    BY <2>1, FindInitializedStep, Quiet
  <2>2. CASE StartSetup(w)
    BY <2>2, StartSetupStep
  <2>3. CASE SetupStep(w)
    BY <2>3, SetupStepStep
  <2>4. CASE Discover(w)
    BY <2>4, DiscoverStep, Quiet
  <2>5. CASE OpenDelegated(w)
    BY <2>5, OpenDelegatedStep, Quiet
  <2>6. CASE MintCapability(w)
    BY <2>6, MintStep, Quiet
  <2>7. CASE CallIdap(w)
    BY <2>7, CallIdapStep, Quiet
  <2>8. CASE IdapStep(w)
    BY <2>8, IdapStepStep, Quiet
  <2>9. CASE ReturnFromIdap(w) \/ VerifyTranscript(w)
    BY <2>9, ReturnStep, Quiet
  <2>10. CASE ExecuteService(w)
    BY <2>10, ExecuteStep
  <2>11. CASE Delegate(w)
    BY <2>11, DelegateStep
  <2> QED BY <1>2, <2>1, <2>2, <2>3, <2>4, <2>5, <2>6, <2>7, <2>8, <2>9, <2>10, <2>11
          DEF Handle
<1>3. CASE Tick \/ UNCHANGED vars
  BY <1>3, IdleStep
<1>4. CASE Crash
  BY <1>4, CrashStep
<1> QED BY <1>1, <1>2, <1>3, <1>4 DEF Next

LEMMA InitInv == Init => Inv
<1> SUFFICES ASSUME Init PROVE Inv
  OBVIOUS
<1>1. Auth!TypeOK
  <2>1. IdapProofs!TypeOK
    BY IdapAssumptions, SameInit, IdapProofs!InitTypeOK DEF Init
  <2> QED BY <2>1, SameTypeOK
<1>2. HandlersTyped
  <2>1. /\ 0 \in 0 .. Len(InitPlan) /\ 0 \in 0 .. MaxRequests
        /\ services \in Seq([action: Actions, generation: 1 .. MaxGeneration])
    BY PlanAssumption, LimitsAssumption DEF Init
  <2>2. /\ stage \in [Workers -> Stages]
        /\ cap \in [Workers -> {0} \cup CapIds]
        /\ response \in [Workers -> {0, 200, 403, 404, 500}]
        /\ DOMAIN request = Workers
    BY DEF Init, Stages
  <2>3. \A w \in Workers : /\ lock = w <=> stage[w] = "setup"
                           /\ request[w] = NoRequest <=> stage[w] = "idle"
                           /\ pc[w] # "idle" => stage[w] = "await"
    BY WorkersAssumption DEF Init, Auth!Init
  <2>4. /\ lock \in Workers \cup {NoWorker} /\ initialized \in BOOLEAN
        /\ setup = 0 /\ requests = 0 /\ delegated = {}
    BY DEF Init
  <2> QED BY <2>1, <2>2, <2>3, <2>4 DEF HandlersTyped
<1>3. RuntimeInv
  BY LimitsAssumption DEF Init, Auth!Init, RuntimeInv
<1>4. LedgerInv
  BY DEF Init, LedgerInv, PaymentsAccepted, TicketsBacked
<1>5. \A w \in Workers : WorkerInv(w)
  BY DEF Init, Auth!Init, WorkerInv, Cleared, Ready, Chosen, Holding, Granted
<1> QED BY <1>1, <1>2, <1>3, <1>4, <1>5 DEF Inv, TypeOK

LEMMA NextInv == Inv /\ [Next]_vars => Inv'
<1> SUFFICES ASSUME Inv, [Next]_vars PROVE Inv'
  OBVIOUS
<1>1. Kept /\ IdapMove
  BY NextKept
<1>2. IdapProofs!TypeOK /\ [IdapProofs!Next]_(IdapProofs!vars)
  <2>1. CASE UNCHANGED idapVars
    BY <2>1, SameTypeOK DEF Inv, TypeOK, idapVars, IdapProofs!vars, IdapProofs!ledger,
                            IdapProofs!threads, IdapProofs!history
  <2>2. CASE Auth!Next
    BY <2>2, SameNext, SameTypeOK DEF Inv, TypeOK
  <2> QED BY <1>1, <2>1, <2>2 DEF IdapMove
<1>3. IdapProofs!TypeOK'
  BY <1>2, IdapAssumptions, IdapProofs!NextTypeOK
<1>4. Auth!TypeOK'
  BY <1>3, SameTypeOK, PTL
<1> QED BY <1>1, <1>4 DEF Kept, Inv, TypeOK

LEMMA Invariant == Spec => []Inv
  BY InitInv, NextInv, PTL DEF Spec

(* Every reachable state of the gateway is well typed: in particular the    *)
(* lock is held by exactly the thread that initialises.                    *)
THEOREM TypeCorrect == Spec => []TypeOK
<1>1. Inv => TypeOK
  BY DEF Inv
<1> QED BY <1>1, Invariant, PTL

(* Whoever brings no constraints of his own pays within the default policy, *)
(* and the ticket of such a payment is within it too, whatever requests     *)
(* arrive, however they interleave, and whatever crashes.                  *)
THEOREM PolicyIsEnforced == Spec => []PolicyEnforced
<1>1. Inv => PolicyEnforced
  <2> SUFFICES ASSUME Inv PROVE PolicyEnforced
    OBVIOUS
  <2>1. \A x \in Payloads : \A f \in DOMAIN Fields[x] : IsJson(Fields[x][f])
    BY FieldsAssumption
  <2>2. ASSUME NEW p \in paid, p.constraints = NoConstraints PROVE WithinPolicy(Fields[p.payload])
    BY <2>1, <2>2, PolicyIsKept DEF Inv, LedgerInv, PaymentsAccepted
  <2>3. ASSUME NEW t \in tickets
        PROVE  \E p \in paid :
                 /\ StemsFrom(t, p)
                 /\ p.constraints = NoConstraints => WithinPolicy(Fields[t.payload])
    <3>1. PICK p \in paid :
            /\ StemsFrom(t, p)
            /\ ConstraintsMatch(PurchaseConstraints(Fields[p.payload]), Fields[t.payload])
      BY DEF Inv, LedgerInv, TicketsBacked
    <3>2. p.payload \in Payloads /\ t.payload \in Payloads
      BY DEF Inv, LedgerInv, PaymentsAccepted, TicketsBacked
    <3>3. p.constraints = NoConstraints => WithinPolicy(Fields[t.payload])
      BY <2>1, <3>1, <3>2, PolicyComposes DEF Inv, LedgerInv, PaymentsAccepted
    <3> QED BY <3>1, <3>3
  <2> QED BY <2>2, <2>3 DEF PolicyEnforced
<1> QED BY <1>1, Invariant, PTL

(* Every ticket stems from an executed payment, keeps what that names and   *)
(* costs no more.                                                          *)
THEOREM TicketsPaid == Spec => []TicketsArePaidFor
<1>1. Inv => TicketsArePaidFor
  BY PurchaseNarrows DEF Inv, LedgerInv, TicketsBacked, TicketsArePaidFor
<1> QED BY <1>1, Invariant, PTL

(* The gateway drives IDAP as Idap specifies it.                           *)
THEOREM GatewayUsesIdap == Spec => UsesIdap
<1>1. Init => Auth!Init
  BY DEF Init
<1>2. Inv /\ [Next]_vars => (idapVars' = idapVars \/ Auth!Next)
  BY NextKept DEF IdapMove
<1> QED BY <1>1, <1>2, Invariant, PTL DEF Spec, UsesIdap

(* The runtime is reset only while all requests wait for it.               *)
THEOREM ResetsAreSafe == Spec => NoResetUnderRequests
<1>1. Inv /\ [Next]_vars =>
        ((generation' # generation /\ \E w \in Workers : stage'[w] # "idle")
           => \A w \in Workers : Waiting(w))
  <2> SUFFICES ASSUME Inv, [Next]_vars, generation' # generation,
                      NEW w \in Workers, stage'[w] # "idle"
               PROVE  \A v \in Workers : Waiting(v)
    OBVIOUS
  <2>1. \E u \in Workers : StartSetup(u)
    <3>1. ~ UNCHANGED vars /\ ~ Tick /\ ~ Crash
      BY DEF vars, idapVars, Tick, Auth!Tick, Crash
    <3>2. ASSUME NEW u \in Workers, NEW r \in Requests, NEW a \in Authorizations(r),
                 Invoke(u, r, a)
          PROVE  FALSE
      BY <3>2, InvokeStep DEF QuietStep
    <3>3. ASSUME NEW u \in Workers, Handle(u) PROVE StartSetup(u)
      <4>1. ~ FindInitialized(u) /\ ~ Discover(u) /\ ~ OpenDelegated(u) /\ ~ MintCapability(u)
            /\ ~ CallIdap(u) /\ ~ IdapStep(u)
            /\ ~ (ReturnFromIdap(u) \/ VerifyTranscript(u))
        BY FindInitializedStep, DiscoverStep, OpenDelegatedStep, MintStep, CallIdapStep,
           IdapStepStep, ReturnStep DEF QuietStep
      <4>2. ~ SetupStep(u) /\ ~ ExecuteService(u)
        BY DEF SetupStep, ExecuteService, idapVars
      <4>3. ~ Delegate(u)
        BY DEF Delegate, Auth!Issue, idapVars
      <4> QED BY <3>3, <4>1, <4>2, <4>3 DEF Handle
    <3> QED BY <3>1, <3>2, <3>3 DEF Next
  <2>2. lock = NoWorker /\ ~initialized
    BY <2>1 DEF StartSetup
  <2>3. \A v \in Workers : stage[v] \in Stages /\ stage[v] \notin Ready /\ stage[v] # "setup"
    BY <2>2, WorkersAssumption DEF Inv, TypeOK, HandlersTyped, WorkerInv
  <2> QED BY <2>3 DEF Stages, Ready, Waiting
<1> QED BY <1>1, Invariant, PTL DEF Spec, NoResetUnderRequests

(* So all that is proved about Idap holds of the gateway.  For one, IDAP    *)
(* turns a request of the gateway away for its quota or as a replay only    *)
(* when the capability is spent, or the request was granted or is about to *)
(* be, with any number of threads.                                         *)
THEOREM GatewayImplementsIdap == Spec => IdapProofs!Spec
<1>1. Init => IdapProofs!Init
  BY SameInit DEF Init
<1>2. Inv /\ [Next]_vars => [IdapProofs!Next]_(IdapProofs!vars)
  <2> SUFFICES ASSUME Inv, [Next]_vars
               PROVE  [IdapProofs!Next]_(IdapProofs!vars)
    OBVIOUS
  <2>1. CASE UNCHANGED idapVars
    BY <2>1 DEF idapVars, IdapProofs!vars, IdapProofs!ledger, IdapProofs!threads,
                IdapProofs!history
  <2>2. CASE Auth!Next
    BY <2>2, SameNext
  <2> QED BY <2>1, <2>2, NextKept DEF IdapMove
<1> QED BY <1>1, <1>2, Invariant, PTL DEF Spec, IdapProofs!Spec

THEOREM RefusalsAreJustified ==
  Spec => IdapProofs!QuotaRefusalJustified /\ IdapProofs!ReplayRefusalJustified
BY GatewayImplementsIdap, IdapAssumptions, IdapProofs!QuotaRefusals, IdapProofs!ReplayRefusals

(* The gateway presents EncCAPs only.                                      *)
LEMMA GatewaySeals == IdapProofs!SealedOnly
<1>1. \A a \in Actions, p \in Payloads : Wrapped(a, a, p).sealed
  BY DEF Wrapped
<1> QED BY <1>1 DEF IdapProofs!SealedOnly, Variants

(* So, restarts included, a capability is answered AUTHORIZED at most once  *)
(* per thread, and with a single thread no more often than its quota.      *)
THEOREM QuotaUnderThreads ==
  /\ IsFiniteSet(Workers) => (Spec => []IdapProofs!OneShotOverrun)
  /\ IdapProofs!Serial => (Spec => []IdapProofs!QuotaRespected)
<1>1. IsFiniteSet(Workers) => (IdapProofs!Spec => []IdapProofs!OneShotOverrun)
  <2>1. IsFiniteSet(Workers) => IdapProofs!IsFiniteSet(Workers)
    BY DEF IsFiniteSet, IdapProofs!IsFiniteSet
  <2> QED BY GatewaySeals, <2>1, IdapAssumptions, IdapProofs!Overrun
<1>2. IdapProofs!Serial => (IdapProofs!Spec => []IdapProofs!QuotaRespected)
  BY GatewaySeals, IdapAssumptions, IdapProofs!QuotaSafety
<1> QED BY <1>1, <1>2, GatewayImplementsIdap, PTL

(* A gateway with one thread implements the ledger of uses: every answer    *)
(* AUTHORIZED uses up a unit of a quota that is never exceeded, and no      *)
(* presentation is granted twice, whatever is posted and whenever the       *)
(* runtime is initialised again or restarted.                              *)
THEOREM GatewayLedger ==
  IdapProofs!Serial => (Spec => IdapProofs!ImplementsLedger)
<1>1. IdapProofs!Serial => (IdapProofs!Spec => IdapProofs!ImplementsLedger)
  BY GatewaySeals, IdapAssumptions, IdapProofs!LedgerRefinement
<1> QED BY <1>1, GatewayImplementsIdap, PTL

-----------------------------------------------------------------------------
(* What was spent stays spent, clients are told the truth, and a single     *)
(* thread sells one ticket per authorization.                              *)

(* The capabilities.  All that the gateway issues have quota 1; one that    *)
(* was ever answered AUTHORIZED has its use on record as long as the keys   *)
(* it is sealed to exist.                                                  *)
CapsInv ==
  \A id \in CapIds :
    /\ caps[id] = NoCap => authorized[id] = 0
    /\ caps[id] # NoCap =>
         /\ caps[id].generation <= generation
         /\ caps[id].body.quota = 1
         /\ caps[id].generation = generation /\ authorized[id] > 0 => useCount[id] > 0

(* The threads.  A request whose capability had been authorized when it    *)
(* entered IDAP is on its way to a refusal.                                *)
Unopened == {"resolve", "policy", "expiry", "replay", "quota"}

Refusing(w) ==
  /\ authorized[cap[w]] > 0
  /\ \/ pc[w] = "open"
     \/ pc[w] \in Unopened /\ useCount[cap[w]] > 0
     \/ pc[w] = "idle" /\ outcome[w] # "AUTHORIZED"

WorkerSpend(w) ==
  /\ stage[w] = "await" /\ request[w].uses > 0 => Refusing(w)
  /\ stage[w] \in Granted => request[w].uses = 0

SpendInv == CapsInv /\ SpentStaysSpent /\ \A w \in Workers : WorkerSpend(w)

(* Counts are never taken back while the keys exist.                       *)
CountsStay ==
  \A id \in CapIds : /\ useCount[id] > 0 => useCount'[id] > 0
                     /\ authorized[id] > 0 => authorized'[id] > 0

-----------------------------------------------------------------------------
(* All capabilities the gateway issues have quota 1.                       *)
LEMMA QuotaOne == \A body \in Contents : body.quota = 1 /\ body.lifetime \in Int
<1>1. \A s, c, k : /\ RequestCapability(s, c, k).quota = 1
                   /\ RequestCapability(s, c, k).lifetime \in Int
  BY DEF RequestCapability
<1>2. \A p : PurchaseCapability(p).quota = 1 /\ PurchaseCapability(p).lifetime \in Int
  BY DEF PurchaseCapability, RequestCapability
<1> QED BY <1>1, <1>2 DEF Contents

(* A step of IDAP either leaves the counts alone or records a use.         *)
LEMMA StepCounts ==
  ASSUME NEW w \in Workers, Auth!TypeOK, Auth!Step(w)
  PROVE  /\ UNCHANGED <<caps, generation>>
         /\ \/ UNCHANGED <<useCount, authorized>>
            \/ /\ call[w].id \in CapIds /\ caps[call[w].id] # NoCap
               /\ \E n \in Nat : useCount' = [useCount EXCEPT ![call[w].id] = n + 1]
               /\ authorized' = [authorized EXCEPT ![call[w].id] = @ + 1]
<1> USE DEF Auth!ledger, Auth!history
<1>1. CASE Auth!OpenCapability(w)
  BY <1>1 DEF Auth!OpenCapability
<1>2. CASE Auth!ResolveKeys(w)
  BY <1>2 DEF Auth!ResolveKeys
<1>3. CASE Auth!CheckPolicy(w)
  BY <1>3 DEF Auth!CheckPolicy
<1>4. CASE Auth!CheckExpiry(w)
  BY <1>4 DEF Auth!CheckExpiry
<1>5. CASE Auth!CheckReplay(w)
  BY <1>5 DEF Auth!CheckReplay
<1>6. CASE Auth!CheckQuota(w)
  BY <1>6 DEF Auth!CheckQuota
<1>7. CASE Auth!Handshake(w)
  BY <1>7 DEF Auth!Handshake
<1>8. CASE Auth!MarkSeen(w)
  BY <1>8 DEF Auth!MarkSeen
<1>9. CASE Auth!ReadUseCount(w)
  BY <1>9 DEF Auth!ReadUseCount
<1>10. CASE Auth!WriteUseCount(w)
  <2>1. /\ pc[w] = "write" /\ count[w] \in Nat
        /\ call[w].id \in CapIds /\ caps[call[w].id] # NoCap
    BY <1>10 DEF Auth!WriteUseCount, Auth!TypeOK, Auth!CallType
  <2> QED BY <1>10, <2>1 DEF Auth!WriteUseCount
<1> QED BY <1>1, <1>2, <1>3, <1>4, <1>5, <1>6, <1>7, <1>8, <1>9, <1>10 DEF Auth!Step

LEMMA CapsStep ==
  ASSUME Auth!TypeOK, CapsInv, IdapMove
  PROVE  CapsInv' /\ (generation' = generation => CountsStay)
<1>1. /\ useCount \in [CapIds -> Nat] /\ authorized \in [CapIds -> Nat]
      /\ generation \in Nat /\ DOMAIN caps = CapIds
      /\ \A id \in CapIds : caps[id] # NoCap => caps[id].generation \in Nat
  BY DEF Auth!TypeOK, Auth!CapType
<1>2. CASE UNCHANGED idapVars
  BY <1>2 DEF idapVars, CapsInv, CountsStay
<1>3. ASSUME NEW w \in Workers, Auth!Step(w)
      PROVE  CapsInv' /\ CountsStay
  BY <1>1, <1>3, StepCounts DEF CapsInv, CountsStay
<1>4. ASSUME NEW w \in Workers, NEW id \in CapIds, NEW nonce \in Nonces \cup {NoNonce},
             NEW v \in Variants, Auth!Present(w, id, nonce, v)
      PROVE  CapsInv' /\ CountsStay
  BY <1>4 DEF Auth!Present, Auth!ledger, Auth!history, CapsInv, CountsStay
<1>5. CASE Auth!Tick
  BY <1>5 DEF Auth!Tick, Auth!ledger, Auth!history, CapsInv, CountsStay
<1>6. CASE Auth!ResetRuntime
  <2>1. UNCHANGED <<caps, authorized>> /\ generation' = generation + 1
    BY <1>6 DEF Auth!ResetRuntime, Auth!history
  <2> QED BY <1>1, <2>1 DEF CapsInv
<1>7. ASSUME NEW id \in CapIds, NEW body \in Contents, NEW g \in 1 .. generation,
             Auth!Issue(id, body, g)
      PROVE  CapsInv' /\ CountsStay
  <2>1. /\ caps[id] = NoCap
        /\ caps' = [caps EXCEPT ![id] =
             [body |-> body, generation |-> g, expiry |-> now + body.lifetime]]
        /\ UNCHANGED <<useCount, authorized, generation>>
    BY <1>7 DEF Auth!Issue, Auth!ledger, Auth!history
  <2>2. /\ caps'[id].generation = g /\ caps'[id].body = body /\ caps'[id] # NoCap
        /\ \A i \in CapIds : i # id => caps'[i] = caps[i]
    BY <1>1, <1>7, <2>1, IssueFacts
  <2>3. g <= generation /\ body.quota = 1
    BY <1>1, QuotaOne
  <2> QED BY <2>1, <2>2, <2>3 DEF CapsInv, CountsStay
<1> QED BY <1>2, <1>3, <1>4, <1>5, <1>6, <1>7 DEF IdapMove, Auth!Next

-----------------------------------------------------------------------------
LEMMA UntouchedSpend ==
  ASSUME NEW v \in Workers, WorkerInv(v), WorkerSpend(v), CountsStay,
         stage'[v] = stage[v], request'[v] = request[v], cap'[v] = cap[v],
         pc'[v] = pc[v], outcome'[v] = outcome[v]
  PROVE  WorkerSpend(v)'
<1>1. stage[v] = "await" => cap[v] \in CapIds
  BY DEF WorkerInv, Holding, Chosen, Ready
<1> QED BY <1>1 DEF WorkerSpend, Refusing, CountsStay

(* Steps to the other stages owe nothing.                                  *)
LEMMA OtherStages ==
  ASSUME NEW v \in Workers, stage'[v] \notin Granted \cup {"await"}
  PROVE  WorkerSpend(v)'
BY DEF WorkerSpend, Granted

(* Inside IDAP: the replayed capability is not opened, or not authorized.   *)
LEMMA IdapStepSpend ==
  ASSUME Inv, CapsInv, NEW w \in Workers, WorkerSpend(w), CountsStay, IdapStep(w)
  PROVE  WorkerSpend(w)'
<1>1. /\ stage[w] = "await" /\ Auth!Step(w) /\ UNCHANGED <<stage, request, cap>>
  BY DEF IdapStep, handlers
<1>2. /\ pc[w] # "idle" /\ call[w] = Presented(w) /\ cap[w] \in CapIds
      /\ caps[cap[w]] # NoCap
      /\ DOMAIN pc = Workers /\ DOMAIN outcome = Workers
  BY <1>1, IdapStepFacts DEF Inv, TypeOK, Auth!TypeOK, WorkerInv, Holding, Chosen, Ready
<1>3. SUFFICES ASSUME request[w].uses > 0 PROVE Refusing(w)'
  BY <1>1 DEF WorkerSpend, Granted
<1>4. Refusing(w) /\ authorized'[cap[w]] > 0 /\ (useCount[cap[w]] > 0 => useCount'[cap[w]] > 0)
  BY <1>1, <1>2, <1>3 DEF WorkerSpend, CountsStay, Refusing
<1>5. /\ call[w].id = cap[w] /\ call[w].variant.sealed
      /\ Auth!CanOpen(call[w]) => useCount[cap[w]] > 0
      /\ useCount[cap[w]] > 0 => ~ Auth!UsageAvailable(call[w])
  <2>1. call[w].id = cap[w] /\ call[w].variant.sealed
    BY <1>2 DEF Presented, Wrapped
  <2>2. Auth!CanOpen(call[w]) => useCount[cap[w]] > 0
    BY <1>2, <1>4, <2>1 DEF Auth!CanOpen, CapsInv, Refusing
  <2>3. useCount[cap[w]] > 0 => ~ Auth!UsageAvailable(call[w])
    <3>1. caps[cap[w]].body.quota = 1 /\ useCount[cap[w]] \in Nat
      BY <1>2 DEF CapsInv, Inv, TypeOK, Auth!TypeOK
    <3> QED BY <2>1, <3>1 DEF Auth!UsageAvailable
  <2> QED BY <2>1, <2>2, <2>3
<1>6. SUFFICES \/ pc'[w] \in Unopened /\ useCount[cap[w]] > 0
               \/ pc'[w] = "idle" /\ outcome'[w] # "AUTHORIZED"
  BY <1>1, <1>4 DEF Refusing
<1>7. pc[w] = "open" \/ (pc[w] \in Unopened /\ useCount[cap[w]] > 0)
  BY <1>2, <1>4 DEF Refusing
<1> USE DEF Auth!Proceed, Auth!Answer, Unopened
<1>8. CASE Auth!OpenCapability(w)
  BY <1>2, <1>5, <1>7, <1>8 DEF Auth!OpenCapability
<1>9. CASE Auth!ResolveKeys(w)
  BY <1>2, <1>7, <1>9 DEF Auth!ResolveKeys
<1>10. CASE Auth!CheckPolicy(w)
  BY <1>2, <1>7, <1>10 DEF Auth!CheckPolicy
<1>11. CASE Auth!CheckExpiry(w)
  BY <1>2, <1>7, <1>11 DEF Auth!CheckExpiry
<1>12. CASE Auth!CheckReplay(w)
  BY <1>2, <1>7, <1>12 DEF Auth!CheckReplay
<1>13. CASE Auth!CheckQuota(w)
  BY <1>2, <1>5, <1>7, <1>13 DEF Auth!CheckQuota
<1>14. CASE Auth!Handshake(w) \/ Auth!MarkSeen(w) \/ Auth!ReadUseCount(w) \/ Auth!WriteUseCount(w)
  BY <1>7, <1>14
     DEF Auth!Handshake, Auth!MarkSeen, Auth!ReadUseCount, Auth!WriteUseCount
<1> QED BY <1>1, <1>8, <1>9, <1>10, <1>11, <1>12, <1>13, <1>14 DEF Auth!Step

(* One thread's step, the rest as before.                                  *)
LEMMA QuietSpend ==
  ASSUME Inv, SpendInv, NEW w \in Workers, QuietStep(w), CountsStay, WorkerSpend(w)'
  PROVE  \A v \in Workers : WorkerSpend(v)'
<1> SUFFICES ASSUME NEW v \in Workers, v # w PROVE WorkerSpend(v)'
  OBVIOUS
<1> QED BY UntouchedSpend DEF QuietStep, HandlersMove, OthersWait, Inv, SpendInv

LEMMA SpendStep == ASSUME Inv, SpendInv, [Next]_vars PROVE SpendInv'
<1>1. CapsInv' /\ (generation' = generation => CountsStay)
  BY NextKept, CapsStep DEF Inv, TypeOK, SpendInv
<1>2. ASSUME NEW w \in Workers, QuietStep(w), WorkerSpend(w)'
      PROVE  SpendInv'
  BY <1>1, <1>2, QuietSpend DEF QuietStep, SpendInv, SpentStaysSpent
<1>3. ASSUME NEW w \in Workers, NEW r \in Requests, NEW a \in Authorizations(r), Invoke(w, r, a)
      PROVE  SpendInv'
  <2>1. stage'[w] = "ensure"
    BY <1>3 DEF Invoke, Goto, Inv, TypeOK, HandlersTyped
  <2> QED BY <1>2, <1>3, <2>1, InvokeStep, OtherStages DEF Granted
<1>4. ASSUME NEW w \in Workers, FindInitialized(w) \/ Discover(w) \/ OpenDelegated(w)
                                  \/ MintCapability(w)
      PROVE  SpendInv'
  <2>1. stage'[w] \in {"discover", "prepare", "authorize", "idle"}
    BY <1>4 DEF FindInitialized, Discover, OpenDelegated, MintCapability, LogFails,
                Continue, Respond, Goto, Inv, TypeOK, HandlersTyped
  <2>2. QuietStep(w)
    BY <1>4, FindInitializedStep, DiscoverStep, OpenDelegatedStep, MintStep
  <2> QED BY <1>2, <2>1, <2>2, OtherStages DEF Granted
<1>5. ASSUME NEW w \in Workers, CallIdap(w) PROVE SpendInv'
  <2>1. CASE LogFails(w)
    <3>1. stage'[w] = "idle"
      BY <2>1 DEF LogFails, Respond, Inv, TypeOK, HandlersTyped
    <3> QED BY <1>2, <1>5, <3>1, CallIdapStep, OtherStages DEF Granted
  <2>2. CASE ~ LogFails(w)
    <3>1. /\ stage[w] = "authorize" /\ UNCHANGED <<cap, authorized>>
          /\ request' = [request EXCEPT ![w].uses = authorized[cap[w]]]
          /\ stage' = [stage EXCEPT ![w] = "await"]
          /\ pc' = [pc EXCEPT ![w] = "open"]
      BY <1>5, <2>2 DEF CallIdap, Goto, Auth!Present, Auth!history
    <3>2. request[w] \in RequestRecord
      BY <3>1 DEF Inv, WorkerInv
    <3>3. /\ request'[w].uses = authorized[cap[w]]
          /\ stage'[w] = "await" /\ pc'[w] = "open"
      BY <3>1, <3>2 DEF Inv, TypeOK, HandlersTyped, Auth!TypeOK, RequestRecord
    <3>4. WorkerSpend(w)'
      BY <3>1, <3>3 DEF WorkerSpend, Refusing, Granted
    <3> QED BY <1>2, <1>5, <3>4, CallIdapStep
  <2> QED BY <2>1, <2>2
<1>6. ASSUME NEW w \in Workers, IdapStep(w) PROVE SpendInv'
  <2>1. QuietStep(w)
    BY <1>6, IdapStepStep
  <2>2. WorkerSpend(w)'
    BY <1>1, <1>6, <2>1, IdapStepSpend DEF QuietStep, SpendInv
  <2> QED BY <1>2, <2>1, <2>2
<1>7. ASSUME NEW w \in Workers, ReturnFromIdap(w) \/ VerifyTranscript(w) PROVE SpendInv'
  <2>1. request[w] \in RequestRecord /\ WorkerSpend(w)
    BY <1>7 DEF Inv, WorkerInv, SpendInv, ReturnFromIdap, VerifyTranscript
  <2>2. \/ stage'[w] = "idle"
        \/ stage'[w] \in Granted /\ request' = request /\ request[w].uses = 0
    <3>1. CASE ReturnFromIdap(w)
      <4>1. stage[w] = "await" /\ pc[w] = "idle" /\ request[w].uses \in Nat
        BY <2>1, <3>1 DEF ReturnFromIdap, RequestRecord
      <4>2. outcome[w] = "AUTHORIZED" => request[w].uses = 0
        BY <2>1, <4>1 DEF WorkerSpend, Refusing, Unopened
      <4> QED BY <3>1, <4>2 DEF ReturnFromIdap, LogFails, Continue, Respond, Goto, Granted,
                                Inv, TypeOK, HandlersTyped
    <3>2. CASE VerifyTranscript(w)
      BY <2>1, <3>2 DEF VerifyTranscript, Continue, Respond, Goto, Granted, WorkerSpend,
                        Inv, TypeOK, HandlersTyped
    <3> QED BY <1>7, <3>1, <3>2
  <2>3. WorkerSpend(w)'
    BY <2>2 DEF WorkerSpend, Granted
  <2> QED BY <1>2, <1>7, <2>3, ReturnStep
<1>8. ASSUME NEW w \in Workers, StartSetup(w) PROVE SpendInv'
  <2>1. initialized' = FALSE /\ tickets' = tickets
    BY <1>8 DEF StartSetup, ledgers, Inv, TypeOK, HandlersTyped
  <2>2. \A v \in Workers : stage'[v] \notin Ready
    BY <1>8, <2>1, StartSetupStep DEF Kept, WorkerInv
  <2>3. \A v \in Workers : WorkerSpend(v)'
    BY <2>2, OtherStages DEF Ready, Granted
  <2> QED BY <1>1, <2>1, <2>3 DEF SpendInv, SpentStaysSpent
<1>9. ASSUME NEW w \in Workers, SetupStep(w) \/ Delegate(w) PROVE SpendInv'
  <2>1. /\ stage'[w] \in {"setup", "discover", "idle"}
        /\ \A v \in Workers : v # w => /\ stage'[v] = stage[v]
                                       /\ request'[v] = request[v]
                                       /\ cap'[v] = cap[v]
    BY <1>9 DEF SetupStep, Delegate, LogFails, Continue, Respond, Goto,
                Inv, TypeOK, HandlersTyped
  <2>2. UNCHANGED <<generation, pc, outcome, tickets>>
    BY <1>9 DEF SetupStep, Delegate, Auth!Issue, Auth!threads, idapVars, ledgers
  <2>3. ASSUME NEW v \in Workers PROVE WorkerSpend(v)'
    <3>1. CASE v = w
      BY <2>1, <3>1, OtherStages DEF Granted
    <3>2. CASE v # w
      BY <1>1, <2>1, <2>2, <3>2, UntouchedSpend DEF Inv, SpendInv
    <3> QED BY <3>1, <3>2
  <2> QED BY <1>1, <2>2, <2>3 DEF SpendInv, SpentStaysSpent
<1>12. ASSUME NEW w \in Workers, ExecuteService(w) PROVE SpendInv'
  <2>1. /\ stage[w] = "execute"
        /\ \/ stage'[w] = "idle"
           \/ stage'[w] = "delegate" /\ request' = request
        /\ \A v \in Workers : v # w => /\ stage'[v] = stage[v]
                                       /\ request'[v] = request[v]
                                       /\ cap'[v] = cap[v]
    BY <1>12 DEF ExecuteService, LogFails, Continue, Respond, Goto, Inv, TypeOK, HandlersTyped
  <2>2. UNCHANGED <<generation, pc, outcome>>
    BY <1>12 DEF ExecuteService, idapVars
  <2>3. request[w].uses = 0
    BY <2>1 DEF SpendInv, WorkerSpend, Granted
  <2>4. \A t \in tickets' : t \in tickets \/ t.uses = request[w].uses
    BY <1>12 DEF ExecuteService
  <2>5. ASSUME NEW v \in Workers PROVE WorkerSpend(v)'
    <3>1. CASE v = w
      BY <2>1, <2>3, <3>1 DEF WorkerSpend, Granted
    <3>2. CASE v # w
      BY <1>1, <2>1, <2>2, <3>2, UntouchedSpend DEF Inv, SpendInv
    <3> QED BY <3>1, <3>2
  <2> QED BY <1>1, <2>3, <2>4, <2>5 DEF SpendInv, SpentStaysSpent
<1>10. CASE Crash
  <2>1. \A w \in Workers : stage'[w] = "idle"
    BY <1>10 DEF Crash
  <2>2. tickets' = tickets
    BY <1>10 DEF Crash, ledgers
  <2> QED BY <1>1, <2>1, <2>2, OtherStages DEF SpendInv, SpentStaysSpent, Granted
<1>11. CASE Tick \/ UNCHANGED vars
  <2>1. UNCHANGED <<generation, stage, request, cap, pc, outcome, tickets>>
    BY <1>11 DEF Tick, Auth!Tick, Auth!threads, runtime, handlers, ledgers, vars, idapVars
  <2> QED BY <1>1, <2>1, UntouchedSpend DEF SpendInv, SpentStaysSpent, Inv
<1> QED BY <1>3, <1>4, <1>5, <1>6, <1>7, <1>8, <1>9, <1>10, <1>11, <1>12
        DEF Next, Handle

LEMMA InitSpend == Init => SpendInv
  BY DEF Init, Auth!Init, SpendInv, CapsInv, SpentStaysSpent, WorkerSpend, Granted

LEMMA SpendInvariant == Spec => []SpendInv
<1>1. Inv /\ SpendInv /\ [Next]_vars => SpendInv'
  BY SpendStep
<1> QED BY <1>1, InitSpend, Invariant, PTL DEF Spec

(* A delegated capability that was answered AUTHORIZED buys nothing for a   *)
(* request that enters IDAP later, whatever threads, restarts or failures. *)
THEOREM SpentIsSpent == Spec => []SpentStaysSpent
<1>1. SpendInv => SpentStaysSpent
  BY DEF SpendInv
<1> QED BY <1>1, SpendInvariant, PTL
-----------------------------------------------------------------------------
(* Who is served and told so.  Requests are numbered apart; what was        *)
(* executed or used up for the request of a thread shows in its stage.      *)
Granting(w) == stage[w] = "await" /\ pc[w] = "idle" /\ outcome[w] = "AUTHORIZED"

Numbered(w) ==
  stage[w] # "idle" =>
    /\ request[w].number <= requests
    /\ \A v \in Workers : v # w /\ stage[v] # "idle" => request[v].number # request[w].number

Shown(w) ==
  stage[w] # "idle" =>
    /\ Executed(request[w].number, paid \cup tickets) => stage[w] = "delegate"
    /\ UsedUp(request[w].number, granted) => stage[w] \in Granted \/ Granting(w)

AnswersInv ==
  /\ requests \in Nat
  /\ \A n \in Nonces : Executed(n, paid \cup tickets) \/ UsedUp(n, granted) => n <= requests
  /\ \A w \in Workers : Numbered(w) /\ Shown(w)

(* What a step does for the request of the thread w, and to the others.     *)
Serves(w) ==
  /\ \A v \in Workers : v # w =>
       /\ UNCHANGED <<stage[v], request[v], response[v]>>
       /\ Granting(v) => Granting(v)'
  /\ \A n \in Nonces : Executed(n, paid' \cup tickets') /\ ~ Executed(n, paid \cup tickets) =>
       n = request[w].number /\ stage[w] = "execute" /\ stage'[w] \in {"delegate", "idle"}
  /\ \A n \in Nonces : UsedUp(n, granted') /\ ~ UsedUp(n, granted) =>
       n = request[w].number /\ stage[w] = "await" /\ Granting(w)'
  /\ requests' = requests
  /\ stage[w] # "idle"
  /\ stage'[w] # "idle" => request'[w].number = request[w].number
  /\ stage[w] = "delegate" => stage'[w] = "idle"
  /\ stage[w] \in Granted \/ Granting(w) => stage'[w] \in Granted \cup {"idle"}

(* The answer, if the step is one.                                         *)
Honest(w) ==
  /\ response'[w] # response[w] /\ response'[w] = 200 /\ request[w].action \in {Pay, Buy} =>
       Executed(request[w].number, paid' \cup tickets')
  /\ response'[w] # response[w] /\ response'[w] \in {403, 404} =>
       /\ stage[w] \notin Granted /\ ~ Granting(w)
       /\ UNCHANGED <<paid, tickets, granted>>

LEMMA StepGrants ==
  ASSUME NEW w \in Workers, Auth!TypeOK, Auth!Step(w)
  PROVE  \/ granted' = granted
         \/ /\ granted' = granted \cup {Auth!PresentationId(call[w])}
            /\ pc'[w] = "idle" /\ outcome'[w] = "AUTHORIZED"
<1> USE DEF Auth!ledger, Auth!history
<1>1. CASE Auth!OpenCapability(w)
  BY <1>1 DEF Auth!OpenCapability
<1>2. CASE Auth!ResolveKeys(w)
  BY <1>2 DEF Auth!ResolveKeys
<1>3. CASE Auth!CheckPolicy(w)
  BY <1>3 DEF Auth!CheckPolicy
<1>4. CASE Auth!CheckExpiry(w)
  BY <1>4 DEF Auth!CheckExpiry
<1>5. CASE Auth!CheckReplay(w)
  BY <1>5 DEF Auth!CheckReplay
<1>6. CASE Auth!CheckQuota(w)
  BY <1>6 DEF Auth!CheckQuota
<1>7. CASE Auth!Handshake(w)
  BY <1>7 DEF Auth!Handshake
<1>8. CASE Auth!MarkSeen(w)
  BY <1>8 DEF Auth!MarkSeen
<1>9. CASE Auth!ReadUseCount(w)
  BY <1>9 DEF Auth!ReadUseCount
<1>10. CASE Auth!WriteUseCount(w)
  <2>1. DOMAIN pc = Workers /\ DOMAIN outcome = Workers
    BY DEF Auth!TypeOK
  <2> QED BY <1>10, <2>1 DEF Auth!WriteUseCount, Auth!Answer
<1> QED BY <1>1, <1>2, <1>3, <1>4, <1>5, <1>6, <1>7, <1>8, <1>9, <1>10 DEF Auth!Step

(* The handlers of the others, whatever the thread answers or does next.    *)
Elsewhere(w) ==
  \A v \in Workers : v # w => UNCHANGED <<stage[v], request[v], response[v]>>

LEMMA RespondElsewhere ==
  ASSUME TypeOK, NEW w \in Workers, NEW code, Respond(w, code)
  PROVE  Elsewhere(w) /\ stage'[w] = "idle" /\ requests' = requests /\ response'[w] = code
BY DEF Respond, Elsewhere, TypeOK, HandlersTyped

LEMMA ContinueElsewhere ==
  ASSUME TypeOK, NEW w \in Workers, NEW s, Continue(w, s)
  PROVE  /\ Elsewhere(w) /\ stage'[w] = s /\ requests' = requests
         /\ UNCHANGED <<request, response>>
BY DEF Continue, Goto, Elsewhere, TypeOK, HandlersTyped

(* Steps that record nothing.                                              *)
LEMMA SilentStep ==
  ASSUME Inv, NEW w \in Workers, stage[w] # "idle", Elsewhere(w), UNCHANGED <<requests, granted>>,
         paid' \cup tickets' = paid \cup tickets,
         \A v \in Workers : v # w /\ Granting(v) => pc'[v] = pc[v] /\ outcome'[v] = outcome[v],
         stage'[w] # "idle" => request'[w].number = request[w].number,
         stage[w] = "delegate" => stage'[w] = "idle",
         stage[w] \in Granted \/ Granting(w) => stage'[w] \in Granted \cup {"idle"}
  PROVE  Serves(w)
BY DEF Serves, Elsewhere, Granting

LEMMA HandleServes ==
  ASSUME Inv, NEW w \in Workers, Handle(w)
  PROVE  Serves(w) /\ Honest(w)
<1>1. /\ TypeOK
      /\ stage[w] # "idle"
      /\ request[w] \in RequestRecord
  <2>1. stage[w] # "idle"
    BY DEF Handle, FindInitialized, StartSetup, SetupStep, Discover, OpenDelegated,
           MintCapability, CallIdap, IdapStep, ReturnFromIdap, VerifyTranscript,
           ExecuteService, Delegate
  <2> QED BY <2>1 DEF Inv, WorkerInv
<1>2. CASE FindInitialized(w)
  <2>1. Continue(w, "discover") /\ stage[w] = "ensure" /\ UNCHANGED <<pc, outcome, granted, paid, tickets>>
    BY <1>2 DEF FindInitialized, idapVars, ledgers
  <2> QED BY <1>1, <2>1, ContinueElsewhere, SilentStep DEF Granted, Granting, Honest
<1>3. CASE StartSetup(w)
  <2>1. /\ Continue(w, "setup") /\ stage[w] = "ensure" /\ lock = NoWorker /\ ~initialized
        /\ UNCHANGED <<granted, paid, tickets>>
    BY <1>3 DEF StartSetup, Auth!ResetRuntime, Auth!history, ledgers
  <2>2. \A v \in Workers : ~ Granting(v)
    BY <2>1 DEF Inv, WorkerInv, Granting, Ready
  <2> QED BY <1>1, <2>1, <2>2, ContinueElsewhere, SilentStep DEF Granted, Honest
<1>4. CASE SetupStep(w)
  <2>1. /\ Continue(w, "setup") \/ Continue(w, "discover") \/ Respond(w, 500)
        /\ stage[w] = "setup" /\ UNCHANGED <<pc, outcome, granted, paid, tickets>>
    BY <1>4 DEF SetupStep, idapVars, ledgers
  <2> QED BY <1>1, <2>1, ContinueElsewhere, RespondElsewhere, SilentStep
          DEF Granted, Granting, Honest
<1>5. CASE Discover(w)
  <2>1. /\ Continue(w, "prepare") \/ Respond(w, 404) \/ Respond(w, 500)
        /\ stage[w] = "discover" /\ UNCHANGED <<pc, outcome, granted, paid, tickets>>
    BY <1>5 DEF Discover, idapVars, ledgers
  <2> QED BY <1>1, <2>1, ContinueElsewhere, RespondElsewhere, SilentStep
          DEF Granted, Granting, Honest
<1>6. CASE OpenDelegated(w)
  <2>1. /\ \/ Goto(w, "authorize") /\ UNCHANGED <<request, response, requests>>
           \/ Respond(w, 403)
        /\ stage[w] = "prepare" /\ UNCHANGED <<pc, outcome, granted, paid, tickets>>
    BY <1>6 DEF OpenDelegated, idapVars, ledgers
  <2>2. CASE Goto(w, "authorize") /\ UNCHANGED <<request, response, requests>>
    <3>1. Elsewhere(w) /\ stage'[w] = "authorize"
      BY <1>1, <2>2 DEF Goto, Elsewhere, TypeOK, HandlersTyped
    <3> QED BY <1>1, <2>1, <2>2, <3>1, SilentStep DEF Granted, Granting, Honest
  <2>3. CASE Respond(w, 403)
    BY <1>1, <2>1, <2>3, RespondElsewhere, SilentStep DEF Granted, Granting, Honest
  <2> QED BY <2>1, <2>2, <2>3
<1>7. CASE MintCapability(w)
  <2>1. /\ Goto(w, "authorize") /\ UNCHANGED <<request, response, requests>>
        /\ stage[w] = "prepare" /\ UNCHANGED <<pc, outcome, granted, paid, tickets>>
    BY <1>7 DEF MintCapability, Auth!Issue, Auth!threads, Auth!history, ledgers
  <2>2. Elsewhere(w) /\ stage'[w] = "authorize"
    BY <1>1, <2>1 DEF Goto, Elsewhere, TypeOK, HandlersTyped
  <2> QED BY <1>1, <2>1, <2>2, SilentStep DEF Granted, Granting, Honest
<1>8. CASE CallIdap(w)
  <2>1. stage[w] = "authorize" /\ UNCHANGED <<granted, paid, tickets>>
    BY <1>8 DEF CallIdap, Auth!Present, Auth!history, idapVars, ledgers
  <2>2. CASE LogFails(w) /\ UNCHANGED idapVars
    BY <1>1, <2>1, <2>2, RespondElsewhere, SilentStep
       DEF LogFails, idapVars, Granted, Granting, Honest
  <2>3. CASE ~ (LogFails(w) /\ UNCHANGED idapVars)
    <3>1. /\ Auth!Present(w, cap[w], request[w].number,
                          Wrapped(request[w].action, request[w].action, request[w].payload))
          /\ request' = [request EXCEPT ![w].uses = authorized[cap[w]]]
          /\ stage' = [stage EXCEPT ![w] = "await"]
          /\ UNCHANGED <<response, requests>>
      BY <1>8, <2>3 DEF CallIdap, Goto
    <3>2. /\ Elsewhere(w) /\ stage'[w] = "await"
          /\ request'[w].number = request[w].number
      BY <1>1, <3>1 DEF Elsewhere, TypeOK, HandlersTyped, RequestRecord
    <3>3. \A v \in Workers : v # w => pc'[v] = pc[v] /\ outcome'[v] = outcome[v]
      BY <1>1, <3>1 DEF Auth!Present, TypeOK, Auth!TypeOK
    <3> QED BY <1>1, <2>1, <3>1, <3>2, <3>3, SilentStep DEF Granted, Granting, Honest
  <2> QED BY <2>2, <2>3
<1>9. CASE IdapStep(w)
  <2>1. /\ stage[w] = "await" /\ Auth!Step(w)
        /\ UNCHANGED <<stage, request, response, requests, paid, tickets>>
    BY <1>9 DEF IdapStep, handlers, ledgers
  <2>2. /\ pc[w] # "idle"
        /\ \A v \in Workers : v # w => pc'[v] = pc[v] /\ outcome'[v] = outcome[v]
    BY <1>1, <2>1, IdapStepFacts DEF TypeOK
  <2>3. \A n \in Nonces : UsedUp(n, granted') /\ ~ UsedUp(n, granted) =>
          n = request[w].number /\ Granting(w)'
    <3>1. call[w] = Presented(w)
      BY <2>2 DEF Inv, WorkerInv
    <3>2. \A n \in Nonces : Auth!PresentationId(call[w])[2] = <<"nonce", n>>
            => n = request[w].number
      BY <3>1 DEF Auth!PresentationId, Presented
    <3> QED BY <1>1, <2>1, <3>2, StepGrants DEF TypeOK, UsedUp, Granting
  <2> QED BY <1>1, <2>1, <2>2, <2>3 DEF Serves, Granted, Granting, Honest
<1>10. CASE ReturnFromIdap(w)
  <2>1. /\ stage[w] = "await" /\ UNCHANGED <<pc, outcome, granted, paid, tickets>>
        /\ \/ Continue(w, "verify")
           \/ outcome[w] = "REJECTED" /\ Respond(w, 403)
           \/ Respond(w, 500)
    BY <1>10 DEF ReturnFromIdap, LogFails, idapVars, ledgers
  <2> QED BY <1>1, <2>1, ContinueElsewhere, RespondElsewhere, SilentStep
          DEF Granted, Granting, Honest
<1>11. CASE VerifyTranscript(w)
  <2>1. /\ stage[w] = "verify" /\ UNCHANGED <<pc, outcome, granted, paid, tickets>>
        /\ Continue(w, "execute") \/ Respond(w, 500)
    BY <1>11 DEF VerifyTranscript, idapVars, ledgers
  <2> QED BY <1>1, <2>1, ContinueElsewhere, RespondElsewhere, SilentStep
          DEF Granted, Granting, Honest
<1>12. CASE ExecuteService(w)
  <2> DEFINE r == request[w]
             entry == [number |-> r.number, capability |-> cap[w], payload |-> r.payload,
                       constraints |-> r.constraints, uses |-> r.uses]
  <2>1. /\ stage[w] = "execute" /\ UNCHANGED <<pc, outcome, granted>>
        /\ tickets' = IF r.action = Buy THEN tickets \cup {entry} ELSE tickets
        /\ paid' = IF r.action = Pay THEN paid \cup {entry} ELSE paid
        /\ \/ r.action = Pay /\ Continue(w, "delegate")
           \/ r.action # Pay /\ Respond(w, 200)
           \/ Respond(w, 500)
    BY <1>12 DEF ExecuteService, LogFails, idapVars
  <2>2. \A n \in Nonces : Executed(n, paid' \cup tickets') /\ ~ Executed(n, paid \cup tickets)
          => n = r.number
    BY <2>1 DEF Executed
  <2>3. r.action \in {Pay, Buy} => Executed(r.number, paid' \cup tickets')
    <3>1. entry.number = r.number
      OBVIOUS
    <3>2. r.action \in {Pay, Buy} => entry \in paid' \cup tickets'
      BY <2>1
    <3> QED BY <3>1, <3>2 DEF Executed
  <2>4. /\ Elsewhere(w) /\ requests' = requests
        /\ \/ stage'[w] = "delegate" /\ UNCHANGED <<request, response>>
           \/ stage'[w] = "idle" /\ response'[w] \in {200, 500}
    BY <1>1, <2>1, ContinueElsewhere, RespondElsewhere
  <2>5. Serves(w)
    BY <2>1, <2>2, <2>4 DEF Serves, Elsewhere, Granted, Granting
  <2>6. Honest(w)
    BY <2>3, <2>4 DEF Honest
  <2> QED BY <2>5, <2>6
<1>13. CASE Delegate(w)
  <2>1. /\ stage[w] = "delegate" /\ UNCHANGED <<pc, outcome, granted, paid, tickets>>
        /\ Respond(w, 200) \/ Respond(w, 500)
    BY <1>13 DEF Delegate, LogFails, Auth!Issue, Auth!threads, Auth!history, idapVars
  <2>2. Executed(request[w].number, paid' \cup tickets')
    BY <2>1 DEF Inv, WorkerInv, Executed
  <2> QED BY <1>1, <2>1, <2>2, RespondElsewhere, SilentStep DEF Granted, Granting, Honest
<1> QED BY <1>2, <1>3, <1>4, <1>5, <1>6, <1>7, <1>8, <1>9, <1>10, <1>11, <1>12, <1>13
        DEF Handle
(* Each request keeps its number to itself, and what was executed or used   *)
(* up for it shows.                                                        *)
LEMMA AnswersStep == ASSUME Inv, AnswersInv, [Next]_vars PROVE AnswersInv'
<1>1. \A v \in Workers : stage[v] # "idle" => request[v].number \in Nonces
  BY DEF Inv, WorkerInv, RequestRecord
<1>2. /\ DOMAIN stage = Workers /\ DOMAIN request = Workers
      /\ \A n \in Nonces : n \in Nat
  BY DEF Inv, TypeOK, HandlersTyped, Nonces
<1>3. ASSUME NEW w \in Workers, NEW r \in Requests, NEW a \in Authorizations(r), Invoke(w, r, a)
      PROVE  AnswersInv'
  <2> DEFINE q == [action |-> r.action, provider |-> r.provider, payload |-> r.payload,
                   capability_action |-> r.capability_action, constraints |-> r.constraints,
                   authorization |-> a, number |-> requests + 1, uses |-> 0]
  <2>1. /\ requests' = requests + 1
        /\ request' = [request EXCEPT ![w] = q]
        /\ stage' = [stage EXCEPT ![w] = "ensure"]
        /\ stage[w] = "idle"
        /\ UNCHANGED <<pc, outcome, granted, paid, tickets>>
    BY <1>3 DEF Invoke, Goto, idapVars, ledgers
  <2>2. /\ stage'[w] = "ensure" /\ request'[w].number = requests + 1
        /\ \A v \in Workers : v # w => UNCHANGED <<stage[v], request[v]>>
    BY <1>2, <2>1
  <2>3. requests \in Nat /\ requests + 1 \in Nonces /\ ~ (requests + 1 <= requests)
    BY <1>3, LimitsAssumption DEF Invoke, AnswersInv, Nonces
  <2>4. Numbered(w)' /\ Shown(w)'
    <3>1. ASSUME NEW v \in Workers, v # w, stage[v] # "idle"
          PROVE  request[v].number # requests + 1
      BY <1>1, <1>2, <2>3, <3>1 DEF AnswersInv, Numbered
    <3>2. ~ Executed(requests + 1, paid \cup tickets) /\ ~ UsedUp(requests + 1, granted)
      BY <2>3 DEF AnswersInv
    <3> QED BY <2>1, <2>2, <2>3, <3>1, <3>2 DEF Numbered, Shown, Executed, UsedUp
  <2>5. ASSUME NEW v \in Workers, v # w PROVE Numbered(v)' /\ Shown(v)'
    <3>1. Numbered(v) /\ Shown(v)
      BY DEF AnswersInv
    <3>2. stage[v] # "idle" => request[v].number # requests + 1 /\ request[v].number <= requests + 1
      BY <1>1, <1>2, <2>3, <3>1 DEF Numbered
    <3>3. Shown(v)'
      BY <2>1, <2>2, <2>5, <3>1 DEF Shown, Executed, UsedUp, Granting
    <3> QED BY <2>1, <2>2, <2>5, <3>1, <3>2, <3>3 DEF Numbered
  <2>6. (requests \in Nat /\ \A n \in Nonces :
           Executed(n, paid \cup tickets) \/ UsedUp(n, granted) => n <= requests)'
    BY <1>2, <2>1, <2>3 DEF AnswersInv, Executed, UsedUp
  <2> QED BY <2>4, <2>5, <2>6 DEF AnswersInv
<1>4. ASSUME NEW w \in Workers, Handle(w) PROVE AnswersInv'
  <2>1. Serves(w)
    BY <1>4, HandleServes
  <2>2. ASSUME NEW v \in Workers PROVE Numbered(v)'
    <3>1. ASSUME NEW u \in Workers, stage'[u] # "idle"
          PROVE  stage[u] # "idle" /\ request'[u].number = request[u].number
      BY <2>1, <3>1 DEF Serves
    <3> QED BY <2>1, <2>2, <3>1 DEF Numbered, AnswersInv, Serves
  <2>3. Shown(w)'
    <3> SUFFICES ASSUME stage'[w] # "idle" PROVE Shown(w)'
      BY DEF Shown
    <3>1. /\ request'[w].number = request[w].number /\ request[w].number \in Nonces
          /\ stage[w] # "idle" /\ Shown(w)
      BY <1>1, <2>1 DEF Serves, AnswersInv
    <3>2. Executed(request[w].number, paid' \cup tickets') => stage'[w] = "delegate"
      BY <2>1, <3>1 DEF Serves, Shown
    <3>3. UsedUp(request[w].number, granted') => stage'[w] \in Granted \/ Granting(w)'
      BY <2>1, <3>1 DEF Serves, Shown
    <3> QED BY <3>1, <3>2, <3>3 DEF Shown
  <2>4. ASSUME NEW v \in Workers, v # w PROVE Shown(v)'
    <3> SUFFICES ASSUME stage'[v] # "idle" PROVE Shown(v)'
      BY DEF Shown
    <3>1. /\ UNCHANGED <<stage[v], request[v]>> /\ stage[v] # "idle"
          /\ Granting(v) => Granting(v)'
      BY <2>1, <2>4 DEF Serves
    <3>2. request[v].number # request[w].number /\ request[v].number \in Nonces
      BY <1>1, <2>1, <2>4, <3>1 DEF Serves, AnswersInv, Numbered
    <3>3. /\ Executed(request[v].number, paid' \cup tickets') =>
               Executed(request[v].number, paid \cup tickets)
          /\ UsedUp(request[v].number, granted') => UsedUp(request[v].number, granted)
      BY <2>1, <3>2 DEF Serves
    <3> QED BY <3>1, <3>3 DEF Shown, AnswersInv
  <2>5. (requests \in Nat /\ \A n \in Nonces :
           Executed(n, paid \cup tickets) \/ UsedUp(n, granted) => n <= requests)'
    BY <2>1 DEF Serves, AnswersInv, Numbered
  <2> QED BY <2>2, <2>3, <2>4, <2>5 DEF AnswersInv
<1>5. CASE Crash
  <2>1. /\ \A w \in Workers : stage'[w] = "idle"
        /\ UNCHANGED <<requests, granted, paid, tickets>>
    BY <1>5 DEF Crash, Auth!ResetRuntime, Auth!history, ledgers
  <2> QED BY <2>1 DEF AnswersInv, Numbered, Shown
<1>6. CASE Tick \/ UNCHANGED vars
  <2>1. UNCHANGED <<stage, request, requests, pc, outcome, granted, paid, tickets>>
    BY <1>6 DEF Tick, Auth!Tick, Auth!threads, Auth!history, handlers, ledgers, vars, idapVars
  <2> QED BY <2>1 DEF AnswersInv, Numbered, Shown, Granting
<1> QED BY <1>3, <1>4, <1>5, <1>6 DEF Next

LEMMA InitAnswers == Init => AnswersInv
  BY DEF Init, Auth!Init, AnswersInv, Numbered, Shown, Executed, UsedUp

LEMMA AnswersInvariant == Spec => []AnswersInv
<1>1. Inv /\ AnswersInv /\ [Next]_vars => AnswersInv'
  BY AnswersStep
<1> QED BY <1>1, InitAnswers, Invariant, PTL DEF Spec

(* A client that is told 200 has been served; one that is told 403 or 404   *)
(* has not, and its authorization was not used up for that request,         *)
(* whatever other requests, failures and restarts there are.               *)
THEOREM HonestAnswers == Spec => AnswersAreHonest
<1> DEFINE Told(w) ==
      LET executed == Executed(request[w].number, paid' \cup tickets')
      IN  /\ response'[w] = 200 /\ request[w].action \in {Pay, Buy} => executed
          /\ response'[w] \in {403, 404} => ~executed /\ ~UsedUp(request[w].number, granted')
<1>1. ASSUME Inv, AnswersInv, [Next]_vars, NEW w \in Workers, Answers(w)
      PROVE  Told(w)
  <2>1. CASE Handle(w)
    <3>1. Honest(w) /\ Serves(w) /\ stage[w] # "idle" /\ response'[w] # response[w]
      BY <1>1, <2>1, HandleServes DEF Answers
    <3>2. /\ Executed(request[w].number, paid \cup tickets) => stage[w] = "delegate"
          /\ UsedUp(request[w].number, granted) => stage[w] \in Granted \/ Granting(w)
      BY <1>1, <3>1 DEF AnswersInv, Shown
    <3>3. ASSUME response'[w] \in {403, 404}
          PROVE  /\ ~ Executed(request[w].number, paid' \cup tickets')
                 /\ ~ UsedUp(request[w].number, granted')
      BY <3>1, <3>2, <3>3 DEF Honest, Granted
    <3> QED BY <3>1, <3>3 DEF Honest
  <2>2. CASE \E v \in Workers : v # w /\ Handle(v)
    <3>1. \E v \in Workers : v # w /\ Serves(v)
      BY <1>1, <2>2, HandleServes
    <3> QED BY <1>1, <3>1 DEF Serves, Answers
  <2>3. CASE \E v \in Workers, r \in Requests : \E a \in Authorizations(r) : Invoke(v, r, a)
    BY <1>1, <2>3 DEF Invoke, Answers, Inv, TypeOK, HandlersTyped
  <2>4. CASE Crash
    BY <2>4 DEF Crash
  <2>5. CASE Tick \/ UNCHANGED vars
    BY <1>1, <2>5 DEF Tick, handlers, vars, Answers
  <2> QED BY <1>1, <2>1, <2>2, <2>3, <2>4, <2>5 DEF Next
<1>2. Inv /\ AnswersInv /\ [Next]_vars => \A w \in Workers : Answers(w) => Told(w)
  BY <1>1
<1> QED BY <1>2, Invariant, AnswersInvariant, PTL DEF Spec, AnswersAreHonest

-----------------------------------------------------------------------------
(* With a single thread the check of the quota and its use cannot be torn   *)
(* apart: a capability that has not been authorized when its request enters *)
(* IDAP has bought no ticket until that request is executed.               *)
SoleWorker == \A v, w \in Workers : v = w

Unsold(w) == \A t \in tickets : t.capability # cap[w]

SoloInv ==
  /\ OneTicketPerAuthorization
  /\ \A t \in tickets : t.capability \in CapIds /\ authorized[t.capability] > 0
  /\ \A w \in Workers :
       /\ stage[w] \in Granted \/ Granting(w) => authorized[cap[w]] > 0
       /\ stage[w] \in {"await", "verify", "execute"} /\ request[w].uses = 0 => Unsold(w)

LEMMA AuthorizedGrows ==
  ASSUME Inv, IdapMove
  PROVE  \A id \in CapIds : authorized[id] > 0 => authorized'[id] > 0
<1>1. authorized \in [CapIds -> Nat] /\ Auth!TypeOK
  BY DEF Inv, TypeOK, Auth!TypeOK
<1>2. ASSUME NEW w \in Workers, Auth!Step(w)
      PROVE  \A id \in CapIds : authorized[id] > 0 => authorized'[id] > 0
  BY <1>1, <1>2, StepCounts
<1>3. CASE UNCHANGED idapVars
  BY <1>3 DEF idapVars
<1>4. CASE Auth!Next /\ ~ \E w \in Workers : Auth!Step(w)
  <2>1. authorized' = authorized
    BY <1>4 DEF Auth!Next, Auth!Present, Auth!Tick, Auth!ResetRuntime, Auth!Issue, Auth!history
  <2> QED BY <2>1
<1> QED BY <1>2, <1>3, <1>4 DEF IdapMove
LEMMA SoloStep == ASSUME Inv, SpendInv, SoloInv, SoleWorker, [Next]_vars PROVE SoloInv'
<1>1. /\ \A id \in CapIds : authorized[id] > 0 => authorized'[id] > 0
      /\ \A v \in Workers : stage[v] \in Holding => cap[v] \in CapIds
      /\ DOMAIN stage = Workers /\ DOMAIN request = Workers /\ DOMAIN pc = Workers
      /\ DOMAIN outcome = Workers /\ TypeOK
  BY NextKept, AuthorizedGrows DEF Inv, WorkerInv, TypeOK, HandlersTyped, Auth!TypeOK
<1>2. ASSUME NEW w \in Workers, tickets' = tickets,
             stage'[w] \notin Granted \cup {"await"}
      PROVE  SoloInv'
  BY <1>1, <1>2 DEF SoloInv, SoleWorker, OneTicketPerAuthorization, Granted, Granting
<1>3. ASSUME NEW w \in Workers, tickets' = tickets, stage[w] \in Holding,
             cap' = cap, request' = request,
             stage'[w] \in Granted \/ Granting(w)' =>
               stage[w] \in Granted \/ Granting(w) \/ authorized'[cap[w]] > 0,
             stage'[w] \in {"await", "verify", "execute"} => stage[w] \in {"await", "verify", "execute"}
      PROVE  SoloInv'
  BY <1>1, <1>3 DEF SoloInv, SoleWorker, OneTicketPerAuthorization, Unsold
<1>4. ASSUME NEW w \in Workers, NEW r \in Requests, NEW a \in Authorizations(r), Invoke(w, r, a)
      PROVE  SoloInv'
  <2>1. stage'[w] = "ensure" /\ tickets' = tickets
    BY <1>1, <1>4 DEF Invoke, Goto, ledgers
  <2> QED BY <1>2, <2>1 DEF Granted
<1>5. ASSUME NEW w \in Workers,
             \/ FindInitialized(w) \/ StartSetup(w) \/ SetupStep(w) \/ Discover(w)
             \/ OpenDelegated(w) \/ MintCapability(w) \/ Delegate(w)
      PROVE  SoloInv'
  <2>1. stage'[w] \in {"setup", "discover", "prepare", "authorize", "idle"} /\ tickets' = tickets
    BY <1>1, <1>5 DEF FindInitialized, StartSetup, SetupStep, Discover, OpenDelegated,
                      MintCapability, Delegate, LogFails, Continue, Respond, Goto, ledgers
  <2> QED BY <1>2, <2>1 DEF Granted
<1>6. ASSUME NEW w \in Workers, CallIdap(w) PROVE SoloInv'
  <2>1. stage[w] = "authorize" /\ tickets' = tickets
    BY <1>6 DEF CallIdap, ledgers
  <2>2. CASE LogFails(w)
    <3>1. stage'[w] = "idle"
      BY <1>1, <2>2 DEF LogFails, Respond
    <3> QED BY <1>2, <2>1, <3>1 DEF Granted
  <2>3. CASE ~ LogFails(w)
    <3>1. /\ UNCHANGED <<cap, authorized>>
          /\ request' = [request EXCEPT ![w].uses = authorized[cap[w]]]
          /\ stage' = [stage EXCEPT ![w] = "await"]
          /\ pc' = [pc EXCEPT ![w] = "open"]
      BY <1>6, <2>3 DEF CallIdap, Goto, Auth!Present, Auth!history
    <3>2. request[w] \in RequestRecord
      BY <2>1 DEF Inv, WorkerInv
    <3>3. /\ request'[w].uses = authorized[cap[w]]
          /\ stage'[w] = "await" /\ pc'[w] = "open"
      BY <1>1, <3>1, <3>2 DEF RequestRecord
    <3>4. authorized[cap[w]] = 0 => Unsold(w)
      BY DEF SoloInv, Unsold
    <3> QED BY <1>1, <2>1, <3>1, <3>3, <3>4
            DEF SoloInv, SoleWorker, OneTicketPerAuthorization, Unsold, Granted, Granting
  <2> QED BY <2>2, <2>3
<1>7. ASSUME NEW w \in Workers, IdapStep(w) PROVE SoloInv'
  <2>1. stage[w] = "await" /\ Auth!Step(w) /\ UNCHANGED <<stage, request, cap, tickets>>
    BY <1>7 DEF IdapStep, handlers, ledgers
  <2>2. pc[w] # "idle" /\ (Granting(w)' => pc[w] = "write")
    BY <1>1, <2>1, IdapStepFacts DEF TypeOK, Granting
  <2>3. pc[w] = "write" => authorized'[cap[w]] > 0
    <3> SUFFICES ASSUME pc[w] = "write" PROVE authorized'[cap[w]] > 0
      OBVIOUS
    <3>1. Auth!WriteUseCount(w)
      BY <2>1 DEF Auth!Step, Auth!OpenCapability, Auth!ResolveKeys, Auth!CheckPolicy,
            Auth!CheckExpiry, Auth!CheckReplay, Auth!CheckQuota, Auth!Handshake,
            Auth!MarkSeen, Auth!ReadUseCount
    <3>2. call[w].id = cap[w] /\ cap[w] \in CapIds
      <4>1. call[w] = Presented(w)
        BY <2>2 DEF Inv, WorkerInv
      <4> QED BY <1>1, <2>1, <4>1 DEF Presented, Holding, Chosen, Ready
    <3>3. authorized \in [CapIds -> Nat]
      BY <1>1 DEF TypeOK, Auth!TypeOK
    <3> QED BY <3>1, <3>2, <3>3 DEF Auth!WriteUseCount
  <2> QED BY <1>3, <2>1, <2>2, <2>3 DEF Holding, Chosen, Ready, Granted
<1>8. ASSUME NEW w \in Workers, ReturnFromIdap(w) \/ VerifyTranscript(w) PROVE SoloInv'
  <2>1. /\ tickets' = tickets
        /\ stage'[w] = "idle" \/
             /\ stage[w] = "verify" \/ Granting(w)
             /\ stage'[w] \in Granted
             /\ UNCHANGED <<request, cap>>
    BY <1>1, <1>8 DEF ReturnFromIdap, VerifyTranscript, LogFails, Continue, Respond, Goto,
                      Granted, Granting, ledgers
  <2> QED BY <1>2, <1>3, <2>1 DEF Holding, Chosen, Ready, Granted, Granting
<1>9. ASSUME NEW w \in Workers, ExecuteService(w) PROVE SoloInv'
  <2>1. /\ stage[w] = "execute" /\ authorized' = authorized
        /\ \A t \in tickets' : t \in tickets \/
             t = [number |-> request[w].number, capability |-> cap[w],
                  payload |-> request[w].payload,
                     constraints |-> request[w].constraints, uses |-> request[w].uses]
        /\ stage'[w] = "idle" \/ (stage'[w] = "delegate" /\ cap' = cap)
    BY <1>1, <1>9 DEF ExecuteService, LogFails, Continue, Respond, Goto, idapVars
  <2>2. /\ request[w].uses = 0 /\ Unsold(w)
        /\ cap[w] \in CapIds /\ authorized[cap[w]] > 0
    <3>1. request[w].uses = 0
      BY <2>1 DEF SpendInv, WorkerSpend, Granted
    <3> QED BY <1>1, <2>1, <3>1 DEF SoloInv, Granted, Holding, Chosen, Ready
  <2>3. OneTicketPerAuthorization'
    BY <2>1, <2>2 DEF SoloInv, OneTicketPerAuthorization, Unsold
  <2>4. \A t \in tickets' : t.capability \in CapIds /\ authorized'[t.capability] > 0
    BY <2>1, <2>2 DEF SoloInv
  <2> QED BY <2>1, <2>2, <2>3, <2>4 DEF SoloInv, SoleWorker, Granted, Granting
<1>10. CASE Crash
  <2>1. tickets' = tickets /\ \A w \in Workers : stage'[w] = "idle"
    BY <1>10 DEF Crash, ledgers
  <2> QED BY <1>1, <2>1 DEF SoloInv, OneTicketPerAuthorization, Granted, Granting
<1>11. CASE Tick \/ UNCHANGED vars
  <2>1. UNCHANGED <<stage, request, cap, pc, outcome, tickets, authorized>>
    BY <1>11 DEF Tick, Auth!Tick, Auth!threads, Auth!history, handlers, ledgers, vars, idapVars
  <2> QED BY <2>1 DEF SoloInv, OneTicketPerAuthorization, Granting, Unsold
<1> QED BY <1>4, <1>5, <1>6, <1>7, <1>8, <1>9, <1>10, <1>11 DEF Next, Handle

LEMMA InitSolo == Init => SoloInv
  BY DEF Init, Auth!Init, SoloInv, OneTicketPerAuthorization, Granted, Granting

(* With one thread a delegated capability sells at most one ticket, however *)
(* often it is presented, restarts and failures included.                  *)
THEOREM OneTicket == SoleWorker => (Spec => []OneTicketPerAuthorization)
<1> SUFFICES ASSUME SoleWorker PROVE Spec => []OneTicketPerAuthorization
  OBVIOUS
<1>1. Inv /\ SpendInv /\ SoloInv /\ [Next]_vars => SoloInv'
  BY SoloStep
<1>2. SoloInv => OneTicketPerAuthorization
  BY DEF SoloInv
<1> QED BY <1>1, <1>2, InitSolo, Invariant, SpendInvariant, PTL DEF Spec

-----------------------------------------------------------------------------
(* A payment delegates once, with any number of threads: the request it     *)
(* delegates for ends with that step, and its number is not given again.    *)
PaymentsInv ==
  /\ \A d, e \in delegated : d.payment = e.payment => d.capability = e.capability
  /\ \A d \in delegated : d.payment <= requests
  /\ \A w \in Workers : stage[w] # "idle" => \A d \in delegated : d.payment # request[w].number

LEMMA HandleDelegates ==
  ASSUME Inv, NEW w \in Workers, Handle(w)
  PROVE  \/ delegated' = delegated
         \/ /\ stage[w] = "delegate"
            /\ stage'[w] = "idle"
            /\ \E id \in CapIds : delegated' = delegated \cup
                 {[capability |-> id, payment |-> request[w].number, runtime |-> generation]}
<1>1. CASE Delegate(w)
  BY <1>1 DEF Delegate, LogFails, Respond, Inv, TypeOK, HandlersTyped
<1>2. CASE ~ Delegate(w)
  BY <1>2 DEF Handle, FindInitialized, StartSetup, SetupStep, Discover, OpenDelegated,
              MintCapability, CallIdap, IdapStep, ReturnFromIdap, VerifyTranscript,
              ExecuteService, ledgers
<1> QED BY <1>1, <1>2

LEMMA PaymentsStep ==
  ASSUME Inv, AnswersInv, PaymentsInv, [Next]_vars
  PROVE  PaymentsInv'
<1>1. /\ requests \in Nat /\ DOMAIN stage = Workers /\ DOMAIN request = Workers
      /\ \A d \in delegated : d.payment \in Nat
      /\ \A v \in Workers : stage[v] # "idle" => request[v].number \in Nat
  BY DEF Inv, TypeOK, HandlersTyped, WorkerInv, RequestRecord, Nonces, AnswersInv
<1>2. ASSUME NEW w \in Workers, NEW r \in Requests, NEW a \in Authorizations(r), Invoke(w, r, a)
      PROVE  PaymentsInv'
  <2>1. /\ requests' = requests + 1 /\ delegated' = delegated
        /\ request'[w].number = requests + 1
        /\ \A v \in Workers : v # w => UNCHANGED <<stage[v], request[v]>>
    BY <1>1, <1>2 DEF Invoke, Goto, ledgers
  <2>2. \A d \in delegated : d.payment <= requests + 1 /\ d.payment # requests + 1
    BY <1>1 DEF PaymentsInv
  <2> QED BY <2>1, <2>2 DEF PaymentsInv
<1>3. ASSUME NEW w \in Workers, Handle(w) PROVE PaymentsInv'
  <2>1. /\ requests' = requests /\ stage[w] # "idle"
        /\ \A v \in Workers : stage'[v] # "idle" =>
             stage[v] # "idle" /\ request'[v].number = request[v].number
    BY <1>3, HandleServes DEF Serves
  <2>2. CASE delegated' = delegated
    BY <2>1, <2>2 DEF PaymentsInv
  <2>3. CASE delegated' # delegated
    <3>1. stage'[w] = "idle"
      BY <1>3, <2>3, HandleDelegates
    <3>2. PICK id \in CapIds : delegated' = delegated \cup
            {[capability |-> id, payment |-> request[w].number, runtime |-> generation]}
      BY <1>3, <2>3, HandleDelegates
    <3>3. request[w].number <= requests /\ \A d \in delegated : d.payment # request[w].number
      BY <2>1 DEF PaymentsInv, AnswersInv, Numbered
    <3>4. \A v \in Workers : stage'[v] # "idle" => request'[v].number # request[w].number
      BY <2>1, <3>1 DEF AnswersInv, Numbered
    <3>5. \A v \in Workers : stage'[v] # "idle" => \A d \in delegated' : d.payment # request'[v].number
      BY <2>1, <3>2, <3>4 DEF PaymentsInv
    <3>6. \A d \in delegated' : d.payment <= requests'
      BY <2>1, <3>2, <3>3 DEF PaymentsInv
    <3>7. \A d, e \in delegated' : d.payment = e.payment => d.capability = e.capability
      BY <3>2, <3>3 DEF PaymentsInv
    <3> QED BY <3>5, <3>6, <3>7 DEF PaymentsInv
  <2> QED BY <2>2, <2>3
<1>4. CASE Crash
  <2>1. UNCHANGED <<requests, delegated>> /\ \A w \in Workers : stage'[w] = "idle"
    BY <1>4 DEF Crash, ledgers
  <2> QED BY <2>1 DEF PaymentsInv
<1>5. CASE Tick \/ UNCHANGED vars
  <2>1. UNCHANGED <<stage, request, requests, delegated>>
    BY <1>5 DEF Tick, handlers, ledgers, vars
  <2> QED BY <2>1 DEF PaymentsInv
<1> QED BY <1>2, <1>3, <1>4, <1>5 DEF Next

LEMMA PaymentsInvariant == Spec => []PaymentsInv
<1>1. Init => PaymentsInv
  BY DEF Init, PaymentsInv
<1>2. Inv /\ AnswersInv /\ PaymentsInv /\ [Next]_vars => PaymentsInv'
  BY PaymentsStep
<1> QED BY <1>1, <1>2, Invariant, AnswersInvariant, PTL DEF Spec

(* With one thread a payment buys one ticket: one delegation, which is      *)
(* never tried again when the request fails after it, and one ticket for it.*)
THEOREM OneTicketPayment == SoleWorker => (Spec => []OneTicketPerPayment)
<1> SUFFICES ASSUME SoleWorker PROVE Spec => []OneTicketPerPayment
  OBVIOUS
<1>1. PaymentsInv /\ OneTicketPerAuthorization => OneTicketPerPayment
  BY DEF PaymentsInv, OneTicketPerAuthorization, OneTicketPerPayment, BoughtWith
<1>2. Spec => []OneTicketPerAuthorization
  BY OneTicket
<1> QED BY <1>1, <1>2, PaymentsInvariant, PTL

-----------------------------------------------------------------------------
(* Where the stale entries come from.  If no write to the store fails,      *)
(* services_by_sid only holds identities of the present generation: what a  *)
(* payment delegates is sealed to the service that will be discovered, for  *)
(* as long as the runtime lives.                                           *)
Delegated(d) ==
  /\ d.runtime <= generation
  /\ caps[d.capability].body.s1 = Buy
  /\ caps[d.capability].generation = d.runtime

FreshInv ==
  /\ \A i \in DOMAIN services : services[i].generation = generation
  /\ services # <<>> => initialized \/ lock # NoWorker
  /\ \A d \in delegated : Delegated(d)

(* Capabilities do not change once they are issued.                        *)
LEMMA CapsGrow ==
  ASSUME Inv, IdapMove
  PROVE  \A id \in CapIds : caps[id] # NoCap => caps'[id] = caps[id]
<1>1. Auth!TypeOK /\ generation \in Nat
  BY DEF Inv, TypeOK, Auth!TypeOK
<1>2. ASSUME NEW id \in CapIds, NEW body \in Contents, NEW g \in 1 .. generation,
             Auth!Issue(id, body, g)
      PROVE  \A i \in CapIds : caps[i] # NoCap => caps'[i] = caps[i]
  BY <1>1, <1>2, IssueFacts
<1>3. ASSUME NEW w \in Workers, Auth!Step(w) PROVE caps' = caps
  BY <1>1, <1>3, StepCounts
<1>4. CASE UNCHANGED idapVars
  BY <1>4 DEF idapVars
<1>5. CASE Auth!Tick \/ Auth!ResetRuntime
           \/ \E w \in Workers, id \in CapIds, nonce \in Nonces \cup {NoNonce}, v \in Variants :
                Auth!Present(w, id, nonce, v)
  BY <1>5 DEF Auth!Tick, Auth!ResetRuntime, Auth!Present
<1> QED BY <1>2, <1>3, <1>4, <1>5 DEF IdapMove, Auth!Next

LEMMA DelegatedKept ==
  ASSUME Inv, FreshInv, [Next]_vars, generation' \in {generation, generation + 1}
  PROVE  \A d \in delegated : Delegated(d)'
<1> SUFFICES ASSUME NEW d \in delegated PROVE Delegated(d)'
  OBVIOUS
<1>1. /\ d.capability \in CapIds /\ caps[d.capability] # NoCap
      /\ d.runtime \in Int /\ generation \in Int /\ Delegated(d)
  <2>1. d \in [capability: CapIds, payment: Nonces, runtime: 1 .. MaxGeneration] /\ Backed(d)
    BY DEF Inv, TypeOK, HandlersTyped, LedgerInv
  <2> QED BY <2>1, LimitsAssumption DEF Backed, FreshInv, Inv, RuntimeInv
<1>2. caps'[d.capability] = caps[d.capability]
  BY <1>1, CapsGrow, NextKept
<1> QED BY <1>1, <1>2 DEF Delegated

LEMMA FreshStep == ASSUME ~PublishMayFail, Inv, FreshInv, [Next]_vars PROVE FreshInv'
<1>1. /\ services \in Seq([action: Actions, generation: 1 .. MaxGeneration])
      /\ DOMAIN services = 1 .. Len(services) /\ Len(services) \in Nat
      /\ generation \in Nat
  BY LimitsAssumption DEF Inv, TypeOK, HandlersTyped, RuntimeInv
<1>2. ASSUME UNCHANGED <<services, generation, delegated>>,
             services # <<>> => initialized' \/ lock' # NoWorker
      PROVE  FreshInv'
  BY <1>2, DelegatedKept DEF FreshInv
<1>3. ASSUME NEW w \in Workers, NEW r \in Requests, NEW a \in Authorizations(r), Invoke(w, r, a)
      PROVE  FreshInv'
  BY <1>2, <1>3 DEF Invoke, FreshInv, idapVars, runtime, ledgers
<1>4. ASSUME NEW w \in Workers, StartSetup(w) PROVE FreshInv'
  <2>1. /\ services = <<>> /\ services' = services /\ delegated' = delegated
        /\ generation' = generation + 1
    BY <1>4 DEF StartSetup, FreshInv, ledgers, Auth!ResetRuntime
  <2>2. DOMAIN services' = {}
    BY <2>1
  <2> QED BY <2>1, <2>2, DelegatedKept DEF FreshInv
<1>5. ASSUME NEW w \in Workers, SetupStep(w) PROVE FreshInv'
  <2>1. /\ UNCHANGED <<generation, delegated>>
        /\ lock = w /\ lock # NoWorker
        /\ initialized' \/ lock' # NoWorker
        /\ \/ services' = services
           \/ services' = Append(services, [action |-> InitPlan[setup], generation |-> generation])
    <3>1. lock = w /\ lock # NoWorker
      BY <1>5, WorkersAssumption DEF SetupStep, Inv, TypeOK, HandlersTyped
    <3> QED BY <1>5, <3>1 DEF SetupStep, idapVars, ledgers
  <2>2. \A i \in DOMAIN services' : services'[i].generation = generation
    <3>1. CASE services' = services
      BY <3>1 DEF FreshInv
    <3>2. CASE services' = Append(services, [action |-> InitPlan[setup], generation |-> generation])
      <4> DEFINE entry == [action |-> InitPlan[setup], generation |-> generation]
      <4>1. entry.generation = generation
        OBVIOUS
      <4> HIDE DEF entry
      <4>2. /\ DOMAIN services' = 1 .. Len(services) + 1
            /\ \A i \in 1 .. Len(services) : services'[i] = services[i]
            /\ services'[Len(services) + 1] = entry
        BY <1>1, <3>2 DEF entry
      <4> QED BY <1>1, <4>1, <4>2 DEF FreshInv
    <3> QED BY <2>1, <3>1, <3>2
  <2> QED BY <2>1, <2>2, DelegatedKept DEF FreshInv
<1>6. ASSUME NEW w \in Workers,
             \/ FindInitialized(w) \/ Discover(w) \/ OpenDelegated(w) \/ MintCapability(w)
             \/ CallIdap(w) \/ IdapStep(w) \/ ReturnFromIdap(w) \/ VerifyTranscript(w)
             \/ ExecuteService(w)
      PROVE  FreshInv'
  <2>1. UNCHANGED <<lock, initialized, services, delegated>>
    BY <1>6 DEF FindInitialized, Discover, OpenDelegated, MintCapability, CallIdap, IdapStep,
                ReturnFromIdap, VerifyTranscript, ExecuteService, runtime, ledgers
  <2>2. generation' = generation
    <3>1. CASE IdapStep(w)
      BY <3>1, StepCounts DEF IdapStep, Inv, TypeOK
    <3>2. CASE MintCapability(w) \/ CallIdap(w)
      BY <3>2 DEF MintCapability, CallIdap, Auth!Issue, Auth!Present, idapVars
    <3> QED BY <1>6, <3>1, <3>2 DEF FindInitialized, Discover, OpenDelegated, ReturnFromIdap,
                                    VerifyTranscript, ExecuteService, idapVars
  <2> QED BY <1>2, <2>1, <2>2 DEF FreshInv
<1>7. ASSUME NEW w \in Workers, Delegate(w) PROVE FreshInv'
  <2>1. stage[w] = "delegate" /\ initialized /\ UNCHANGED <<lock, initialized, services>>
    BY <1>7 DEF Delegate, runtime, Inv, WorkerInv, Ready
  <2>2. CASE UNCHANGED <<idapVars, delegated>>
    BY <1>2, <2>1, <2>2 DEF idapVars
  <2>3. ASSUME NEW id \in CapIds,
               Auth!Issue(id, PurchaseCapability(request[w].payload),
                          ServiceEntryForAction(Buy).generation),
               delegated' = delegated \cup
                 {[capability |-> id, payment |-> request[w].number, runtime |-> generation]}
        PROVE  FreshInv'
    <3> DEFINE body == PurchaseCapability(request[w].payload)
               g == ServiceEntryForAction(Buy).generation
    <3>0. PICK new : new = [capability |-> id, payment |-> request[w].number, runtime |-> generation]
      OBVIOUS
    <3>1. g = generation
      BY <2>1, BuyEntryFound DEF Inv, FreshInv
    <3>2. body \in Contents /\ body.s1 = Buy
      <4>1. request[w].payload \in Payloads
        BY <2>1 DEF Inv, WorkerInv, RequestRecord
      <4>2. body.s1 = Buy
        BY DEF PurchaseCapability, RequestCapability
      <4> QED BY <4>1, <4>2 DEF Contents
    <3>3. new.capability = id /\ new.runtime = generation
      BY <3>0
    <3> HIDE DEF body, g
    <3>4. /\ caps'[id].body = body /\ caps'[id].generation = g
          /\ generation' = generation
      <4>1. Auth!Issue(id, body, g)
        BY <2>3 DEF body, g
      <4>2. Auth!TypeOK /\ g \in Nat
        BY <1>1, <3>1 DEF Inv, TypeOK
      <4> QED BY <3>2, <4>1, <4>2, IssueFacts
    <3>5. Delegated(new)'
      BY <1>1, <3>1, <3>2, <3>3, <3>4 DEF Delegated
    <3>6. delegated' = delegated \cup {new}
      BY <2>3, <3>0
    <3>7. \A d \in delegated' : Delegated(d)'
      BY <3>4, <3>5, <3>6, DelegatedKept
    <3> QED BY <2>1, <3>4, <3>7 DEF FreshInv
  <2> QED BY <1>7, <2>2, <2>3 DEF Delegate
<1>8. CASE Crash
  <2>1. services' = <<>> /\ delegated' = delegated /\ generation' = generation + 1
    BY <1>8 DEF Crash, ledgers, Auth!ResetRuntime
  <2> QED BY <2>1, DelegatedKept DEF FreshInv
<1>9. CASE Tick \/ UNCHANGED vars
  <2>1. UNCHANGED <<lock, initialized, services, delegated, generation>>
    BY <1>9 DEF Tick, Auth!Tick, runtime, ledgers, vars, idapVars
  <2> QED BY <1>2, <2>1 DEF FreshInv
<1> QED BY <1>3, <1>4, <1>5, <1>6, <1>7, <1>8, <1>9 DEF Next, Handle

(* The flaw of `gateway_stale' needs a failed write: if the store takes all *)
(* writes (and no row of the log fails), a payment's authorization is never *)
(* refused as invalid by the runtime that handed it out.                   *)
THEOREM NeverStale == ~PublishMayFail /\ ~LogMayFail => (Spec => DelegationOpens)
<1> SUFFICES ASSUME ~PublishMayFail, ~LogMayFail PROVE Spec => DelegationOpens
  OBVIOUS
<1> DEFINE Stems(w) == generation' # generation \/
      \E d \in delegated : d.capability = request[w].authorization /\ d.runtime # generation
<1>1. Init => FreshInv
  BY DEF Init, FreshInv
<1>2. Inv /\ FreshInv /\ [Next]_vars => FreshInv'
  BY FreshStep
<1>3. ASSUME Inv, FreshInv, [Next]_vars, NEW w \in Workers, RefusesDelegated(w)
      PROVE  Stems(w)
  <2>1. /\ stage[w] = "prepare" /\ stage'[w] = "idle" /\ request[w].action = Buy
        /\ request[w].authorization # NoAuthorization
        /\ DOMAIN stage = Workers
    BY <1>3 DEF RefusesDelegated, Inv, TypeOK, HandlersTyped
  <2>2. PICK d \in delegated : d.capability = request[w].authorization
    BY <1>3, <2>1 DEF Inv, WorkerInv, HandedOut
  <2>3. CASE OpenDelegated(w)
    <3>1. ~ Auth!CanOpen([id |-> request[w].authorization, nonce |-> request[w].number,
                          variant |-> Wrapped(Buy, Buy, request[w].payload)])
      BY <1>3, <2>1, <2>3 DEF OpenDelegated, Goto
    <3>2. /\ caps[d.capability].body.s1 = Buy
          /\ caps[d.capability].generation = d.runtime
      BY <1>3 DEF FreshInv, Delegated
    <3> QED BY <2>2, <3>1, <3>2 DEF Auth!CanOpen, Wrapped
  <2>4. CASE Crash
    <3>1. generation' = generation + 1 /\ generation \in Int
      BY <1>3, <2>4, LimitsAssumption DEF Crash, Auth!ResetRuntime, Inv, RuntimeInv
    <3> QED BY <3>1
  <2>5. ~ \E v \in Workers, r \in Requests : \E a \in Authorizations(r) : Invoke(v, r, a)
    BY <2>1 DEF Invoke, Goto
  <2>6. ASSUME NEW v \in Workers, Handle(v) PROVE v = w /\ OpenDelegated(w)
    BY <2>1, <2>6 DEF Handle, FindInitialized, StartSetup, SetupStep, Discover, OpenDelegated,
         MintCapability, CallIdap, IdapStep, ReturnFromIdap, VerifyTranscript, ExecuteService,
         Delegate, LogFails, Continue, Respond, Goto, handlers
  <2>7. ~ (Tick \/ UNCHANGED vars)
    BY <2>1 DEF Tick, vars, handlers
  <2> QED BY <1>3, <2>3, <2>4, <2>5, <2>6, <2>7 DEF Next
<1>4. Inv /\ FreshInv /\ [Next]_vars => \A w \in Workers : RefusesDelegated(w) => Stems(w)
  BY <1>3
<1> QED BY <1>1, <1>2, <1>4, Invariant, PTL DEF Spec, DelegationOpens
-----------------------------------------------------------------------------
(* A thread past "prepare" holds a capability of the present generation: a  *)
(* delegated one was just opened, any other just issued, and the identities *)
(* are only replaced while no thread has got that far.                     *)
CurrentInv ==
  \A w \in Workers : stage[w] \in Holding => caps[cap[w]].generation = generation

(* A thread that goes on keeps its capability.                             *)
Holds(v) == stage[v] \in Holding /\ cap'[v] = cap[v]

LEMMA HoldsCurrent ==
  ASSUME Inv, CurrentInv, [Next]_vars, generation' = generation,
         NEW v \in Workers, Holds(v)
  PROVE  caps'[cap'[v]].generation = generation'
<1>1. cap[v] \in CapIds /\ caps[cap[v]] # NoCap
  BY DEF Holds, Inv, WorkerInv
<1>2. caps'[cap[v]] = caps[cap[v]]
  BY <1>1, CapsGrow, NextKept
<1> QED BY <1>2 DEF Holds, CurrentInv

LEMMA CurrentStep == ASSUME Inv, CurrentInv, [Next]_vars PROVE CurrentInv'
<1>1. /\ DOMAIN stage = Workers /\ DOMAIN cap = Workers /\ DOMAIN request = Workers
      /\ generation \in Nat /\ Auth!TypeOK
  BY LimitsAssumption DEF Inv, TypeOK, HandlersTyped, RuntimeInv
<1> USE DEF Holding, Chosen, Ready
<1>2. ASSUME generation' = generation, \A v \in Workers : stage'[v] \in Holding => Holds(v)
      PROVE  CurrentInv'
  BY <1>2, HoldsCurrent DEF CurrentInv
<1>3. ASSUME NEW w \in Workers, StartSetup(w) PROVE CurrentInv'
  <2>1. \A v \in Workers : stage[v] \in Ready => initialized
    BY DEF Inv, WorkerInv
  <2>2. \A v \in Workers : stage'[v] \notin Holding
    BY <1>1, <1>3, <2>1 DEF StartSetup, Continue, Goto
  <2> QED BY <2>2 DEF CurrentInv
<1>4. CASE Crash
  BY <1>4 DEF Crash, CurrentInv
<1>5. ASSUME NEW w \in Workers, MintCapability(w) PROVE CurrentInv'
  <2>1. /\ request[w].action \in Actions /\ request[w].capability_action \in CapabilityActions
        /\ request[w].constraints \in ClientConstraints \cup {NoConstraints}
    BY <1>5 DEF MintCapability, Inv, WorkerInv, RequestRecord
  <2>2. PICK id \in CapIds :
          /\ Auth!Issue(id, RequestCapability(request[w].action, request[w].capability_action,
                            ConstraintsForRequest(request[w].action, request[w].constraints)),
                        generation)
          /\ cap' = [cap EXCEPT ![w] = id]
    BY <1>5 DEF MintCapability
  <2> DEFINE body == RequestCapability(request[w].action, request[w].capability_action,
                                       ConstraintsForRequest(request[w].action, request[w].constraints))
  <2>3. body \in Contents
    BY <2>1 DEF Contents
  <2> HIDE DEF body
  <2>4. caps'[id].generation = generation /\ generation' = generation
    <3>1. Auth!Issue(id, body, generation)
      BY <2>2 DEF body
    <3> QED BY <1>1, <2>3, <3>1, IssueFacts
  <2>5. \A v \in Workers \ {w} : stage'[v] = stage[v] /\ cap'[v] = cap[v]
    BY <1>1, <1>5, <2>2 DEF MintCapability, Goto
  <2>6. cap'[w] = id
    BY <1>1, <2>2
  <2>7. ASSUME NEW v \in Workers \ {w}, stage'[v] \in Holding
        PROVE  caps'[cap'[v]].generation = generation'
    BY <2>4, <2>5, <2>7, HoldsCurrent DEF Holds
  <2> QED BY <2>4, <2>6, <2>7 DEF CurrentInv
<1>6. ASSUME NEW w \in Workers, OpenDelegated(w) PROVE CurrentInv'
  <2>1. UNCHANGED <<caps, generation>>
    BY <1>6 DEF OpenDelegated, idapVars
  <2>2. \A v \in Workers \ {w} : stage'[v] = stage[v] /\ cap'[v] = cap[v]
    BY <1>1, <1>6 DEF OpenDelegated, Goto, Respond
  <2>3. stage'[w] \in Holding => caps[cap'[w]].generation = generation
    BY <1>1, <1>6 DEF OpenDelegated, Goto, Respond, Auth!CanOpen, Wrapped
  <2> QED BY <2>1, <2>2, <2>3 DEF CurrentInv
<1>7. ASSUME NEW w \in Workers, IdapStep(w) PROVE CurrentInv'
  <2>1. generation' = generation
    BY <1>1, <1>7, IdapStepFacts DEF IdapStep
  <2> QED BY <1>2, <1>7, <2>1 DEF IdapStep, handlers, Holds
<1>8. ASSUME NEW w \in Workers,
             \/ FindInitialized(w) \/ SetupStep(w) \/ Discover(w) \/ CallIdap(w)
             \/ ReturnFromIdap(w) \/ VerifyTranscript(w) \/ ExecuteService(w) \/ Delegate(w)
      PROVE  CurrentInv'
  <2>1. generation' = generation
    BY <1>8 DEF FindInitialized, SetupStep, Discover, CallIdap, ReturnFromIdap, VerifyTranscript,
                ExecuteService, Delegate, idapVars, Auth!Issue, Auth!Present
  <2>2. \A v \in Workers : stage'[v] \in Holding => Holds(v)
    BY <1>1, <1>8 DEF FindInitialized, SetupStep, Discover, CallIdap, ReturnFromIdap,
         VerifyTranscript, ExecuteService, Delegate, LogFails, Continue, Respond, Goto, Holds
  <2> QED BY <1>2, <2>1, <2>2
<1>9. ASSUME NEW w \in Workers, NEW r \in Requests, NEW a \in Authorizations(r), Invoke(w, r, a)
      PROVE  CurrentInv'
  BY <1>1, <1>2, <1>9 DEF Invoke, Goto, idapVars, Holds
<1>10. CASE Tick \/ UNCHANGED vars
  <2>1. UNCHANGED <<generation, stage, cap>>
    BY <1>10 DEF Tick, Auth!Tick, handlers, vars, idapVars
  <2> QED BY <1>2, <2>1 DEF Holds
<1> QED BY <1>3, <1>4, <1>5, <1>6, <1>7, <1>8, <1>9, <1>10 DEF Next, Handle

(* What a client kept from before a restart, or what a failed              *)
(* initialisation left behind, buys no ticket.                             *)
THEOREM SoldOnCurrent == Spec => TicketsAreCurrent
<1>1. Init => CurrentInv
  BY DEF Init, CurrentInv, Holding, Chosen, Ready
<1>2. Inv /\ CurrentInv /\ [Next]_vars => CurrentInv'
  BY CurrentStep
<1>3. ASSUME Inv, CurrentInv, [Next]_vars, NEW t \in tickets' \ tickets
      PROVE  caps[t.capability].generation = generation
  <2>1. PICK w \in Workers : ExecuteService(w)
    BY <1>3 DEF Next, Handle, Invoke, FindInitialized, StartSetup, SetupStep, Discover,
         OpenDelegated, MintCapability, CallIdap, IdapStep, ReturnFromIdap, VerifyTranscript,
         Delegate, Tick, Crash, ledgers, vars
  <2>2. t.capability = cap[w] /\ stage[w] = "execute"
    BY <2>1 DEF ExecuteService
  <2> QED BY <1>3, <2>2 DEF CurrentInv, Holding, Chosen, Ready
<1>4. Inv /\ CurrentInv /\ [Next]_vars =>
        \A t \in tickets' \ tickets : caps[t.capability].generation = generation
  BY <1>3
<1> QED BY <1>1, <1>2, <1>4, Invariant, PTL DEF Spec, TicketsAreCurrent
-----------------------------------------------------------------------------
(* Progress.  A thread has only so many steps left before it answers, and   *)
(* every step it takes is one of them: no refusal, failure, lock or other    *)
(* thread sends it back.                                                    *)
IdapStepsLeft(p) ==
  CASE p = "open" -> 10
    [] p = "resolve" -> 9
    [] p = "policy" -> 8
    [] p = "expiry" -> 7
    [] p = "replay" -> 6
    [] p = "quota" -> 5
    [] p = "handshake" -> 4
    [] p = "mark" -> 3
    [] p = "read" -> 2
    [] p = "write" -> 1
    [] p = "idle" -> 0

StepsLeft(w) ==
  CASE stage[w] = "ensure" -> 18 + Len(InitPlan)
    [] stage[w] = "setup" -> 18 + Len(InitPlan) - setup
    [] stage[w] = "discover" -> 17
    [] stage[w] = "prepare" -> 16
    [] stage[w] = "authorize" -> 15
    [] stage[w] = "await" -> 4 + IdapStepsLeft(pc[w])
    [] stage[w] = "verify" -> 3
    [] stage[w] = "execute" -> 2
    [] stage[w] = "delegate" -> 1
    [] stage[w] = "idle" -> 0

LEMMA IdapProgress ==
  ASSUME NEW w \in Workers, Auth!TypeOK, Auth!Step(w)
  PROVE  /\ pc[w] \in Auth!Stages /\ pc'[w] \in Auth!Stages
         /\ IdapStepsLeft(pc'[w]) < IdapStepsLeft(pc[w])
<1>1. DOMAIN pc = Workers /\ DOMAIN call = Workers /\ DOMAIN outcome = Workers
  BY DEF Auth!TypeOK
<1> USE <1>1 DEF Auth!Proceed, Auth!Answer, Auth!Stages, IdapStepsLeft
<1>2. CASE Auth!OpenCapability(w)
  BY <1>2 DEF Auth!OpenCapability
<1>3. CASE Auth!ResolveKeys(w)
  BY <1>3 DEF Auth!ResolveKeys
<1>4. CASE Auth!CheckPolicy(w)
  BY <1>4 DEF Auth!CheckPolicy
<1>5. CASE Auth!CheckExpiry(w)
  BY <1>5 DEF Auth!CheckExpiry
<1>6. CASE Auth!CheckReplay(w)
  BY <1>6 DEF Auth!CheckReplay
<1>7. CASE Auth!CheckQuota(w)
  BY <1>7 DEF Auth!CheckQuota
<1>8. CASE Auth!Handshake(w)
  BY <1>8 DEF Auth!Handshake
<1>9. CASE Auth!MarkSeen(w)
  BY <1>9 DEF Auth!MarkSeen
<1>10. CASE Auth!ReadUseCount(w)
  BY <1>10 DEF Auth!ReadUseCount
<1>11. CASE Auth!WriteUseCount(w)
  BY <1>11 DEF Auth!WriteUseCount
<1> QED BY <1>2, <1>3, <1>4, <1>5, <1>6, <1>7, <1>8, <1>9, <1>10, <1>11 DEF Auth!Step

(* No thread has more steps left than the plan of publication and the        *)
(* handler are long.                                                       *)
LEMMA StepsBound ==
  ASSUME Inv, NEW w \in Workers
  PROVE  StepsLeft(w) \in 0 .. 18 + Len(InitPlan)
<1>1. /\ stage[w] \in Stages /\ pc[w] \in Auth!Stages
      /\ setup \in 0 .. Len(InitPlan)
  BY DEF Inv, TypeOK, HandlersTyped, Auth!TypeOK
<1>2. Len(InitPlan) \in Nat
  BY PlanAssumption
<1>3. IdapStepsLeft(pc[w]) \in 0 .. 10
  BY <1>1 DEF IdapStepsLeft, Auth!Stages
<1>4. CASE stage[w] = "await"
  <2> DEFINE left == IdapStepsLeft(pc[w])
  <2>1. StepsLeft(w) = 4 + left
    BY <1>4 DEF StepsLeft
  <2> HIDE DEF left
  <2>2. left \in 0 .. 10
    BY <1>3 DEF left
  <2> QED BY <1>2, <2>1, <2>2
<1>5. CASE stage[w] = "setup"
  <2>1. StepsLeft(w) = 18 + Len(InitPlan) - setup
    BY <1>5 DEF StepsLeft
  <2> QED BY <1>1, <1>2, <2>1
<1>6. CASE stage[w] = "ensure"
  <2>1. StepsLeft(w) = 18 + Len(InitPlan)
    BY <1>6 DEF StepsLeft
  <2> QED BY <1>2, <2>1
<1>7. CASE stage[w] \notin {"await", "setup", "ensure"}
  <2>1. StepsLeft(w) \in 0 .. 17
    BY <1>1, <1>7 DEF StepsLeft, Stages
  <2> QED BY <1>2, <2>1
<1> QED BY <1>4, <1>5, <1>6, <1>7

(* What moves a thread from one stage to another.                          *)
LEMMA StepsFall ==
  ASSUME Inv, NEW w \in Workers, Handle(w)
  PROVE  StepsLeft(w)' < StepsLeft(w)
<1>1. /\ DOMAIN stage = Workers /\ Auth!TypeOK /\ stage[w] \in Stages
      /\ setup \in Nat
  BY DEF Inv, TypeOK, HandlersTyped
<1>2. Len(InitPlan) \in Nat /\ Len(InitPlan) > 0
  BY PlanAssumption
<1>3. IdapStepsLeft("open") = 10 /\ IdapStepsLeft(pc[w]) \in Nat
  BY <1>1 DEF IdapStepsLeft, Auth!TypeOK, Auth!Stages
<1> USE DEF Respond, Continue, LogFails, Goto
<1>4. CASE FindInitialized(w)
  BY <1>1, <1>2, <1>4 DEF FindInitialized, StepsLeft
<1>5. CASE StartSetup(w)
  BY <1>1, <1>2, <1>5 DEF StartSetup, StepsLeft
<1>6. CASE SetupStep(w)
  <2>1. stage[w] = "setup" /\ setup \in 1 .. Len(InitPlan)
    BY <1>6, WorkersAssumption DEF SetupStep, Inv, TypeOK, HandlersTyped, RuntimeInv
  <2>2. \/ stage'[w] = "setup" /\ setup' = setup + 1 /\ setup < Len(InitPlan)
        \/ stage'[w] \in {"discover", "idle"}
    BY <1>1, <1>6 DEF SetupStep
  <2> QED BY <1>1, <1>2, <2>1, <2>2 DEF StepsLeft
<1>7. CASE Discover(w)
  BY <1>1, <1>7 DEF Discover, StepsLeft
<1>8. CASE OpenDelegated(w)
  BY <1>1, <1>8 DEF OpenDelegated, StepsLeft
<1>9. CASE MintCapability(w)
  BY <1>1, <1>9 DEF MintCapability, StepsLeft
<1>10. CASE CallIdap(w)
  <2>1. \/ stage'[w] = "idle"
        \/ stage'[w] = "await" /\ pc'[w] = "open"
    BY <1>1, <1>10 DEF CallIdap, Auth!Present, Auth!TypeOK
  <2>2. StepsLeft(w) = 15
    BY <1>10 DEF CallIdap, StepsLeft
  <2>3. CASE stage'[w] = "idle"
    <3>1. StepsLeft(w)' = 0
      BY <2>3 DEF StepsLeft
    <3> QED BY <2>2, <3>1
  <2>4. CASE stage'[w] = "await" /\ pc'[w] = "open"
    <3>1. StepsLeft(w)' = 4 + IdapStepsLeft(pc[w])'
      BY <2>4 DEF StepsLeft
    <3>2. IdapStepsLeft(pc[w])' = 10
      BY <2>4 DEF IdapStepsLeft
    <3> QED BY <2>2, <3>1, <3>2
  <2> QED BY <2>1, <2>3, <2>4
<1>11. CASE IdapStep(w)
  <2> DEFINE before == IdapStepsLeft(pc[w])
             after  == IdapStepsLeft(pc'[w])
  <2>1. Auth!Step(w) /\ stage[w] = "await" /\ stage' = stage
    BY <1>11 DEF IdapStep, handlers
  <2>2. StepsLeft(w) = 4 + before /\ StepsLeft(w)' = 4 + after
    BY <2>1 DEF StepsLeft
  <2>3. after < before /\ before \in Int /\ after \in Int
    <3>1. pc[w] \in Auth!Stages /\ pc'[w] \in Auth!Stages
      BY <1>1, <2>1, IdapProgress
    <3>2. before \in Int /\ after \in Int
      BY <3>1 DEF Auth!Stages, IdapStepsLeft
    <3> QED BY <1>1, <2>1, <3>2, IdapProgress
  <2> HIDE DEF before, after
  <2> QED BY <2>2, <2>3
<1>12. CASE ReturnFromIdap(w)
  BY <1>1, <1>3, <1>12 DEF ReturnFromIdap, StepsLeft
<1>13. CASE VerifyTranscript(w)
  BY <1>1, <1>13 DEF VerifyTranscript, StepsLeft
<1>14. CASE ExecuteService(w)
  BY <1>1, <1>14 DEF ExecuteService, StepsLeft
<1>15. CASE Delegate(w)
  BY <1>1, <1>15 DEF Delegate, StepsLeft
<1> QED BY <1>4, <1>5, <1>6, <1>7, <1>8, <1>9, <1>10, <1>11, <1>12, <1>13, <1>14, <1>15
        DEF Handle

(* A thread does not lose ground by what the others do.                    *)
LEMMA StepsStay ==
  ASSUME Inv, NEW w \in Workers, Handle(w), NEW v \in Workers \ {w}
  PROVE  StepsLeft(v)' = StepsLeft(v)
<1>1. /\ DOMAIN stage = Workers /\ DOMAIN pc = Workers /\ Auth!TypeOK
      /\ stage[v] = "setup" <=> lock = v
      /\ stage[w] = "setup" <=> lock = w
      /\ pc[v] # "idle" => stage[v] = "await"
  BY DEF Inv, TypeOK, HandlersTyped, Auth!TypeOK
<1>2. stage'[v] = stage[v]
  BY <1>1 DEF Handle, FindInitialized, StartSetup, SetupStep, Discover, OpenDelegated,
       MintCapability, CallIdap, IdapStep, ReturnFromIdap, VerifyTranscript, ExecuteService,
       Delegate, LogFails, Continue, Respond, Goto, handlers
<1>3. stage[v] = "setup" => setup' = setup
  BY <1>1, WorkersAssumption DEF Handle, FindInitialized, StartSetup, SetupStep, Discover,
       OpenDelegated, MintCapability, CallIdap, IdapStep, ReturnFromIdap, VerifyTranscript,
       ExecuteService, Delegate, runtime
<1>4. stage[v] = "await" => pc'[v] = pc[v]
  <2>1. CASE StartSetup(w)
    BY <2>1 DEF StartSetup, Inv, WorkerInv, Ready
  <2>2. CASE IdapStep(w)
    BY <1>1, <2>2, IdapStepFacts DEF IdapStep
  <2>3. CASE ~ StartSetup(w) /\ ~ IdapStep(w)
    BY <1>1, <2>3 DEF Handle, FindInitialized, SetupStep, Discover, OpenDelegated,
         MintCapability, CallIdap, ReturnFromIdap, VerifyTranscript, ExecuteService, Delegate,
         idapVars, Auth!Issue, Auth!Present, Auth!threads
  <2> QED BY <2>1, <2>2, <2>3
<1> QED BY <1>2, <1>3, <1>4 DEF StepsLeft

(* Every step of a thread brings its answer nearer, and takes nothing from  *)
(* the others: a request is answered within 18 steps of its thread and one  *)
(* for each publication of the plan.  (That the thread is let take them is   *)
(* what the run checks, under fairness.)                                    *)
THEOREM Progress ==
  Spec => [][\A w \in Workers : Handle(w) =>
               /\ StepsLeft(w) \in 0 .. 18 + Len(InitPlan)
               /\ StepsLeft(w)' < StepsLeft(w)
               /\ \A v \in Workers \ {w} : StepsLeft(v)' = StepsLeft(v)]_vars
<1>1. Inv => \A w \in Workers : Handle(w) =>
               /\ StepsLeft(w) \in 0 .. 18 + Len(InitPlan)
               /\ StepsLeft(w)' < StepsLeft(w)
               /\ \A v \in Workers \ {w} : StepsLeft(v)' = StepsLeft(v)
  BY StepsBound, StepsFall, StepsStay
<1> QED BY <1>1, Invariant, PTL
-----------------------------------------------------------------------------
(* How far the race of `gateway_race' can go.  Every ticket has used up a   *)
(* grant of its own: it carries the number of the request it was sold to,   *)
(* which is the nonce IDAP granted for the capability.                     *)
GrantFor(id, n) == <<id, <<"nonce", n>>>>

Selling(w) == stage[w] \in Granted \/ Granting(w)

SaleInv ==
  /\ \A w \in Workers : Selling(w) => GrantFor(cap[w], request[w].number) \in granted
  /\ \A t \in tickets : GrantFor(t.capability, t.number) \in granted
  /\ \A t, u \in tickets : t.number = u.number => t = u

LEMMA GrantsGrow ==
  ASSUME IdapMove
  PROVE  granted \subseteq granted'
<1>1. ASSUME NEW w \in Workers, Auth!Step(w) PROVE granted \subseteq granted'
  BY <1>1 DEF Auth!Step, Auth!OpenCapability, Auth!ResolveKeys, Auth!CheckPolicy,
       Auth!CheckExpiry, Auth!CheckReplay, Auth!CheckQuota, Auth!Handshake, Auth!MarkSeen,
       Auth!ReadUseCount, Auth!WriteUseCount, Auth!history
<1>2. CASE UNCHANGED idapVars
  BY <1>2 DEF idapVars
<1>3. CASE Auth!Next /\ ~ \E w \in Workers : Auth!Step(w)
  <2>1. granted' = granted
    BY <1>3 DEF Auth!Next, Auth!Present, Auth!Tick, Auth!ResetRuntime, Auth!Issue, Auth!history
  <2> QED BY <2>1
<1> QED BY <1>1, <1>2, <1>3 DEF IdapMove

(* IDAP grants a thread the request it entered with.                       *)
LEMMA GrantedHere ==
  ASSUME Inv, NEW w \in Workers, IdapStep(w), Granting(w)'
  PROVE  GrantFor(cap[w], request[w].number) \in granted'
<1>1. stage[w] = "await" /\ Auth!Step(w) /\ Auth!TypeOK
  BY DEF IdapStep, Inv, TypeOK
<1>2. pc[w] = "write"
  BY <1>1, IdapStepFacts DEF Granting
<1>3. Auth!WriteUseCount(w)
  BY <1>1, <1>2 DEF Auth!Step, Auth!OpenCapability, Auth!ResolveKeys, Auth!CheckPolicy,
       Auth!CheckExpiry, Auth!CheckReplay, Auth!CheckQuota, Auth!Handshake, Auth!MarkSeen,
       Auth!ReadUseCount
<1>4. call[w] = Presented(w) /\ request[w].number \in Nonces
  BY <1>1, <1>2 DEF Inv, WorkerInv, RequestRecord
<1>5. Auth!PresentationId(call[w]) = GrantFor(cap[w], request[w].number)
  BY <1>4, NoNonceAssumption DEF Auth!PresentationId, Presented, GrantFor
<1> QED BY <1>3, <1>5 DEF Auth!WriteUseCount

LEMMA SaleStep == ASSUME Inv, AnswersInv, SaleInv, [Next]_vars PROVE SaleInv'
<1>1. /\ DOMAIN stage = Workers /\ DOMAIN cap = Workers /\ DOMAIN request = Workers
      /\ DOMAIN pc = Workers /\ DOMAIN outcome = Workers /\ Auth!TypeOK
      /\ granted \subseteq granted'
  BY GrantsGrow, NextKept DEF Inv, TypeOK, HandlersTyped, Auth!TypeOK
<1>2. ASSUME tickets' = tickets,
             \A v \in Workers : Selling(v)' =>
               \/ Selling(v) /\ cap'[v] = cap[v] /\ request'[v].number = request[v].number
               \/ GrantFor(cap'[v], request'[v].number) \in granted'
      PROVE  SaleInv'
  BY <1>1, <1>2 DEF SaleInv
<1> DEFINE Same(v) == /\ stage'[v] = stage[v] /\ cap'[v] = cap[v] /\ request'[v] = request[v]
                      /\ Granting(v)' => Granting(v)
<1>3. \A v \in Workers : Same(v) =>
        (Selling(v)' => Selling(v) /\ cap'[v] = cap[v] /\ request'[v].number = request[v].number)
  BY DEF Selling
<1>4. ASSUME tickets' = tickets, NEW w \in Workers, \A v \in Workers \ {w} : Same(v),
             stage'[w] \notin Granted, stage'[w] # "await" \/ pc'[w] # "idle"
      PROVE  SaleInv'
  BY <1>2, <1>3, <1>4 DEF Selling, Granting
<1>5. ASSUME NEW w \in Workers, NEW r \in Requests, NEW a \in Authorizations(r), Invoke(w, r, a)
      PROVE  SaleInv'
  <2>1. stage'[w] = "ensure" /\ tickets' = tickets /\ \A v \in Workers \ {w} : Same(v)
    BY <1>1, <1>5 DEF Invoke, Goto, ledgers, idapVars, Granting
  <2> QED BY <1>4, <2>1 DEF Granted
<1>6. ASSUME NEW w \in Workers,
             \/ FindInitialized(w) \/ StartSetup(w) \/ SetupStep(w) \/ Discover(w)
             \/ OpenDelegated(w) \/ MintCapability(w) \/ Delegate(w)
      PROVE  SaleInv'
  <2>1. stage'[w] \in {"setup", "discover", "prepare", "authorize", "idle"} /\ tickets' = tickets
    BY <1>1, <1>6 DEF FindInitialized, StartSetup, SetupStep, Discover, OpenDelegated,
                      MintCapability, Delegate, LogFails, Continue, Respond, Goto, ledgers
  <2>2. \A v \in Workers \ {w} :
          stage'[v] = stage[v] /\ cap'[v] = cap[v] /\ request'[v] = request[v]
    BY <1>1, <1>6 DEF FindInitialized, StartSetup, SetupStep, Discover, OpenDelegated,
                      MintCapability, Delegate, LogFails, Continue, Respond, Goto
  <2>3. \A v \in Workers \ {w} : Granting(v)' => Granting(v)
    <3>1. CASE StartSetup(w)
      BY <3>1 DEF StartSetup, Auth!ResetRuntime, Granting
    <3>2. CASE ~ StartSetup(w)
      <4>1. UNCHANGED <<pc, outcome>>
        BY <1>6, <3>2 DEF FindInitialized, SetupStep, Discover, OpenDelegated, MintCapability,
                          Delegate, idapVars, Auth!Issue, Auth!threads
      <4> QED BY <2>2, <4>1 DEF Granting
    <3> QED BY <3>1, <3>2
  <2> QED BY <1>4, <2>1, <2>2, <2>3 DEF Granted
<1>7. ASSUME NEW w \in Workers, CallIdap(w) PROVE SaleInv'
  <2>1. tickets' = tickets
    BY <1>7 DEF CallIdap, ledgers
  <2>2. \/ stage'[w] = "idle"
        \/ stage'[w] = "await" /\ pc'[w] = "open"
    BY <1>1, <1>7 DEF CallIdap, LogFails, Respond, Goto, Auth!Present
  <2>3. \A v \in Workers \ {w} : Same(v)
    BY <1>1, <1>7 DEF CallIdap, LogFails, Respond, Goto, Auth!Present, idapVars, Granting
  <2> QED BY <1>4, <2>1, <2>2, <2>3 DEF Granted
<1>8. ASSUME NEW w \in Workers, IdapStep(w) PROVE SaleInv'
  <2>1. UNCHANGED <<stage, request, cap, tickets>>
    BY <1>8 DEF IdapStep, handlers, ledgers
  <2>2. \A v \in Workers \ {w} : Same(v)
    BY <1>1, <1>8, <2>1, IdapStepFacts DEF IdapStep, Granting
  <2>3. Selling(w)' => stage[w] \in Granted \/ GrantFor(cap'[w], request'[w].number) \in granted'
    BY <1>8, <2>1, GrantedHere DEF Selling
  <2> QED BY <1>2, <1>3, <2>1, <2>2, <2>3 DEF Selling
<1>9. ASSUME NEW w \in Workers, ReturnFromIdap(w) \/ VerifyTranscript(w) PROVE SaleInv'
  <2>1. tickets' = tickets /\ \A v \in Workers \ {w} : Same(v)
    BY <1>1, <1>9 DEF ReturnFromIdap, VerifyTranscript, LogFails, Continue, Respond, Goto,
                      Granting, ledgers, idapVars
  <2>2. \/ stage'[w] = "idle"
        \/ Selling(w) /\ UNCHANGED <<request, cap>>
    BY <1>1, <1>9 DEF ReturnFromIdap, VerifyTranscript, LogFails, Continue, Respond, Goto,
                      Selling, Granting, Granted
  <2> QED BY <1>2, <1>3, <2>1, <2>2 DEF Selling, Granted, Granting
<1>10. ASSUME NEW w \in Workers, ExecuteService(w) PROVE SaleInv'
  <2> DEFINE new == [number |-> request[w].number, capability |-> cap[w],
                     payload |-> request[w].payload,
                     constraints |-> request[w].constraints, uses |-> request[w].uses]
  <2>0. new.number = request[w].number /\ new.capability = cap[w]
    OBVIOUS
  <2>1. stage[w] = "execute" /\ tickets' \in {tickets, tickets \cup {new}}
    BY <1>10 DEF ExecuteService
  <2>2. GrantFor(cap[w], request[w].number) \in granted
    BY <2>1 DEF SaleInv, Selling, Granted
  <2>3. \A t \in tickets : t.number # request[w].number
    BY <2>1 DEF AnswersInv, Shown, Executed
  <2>4. \A v \in Workers \ {w} : Same(v)
    BY <1>1, <1>10 DEF ExecuteService, LogFails, Continue, Respond, Goto, Granting, idapVars
  <2>5. Selling(w)' => UNCHANGED <<cap, request>>
    BY <1>1, <1>10 DEF ExecuteService, LogFails, Continue, Respond, Goto, Selling, Granted, Granting
  <2>6. ASSUME NEW v \in Workers, Selling(v)'
        PROVE  GrantFor(cap'[v], request'[v].number) \in granted'
    <3>1. CASE v = w
      BY <1>1, <2>2, <2>5, <2>6, <3>1
    <3>2. CASE v # w
      BY <1>1, <1>3, <2>4, <2>6, <3>2 DEF SaleInv
    <3> QED BY <3>1, <3>2
  <2> HIDE DEF new
  <2>7. \A t \in tickets' : t \in tickets \/ t = new
    BY <2>1
  <2>8. \A t \in tickets' : GrantFor(t.capability, t.number) \in granted'
    BY <1>1, <2>0, <2>2, <2>7 DEF SaleInv
  <2>9. \A t, u \in tickets' : t.number = u.number => t = u
    BY <2>0, <2>3, <2>7 DEF SaleInv
  <2> QED BY <2>6, <2>8, <2>9 DEF SaleInv
<1>11. CASE Crash
  BY <1>2, <1>11 DEF Crash, ledgers, Selling, Granted, Granting
<1>12. CASE Tick \/ UNCHANGED vars
  <2>1. UNCHANGED <<stage, request, cap, pc, outcome, tickets>>
    BY <1>12 DEF Tick, Auth!Tick, Auth!threads, handlers, ledgers, vars, idapVars
  <2> QED BY <1>2, <2>1 DEF Selling, Granting
<1> QED BY <1>5, <1>6, <1>7, <1>8, <1>9, <1>10, <1>11, <1>12 DEF Next, Handle

SoldOn(id) == {t \in tickets : t.capability = id}

TicketsWithinThreads ==
  \A id \in CapIds :
    IsFiniteSet(SoldOn(id)) /\ Cardinality(SoldOn(id)) <= Cardinality(Workers)

LEMMA SameCardinality == \A S : Cardinality(S) = IdapProofs!Cardinality(S)
  BY DEF Cardinality, IdapProofs!Cardinality

(* No more tickets are sold on a capability than it was answered           *)
(* AUTHORIZED.                                                             *)
LEMMA SalesCounted ==
  ASSUME Inv, SaleInv, IdapProofs!GrantsCounted, NEW id \in CapIds
  PROVE  IsFiniteSet(SoldOn(id)) /\ Cardinality(SoldOn(id)) <= authorized[id]
<1> DEFINE G == IdapProofs!Grants(id)
           f == [t \in SoldOn(id) |-> GrantFor(t.capability, t.number)]
<1>1. IsFiniteSet(G) /\ Cardinality(G) <= authorized[id]
  <2>1. IdapProofs!IsFiniteSet(G) /\ IdapProofs!Cardinality(G) <= authorized[id]
    BY DEF IdapProofs!GrantsCounted
  <2> QED BY <2>1, SameCardinality DEF IsFiniteSet, IdapProofs!IsFiniteSet
<1>2. f \in Injection(SoldOn(id), G)
  <2>1. \A t \in SoldOn(id) : GrantFor(t.capability, t.number) \in G
    BY DEF SaleInv, SoldOn, GrantFor, IdapProofs!Grants
  <2>2. \A t, u \in SoldOn(id) :
          GrantFor(t.capability, t.number) = GrantFor(u.capability, u.number) => t = u
    BY DEF SaleInv, SoldOn, GrantFor
  <2> HIDE DEF G
  <2> QED BY <2>1, <2>2 DEF Injection, IsInjective
<1> HIDE DEF G, f
<1>3. IsFiniteSet(SoldOn(id)) /\ Cardinality(SoldOn(id)) <= Cardinality(G)
  BY <1>1, <1>2, FS_Injection
<1>4. Cardinality(SoldOn(id)) \in Nat /\ Cardinality(G) \in Nat /\ authorized[id] \in Nat
  BY <1>1, <1>3, FS_CardinalityType DEF Inv, TypeOK, Auth!TypeOK
<1> QED BY <1>1, <1>3, <1>4

(* With any number of threads, restarts and failures included, a capability *)
(* sells no more tickets than there are threads: all that a client gains   *)
(* by presenting its authorization once more is in the requests that run   *)
(* at the same time.  OneTicket is the case of one thread.                  *)
THEOREM TicketOverrun == IsFiniteSet(Workers) => (Spec => []TicketsWithinThreads)
<1> SUFFICES ASSUME IsFiniteSet(Workers) PROVE Spec => []TicketsWithinThreads
  OBVIOUS
<1>1. Init => SaleInv
  BY DEF Init, Auth!Init, SaleInv, Selling, Granted, Granting
<1>2. Inv /\ AnswersInv /\ SaleInv /\ [Next]_vars => SaleInv'
  BY SaleStep
<1>3. Spec => []IdapProofs!GrantsCounted
  <2>1. IdapProofs!Spec => []IdapProofs!GrantsCounted
    BY IdapAssumptions, IdapProofs!GrantsAreUses
  <2> QED BY <2>1, GatewayImplementsIdap, PTL
<1>4. Spec => []IdapProofs!OneShotOverrun
  BY QuotaUnderThreads
<1>5. ASSUME Inv, SpendInv, SaleInv, IdapProofs!GrantsCounted, IdapProofs!OneShotOverrun,
             NEW id \in CapIds
      PROVE  IsFiniteSet(SoldOn(id)) /\ Cardinality(SoldOn(id)) <= Cardinality(Workers)
  <2>1. CASE SoldOn(id) = {}
    BY <2>1, FS_EmptySet, FS_CardinalityType
  <2>2. CASE SoldOn(id) # {}
    <3>1. PICK t \in tickets : t.capability = id
      BY <2>2 DEF SoldOn
    <3>2. caps[id] # NoCap
      BY <1>5, <3>1 DEF Inv, LedgerInv, TicketsBacked, StemsFrom, BoughtWith, Backed
    <3>3. IdapProofs!QuotaOf(id) = 1
      BY <1>5, <3>2 DEF SpendInv, CapsInv, IdapProofs!QuotaOf
    <3>4. authorized[id] <= Cardinality(Workers)
      BY <1>5, <3>3, SameCardinality DEF IdapProofs!OneShotOverrun
    <3>5. IsFiniteSet(SoldOn(id)) /\ Cardinality(SoldOn(id)) <= authorized[id]
      BY <1>5, SalesCounted
    <3>6. /\ Cardinality(SoldOn(id)) \in Nat /\ Cardinality(Workers) \in Nat
          /\ authorized[id] \in Nat
      BY <1>5, <3>5, FS_CardinalityType DEF Inv, TypeOK, Auth!TypeOK
    <3> QED BY <3>4, <3>5, <3>6
  <2> QED BY <2>1, <2>2
<1>6. Inv /\ SpendInv /\ SaleInv /\ IdapProofs!GrantsCounted /\ IdapProofs!OneShotOverrun =>
        TicketsWithinThreads
  BY <1>5 DEF TicketsWithinThreads
<1> QED BY <1>1, <1>2, <1>3, <1>4, <1>6, Invariant, AnswersInvariant, SpendInvariant, PTL DEF Spec
==============================================================================
