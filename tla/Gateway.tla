------------------------------- MODULE Gateway -------------------------------
(***************************************************************************)
(* The HTTP gateway (d3_gateway.py): FastAPI runs the synchronous handler    *)
(* in a pool of threads, so requests interleave everywhere except inside    *)
(* ensure_initialized, which holds the runtime's lock.  The module composes *)
(* the lazy, retried initialisation, broker discovery, the minting of        *)
(* one-shot capabilities, IDAP (module Idap, one step at a time) and the     *)
(* delegation from a payment to the ticket purchase it authorizes.          *)
(*                                                                         *)
(* A service's SID is the pair of its action and the generation of its      *)
(* identity: every attempt to initialise generates all identities anew.     *)
(***************************************************************************)
EXTENDS PaymentConstraints, Integers, Sequences, FiniteSets

CONSTANTS
  Workers,         \* threads of the pool
  Requests,        \* what clients post: see RequestType
  InitPlan,        \* what _publish_initial_state publishes, in order
  Fields,          \* what each payload contains: field -> JSON value
  ClientConstraints,  \* capability_constraints that clients bring
  PublishMayFail,  \* whether a write to the store may raise
  LogMayFail,      \* whether metrics.log_metric may raise
  NoWorker, NoProvider, NoAuthorization,
  NoNonce, NoKey, NoSequence, NoCap, NoCall,
  MaxRequests,     \* bound: requests explored
  MaxGeneration,   \* bound: generations of the identities explored
  MaxTime          \* bound: ticks of the clock explored

Actions == {Pay, Buy, "search_flights"}

(* What PROVIDER_REGISTRY says: the provider that hosts each action.       *)
Host == [a \in Actions |-> IF a = Pay THEN "payment" ELSE "travel"]

(* InvokeRequest.  A payload is a name here, of the object that Fields      *)
(* holds.  The input and output types, which only narrow the discovery,     *)
(* are left to its failing.                                                *)
RequestType ==
  [action: STRING, provider: STRING \cup {NoProvider}, capability_action: STRING,
   payload: STRING, constraints: ClientConstraints \cup {NoConstraints}]

ASSUME ActionsAssumption == Actions \subseteq STRING
ASSUME RequestsAssumption == Requests \subseteq RequestType
(* Whatever else is published, the ticket service is.                      *)
ASSUME PlanAssumption ==
  /\ InitPlan \in Seq(STRING)
  /\ Len(InitPlan) > 0
  /\ \E i \in DOMAIN InitPlan : InitPlan[i] = Buy

ASSUME WorkersAssumption == NoWorker \notin Workers
ASSUME FailuresAssumption == PublishMayFail \in BOOLEAN /\ LogMayFail \in BOOLEAN
ASSUME LimitsAssumption ==
  MaxRequests \in Nat /\ MaxGeneration \in Nat \ {0} /\ MaxTime \in Nat

(* Identifiers drawn from secrets.token_hex are never repeated: they are   *)
(* numbered in the order they are drawn.  A payment draws two nonces for   *)
(* capabilities, every request one for itself.                             *)
CapIds == 1 .. 2 * MaxRequests
Nonces == 1 .. MaxRequests

Payloads == {r.payload : r \in Requests}

ASSUME FieldsAssumption ==
  \A p \in Payloads : \A f \in DOMAIN Fields[p] : IsJson(Fields[p][f])

CapabilityActions == {r.capability_action : r \in Requests}

(* The constraints that capabilities carry, and what they make of the       *)
(* payloads in circulation.                                                *)
Circulating ==
  {ConstraintsForRequest(a, own) : a \in Actions, own \in ClientConstraints \cup {NoConstraints}}
    \cup {PurchaseConstraints(Fields[p]) : p \in Payloads}

Permits == [c \in Circulating |-> {p \in Payloads : ConstraintsMatch(c, Fields[p])}]
Raising == [c \in Circulating |-> {p \in Payloads : MayOverflow(c, Fields[p])}]

(* The capability minted for one request: quota 1, one hour.  A tick of the *)
(* clock is a little more than 15 minutes, lifetimes count whole ticks.    *)
RequestCapability(sid, action, constraints) ==
  [s1 |-> sid, action |-> action, permits |-> Permits[constraints],
   overflows |-> Raising[constraints], sequence |-> NoSequence,
   endorsed |-> TRUE, stamp |-> "aware", lifetime |-> 3, quota |-> 1]

(* The capability a payment delegates: quota 1, 15 minutes, and what the    *)
(* payment's payload constrains.                                           *)
PurchaseCapability(payload) ==
  [RequestCapability(Buy, Buy, PurchaseConstraints(Fields[payload])) EXCEPT !.lifetime = 0]

Contents ==
  {RequestCapability(a, c, ConstraintsForRequest(a, own)) :
     a \in Actions, c \in CapabilityActions, own \in ClientConstraints \cup {NoConstraints}}
    \cup {PurchaseCapability(p) : p \in Payloads}

(* How invoke presents a capability: sealed, signed, with a fresh ephemeral.*)
Wrapped(sid, action, payload) ==
  [sealed |-> TRUE, receiver |-> sid, target |-> sid, action |-> action,
   payload |-> payload, sequence |-> NoSequence, signed |-> TRUE, ephemeral |-> "valid"]

Variants == {Wrapped(a, a, p) : a \in Actions, p \in Payloads}

VARIABLES
  caps, generation, now, seen, useCount, pc, call, count, outcome, authorized, granted,
                 \* the variables of Idap
  lock,          \* the holder of D3Runtime._lock
  initialized,   \* D3Runtime._initialized
  setup,         \* how far the initialisation in progress has got
  services,      \* services_by_sid, in insertion order
  stage,         \* the point each thread has reached in invoke
  request,       \* the request each thread serves
  cap,           \* the capability each thread presents
  response,      \* the last HTTP answer of each thread
  requests,      \* requests received so far
  delegated,     \* history: the capabilities handed out with a payment
  paid,          \* history: the payments executed
  tickets        \* history: the tickets sold

idapVars == <<caps, generation, now, seen, useCount, pc, call, count, outcome,
              authorized, granted>>
runtime  == <<lock, initialized, setup, services>>
handlers == <<stage, request, cap, response, requests>>
ledgers  == <<delegated, paid, tickets>>
vars     == <<idapVars, runtime, handlers, ledgers>>

Auth == INSTANCE Idap

ASSUME NoNonceAssumption == NoNonce \notin Nonces
ASSUME NoCapAssumption == NoCap \notin Auth!CapType
ASSUME NoCallAssumption == NoCall \notin Auth!CallType

NoRequest == [action |-> "none"]

-----------------------------------------------------------------------------
Init ==
  /\ Auth!Init
  /\ lock = NoWorker
  /\ initialized = FALSE
  /\ setup = 0
  /\ services = <<>>
  /\ stage = [w \in Workers |-> "idle"]
  /\ request = [w \in Workers |-> NoRequest]
  /\ cap = [w \in Workers |-> 0]
  /\ response = [w \in Workers |-> 0]
  /\ requests = 0
  /\ delegated = {}
  /\ paid = {}
  /\ tickets = {}

Goto(w, s) == stage' = [stage EXCEPT ![w] = s]

(* The handler returns a result or raises: the client gets a status code.  *)
Respond(w, code) ==
  /\ stage' = [stage EXCEPT ![w] = "idle"]
  /\ request' = [request EXCEPT ![w] = NoRequest]
  /\ cap' = [cap EXCEPT ![w] = 0]
  /\ response' = [response EXCEPT ![w] = code]
  /\ UNCHANGED requests

Continue(w, s) == Goto(w, s) /\ UNCHANGED <<request, cap, response, requests>>

(* metrics.timed writes its row in a finally block: when that raises, a     *)
(* step that has taken effect ends the request like one that failed.       *)
LogFails(w) == LogMayFail /\ Respond(w, 500)

(* POST /invoke.  A purchase carries an authorization the client was given *)
(* at some time, or none that can be used.                                 *)
Invoke(w, r, authorization) ==
  /\ stage[w] = "idle"
  /\ requests < MaxRequests
  /\ requests' = requests + 1
  /\ request' = [request EXCEPT ![w] =
       [action |-> r.action, provider |-> r.provider, payload |-> r.payload,
        capability_action |-> r.capability_action, constraints |-> r.constraints,
        authorization |-> authorization, number |-> requests + 1, uses |-> 0]]
  /\ response' = [response EXCEPT ![w] = 0]
  /\ Goto(w, "ensure")
  /\ UNCHANGED <<idapVars, runtime, cap, ledgers>>

(* ensure_initialized once the runtime is initialised: lock, look, unlock. *)
FindInitialized(w) ==
  /\ stage[w] = "ensure"
  /\ lock = NoWorker
  /\ initialized
  /\ Continue(w, "discover")
  /\ UNCHANGED <<idapVars, runtime, ledgers>>

(* Mutant: _initialized is tested before the lock is taken, not under it.  *)
StartSetupUnchecked(w) ==
  /\ stage[w] = "ensure"
  /\ lock = NoWorker
  /\ lock' = w
  /\ setup' = 1
  /\ Auth!ResetRuntime
  /\ Continue(w, "setup")
  /\ UNCHANGED <<initialized, services, ledgers>>

(* The first request, or the first after a failed attempt, initialises     *)
(* while holding the lock: fresh store object, empty IDAP state, new       *)
(* identities.  services_by_sid is not emptied.                            *)
StartSetup(w) ==
  /\ stage[w] = "ensure"
  /\ lock = NoWorker
  /\ ~initialized
  /\ lock' = w
  /\ setup' = 1
  /\ Auth!ResetRuntime
  /\ Continue(w, "setup")
  /\ UNCHANGED <<initialized, services, ledgers>>

(* Steps of the plan that publish a service.                               *)
Registers(step) == step \in Actions

(* Mutant: an exception leaves the lock held.                              *)
SetupStepKeepingLock(w) ==
  /\ stage[w] = "setup"
  /\ services' = IF Registers(InitPlan[setup])
                   THEN Append(services, [action |-> InitPlan[setup], generation |-> generation])
                   ELSE services
  /\ \/ /\ setup < Len(InitPlan)
        /\ setup' = setup + 1
        /\ Continue(w, "setup")
        /\ UNCHANGED <<lock, initialized>>
     \/ /\ setup = Len(InitPlan)
        /\ setup' = 0
        /\ initialized' = TRUE
        /\ lock' = NoWorker
        /\ Continue(w, "discover")
     \/ /\ PublishMayFail
        /\ generation < MaxGeneration
        /\ setup' = 0
        /\ Respond(w, 500)
        /\ UNCHANGED <<lock, initialized>>
  /\ UNCHANGED <<idapVars, ledgers>>

(* One step of _publish_initial_state, under the lock: a service is entered *)
(* in services_by_sid, then published; a failed write ends the attempt and *)
(* the exception releases the lock.                                        *)
SetupStep(w) ==
  /\ stage[w] = "setup"
  /\ services' = IF Registers(InitPlan[setup])
                   THEN Append(services, [action |-> InitPlan[setup], generation |-> generation])
                   ELSE services
  /\ \/ /\ setup < Len(InitPlan)
        /\ setup' = setup + 1
        /\ Continue(w, "setup")
        /\ UNCHANGED <<lock, initialized>>
     \/ /\ setup = Len(InitPlan)
        /\ setup' = 0
        /\ initialized' = TRUE
        /\ lock' = NoWorker
        /\ Continue(w, "discover")
     \/ /\ PublishMayFail
        /\ generation < MaxGeneration
        /\ setup' = 0
        /\ lock' = NoWorker
        /\ Respond(w, 500)
        /\ UNCHANGED initialized
  /\ UNCHANGED <<idapVars, ledgers>>

(* The types are inferred from the registry, the provider filter applied   *)
(* and broker.discover run over the published registries; the store may    *)
(* raise.                                                                  *)
Discover(w) ==
  /\ stage[w] = "discover"
  /\ LET r == request[w]
         found == r.action \in Actions /\ r.provider \in {NoProvider, Host[r.action]}
     IN  \/ found /\ Continue(w, "prepare")
         \/ ~found /\ Respond(w, 404)
         \/ Respond(w, 500)
  /\ UNCHANGED <<idapVars, runtime, ledgers>>

(* The identifier drawn next.                                              *)
Fresh(id) == caps[id] = NoCap /\ \A i \in 1 .. id - 1 : caps[i] # NoCap

(* A purchase: the delegated capability is opened with the key of the      *)
(* discovered service; whatever fails, the log included, counts as invalid. *)
OpenDelegated(w) ==
  /\ stage[w] = "prepare"
  /\ request[w].action = Buy
  /\ LET r == request[w]
         opens == /\ r.authorization # NoAuthorization
                  /\ Auth!CanOpen([id |-> r.authorization, nonce |-> r.number,
                                   variant |-> Wrapped(Buy, Buy, r.payload)])
     IN  \/ /\ opens
            /\ cap' = [cap EXCEPT ![w] = r.authorization]
            /\ Goto(w, "authorize")
            /\ UNCHANGED <<request, response, requests>>
         \/ (~opens \/ LogMayFail) /\ Respond(w, 403)
  /\ UNCHANGED <<idapVars, runtime, ledgers>>

(* Any other action: a one-shot capability is minted and sealed to the     *)
(* discovered service.                                                     *)
MintCapability(w) ==
  /\ stage[w] = "prepare"
  /\ request[w].action # Buy
  /\ \E id \in CapIds :
       /\ Fresh(id)
       /\ LET r == request[w]
          IN  Auth!Issue(id,
                RequestCapability(r.action, r.capability_action,
                                  ConstraintsForRequest(r.action, r.constraints)),
                generation)
       /\ cap' = [cap EXCEPT ![w] = id]
  /\ Goto(w, "authorize")
  /\ UNCHANGED <<runtime, request, response, requests, ledgers>>

(* The signed request, with a fresh request_nonce, enters IDAP, unless one  *)
(* of the rows logged since discovery failed.  `uses' records, for the      *)
(* properties, how often its capability was authorized so far.             *)
CallIdap(w) ==
  /\ stage[w] = "authorize"
  /\ \/ /\ LET r == request[w]
           IN  Auth!Present(w, cap[w], r.number, Wrapped(r.action, r.action, r.payload))
        /\ request' = [request EXCEPT ![w].uses = authorized[cap[w]]]
        /\ Goto(w, "await")
        /\ UNCHANGED <<cap, response, requests>>
     \/ LogFails(w) /\ UNCHANGED idapVars
  /\ UNCHANGED <<runtime, ledgers>>

IdapStep(w) ==
  /\ stage[w] = "await"
  /\ Auth!Step(w)
  /\ UNCHANGED <<runtime, handlers, ledgers>>

ReturnFromIdap(w) ==
  /\ stage[w] = "await"
  /\ pc[w] = "idle"
  /\ \/ outcome[w] = "AUTHORIZED" /\ Continue(w, "verify")
     \/ outcome[w] = "REJECTED" /\ Respond(w, 403)
     \/ outcome[w] = "RAISED" /\ Respond(w, 500)
     \/ LogFails(w)
  /\ UNCHANGED <<idapVars, runtime, ledgers>>

(* Mutant: a failure here is reported like a refusal of the capability.    *)
VerifyTranscriptRefusing(w) ==
  /\ stage[w] = "verify"
  /\ Continue(w, "execute") \/ Respond(w, 403)
  /\ UNCHANGED <<idapVars, runtime, ledgers>>

(* The service key is resolved again, the transcript verified and the      *)
(* session key compared: the only thing that can fail is the store.        *)
VerifyTranscript(w) ==
  /\ stage[w] = "verify"
  /\ Continue(w, "execute") \/ Respond(w, 500)
  /\ UNCHANGED <<idapVars, runtime, ledgers>>

(* _execute_service_securely, on the payload of the request; if it is no    *)
(* payment the total is logged and the answer sent.                        *)
ExecuteService(w) ==
  /\ stage[w] = "execute"
  /\ LET r == request[w]
         entry == [number |-> r.number, capability |-> cap[w], payload |-> r.payload,
                   constraints |-> r.constraints, uses |-> r.uses]
     IN  /\ tickets' = IF r.action = Buy THEN tickets \cup {entry} ELSE tickets
         /\ paid' = IF r.action = Pay THEN paid \cup {entry} ELSE paid
         /\ \/ r.action = Pay /\ Continue(w, "delegate")
            \/ r.action # Pay /\ (Respond(w, 200) \/ LogFails(w))
  /\ UNCHANGED <<idapVars, runtime, delegated>>

(* _service_entry_for_action: the first entry inserted for the action.     *)
ServiceEntryForAction(action) ==
  services[CHOOSE i \in DOMAIN services : services[i].action = action
             /\ \A j \in 1 .. i - 1 : services[j].action # action]

(* Mutant: when the log fails, the delegation is tried once more.          *)
DelegateRetrying(w) ==
  /\ stage[w] = "delegate"
  /\ \E id \in CapIds :
       /\ Fresh(id)
       /\ Auth!Issue(id, PurchaseCapability(request[w].payload),
                     ServiceEntryForAction(Buy).generation)
       /\ delegated' = delegated \cup
            {[capability |-> id, payment |-> request[w].number, runtime |-> generation]}
  /\ \/ Respond(w, 200)
     \/ /\ LogMayFail
        /\ \A d \in delegated : d.payment # request[w].number
        /\ Continue(w, "delegate")
  /\ UNCHANGED <<runtime, paid, tickets>>

(* _create_purchase_authorization: the delegated capability goes to the    *)
(* client with the answer, and is lost with it when the log fails.         *)
Delegate(w) ==
  /\ stage[w] = "delegate"
  /\ \/ \E id \in CapIds :
          /\ Fresh(id)
          /\ Auth!Issue(id, PurchaseCapability(request[w].payload),
                        ServiceEntryForAction(Buy).generation)
          /\ delegated' = delegated \cup
               {[capability |-> id, payment |-> request[w].number, runtime |-> generation]}
          /\ Respond(w, 200)
     \/ LogFails(w) /\ UNCHANGED <<idapVars, delegated>>
  /\ UNCHANGED <<runtime, paid, tickets>>

Tick == Auth!Tick /\ UNCHANGED <<runtime, handlers, ledgers>>

(* Mutant: the use counters are lost but the identities are kept.          *)
CrashKeepingKeys ==
  /\ generation + 1 < MaxGeneration
  /\ seen' = {}
  /\ useCount' = [id \in CapIds |-> 0]
  /\ pc' = [w \in Workers |-> "idle"]
  /\ call' = [w \in Workers |-> NoCall]
  /\ count' = [w \in Workers |-> 0]
  /\ outcome' = [w \in Workers |-> "none"]
  /\ stage' = [w \in Workers |-> "idle"]
  /\ request' = [w \in Workers |-> NoRequest]
  /\ cap' = [w \in Workers |-> 0]
  /\ response' = [w \in Workers |-> 0]
  /\ UNCHANGED <<caps, generation, now, authorized, granted, runtime, requests, ledgers>>

(* The process dies and is started again: memory is lost, clients see      *)
(* their requests fail, what they hold and what was executed remains.      *)
Crash ==
  /\ generation + 1 < MaxGeneration
  /\ Auth!ResetRuntime
  /\ lock' = NoWorker
  /\ initialized' = FALSE
  /\ setup' = 0
  /\ services' = <<>>
  /\ stage' = [w \in Workers |-> "idle"]
  /\ request' = [w \in Workers |-> NoRequest]
  /\ cap' = [w \in Workers |-> 0]
  /\ response' = [w \in Workers |-> 0]
  /\ UNCHANGED <<requests, ledgers>>

Handle(w) ==
  \/ FindInitialized(w)
  \/ StartSetup(w)
  \/ SetupStep(w)
  \/ Discover(w)
  \/ OpenDelegated(w)
  \/ MintCapability(w)
  \/ CallIdap(w)
  \/ IdapStep(w)
  \/ ReturnFromIdap(w)
  \/ VerifyTranscript(w)
  \/ ExecuteService(w)
  \/ Delegate(w)

Authorizations(r) ==
  {NoAuthorization} \cup IF r.action = Buy THEN {d.capability : d \in delegated} ELSE {}

Next ==
  \/ \E w \in Workers, r \in Requests : \E a \in Authorizations(r) : Invoke(w, r, a)
  \/ \E w \in Workers : Handle(w)
  \/ Tick
  \/ Crash

Spec == Init /\ [][Next]_vars

(* Every thread of the pool that can take a step eventually does.          *)
FairSpec == Spec /\ \A w \in Workers : WF_vars(Handle(w))

-----------------------------------------------------------------------------
Stages == {"idle", "ensure", "setup", "discover", "prepare", "authorize", "await",
           "verify", "execute", "delegate"}

(* The type invariant; the lock is held exactly by the thread that is       *)
(* initialising, and a thread is inside IDAP only while its handler waits.  *)
HandlersTyped ==
  /\ lock \in Workers \cup {NoWorker}
  /\ initialized \in BOOLEAN
  /\ setup \in 0 .. Len(InitPlan)
  /\ services \in Seq([action: Actions, generation: 1 .. MaxGeneration])
  /\ stage \in [Workers -> Stages]
  /\ cap \in [Workers -> {0} \cup CapIds]
  /\ response \in [Workers -> {0, 200, 403, 404, 500}]
  /\ requests \in 0 .. MaxRequests
  /\ delegated \subseteq [capability: CapIds, payment: Nonces, runtime: 1 .. MaxGeneration]
  /\ DOMAIN request = Workers
  /\ \A w \in Workers : /\ lock = w <=> stage[w] = "setup"
                        /\ request[w] = NoRequest <=> stage[w] = "idle"
                        /\ pc[w] # "idle" => stage[w] = "await"

TypeOK == Auth!TypeOK /\ HandlersTyped

(* A delegated capability has quota 1 (d3_gateway.py 333): it sells one     *)
(* ticket, however often it is presented, restarts included.               *)
OneTicketPerAuthorization ==
  \A t, u \in tickets : t.capability = u.capability => t = u

(* A payment buys one ticket: it delegates once, and never again when its   *)
(* request fails after it (d3_gateway.py 319, 339 and metrics.py 72).       *)
BoughtWith(t, n) == \E d \in delegated : d.capability = t.capability /\ d.payment = n

OneTicketPerPayment ==
  \A n \in Nonces : \A t, u \in tickets : BoughtWith(t, n) /\ BoughtWith(u, n) => t = u

(* A delegated capability that was ever answered AUTHORIZED is spent        *)
(* (README.md 358): no purchase that enters IDAP later gets a ticket for   *)
(* it, restarts included.  Only purchases in progress at the same time     *)
(* share one.                                                              *)
SpentStaysSpent == \A t \in tickets : t.uses = 0

(* A client that is told 200 has been served, and one that is told 403 or   *)
(* 404 can try again: nothing was executed and no authorization was used   *)
(* up for it.  Only 500 leaves that open (d3_gateway.py 525, metrics.py 72).*)
Executed(n, served) == \E e \in served : e.number = n
UsedUp(n, spent) == \E p \in spent : p[2] = <<"nonce", n>>
Answers(w) == stage[w] # "idle" /\ response'[w] # response[w]

AnswersAreHonest ==
  [][\A w \in Workers : Answers(w) =>
       LET r == request[w]
           executed == Executed(r.number, paid' \cup tickets')
       IN  /\ response'[w] = 200 /\ r.action \in {Pay, Buy} => executed
           /\ response'[w] \in {403, 404} => ~executed /\ ~UsedUp(r.number, granted')]_vars

(* Every ticket goes back to an executed payment and stays within it: the   *)
(* chain payment, delegation, purchase cannot be entered in the middle,     *)
(* whatever requests run at the same time and whatever crashes, and at its  *)
(* end the ticket keeps the flight, airline and currency that the payment   *)
(* named and costs no more (d3_gateway.py 304-317).  That is less than      *)
(* README.md 383 says: a lower amount passes, and so does any flight if the *)
(* payment named none.                                                     *)
StemsFrom(t, p) == BoughtWith(t, p.number)

TicketsArePaidFor ==
  \A t \in tickets : \E p \in paid :
    StemsFrom(t, p) /\ Narrows(Fields[t.payload], Fields[p.payload])

(* Whoever does not bring constraints of his own (which replace the policy, *)
(* d3_gateway.py 129-130) pays no more than it allows, in its currency      *)
(* (38-42); and the ticket of a payment under the policy is within it too,  *)
(* although the purchase is only compared with the payment.                *)
PolicyEnforced ==
  /\ \A p \in paid : p.constraints = NoConstraints => WithinPolicy(Fields[p.payload])
  /\ \A t \in tickets : \E p \in paid :
       /\ StemsFrom(t, p)
       /\ p.constraints = NoConstraints => WithinPolicy(Fields[t.payload])

(* Replay and use state is emptied and the identities are replaced only     *)
(* while every other request still waits in ensure_initialized: an          *)
(* initialisation never pulls the ground from under a running request.     *)
Waiting(w) == stage[w] \in {"idle", "ensure"}

NoResetUnderRequests ==
  [][(generation' # generation /\ \E w \in Workers : stage'[w] # "idle")
       => \A w \in Workers : Waiting(w)]_vars

(* A delegated capability that this initialisation of the runtime handed    *)
(* out can be opened by the ticket service it discovers: it is refused as   *)
(* invalid (d3_gateway.py 421) only if it stems from before a restart.     *)
RefusesDelegated(w) ==
  /\ stage[w] = "prepare" /\ stage'[w] = "idle"
  /\ request[w].action = Buy /\ request[w].authorization # NoAuthorization

DelegationOpens ==
  [][\A w \in Workers : RefusesDelegated(w) => generation' # generation \/
       \E d \in delegated : d.capability = request[w].authorization /\ d.runtime # generation]_vars

(* Capabilities die with the keys they are sealed to: a ticket is only sold *)
(* on one issued by the initialisation of the runtime that sells it         *)
(* (d3_gateway.py 188 and 410), not on what a client kept from before a    *)
(* restart or what an initialisation left behind that then failed.         *)
TicketsAreCurrent ==
  [][\A t \in tickets' \ tickets : caps[t.capability].generation = generation]_vars

(* The gateway drives IDAP as Idap specifies it: all theorems about Idap    *)
(* hold of the gateway's use of it.                                        *)
UsesIdap == Auth!Init /\ [][idapVars' = idapVars \/ Auth!Next]_vars

(* Every request is answered: no failure of the store, refusal or crash     *)
(* leaves a handler waiting for the lock for ever.                         *)
Answered == \A w \in Workers : stage[w] # "idle" ~> stage[w] = "idle"
=============================================================================
