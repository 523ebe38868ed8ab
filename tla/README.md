# Specifications of the D3 identity and delegation prototype

TLA+ modules, TLC configurations and TLAPS proofs for the Python prototype in
this repository: services authorise calls by *delegated capabilities* that two
authorities sign, that are encrypted to one service, and that carry constraints,
an expiry and a quota.  Paths below are relative to the repository's root.

## The system

| Part | Source | State it keeps | Operations |
| --- | --- | --- | --- |
| DAP | `dap.py` | none | create, sign, verify, seal (`EncCAP`) and open a capability |
| IDAP | `idap.py` | `_SEEN_PRESENTATIONS`, `_CAPABILITY_USE_COUNT`: module globals, in memory, no lock | `authenticate_and_authorize`, `reset_runtime_state` |
| Constraints | `idap.py` 79-141 | none | evaluate a capability's constraints on a payload |
| Gateway | `d3_gateway.py` | `_lock`, `_initialized`, `services_by_sid`, identities | lazy initialisation, `POST /invoke` |
| Services | `services/` | none | search, pay, buy a ticket, notify, detect |
| Broker | `broker.py` | none | discovery over published registries |
| Trustful stores | `dns_store.py`, `knot_dns_store.py`, `ipfs_store.py`, `dnslink_ipfs_store.py` | records; a registry file; a set of published identities | publish, resolve a key, resolve metadata |
| DNSSEC | `dnssec_resolver.py` | none | validated and unvalidated TXT lookup |
| Identities, sessions | `identity.py`, `session.py` | the key table | generate, sign, verify; ephemeral key agreement |
| Metrics | `metrics.py` | a CSV file that several processes append to | log, time a call |
| Demonstrations | `demo.py`, `dnssec_attack_demo.py` | none | a sequence of timed calls; altered DNS records |
| Analysis | `analysis/` | none | select completed runs, sum their phases and publications |

How they interact.  A client posts a request to the gateway.  FastAPI runs the
synchronous handler in a pool of threads, so several requests are in progress at
once.  The first one initialises the runtime while it holds the lock: a new
store object, empty IDAP state, new identities, and a long series of
publications, each of which may raise; then the exception releases the lock and
the next request starts over.  An initialised request asks the broker for a
service, mints a one-shot capability for it (or, for a ticket purchase, opens
the capability that a payment delegated earlier), signs the request and calls
IDAP in the same process.  IDAP resolves four keys from the store, runs its
checks, performs the handshake and marks the presentation as used.  The gateway
resolves the service's key once more, verifies the transcript, executes the
service, and after a payment delegates a capability for the purchase.  Every step
of importance, of the gateway, of the stores and of the demonstration, is timed:
its duration is appended to a CSV file that the analysis reads.

What is hard about it: IDAP checks the replay set and the counter, does
cryptography for a while, and only then updates both, with other threads
running in between; both live in memory and are forgotten at a restart, when
capabilities issued before are still in the clients' hands; initialisation may
fail half-way and is repeated in the same process; a payment and the purchase
it pays for are two requests that share nothing but the capability.  The stores
publish in up to a dozen steps over two external services and a local file; any
step may fail, be done although it was reported as failed, or be done later,
and the process may die after it.  The log is written in a `finally` block, so its
own failure replaces the result of an operation that took effect; and several
programs log to one file without a lock.

What makes each part correct:

* IDAP: a capability is answered AUTHORIZED no more often than its quota and a
  presentation no more than once, restarts included; and nothing is refused for
  a use that did not happen.
* Constraints: a payload is accepted only if each operator of each rule holds,
  whatever the kinds of the values; the evaluations of a payment and of its
  purchase compose.
* Gateway: a ticket stems from one executed payment, keeps what that payment named,
  costs no more and is sold once; nobody who leaves the policy in force pays
  outside it; initialisation never disturbs running requests; a
  delegated capability can be used; every request is answered, and the answer
  tells the truth about what was done.
* Stores: what was published can be resolved; a crash or a lost reply while
  publishing leaves a state from which publishing again succeeds.
* Metrics and analysis: the file starts with a header; the statistics use exactly
  the runs that finished, each of them whole, and count no time twice.

## The modules

`UseLedger` is the abstract specification: capabilities have quotas, a grant
uses up one unit, a presentation is granted once.  No threads, clock, keys or
restarts.

`Idap` is `idap.py` with the part of `dap.py` it needs.

| In the code | In `Idap` |
| --- | --- |
| the body `create_capability` signs | an element of `Contents`; `permits` is the set of payloads its constraints accept, `overflows` of those on which a comparison may raise `OverflowError`, `endorsed` whether both signatures verify, `stamp` what `expiry` is (a time, a time without zone, unreadable) |
| `EncCAP`, sealed to one service key | `caps[id]` with the `generation` of that key; `CanOpen` |
| new identities at each initialisation | `generation` |
| `control.nonce`, `request_nonce` | `CapIds`, `Nonces`; without a nonce the signature identifies the presentation |
| the request around the capability | an element of `Variants`: sealed or clear, the service key that IDAP is called with, target, action, payload, signed or not, client ephemeral |
| each `if ...: return REJECTED` and each call that may raise, in the order of the code | `OpenCapability`, `ResolveKeys`, `CheckPolicy`, `CheckExpiry`, `CheckReplay`, `CheckQuota`, `Handshake` |
| `_mark_presentation_used`, three bytecode-level steps | `MarkSeen`, `ReadUseCount`, `WriteUseCount` |
| process restart, `reset_runtime_state` | `ResetRuntime` |

The checks that read only the request and immutable keys (signatures, target,
action, sequence, constraints) are one action; every access to a module global,
the clock or the store is an action of its own, because threads switch there.
`authorized` and `granted` are history variables.

`Gateway` is `d3_gateway.py`.  It INSTANCEs `Idap` (`Auth`) and shares its
variables: the gateway's `CallIdap` is IDAP's `Present`, its mint and delegation
steps are `Issue`, a restart and the start of an initialisation are
`ResetRuntime`, and while a handler waits, its thread takes IDAP's steps one by
one.  `services` is `services_by_sid` in insertion order; it survives a failed
initialisation as in the code and is lost in a crash.  A SID is the pair of the
action and the generation of the identity.  A payload is a name, and `Fields`
says what the object it names contains.  A request may bring
`capability_constraints`, which replace the policy (`ConstraintsForRequest`);
`Permits` and `Raising` are what the constraints of a capability make of each
payload, which `Idap` reads as `permits` and `overflows`.  With `LogMayFail` the
log of each timed step may raise after the step took effect (`LogFails`), and the
request is answered 500 with its capability spent or its ticket bought.
`request[w].uses` is a history variable: how often the request's capability had
been answered AUTHORIZED when the request entered IDAP.

`Constraints` is the evaluator with Python's semantics (a number equals a
boolean, a string never equals the number it spells but `float()` converts it,
NaN satisfies no comparison, an integer too large for a float raises).
`PaymentConstraints` adds what the gateway signs into capabilities: the default
policy or the constraints a client brings instead, and what a payment's payload
turns into for the purchase.  `Gateway` extends it.  `PurchaseFlow` does too and
leaves everything else away, to run through many more payloads than the
interleavings of `Gateway` allow.

`TrustfulStore` is the abstract specification of a store: names hold values; a
publication writes up to two of them and returns when both have taken effect; when
it raises, what it had not written may still take effect later; a resolution
raises or answers with what the name held at one moment of the call.
`KnotStore`, `DnslinkStore` and `IpfsStore` implement it.  The emulated
`DnsStore` does so only for values that never change; what it promises in
general is `WriteOnceStore`, where a name keeps its first value.  In each module
`Clients` are whoever holds a store object.

| Module | Code | What it models |
| --- | --- | --- |
| `DnsStore` | `dns_store.py` | TXT records appended one by one in a shared dictionary, of whatever key and metadata are passed; a resolution returns the first of the right type, and raises if that is a key that does not derive the SID (`Derived`) |
| `KnotStore` | `knot_dns_store.py`, `dnssec_resolver.py` | `SendUpdate`, `Apply`, `Proceed` and `Fail` are an nsupdate run, the server, and the two ways it ends for the caller: a failed update may have been refused, lost, applied, or still be on its way (`updates` with `NoClient`). `FetchKeys` and `FetchRecord` are the resolver's two queries, between which the zone changes and its key rolls over. With `Tamper` a record may be altered as in `dnssec_attack_demo.py` 29-52; `Validating` are the clients with `dnssec_validate` set |
| `DnslinkStore` | `dnslink_ipfs_store.py` | extends `KnotStore`: the record is the CID of a document that is added to IPFS before, `published` is `published_identities`, a resolution reads the record (`FetchPointer`) and then the document |
| `IpfsStore` | `ipfs_store.py` | a registry, in memory and in a file, with an `Entry` per name; the publication as key generation, save, add, IPNS publication, save; each save writes a temporary file and replaces the registry file; `Fail` is an error of the IPFS API, or an `OSError` while saving that the process survives with its memory ahead of the file; `Crash` the death of the process at any point and its restart from the file; an abandoned IPNS publication may happen late |

CIDs are hashes, so a document stands for its CID; signatures and derived SIDs
are represented by what they establish (`Certifies`, `Accepts`).

Three modules are about measuring.

| Module | Code | What it models |
| --- | --- | --- |
| `Metrics` | `metrics.py` | the processes that run a program of timed operations (`Flow`) and log to one file. `FinishOperation` is the timed function, which returns or raises; `DecideHeader`, `OpenFile`, `WriteRow` are `log_metric`, with other processes in between; `Statuses` says that an interrupted operation is logged as a success, because `timed` catches `Exception` only; `LogRaises` is an exception of the log; `Leave` sends an exception through the operations around it or ends the program; `Crash` is the death of a process. Of the file it keeps whether it exists, its first line, the headers and the rows |
| `Analysis` | `analysis/` | operators on a set of rows: the runs that completed, the time of each phase, the end-to-end time, a publication and the parts of it that the backend explains |
| `Demo` | `demo.py` | extends both: `DemoFlow` is the demonstration as a program of timed operations, each call of a store with the operations its backend logs inside it, and the properties are about what the analysis makes of the file |

`MCIdap`, `MCGateway`, `MCPurchaseFlow`, `MCDnsStore`, `MCKnotStore`,
`MCDnslinkStore`, `MCIpfsStore` and `MCDemo` instantiate these for TLC.  The
modules named `..._proofs` hold the proofs, one for each state machine except
`PurchaseFlow`, whose content is in `PaymentConstraints_proofs`; those
about `DnslinkStore` extend those about `KnotStore`, those about `Gateway`
instantiate those about `Idap`, and those about `Metrics` are in `Demo_proofs`.
Definitions introduced by a comment `Mutant:`
are variants of the definition after them with a plausible bug; they are never
part of a specification and serve to confirm that each property can fail.

## What the runs check

| Run | Instance | Checks |
| --- | --- | --- |
| `idap_serial` | 1 thread, 2 capabilities, quotas 0, 1, 2, 2 nonces and none, sealed requests of 6 kinds (one with a huge number), 1 restart, 1 tick | `TypeOK`; `QuotaRespected` and `NoReplay` over the whole life of a capability; `ImplementsLedger`: Idap implements `UseLedger` |
| `idap_threads` | 2 threads, 1 capability with quota 1 or 2, 2 nonces and none, sealed and clear requests, failing handshakes | `QuotaRefusalJustified`, `ReplayRefusalJustified`: whatever races, no call is refused for a use that did not happen; `OneShotOverrun`: a one-shot capability is authorized at most once per thread |
| `gateway_serial` | 1 thread, 4 requests of 8 kinds (a payment outside the policy with and without the constraints `{}` of its own, one with a huge amount, one for another action, one at the wrong provider), 3 resets (failures of the store, crashes), 1 tick, failing logs | `TypeOK`; `PolicyEnforced`: whoever does not bring constraints pays within the policy, and so does the ticket bought with that; `OneTicketPerAuthorization`, and `OneTicketPerPayment` for what a payment delegates; `AnswersAreHonest`: 200 only for what was executed, 403 or 404 only if nothing was executed or used up |
| `gateway_threads` | 2 threads, 3 requests of 3 kinds (a payment that names no flight, a purchase of a flight for less with the amount as a string, one of another airline), 3 resets, weak fairness | `TicketsArePaidFor`: a ticket stems from an executed payment, keeps what that named and costs no more; `SpentStaysSpent`: a capability that was answered AUTHORIZED buys nothing for a later request; `TicketsAreCurrent`: nor does one that an earlier initialisation issued; `NoResetUnderRequests`; `UsesIdap`: the gateway's use of IDAP is a behaviour of `Idap`; `Answered`, the liveness property |
| `purchase_flow` | 10 kinds of amounts, 2 merchants, 4 airlines, flights, 2 currencies, the default policy and 3 constraints of a client | `TicketWithinPolicy`, `TicketNarrowsPayment` |
| `dns_store` | 2 threads, 1 SID with its own key and a foreign one, two versions of its metadata, 5 records | `TypeOK`; `ImplementsWriteOnce`: a name resolves to what was published for it first and stays with it, a foreign key is an error |
| `knot_store` | 2 clients, one validating and one not, 1 SID with two versions of its metadata, 1 key rollover, altered records | `TypeOK`, `ImplementsStore` for all who write and for the validating reader |
| `dnslink_store` | 2 clients, 1 SID with two versions of its metadata, failing and late updates | `PointersHold`: no pointer dangles; `SkippedIdentitiesHold`: a failed identity is published by the retry; `LinkImplementsStore` |
| `ipfs_store` | 1 process, a provider and a service with two versions of metadata the provider signs, 1 crash, any number of failures, those of saving the file included | `TypeOK`: the registry file stays readable; `CidsArePublished`, `IdentityPublishedOnReturn`: an identity is skipped only if it can be resolved; `RegistryKeepsEntries`; `ImplementsStore` |
| `demo` | 2 demonstrations on one file, backend `DNSLINK_IPFS`, any failures, interrupts, early returns and deaths | `TypeOK`; `HeaderFirst`: no row before a header; `HeaderOncePerRun`; `CompletedRunsAreWhole`: the analysis uses exactly the runs that finished, every row of each; `PhasesWithinTotal`, `OverheadIsTime`: no time is counted twice |

Two runs end in a counterexample that reproduces a disagreement between the
code and what the repository's README says of it.

* `gateway_race`: two concurrent purchases with one delegated capability (quota
  1) both buy a ticket.  README line 358 has IDAP check the quota, but
  `_usage_available` (`idap.py` 253) and `_mark_presentation_used` (294) are far
  apart and unlocked.  `OneShotOverrun` bounds the damage, and with a single
  thread (`gateway_serial`) the property holds.
* `gateway_stale`: an initialisation fails after the ticket service was entered
  in `services_by_sid`; the retry succeeds, but `_service_entry_for_action`
  still returns the old entry, so that each delegated capability is sealed to a
  key which the discovered ticket service does not have.  README line 336 tells
  the client to pass this capability on; every purchase is answered 403 until
  the process restarts.

Eight further observations have no run.

* README line 383 says that a purchase which changes the authorized amount is
  rejected, but the delegated constraint is `lte` (`d3_gateway.py` 314), and a
  field that the payment leaves out is not constrained at all (304-317): a
  smaller amount is accepted, and a payment that names no flight buys any.
  `Narrows`, and with it `TicketsArePaidFor` and `TicketNarrowsPayment`, state
  what the code does keep.
* `capability_constraints` of the client replace the default policy even when they
  are empty (`d3_gateway.py` 129-130): the payment of 550 with `{}` in
  `gateway_serial` is executed.  `PolicyEnforced` therefore speaks of those who
  bring none.
* `_compare_constraint` catches `TypeError` and `ValueError` (`idap.py` 105-108);
  an integer too large for a float makes `float()` raise `OverflowError`, which
  leaves IDAP and becomes an answer 500 instead of a refusal.
* `timed` catches `Exception` (`metrics.py` 69-75): an operation that a
  `KeyboardInterrupt` ends is logged as a success.  The program ends with it, and
  without its total, so that the analysis leaves the run out
  (`CompletedRunsAreWhole`).
* README line 55 calls the emulated store an implementation of the trustful
  mutable store.  It appends records and the first one wins, so metadata
  published again would never be seen (`ImplementsWriteOnce`).  The programs of
  the repository publish each SID's metadata once, and then (theorem
  `StoreRefinement`, under `OneVersion`) the store keeps the promise.
* `RegistryKeepsEntries` and the refinement of `IpfsStore` hold for one process:
  two that share the registry file (as the default configuration of two programs
  in one directory would) overwrite each other's entries, since each rewrites the
  file from what it read when it started.  What must not go wrong even then,
  `CidsArePublished` and `IdentityPublishedOnReturn`, is proved for any number.
* Two programs that start on an empty results file can both write a header
  (`metrics.py` 45-50); `HeaderOncePerRun` bounds it.  `analyse_performance.py`
  then leaves the second header out as a row of no status, but
  `plot_performance.py` 50 converts the whole column `duration_ms` to numbers
  before it selects rows, and raises.

### Bounds, and why they are enough

Every bound is a constant that occurs in a guard: `MaxGeneration` (resets),
`MaxTime` (ticks), `MaxRequests`. Two threads are enough for each race of a check
with an update; two capabilities suffice since no action relates more than one;
one restart separates the capabilities into older and current, and in the gateway
three resets allow a failed initialisation, a successful one and a crash with
another initialisation; three requests are one payment and two purchases with its
capability, a fourth leaves room for a retry. In the stores no property relates
two SIDs except through a provider's signature, two writers make every order of
updates, and two versions tell a stale answer from a current one; `MaxKeys`
(signing keys), `MaxRecords` (records under a name) and `MaxCrashes` bound what
would otherwise grow. One process is enough for `ipfs_store` because a crashed
process and its successor already disagree about what was written. Two
demonstrations make every race for the header; the backends differ in the names
and the number of the operations inside a store's call, of which the chosen one
logs two in each. The properties that need a sum over a run (`PhasesWithinTotal`,
`OverheadIsTime`) depend on each run alone. The proofs below remove the bounds
from all other safety properties.

### Fairness

Only `gateway_threads` uses fairness: `WF_vars(Handle(w))` for each thread, that
is, the operating system runs every thread that can run and the calls a handler
makes return or raise.  The stores set time limits on their requests and
queries; `nsupdate` is started without one (`knot_dns_store.py`) and is assumed to
end, as it does by its own time limits.  Nothing is assumed of the
lock: a thread that waits for it is enabled whenever the lock is free, and once
the runtime is initialised it is free whenever no thread is between two
instructions of `ensure_initialized`, which the model merges.

## What is proved

TLAPS checks every theorem for all values of the constants under the assumptions
the modules declare: shapes of inputs, bounds that are natural numbers, and that
null values are none of the values they stand beside (`Demo` also assumes how the
calls of a program nest, see below).  TLC evaluates these assumptions in the
runs.  Every safety property of the passing runs is a theorem; those of
`purchase_flow` are the two theorems about constraints below, which say the same
without the state machine.

`Idap_proofs`: any threads, capabilities, contents, variants and nonces, any
quota, any number of restarts.

* `TypeCorrect`: `Spec => []TypeOK`.
* `QuotaRefusals`, `ReplayRefusals`: both refusals are justified for any number
  of racing threads.  The inductive invariant `RaceInv` says that the counter
  never exceeds the history of authorizations, not even with the increment a
  thread is about to store (`CounterLags`), and that every presentation in the
  replay set was granted or belongs to a thread past its last check
  (`SeenIsGranted`).
* `QuotaSafety`, `ReplaySafety`, under `Serial` (one thread at a time) and
  `SealedOnly` (capabilities travel as `EncCAP`).  Neither invariant is
  inductive: emptying the counter at a restart would break it.  `SerialInv` adds
  that a thread which opened a capability holds one of the current generation
  (`OpenedIsCurrent`), that for such capabilities the counter is exact and a
  thread past the quota check still has a unit left (`CounterExact`), and that
  the replay set contains every granted presentation of a current capability
  (`ReplaySetComplete`).  A restart makes all capabilities outdated, so these
  parts hold trivially afterwards while the bound on the history is untouched.
* `LedgerRefinement`: under the same conditions `Spec => ImplementsLedger`:
  `Issue` and `WriteUseCount` map to the ledger's steps, all others to
  stuttering.
* `GrantsAreUses`, a lemma for the theorems about tickets: a capability has no
  more granted presentations than authorizations (`GrantsCounted`).
* `Overrun`: how wrong it can get without `Serial`, and with it the reach of
  `gateway_race`.  A one-shot capability is authorized at most once per thread:
  `OverrunInv` bounds the authorizations plus the threads that may still add one
  by the number of threads, because a thread that was answered can spend the
  capability again only if it passes the quota check, and by then the use is on
  record (`UseOnRecord`).

`Gateway_proofs`: any threads and requests, any plan of publication, any
payloads, any constraints that clients bring.

* `TypeCorrect`, `PolicyIsEnforced`, `TicketsPaid`, `ResetsAreSafe`: from the
  inductive invariant `Inv` and, for what constraints mean, the theorems of
  `PaymentConstraints_proofs`.  The parts of `Inv` relate the lock and the
  progress of the initialisation (`RuntimeInv`), the capabilities, payments and
  tickets (`LedgerInv`: which constraints each payload was executed under), and
  what each handler has checked by the stage it is at (`WorkerInv`).
* `GatewayUsesIdap`: every step of the gateway is a step of `Idap` on the shared
  variables or leaves them alone.  With it the theorems about `Idap` hold in the
  gateway: `RefusalsAreJustified`, and `QuotaUnderThreads`, which is the quota
  for one thread and the bound of `Overrun` for several.
* `SpentIsSpent`: a request that enters IDAP with a capability that had been
  answered AUTHORIZED is on its way to a refusal (`Refusing`), because the use is
  on record as long as the keys it is sealed to exist (`CapsInv`).
* `HonestAnswers`: `AnswersInv` relates each handler's stage and the outcome of
  IDAP to what has been executed under the request's number.
* `OneTicket`, for a single thread (`SoleWorker`): no delegated capability sells
  two tickets, through restarts and failures.  `gateway_race` shows that this
  needs the single thread.
* `OneTicketPayment`: nor does a payment buy two.  A payment delegates once,
  for any number of threads (`PaymentsInv`: a request that is still served has
  delegated nothing yet, and numbers are not given twice); `OneTicket` does the
  rest.
* `TicketOverrun`: how far `gateway_race` can go.  A delegated capability sells no
  more tickets than there are threads.  Each ticket was sold to a granted
  presentation of its own (`SaleInv`), grants are counted by the authorizations
  (`GrantsAreUses`), and those are bounded by `Overrun`.
* `SoldOnCurrent`: a ticket is sold only on a capability that the present runtime
  issued.  A handler that has opened or minted its capability holds one of the
  present generation (`CurrentInv`), because nothing replaces the keys under it.
* `NeverStale`: `DelegationOpens`, which `gateway_stale` refutes, holds if no write
  to the store and no row of the log fails.  Without a failed attempt
  `services_by_sid` has entries of one generation only (`FreshInv`), so what is
  delegated is sealed to the service that is discovered.
* `Progress`: the safety part of `Answered`.  `StepsLeft` bounds the steps a
  request still needs, 18 and one for each publication of the plan; every step of
  its handler lowers the bound and no step of another thread raises it.  What
  fairness adds is that a handler which may take a step takes it.
* `GatewayLedger`: with one thread the IDAP inside the gateway implements
  `UseLedger`, because the gateway hands out sealed capabilities only.

`PaymentConstraints_proofs`: any payloads.  `PurchaseNarrows`: what the delegated
constraints accept keeps what the payment names and costs no more.
`PolicyComposes`: what two evaluations accept, of the payment by the policy and of
the purchase by the delegated constraints, is within the policy.
`OrderedTransitive` and `EqualText` are where Python's comparisons compose.
`Gateway_proofs` cites both.

`DnsStore_proofs`: any threads, SIDs, contents and records.

* `FirstWins`: a name keeps resolving to the first value it was given.
* `StoreIsWriteOnce`: `Spec => ImplementsWriteOnce`, for keys that belong to the SID
  or not.  What has to be shown is that appending a record makes its type
  resolve to its value or changes nothing, and changes no other answer.  That
  rests on the first record of a type being well defined, the part `HasFirst`
  that the inductive invariant `IInv` adds to `TypeOK`, and on `AppendFirst`.
* `StoreRefinement`: if no SID is published with two keys or two metadata values
  (`OneVersion`), then `Spec => ImplementsStore`, because a second publication
  writes what the first one wrote.

`KnotStore_proofs`: any clients, SIDs, contents and key rollovers, records altered
or not.  `TypeCorrect` and `StoreRefinement`, of which the heart is `ValidatedAnswer`: what a validating client accepts is what the zone
holds under the key that signs it at that moment.

`DnslinkStore_proofs`: the same zone with documents behind it.  `LinkSafety` says
that documents were added before any pointer to them was published, on its way or
given up on (`PointersHold`), and that an identity is skipped only if it is in
the zone (`SkippedIdentitiesHold`): theorems `NoDanglingPointer` and
`SkippedIdentities`.  `LinkRefinement` reuses the step lemma of `KnotStore` and
needs `HonestReads`: every reader validates, or no record is altered.  Then the
reader's pointer is one that was published (`HonestPointer`), and never a
record that the code would skip.

`IpfsStore_proofs`: any processes on one registry file, any crashes.
`TypeCorrect`, `PublishedCids` and `ReturnsPublished` rest on `ProcInv`, what a
publication has done by each stage and where a failed save leaves it, and on `ProcPersists`, that no other process
takes any of it back.  For a sole process and its successors (`SoleProcess`),
`SoleInv` adds that the process knows all that the file knows and that the file
has an entry for every name that points somewhere or may do so later;
`KeepsEntries` and `StoreRefinement` follow.

`Demo_proofs`: any number of processes, any program of timed operations.
`TypeCorrect`, `HeaderIsFirst` and `HeaderIsRare` (`HeaderInv`: who decided
against a header saw a file that starts with one, and who decided for one has not
written any), and `RunsAreWhole` (`RunInv`: as long as nothing went wrong in a
run, it has logged a success for every operation it is past; an exception never
leads to the total).  `PhasesFit` and `OverheadPositive` are about sums over
sets of rows of any size.  The library states induction over finite sets with an
operator as a parameter, which no installed prover can instantiate, so the lemmas
about `SumOver` (one element less, a part is no larger than the whole, sums along
an injection, unions) argue from a counterexample of least cardinality, which is
first-order.  With them `PhasesFit` follows from `RunInv` and `TimesAssumption`:
one thread makes the calls one within another and one clock times them
(`metrics.py` 65, `demo.py` 88), so an operation lasts at least as long as what is
timed within it.  `OverheadPositive` follows from `BackendAssumption`: only
operations of the backends are timed within others, and those that write only
within publications.  TLC evaluates both assumptions for `DemoFlow`.

Model-checked only: liveness (`Answered`), since TLAPS has no support for
fairness; `Progress` is what can be proved of it.  `gateway_race` and
`gateway_stale` are counterexamples.

## What is not modelled

* Of the services, notification and detection, which compute a constant answer.
* `broker.discover` as a loop of reads of the store: nothing writes to the store
  after the initialisation, so discovery is one step of `Gateway` that returns
  what was published or raises.
* Of the session, the key agreement and the encryption of the messages: the
  handshake is modelled by its outcome for a valid, missing or malformed client
  ephemeral, and the gateway's verification of the transcript by its returning or
  raising.  Both sides run in one process, so nothing can alter a message between
  them.
* Of the stores, the list under the name `_agents` in the emulated store, which no
  program publishes; two processes that write the same temporary file at the same
  moment; the expiry of IPNS records and DNS time-to-live; the selection of a
  store by environment variables.
* Of the analysis, means, formats and figures, which are arithmetic and layout;
  `artifacts/archive/`, an earlier copy of the demonstration.
* Cryptography is abstracted by its verdicts, SIDs and encodings by names;
  measured durations are numbers that add up.  In `Gateway` the optional input
  and output types are part of discovery's failure branch, and which of two
  comparisons comes first, the failing or the raising one, is left open.
* In `KnotStore`, an older record that is replayed with its signature before that
  expires: no code of the repository could tell it from the current one, and the
  demonstrated attack (`dnssec_attack_demo.py`) alters records.

## Plan

Done, in this order: `UseLedger`, `Idap`, `Constraints`,
`PaymentConstraints`, `Gateway`, `PurchaseFlow`; `TrustfulStore`, `WriteOnceStore`
and the four stores; `Metrics`,
`Analysis`, `Demo`; the proofs about each.

What remains would add detail rather than behaviour:

1. `Discovery`: `broker.discover` as a client of `TrustfulStore` while an
   initialisation publishes, for a program that would publish and discover at
   the same time.
2. Two processes in the temporary file of `ipfs_store.py`, which can truncate
   what the other is about to move, and a third that starts in between.
