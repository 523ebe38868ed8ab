-------------------------------- MODULE KnotStore --------------------------------
(***************************************************************************)
(* The Knot DNS store (knot_dns_store.py) with its DNSSEC resolver          *)
(* (dnssec_resolver.py), the zone it updates and the network in between.    *)
(* An update replaces the TXT record of a name.  nsupdate may report a      *)
(* failure although the server applies the update, at once or later.  A     *)
(* resolution asks twice, for the zone's keys and for the record, while     *)
(* updates and key rollovers go on; the record may be altered on its way.   *)
(***************************************************************************)
EXTENDS Naturals

CONSTANTS
  Clients,      \* holders of a store object: processes and their threads
  Sids,
  Contents,     \* the metadata each SID may be published with
  Forged,       \* a record as altered on its way
  NoMetadata, NoValue, NoClient, Idle,
  Validating,   \* the clients whose store has dnssec_validate set
  Tamper,       \* whether records are altered on their way
  MaxKeys       \* bound: signing keys the zone goes through

ASSUME ValidatingAssumption == Validating \subseteq Clients
ASSUME TamperAssumption == Tamper \in BOOLEAN
ASSUME MetadataAssumption == \A sid \in Sids : NoMetadata \notin Contents[sid]
ASSUME ClientsAssumption == NoClient \notin Clients
ASSUME KeysAssumption == MaxKeys \in Nat \ {0}

VARIABLES
  zone,         \* the TXT record of each name
  signer,       \* the key that signs the zone, the only one it publishes
  updates,      \* updates on their way to the server
  call,         \* what is left of the publication each client is in
  update,       \* where the nsupdate run of each client is
  query,        \* the resolution each client is in
  answer        \* history: the last answer to each client

server == <<zone, signer, updates>>
writers == <<call, update>>
vars == <<server, writers, query, answer>>

Names == Sids \X {"identity", "metadata"}
(* Every program publishes a SID with the key it was derived from           *)
(* (identity.generate_identity); the stores take that on trust and check    *)
(* the key when it is resolved.                                            *)
Key(sid) == <<"key", sid>>
Values(n) == IF n[2] = "identity" THEN {Key(n[1])} ELSE Contents[n[1]]

ASSUME ForgedAssumption == \A n \in Names : Forged \notin Values(n)

(* A publication still to be done, and a resolution.                       *)
CallType == UNION {[sid: {sid}, key: BOOLEAN, metadata: Contents[sid] \cup {NoMetadata}]
                     : sid \in Sids}
QueryType == [name: Names, keys: SUBSET (1 .. MaxKeys), stage: {"keys", "record", "document"}]

ASSUME IdleAssumption == Idle \notin CallType \cup QueryType

Init ==
  /\ zone = [n \in Names |-> NoValue]
  /\ signer = 1
  /\ updates = {}
  /\ call = [c \in Clients |-> Idle]
  /\ update = [c \in Clients |-> "none"]
  /\ query = [c \in Clients |-> Idle]
  /\ answer = [c \in Clients |-> <<"none">>]

Records(sid, key, metadata) ==
  {w \in {<<<<sid, "identity">>, Key(sid)>>} : key}
    \cup {w \in {<<<<sid, "metadata">>, metadata>>} : metadata # NoMetadata}

(* publish_identity, with a key or (the gateway's registry) without one.   *)
Publish(c, sid, key, metadata) ==
  /\ call[c] = Idle
  /\ query[c] = Idle
  /\ Records(sid, key, metadata) # {}
  /\ call' = [call EXCEPT ![c] = [sid |-> sid, key |-> key, metadata |-> metadata]]
  /\ UNCHANGED <<server, update, query, answer>>

(* The identity is written before the metadata.                            *)
Current(c) ==
  LET sid == call[c].sid
  IN  IF call[c].key THEN <<<<sid, "identity">>, Key(sid)>>
      ELSE <<<<sid, "metadata">>, call[c].metadata>>

Remaining(c) == Records(call[c].sid, call[c].key, call[c].metadata)

(* The publication without its current record.                             *)
Rest(c) == [sid |-> call[c].sid, key |-> FALSE,
            metadata |-> IF call[c].key THEN call[c].metadata ELSE NoMetadata]

SendUpdate(c) ==
  /\ call[c] # Idle
  /\ Remaining(c) # {}
  /\ update[c] = "none"
  /\ update' = [update EXCEPT ![c] = "sent"]
  /\ updates' = updates \cup {[write |-> Current(c), client |-> c]}
  /\ UNCHANGED <<zone, signer, call, query, answer>>

(* The server deletes and adds in one transaction, and signs the result.   *)
Apply(u) ==
  /\ u \in updates
  /\ zone' = [zone EXCEPT ![u.write[1]] = u.write[2]]
  /\ updates' = updates \ {u}
  /\ update' = IF u.client \in Clients THEN [update EXCEPT ![u.client] = "applied"] ELSE update
  /\ UNCHANGED <<signer, call, query, answer>>

(* Mutant: nsupdate's answer is not waited for.                            *)
ProceedUnacknowledged(c) ==
  /\ update[c] \in {"sent", "applied"}
  /\ update' = [update EXCEPT ![c] = "none"]
  /\ call' = [call EXCEPT ![c] = Rest(c)]
  /\ UNCHANGED <<server, query, answer>>

(* nsupdate returned 0.                                                    *)
Proceed(c) ==
  /\ update[c] = "applied"
  /\ update' = [update EXCEPT ![c] = "none"]
  /\ call' = [call EXCEPT ![c] = Rest(c)]
  /\ UNCHANGED <<server, query, answer>>

(* nsupdate failed: refused, lost, or applied with the reply lost, and the  *)
(* caller gets a RuntimeError; or the process dies at any point.  An update *)
(* on its way is not called back.                                          *)
Fail(c) ==
  /\ call[c] # Idle
  /\ update' = [update EXCEPT ![c] = "none"]
  /\ call' = [call EXCEPT ![c] = Idle]
  /\ LET mine == {u \in updates : u.client = c}
     IN  updates' \in {updates \ mine,
                       (updates \ mine) \cup {[u EXCEPT !.client = NoClient] : u \in mine}}
  /\ UNCHANGED <<zone, signer, query, answer>>

Return(c) ==
  /\ call[c] # Idle
  /\ Remaining(c) = {}
  /\ call' = [call EXCEPT ![c] = Idle]
  /\ UNCHANGED <<server, update, query, answer>>

(* The zone moves to a new signing key.                                    *)
RollKey ==
  /\ signer < MaxKeys
  /\ signer' = signer + 1
  /\ UNCHANGED <<zone, updates, writers, query, answer>>

Resolve(c, n) ==
  /\ call[c] = Idle
  /\ query[c] = Idle
  /\ query' = [query EXCEPT ![c] = [name |-> n, keys |-> {}, stage |-> "keys"]]
  /\ UNCHANGED <<server, writers, answer>>

Raise(c) ==
  /\ query' = [query EXCEPT ![c] = Idle]
  /\ answer' = [answer EXCEPT ![c] = <<"raised">>]

(* The DNSKEY set, validated against the trust anchor; without validation   *)
(* it is not asked for.  Any failure raises.                               *)
FetchKeys(c) ==
  /\ query[c] # Idle
  /\ query[c].stage = "keys"
  /\ \/ /\ query' = [query EXCEPT ![c].keys = IF c \in Validating THEN {signer} ELSE {},
                                  ![c].stage = "record"]
        /\ UNCHANGED answer
     \/ c \in Validating /\ Raise(c)
  /\ UNCHANGED <<server, writers>>

(* What may arrive for a name: an altered record carries the original       *)
(* signature, which does not match it.  An older record replayed with a     *)
(* signature that has not expired is not among them: nothing in the code    *)
(* could tell it from the current one.                                     *)
Responses(n) ==
  {[value |-> zone[n], by |-> signer]}
    \cup {r \in {[value |-> Forged, by |-> 0]} : Tamper /\ zone[n] # NoValue}

(* Mutant: the record's signature is not validated.                        *)
AcceptsUnsigned(c, r) == r.value # NoValue

(* A missing name is an error, with and without validation.                *)
Accepts(c, r) ==
  /\ r.value # NoValue
  /\ c \in Validating => r.by \in query[c].keys

(* An altered record may no longer be of the type or SID looked for: it is  *)
(* skipped, and the answer is None.                                        *)
Readings(r) == {r.value} \cup {v \in {NoValue} : r.value = Forged}

(* The key must derive the SID it is filed under; metadata must name it.    *)
Certifies(n, value) == n[2] = "identity" => value \in {Key(n[1]), NoValue}

FetchRecord(c) ==
  /\ query[c] # Idle
  /\ query[c].stage = "record"
  /\ \E r \in Responses(query[c].name) : \E value \in Readings(r) :
       /\ Accepts(c, r) /\ Certifies(query[c].name, value)
       /\ answer' = [answer EXCEPT ![c] = <<"found", query[c].name, value>>]
       /\ query' = [query EXCEPT ![c] = Idle]
  /\ UNCHANGED <<server, writers>>

(* No answer, an error code, a failed validation or a foreign key.         *)
FetchRecordFails(c) ==
  /\ query[c] # Idle
  /\ query[c].stage = "record"
  /\ Raise(c)
  /\ UNCHANGED <<server, writers>>

Next ==
  \/ \E c \in Clients :
       \/ \E sid \in Sids, key \in BOOLEAN : \E metadata \in Contents[sid] \cup {NoMetadata} :
            Publish(c, sid, key, metadata)
       \/ SendUpdate(c)
       \/ Proceed(c)
       \/ Fail(c)
       \/ Return(c)
       \/ \E n \in Names : Resolve(c, n)
       \/ FetchKeys(c)
       \/ FetchRecord(c)
       \/ FetchRecordFails(c)
  \/ \E u \in updates : Apply(u)
  \/ RollKey

Spec == Init /\ [][Next]_vars

-----------------------------------------------------------------------------
Write == {w \in Names \X UNION {Values(n) : n \in Names} : w[2] \in Values(w[1])}

(* The type invariant; a client has one update on its way exactly while its *)
(* nsupdate waits for the server.                                          *)
TypeOK ==
  /\ zone \in [Names -> (UNION {Values(n) : n \in Names}) \cup {NoValue}]
  /\ \A n \in Names : zone[n] \in Values(n) \cup {NoValue}
  /\ signer \in 1 .. MaxKeys
  /\ updates \subseteq [write: Write, client: Clients \cup {NoClient}]
  /\ call \in [Clients -> CallType \cup {Idle}]
  /\ update \in [Clients -> {"none", "sent", "applied"}]
  /\ query \in [Clients -> QueryType \cup {Idle}]
  /\ \A c \in Clients :
       /\ update[c] = "sent" <=> \E u \in updates : u.client = c
       /\ update[c] # "none" => call[c] # Idle /\ Remaining(c) # {}
       /\ \A u \in updates : u.client = c => u.write = Current(c)

(* What a publication has still to write: an applied update is written.    *)
Todo(c) ==
  IF call[c] = Idle THEN {}
  ELSE IF update[c] = "applied" THEN Remaining(c) \ {Current(c)}
  ELSE Remaining(c)

Store == INSTANCE TrustfulStore WITH
  Writes <- Write,
  record <- zone,
  todo <- [c \in Clients |-> Todo(c)],
  busy <- {c \in Clients : call[c] # Idle},
  late <- {u.write : u \in {v \in updates : v.client = NoClient}},
  answer <- [c \in Clients |-> IF c \in Validating THEN answer[c] ELSE <<"none">>]

(* To all who write and to those who read with validation the store is a    *)
(* trustful mutable store, whatever updates, retries, rollovers and altered *)
(* answers do: "Runtime DNS reads are validated with DNSSEC before the      *)
(* returned TXT values are accepted" (README.md 156), and a publication     *)
(* that returns has taken effect.                                          *)
ImplementsStore == Store!Spec
=============================================================================
