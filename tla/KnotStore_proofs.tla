---------------------------- MODULE KnotStore_proofs ----------------------------
(***************************************************************************)
(* The Knot store keeps the promise of a trustful mutable store for any     *)
(* number of processes, SIDs, contents and signing keys.                    *)
(***************************************************************************)
EXTENDS KnotStore, TLAPS

(* What a client has still to publish is well typed.                       *)
LEMMA CallOfClient ==
  ASSUME TypeOK, NEW c \in Clients, call[c] # Idle
  PROVE  /\ call[c].sid \in Sids
         /\ call[c].key \in BOOLEAN
         /\ call[c].metadata \in Contents[call[c].sid] \cup {NoMetadata}
         /\ call[c] = [sid |-> call[c].sid, key |-> call[c].key, metadata |-> call[c].metadata]
  BY DEF TypeOK, CallType

LEMMA CallInType ==
  ASSUME NEW s \in Sids, NEW k \in BOOLEAN, NEW m \in Contents[s] \cup {NoMetadata}
  PROVE  /\ [sid |-> s, key |-> k, metadata |-> m] \in CallType
         /\ [sid |-> s, key |-> k, metadata |-> m] # Idle
  <1>1. [sid |-> s, key |-> k, metadata |-> m]
          \in [sid: {s}, key: BOOLEAN, metadata: Contents[s] \cup {NoMetadata}]
    OBVIOUS
  <1>2. [sid |-> s, key |-> k, metadata |-> m] \in CallType
    BY <1>1 DEF CallType
  <1> QED BY <1>2, IdleAssumption

(* Every record of a publication is one that may be written.               *)
LEMMA RecordsAreWrites ==
  ASSUME NEW s \in Sids, NEW k \in BOOLEAN, NEW m \in Contents[s] \cup {NoMetadata}
  PROVE  Records(s, k, m) \subseteq Write
  <1>1. <<s, "identity">> \in Names /\ <<s, "metadata">> \in Names
    BY DEF Names
  <1>2. Values(<<s, "identity">>) = {Key(s)} /\ Values(<<s, "metadata">>) = Contents[s]
    BY DEF Values
  <1>3. <<<<s, "identity">>, Key(s)>> \in Write
    BY <1>1, <1>2 DEF Write
  <1>4. m # NoMetadata => <<<<s, "metadata">>, m>> \in Write
    BY <1>1, <1>2 DEF Write
  <1> QED BY <1>3, <1>4 DEF Records

(* The record an update carries is one of those left to write, and what is  *)
(* left after it has been acknowledged are the others.                     *)
LEMMA CurrentOfClient ==
  ASSUME TypeOK, NEW c \in Clients, call[c] # Idle, Remaining(c) # {}
  PROVE  /\ Current(c) \in Remaining(c)
         /\ Current(c) \in Write
         /\ Remaining(c) \ {Current(c)}
              = Records(call[c].sid, FALSE, IF call[c].key THEN call[c].metadata ELSE NoMetadata)
  <1>1. Remaining(c) \subseteq Write
    BY CallOfClient, RecordsAreWrites DEF Remaining
  <1>2. CASE call[c].key
    BY <1>1, <1>2 DEF Current, Remaining, Records
  <1>3. CASE ~call[c].key
    <2>1. call[c].metadata # NoMetadata
      BY <1>3 DEF Remaining, Records
    <2> QED BY <1>1, <1>3, <2>1 DEF Current, Remaining, Records
  <1> QED BY <1>2, <1>3

(* The publication goes on after an acknowledged record.                   *)
LEMMA ProceedCall ==
  ASSUME TypeOK, NEW c \in Clients, Proceed(c)
  PROVE  /\ call[c] # Idle /\ Remaining(c) # {}
         /\ call' = [call EXCEPT ![c] = Rest(c)]
         /\ Rest(c) \in CallType /\ Rest(c) # Idle
  <1>1. call[c] # Idle /\ Remaining(c) # {}
    BY DEF Proceed, TypeOK
  <1> DEFINE m == IF call[c].key THEN call[c].metadata ELSE NoMetadata
  <1>2. m \in Contents[call[c].sid] \cup {NoMetadata} /\ call[c].sid \in Sids
    BY <1>1, CallOfClient
  <1>3. Rest(c) = [sid |-> call[c].sid, key |-> FALSE, metadata |-> m] /\ FALSE \in BOOLEAN
    BY DEF Rest
  <1> HIDE DEF m
  <1>4. Rest(c) \in CallType /\ Rest(c) # Idle
    BY <1>2, <1>3, CallInType
  <1> QED BY <1>1, <1>4 DEF Proceed

LEMMA InitTypeOK == Init => TypeOK
  <1> SUFFICES ASSUME Init PROVE TypeOK
    OBVIOUS
  <1>1. signer \in 1 .. MaxKeys
    BY KeysAssumption DEF Init
  <1>2. zone \in [Names -> (UNION {Values(n) : n \in Names}) \cup {NoValue}]
    BY DEF Init
  <1>3. \A n \in Names : zone[n] \in Values(n) \cup {NoValue}
    BY DEF Init
  <1>4. /\ call \in [Clients -> CallType \cup {Idle}]
        /\ query \in [Clients -> QueryType \cup {Idle}]
        /\ update \in [Clients -> {"none", "sent", "applied"}]
        /\ updates = {} /\ \A c \in Clients : update[c] = "none"
    BY DEF Init
  <1> QED BY <1>1, <1>2, <1>3, <1>4 DEF TypeOK

(* A step that leaves the writers and the server alone keeps the first part *)
(* of the invariant.                                                       *)
LEMMA ReaderTypeOK ==
  ASSUME TypeOK, UNCHANGED <<server, writers>>, query' \in [Clients -> QueryType \cup {Idle}]
  PROVE  TypeOK'
  BY DEF TypeOK, server, writers, Remaining, Current

LEMMA NextTypeOK == TypeOK /\ [Next]_vars => TypeOK'
  <1> SUFFICES ASSUME TypeOK, [Next]_vars PROVE TypeOK'
    OBVIOUS
  <1>1. ASSUME NEW c \in Clients, NEW sid \in Sids, NEW key \in BOOLEAN,
               NEW metadata \in Contents[sid] \cup {NoMetadata}, Publish(c, sid, key, metadata)
        PROVE  TypeOK'
    <2>1. /\ call' = [call EXCEPT ![c] = [sid |-> sid, key |-> key, metadata |-> metadata]]
          /\ [sid |-> sid, key |-> key, metadata |-> metadata] \in CallType
          /\ UNCHANGED <<zone, signer, updates, update, query>>
      BY <1>1, CallInType DEF Publish, server
    <2>2. update[c] = "none"
      BY <1>1 DEF Publish, TypeOK
    <2>3. \A d \in Clients \ {c} : call'[d] = call[d]
      BY <2>1 DEF TypeOK
    <2>4. \A d \in Clients \ {c} : Remaining(d)' = Remaining(d) /\ Current(d)' = Current(d)
      BY <2>3 DEF Remaining, Current
    <2>5. call' \in [Clients -> CallType \cup {Idle}]
      BY <2>1 DEF TypeOK
    <2> QED BY <2>1, <2>2, <2>3, <2>4, <2>5 DEF TypeOK
  <1>2. ASSUME NEW c \in Clients, SendUpdate(c) PROVE TypeOK'
    <2>1. Current(c) \in Write
      BY <1>2, CurrentOfClient DEF SendUpdate
    <2>2. updates' \subseteq [write: Write, client: Clients \cup {NoClient}]
      BY <1>2, <2>1 DEF SendUpdate, TypeOK
    <2>3. update' = [update EXCEPT ![c] = "sent"] /\ update' \in [Clients -> {"none", "sent", "applied"}]
      BY <1>2 DEF SendUpdate, TypeOK
    <2>4. \A d \in Clients : Remaining(d)' = Remaining(d) /\ Current(d)' = Current(d)
      BY <1>2 DEF SendUpdate, Remaining, Current
    <2>5. \A u \in updates : u.client # c
      BY <1>2 DEF SendUpdate, TypeOK
    <2>6. ASSUME NEW d \in Clients
          PROVE  /\ update'[d] = "sent" <=> \E u \in updates' : u.client = d
                 /\ update'[d] # "none" => call'[d] # Idle /\ Remaining(d)' # {}
                 /\ \A u \in updates' : u.client = d => u.write = Current(d)'
      <3>1. /\ updates' = updates \cup {[write |-> Current(c), client |-> c]}
            /\ call' = call /\ call[c] # Idle /\ Remaining(c) # {}
        BY <1>2 DEF SendUpdate
      <3> DEFINE u0 == [write |-> Current(c), client |-> c]
      <3>2. u0.client = c /\ u0.write = Current(c)
        OBVIOUS
      <3> HIDE DEF u0
      <3>3. \A u \in updates' : u \in updates \/ u = u0
        BY <3>1 DEF u0
      <3>4. u0 \in updates' /\ updates \subseteq updates'
        BY <3>1 DEF u0
      <3>5. CASE d = c
        <4>1. \A u \in updates' : u.client = c => u = u0
          BY <2>5, <3>3
        <4>2. update'[d] = "sent"
          BY <2>3, <3>5 DEF TypeOK
        <4> QED BY <2>4, <3>1, <3>2, <3>4, <3>5, <4>1, <4>2
      <3>6. CASE d # c
        <4>1. update'[d] = update[d]
          BY <2>3, <3>6 DEF TypeOK
        <4>2. \A u \in updates' : u.client = d => u \in updates
          BY <3>2, <3>3, <3>6
        <4> QED BY <2>4, <3>1, <3>4, <4>1, <4>2 DEF TypeOK
      <3> QED BY <3>5, <3>6
    <2> QED BY <1>2, <2>2, <2>3, <2>6 DEF SendUpdate, TypeOK
  <1>3. ASSUME NEW u \in updates, Apply(u) PROVE TypeOK'
    <2>1. u \in [write: Write, client: Clients \cup {NoClient}]
      BY DEF TypeOK
    <2>2. u.write[1] \in Names /\ u.write[2] \in Values(u.write[1])
      BY <2>1 DEF Write
    <2>3. zone' = [zone EXCEPT ![u.write[1]] = u.write[2]]
      BY <1>3 DEF Apply
    <2>4. /\ zone' \in [Names -> (UNION {Values(n) : n \in Names}) \cup {NoValue}]
          /\ \A n \in Names : zone'[n] \in Values(n) \cup {NoValue}
      <3>1. u.write[2] \in (UNION {Values(n) : n \in Names}) \cup {NoValue}
        BY <2>2
      <3> QED BY <2>2, <2>3, <3>1 DEF TypeOK
    <2>5. \A d \in Clients : Remaining(d)' = Remaining(d) /\ Current(d)' = Current(d)
      BY <1>3 DEF Apply, Remaining, Current
    <2>6. \A v \in updates : v.client = u.client /\ u.client \in Clients => v = u
      <3> SUFFICES ASSUME NEW v \in updates, v.client = u.client, u.client \in Clients PROVE v = u
        OBVIOUS
      <3>1. v.write = u.write
        BY DEF TypeOK
      <3>2. v \in [write: Write, client: Clients \cup {NoClient}]
        BY DEF TypeOK
      <3> QED BY <2>1, <3>1, <3>2
    <2>7. /\ updates' = updates \ {u}
          /\ update' \in [Clients -> {"none", "sent", "applied"}]
          /\ \A d \in Clients : update'[d] = IF d = u.client THEN "applied" ELSE update[d]
      BY <1>3, ClientsAssumption DEF Apply, TypeOK
    <2>8. ASSUME NEW d \in Clients
          PROVE  /\ update'[d] = "sent" <=> \E v \in updates' : v.client = d
                 /\ update'[d] # "none" => call'[d] # Idle /\ Remaining(d)' # {}
                 /\ \A v \in updates' : v.client = d => v.write = Current(d)'
      BY <1>3, <2>5, <2>6, <2>7 DEF Apply, TypeOK
    <2> QED BY <1>3, <2>4, <2>7, <2>8 DEF Apply, TypeOK
  <1>4. ASSUME NEW c \in Clients, Proceed(c) PROVE TypeOK'
    <2>1. call' \in [Clients -> CallType \cup {Idle}] /\ \A d \in Clients \ {c} : call'[d] = call[d]
      BY <1>4, ProceedCall DEF TypeOK
    <2>2. update' = [update EXCEPT ![c] = "none"] /\ update' \in [Clients -> {"none", "sent", "applied"}]
      BY <1>4 DEF Proceed, TypeOK
    <2>3. \A u \in updates : u.client # c
      BY <1>4 DEF Proceed, TypeOK
    <2>4. \A d \in Clients \ {c} : Remaining(d)' = Remaining(d) /\ Current(d)' = Current(d)
      BY <2>1 DEF Remaining, Current
    <2>5. ASSUME NEW d \in Clients
          PROVE  /\ update'[d] = "sent" <=> \E v \in updates' : v.client = d
                 /\ update'[d] # "none" => call'[d] # Idle /\ Remaining(d)' # {}
                 /\ \A v \in updates' : v.client = d => v.write = Current(d)'
      BY <1>4, <2>1, <2>2, <2>3, <2>4 DEF Proceed, server, TypeOK
    <2> QED BY <1>4, <2>1, <2>2, <2>5 DEF Proceed, server, TypeOK
  <1>5. ASSUME NEW c \in Clients, Fail(c) PROVE TypeOK'
    <2> DEFINE mine == {u \in updates : u.client = c}
               adrift == {[u EXCEPT !.client = NoClient] : u \in mine}
    <2>1. /\ update' = [update EXCEPT ![c] = "none"]
          /\ call' = [call EXCEPT ![c] = Idle]
          /\ updates' \in {updates \ mine, (updates \ mine) \cup adrift}
          /\ UNCHANGED <<zone, signer, query>>
      BY <1>5 DEF Fail
    <2>2. \A u \in adrift : u.client = NoClient /\ u \in [write: Write, client: Clients \cup {NoClient}]
      BY DEF TypeOK
    <2>3. \A d \in Clients \ {c} : Remaining(d)' = Remaining(d) /\ Current(d)' = Current(d)
      BY <2>1 DEF Remaining, Current, TypeOK
    <2>4. \A d \in Clients : \A u \in updates' : u.client = d <=> u \in updates \ mine /\ u.client = d
      BY <2>1, <2>2, ClientsAssumption
    <2>5. \A u \in updates : u \notin mine => u \in updates'
      BY <2>1
    <2>6. updates' \subseteq [write: Write, client: Clients \cup {NoClient}]
      BY <2>1, <2>2 DEF TypeOK
    <2>7. \A d \in Clients : update'[d] = IF d = c THEN "none" ELSE update[d]
      BY <2>1 DEF TypeOK
    <2>8. \A d \in Clients \ {c} : call'[d] = call[d]
      BY <2>1 DEF TypeOK
    <2> HIDE DEF adrift
    <2>9. ASSUME NEW d \in Clients
          PROVE  /\ update'[d] = "sent" <=> \E v \in updates' : v.client = d
                 /\ update'[d] # "none" => call'[d] # Idle /\ Remaining(d)' # {}
                 /\ \A v \in updates' : v.client = d => v.write = Current(d)'
      BY <2>3, <2>4, <2>5, <2>7, <2>8 DEF TypeOK
    <2> QED BY <2>1, <2>6, <2>9 DEF TypeOK
  <1>6. ASSUME NEW c \in Clients, Return(c) PROVE TypeOK'
    <2>1. update[c] = "none"
      BY <1>6 DEF Return, TypeOK
    <2>2. call' = [call EXCEPT ![c] = Idle] /\ UNCHANGED <<zone, signer, updates, update, query>>
      BY <1>6 DEF Return, server
    <2>3. call' \in [Clients -> CallType \cup {Idle}]
      BY <2>2 DEF TypeOK
    <2>4. \A d \in Clients \ {c} : /\ call'[d] = call[d]
                                  /\ Remaining(d)' = Remaining(d) /\ Current(d)' = Current(d)
      BY <2>2 DEF TypeOK, Remaining, Current
    <2>5. ASSUME NEW d \in Clients
          PROVE  /\ update'[d] = "sent" <=> \E u \in updates' : u.client = d
                 /\ update'[d] # "none" => call'[d] # Idle /\ Remaining(d)' # {}
                 /\ \A u \in updates' : u.client = d => u.write = Current(d)'
      <3>1. CASE d = c
        BY <2>1, <2>2, <3>1 DEF TypeOK
      <3>2. CASE d # c
        BY <2>2, <2>4, <3>2 DEF TypeOK
      <3> QED BY <3>1, <3>2
    <2> QED BY <2>2, <2>3, <2>5 DEF TypeOK
  <1>7. ASSUME RollKey PROVE TypeOK'
    BY <1>7, KeysAssumption DEF RollKey, TypeOK, writers, Remaining, Current
  <1>8. ASSUME NEW c \in Clients, NEW n \in Names, Resolve(c, n) PROVE TypeOK'
    <2>1. [name |-> n, keys |-> {}, stage |-> "keys"] \in QueryType
      BY DEF QueryType
    <2>2. query' \in [Clients -> QueryType \cup {Idle}]
      BY <1>8, <2>1 DEF Resolve, TypeOK
    <2> QED BY <1>8, <2>2, ReaderTypeOK DEF Resolve
  <1>9. ASSUME NEW c \in Clients, Raise(c), UNCHANGED <<server, writers>> PROVE TypeOK'
    BY <1>9, ReaderTypeOK DEF Raise, TypeOK
  <1>10. ASSUME NEW c \in Clients, FetchKeys(c) PROVE TypeOK'
    <2>1. CASE Raise(c)
      BY <1>10, <1>9, <2>1 DEF FetchKeys
    <2>2. CASE query' = [query EXCEPT ![c].keys = IF c \in Validating THEN {signer} ELSE {},
                                      ![c].stage = "record"]
      <3>1. query[c] \in QueryType
        BY <1>10 DEF FetchKeys, TypeOK
      <3> DEFINE ks == IF c \in Validating THEN {signer} ELSE {}
      <3>2. ks \in SUBSET (1 .. MaxKeys)
        BY DEF TypeOK
      <3> HIDE DEF ks
      <3>3. [[query[c] EXCEPT !.keys = ks] EXCEPT !.stage = "record"] \in QueryType
        BY <3>1, <3>2 DEF QueryType
      <3>4. query' = [query EXCEPT ![c] = [[query[c] EXCEPT !.keys = ks] EXCEPT !.stage = "record"]]
        BY <2>2 DEF ks, TypeOK
      <3>5. query' \in [Clients -> QueryType \cup {Idle}]
        BY <3>3, <3>4 DEF TypeOK
      <3> QED BY <1>10, <3>5, ReaderTypeOK DEF FetchKeys
    <2> QED BY <1>10, <2>1, <2>2 DEF FetchKeys
  <1>11. ASSUME NEW c \in Clients, FetchRecord(c) PROVE TypeOK'
    BY <1>11, ReaderTypeOK DEF FetchRecord, TypeOK
  <1>12. ASSUME NEW c \in Clients, FetchRecordFails(c) PROVE TypeOK'
    BY <1>12, <1>9 DEF FetchRecordFails
  <1>13. ASSUME UNCHANGED vars PROVE TypeOK'
    BY <1>13, ReaderTypeOK DEF vars, TypeOK
  <1> QED BY <1>1, <1>2, <1>3, <1>4, <1>5, <1>6, <1>7, <1>8, <1>10, <1>11, <1>12, <1>13 DEF Next

(* Every reachable state of the Knot store is well typed, and a client has  *)
(* an update on its way exactly while its nsupdate waits for the server.   *)
THEOREM TypeCorrect == Spec => []TypeOK
  BY InitTypeOK, NextTypeOK, PTL DEF Spec

(* Type correctness and the history variable's domain.                     *)
IInv == TypeOK /\ DOMAIN answer = Clients

LEMMA NextIInv == IInv /\ [Next]_vars => IInv'
  <1> SUFFICES ASSUME IInv, [Next]_vars PROVE DOMAIN answer' = Clients
    BY NextTypeOK DEF IInv
  <1> QED BY DEF IInv, Next, vars, server, writers, Publish, SendUpdate, Apply, Proceed, Fail,
                 Return, RollKey, Resolve, FetchKeys, FetchRecord, FetchRecordFails, Raise

LEMMA IInvariant == Spec => []IInv
  <1>1. Init => IInv
    BY InitTypeOK DEF Init, IInv
  <1> QED BY <1>1, NextIInv, PTL DEF Spec

(* A validated answer is the record the zone holds, under the key that signs *)
(* it at that moment.                                                      *)
LEMMA ValidatedAnswer ==
  ASSUME TypeOK, NEW c \in Validating, FetchRecord(c)
  PROVE  /\ query[c].name \in Names
         /\ answer' = [answer EXCEPT ![c] = <<"found", query[c].name, zone[query[c].name]>>]
  <1> DEFINE n == query[c].name
  <1>1. query[c] \in QueryType
    BY ValidatingAssumption DEF FetchRecord, TypeOK
  <1>2. n \in Names /\ query[c].keys \subseteq 1 .. MaxKeys
    BY <1>1 DEF QueryType
  <1>3. PICK r \in Responses(n) : \E value \in Readings(r) :
          Accepts(c, r) /\ answer' = [answer EXCEPT ![c] = <<"found", n, value>>]
    BY DEF FetchRecord
  <1>4. r.value # NoValue /\ r.by \in 1 .. MaxKeys
    BY <1>2, <1>3 DEF Accepts
  <1>5. r = [value |-> zone[n], by |-> signer]
    BY <1>4 DEF Responses
  <1>6. r.value = zone[n] /\ zone[n] \in Values(n)
    BY <1>2, <1>4, <1>5 DEF TypeOK
  <1>7. Readings(r) = {zone[n]}
    BY <1>2, <1>6, ForgedAssumption DEF Readings
  <1> QED BY <1>2, <1>3, <1>7

(* Every step of the Knot store is a step of the abstract store or none.    *)
LEMMA StoreStep ==
  ASSUME IInv, [Next]_vars
  PROVE  [Store!Next]_(Store!storeVars)
  <1> DEFINE todo == [c \in Clients |-> Todo(c)]
             busy == {c \in Clients : call[c] # Idle}
             late == {u.write : u \in {v \in updates : v.client = NoClient}}
             seen == [c \in Clients |-> IF c \in Validating THEN answer[c] ELSE <<"none">>]
  <1> TypeOK BY DEF IInv
  <1>1. ASSUME NEW c \in Clients, answer' = [answer EXCEPT ![c] = <<"raised">>],
               UNCHANGED <<server, writers>>
        PROVE  Store!Raise(c) \/ UNCHANGED Store!storeVars
    <2>1. UNCHANGED <<zone, todo, busy, late>>
      BY <1>1 DEF server, writers, Todo, Remaining, Current
    <2>2. CASE c \in Validating
      <3>1. seen' = [seen EXCEPT ![c] = <<"raised">>]
        BY <1>1, <2>2 DEF IInv
      <3> QED BY <2>1, <3>1 DEF Store!Raise, Store!Raised
    <2>3. CASE c \notin Validating
      <3>1. seen' = seen
        BY <1>1, <2>3 DEF IInv
      <3> QED BY <2>1, <3>1 DEF Store!storeVars
    <2> QED BY <2>2, <2>3
  <1>2. ASSUME NEW c \in Clients, FetchRecord(c)
        PROVE  (\E n \in Names : Store!Resolve(c, n)) \/ UNCHANGED Store!storeVars
    <2>1. UNCHANGED <<zone, todo, busy, late>>
      BY <1>2 DEF FetchRecord, server, writers, Todo, Remaining, Current
    <2>2. CASE c \in Validating
      <3> DEFINE n == query[c].name
      <3>1. n \in Names /\ answer' = [answer EXCEPT ![c] = <<"found", n, zone[n]>>]
        BY <1>2, <2>2, ValidatedAnswer
      <3>2. seen' = [seen EXCEPT ![c] = <<"found", n, zone[n]>>]
        BY <2>2, <3>1 DEF IInv
      <3>3. PICK m \in Names : m = n
        BY <3>1
      <3>4. Store!Resolve(c, m)
        BY <2>1, <3>2, <3>3 DEF Store!Resolve, Store!Found
      <3> QED BY <3>4
    <2>3. CASE c \notin Validating
      <3>1. seen' = seen
        BY <1>2, <2>3 DEF FetchRecord, IInv
      <3> QED BY <2>1, <3>1 DEF Store!storeVars
    <2> QED BY <2>2, <2>3
  <1>3. ASSUME NEW c \in Clients, NEW sid \in Sids, NEW key \in BOOLEAN,
               NEW metadata \in Contents[sid] \cup {NoMetadata}, Publish(c, sid, key, metadata)
        PROVE  \E w \in SUBSET Write : Store!BeginPublish(c, w)
    <2> DEFINE w == Records(sid, key, metadata)
    <2>1. w \subseteq Write
      BY RecordsAreWrites
    <2>2. /\ call[c] = Idle /\ update[c] = "none"
          /\ call'[c] = [sid |-> sid, key |-> key, metadata |-> metadata] /\ call'[c] # Idle
          /\ \A d \in Clients \ {c} : call'[d] = call[d]
          /\ UNCHANGED <<zone, updates, update, answer>>
      BY <1>3, CallInType DEF Publish, server, TypeOK
    <2>3. Todo(c)' = w
      BY <2>2 DEF Todo, Remaining
    <2>4. \A d \in Clients \ {c} : Todo(d)' = Todo(d)
      BY <2>2 DEF Todo, Remaining, Current
    <2>5. todo' = [todo EXCEPT ![c] = w]
      <3> HIDE DEF w
      <3> QED BY <2>3, <2>4
    <2>6. busy' = busy \cup {c} /\ c \notin busy
      BY <2>2
    <2> QED BY <2>1, <2>2, <2>5, <2>6 DEF Store!BeginPublish
  <1>4. ASSUME NEW c \in Clients, SendUpdate(c) PROVE UNCHANGED Store!storeVars
    <2>1. update' = [update EXCEPT ![c] = "sent"] /\ update[c] = "none" /\ UNCHANGED <<zone, call, answer>>
      BY <1>4 DEF SendUpdate
    <2>2. \A d \in Clients : Todo(d)' = Todo(d)
      BY <2>1 DEF Todo, Remaining, Current, TypeOK
    <2>3. {v \in updates' : v.client = NoClient} = {v \in updates : v.client = NoClient}
      <3>1. [write |-> Current(c), client |-> c].client # NoClient
        BY ClientsAssumption
      <3> QED BY <1>4, <3>1 DEF SendUpdate
    <2> QED BY <2>1, <2>2, <2>3 DEF Store!storeVars
  <1>5. ASSUME NEW u \in updates, Apply(u)
        PROVE  \/ \E c \in Clients, w \in Write : Store!TakeEffect(c, w)
               \/ \E w \in Write : Store!TakeEffectLate(w)
    <2>1. /\ u.write \in Write /\ u.client \in Clients \cup {NoClient}
          /\ u = [write |-> u.write, client |-> u.client]
          /\ \A v \in updates : v = [write |-> v.write, client |-> v.client]
      BY DEF TypeOK
    <2>2. /\ zone' = [zone EXCEPT ![u.write[1]] = u.write[2]]
          /\ updates' = updates \ {u}
          /\ UNCHANGED <<call, answer>>
      BY <1>5 DEF Apply
    <2>3. CASE u.client \in Clients
      <3> DEFINE c == u.client
      <3>1. /\ update[c] = "sent" /\ call[c] # Idle /\ Remaining(c) # {}
            /\ u.write = Current(c)
        BY <2>3 DEF TypeOK
      <3>2. update' = [update EXCEPT ![c] = "applied"]
        BY <1>5, <2>3 DEF Apply
      <3>3. Todo(c) = Remaining(c) /\ Todo(c)' = Remaining(c) \ {u.write}
        BY <2>2, <2>3, <3>1, <3>2 DEF Todo, Remaining, Current, TypeOK
      <3>4. \A d \in Clients \ {c} : Todo(d)' = Todo(d)
        BY <2>2, <3>2 DEF Todo, Remaining, Current, TypeOK
      <3>5. todo' = [todo EXCEPT ![c] = @ \ {u.write}] /\ u.write \in todo[c]
        <4>1. u.write \in Remaining(c)
          BY <2>3, <3>1, CurrentOfClient
        <4> QED BY <2>3, <3>3, <3>4, <4>1
      <3>6. late' = late
        BY <2>2, <2>3, ClientsAssumption
      <3>7. Store!TakeEffect(c, u.write)
        BY <2>2, <3>5, <3>6 DEF Store!TakeEffect
      <3> QED BY <2>1, <2>3, <3>7
    <2>4. CASE u.client = NoClient
      <3>1. update' = update
        BY <1>5, <2>4, ClientsAssumption DEF Apply
      <3>2. todo' = todo
        BY <2>2, <3>1 DEF Todo, Remaining, Current
      <3>3. late' = late \ {u.write} /\ u.write \in late
        <4>1. \A v \in updates : v.client = NoClient /\ v.write = u.write => v = u
          BY <2>1, <2>4
        <4> QED BY <2>2, <2>4, <4>1
      <3>4. Store!TakeEffectLate(u.write)
        BY <2>2, <3>2, <3>3 DEF Store!TakeEffectLate
      <3> QED BY <2>1, <3>4
    <2> QED BY <2>1, <2>3, <2>4
  <1>6. ASSUME NEW c \in Clients, Proceed(c) PROVE UNCHANGED Store!storeVars
    <2>1. /\ call[c] # Idle /\ Remaining(c) # {} /\ Rest(c) # Idle
          /\ call' = [call EXCEPT ![c] = Rest(c)]
      BY <1>6, ProceedCall
    <2>2. /\ update[c] = "applied" /\ update' = [update EXCEPT ![c] = "none"]
          /\ UNCHANGED <<zone, updates, answer>>
      BY <1>6 DEF Proceed, server
    <2>3. call'[c] = Rest(c) /\ update'[c] = "none"
      BY <2>1, <2>2 DEF TypeOK
    <2>4. Todo(c)' = Todo(c)
      <3>1. Todo(c) = Remaining(c) \ {Current(c)}
        BY <2>1, <2>2 DEF Todo
      <3>2. Todo(c)' = Records(call[c].sid, FALSE, IF call[c].key THEN call[c].metadata ELSE NoMetadata)
        <4>1. /\ call'[c].sid = call[c].sid /\ call'[c].key = FALSE
              /\ call'[c].metadata = IF call[c].key THEN call[c].metadata ELSE NoMetadata
          BY <2>3 DEF Rest
        <4>2. Todo(c)' = Records(call'[c].sid, call'[c].key, call'[c].metadata)
          BY <2>1, <2>3 DEF Todo, Remaining
        <4> QED BY <4>1, <4>2
      <3> QED BY <2>1, <3>1, <3>2, CurrentOfClient
    <2>5. \A d \in Clients \ {c} : call'[d] = call[d] /\ update'[d] = update[d]
      BY <2>1, <2>2 DEF TypeOK
    <2>6. \A d \in Clients \ {c} : Todo(d)' = Todo(d)
      BY <2>5 DEF Todo, Remaining, Current
    <2>7. busy' = busy
      BY <2>1, <2>3, <2>5
    <2> QED BY <2>2, <2>4, <2>6, <2>7 DEF Store!storeVars
  <1>7. ASSUME NEW c \in Clients, Fail(c) PROVE \E w \in SUBSET Write : Store!FailPublish(c, w)
    <2> DEFINE mine == {u \in updates : u.client = c}
               adrift == {[u EXCEPT !.client = NoClient] : u \in mine}
               writes == {u.write : u \in mine}
    <2>1. /\ call[c] # Idle
          /\ update' = [update EXCEPT ![c] = "none"]
          /\ call' = [call EXCEPT ![c] = Idle]
          /\ updates' \in {updates \ mine, (updates \ mine) \cup adrift}
          /\ UNCHANGED <<zone, answer>>
      BY <1>7 DEF Fail
    <2>2. call'[c] = Idle /\ \A d \in Clients \ {c} : call'[d] = call[d] /\ update'[d] = update[d]
      BY <2>1 DEF TypeOK
    <2>3. Todo(c)' = {} /\ \A d \in Clients \ {c} : Todo(d)' = Todo(d)
      BY <2>2 DEF Todo, Remaining, Current
    <2>4. todo' = [todo EXCEPT ![c] = {}]
      BY <2>3
    <2>5. busy' = busy \ {c} /\ c \in busy
      BY <2>1, <2>2
    <2>6. writes \subseteq Todo(c) /\ writes \subseteq Write
      <3>1. \A u \in mine : /\ update[c] = "sent" /\ Remaining(c) # {} /\ u.write = Current(c)
        BY DEF TypeOK
      <3>2. mine # {} => Current(c) \in Remaining(c) /\ Current(c) \in Write
        BY <2>1, <3>1, CurrentOfClient
      <3> QED BY <2>1, <3>1, <3>2 DEF Todo
    <2>7. late' = late \/ late' = late \cup writes
      <3>1. \A u \in mine : u.client # NoClient
        BY ClientsAssumption
      <3>2. CASE updates' = updates \ mine
        BY <3>1, <3>2
      <3>3. CASE updates' = (updates \ mine) \cup adrift
        <4>1. /\ \A v \in adrift : v.client = NoClient /\ v.write \in writes
              /\ \A w \in writes : \E v \in adrift : v.write = w
          <5>1. \A u \in mine : /\ [u EXCEPT !.client = NoClient].client = NoClient
                                /\ [u EXCEPT !.client = NoClient].write = u.write
            BY DEF TypeOK
          <5> QED BY <5>1
        <4> HIDE DEF adrift
        <4>2. {v \in updates' : v.client = NoClient} = {v \in updates : v.client = NoClient} \cup adrift
          BY <3>1, <3>3, <4>1
        <4> QED BY <4>1, <4>2
      <3> QED BY <2>1, <3>2, <3>3
    <2> HIDE DEF mine, adrift
    <2>8. CASE late' = late
      <3>1. Store!FailPublish(c, {})
        BY <2>1, <2>4, <2>5, <2>8 DEF Store!FailPublish
      <3> QED BY <3>1
    <2>9. CASE late' = late \cup writes
      <3>1. PICK w \in SUBSET Write : w = writes
        BY <2>6
      <3>2. Store!FailPublish(c, w)
        BY <2>1, <2>4, <2>5, <2>6, <2>9, <3>1 DEF Store!FailPublish
      <3> QED BY <3>2
    <2> QED BY <2>7, <2>8, <2>9
  <1>8. ASSUME NEW c \in Clients, Return(c) PROVE Store!EndPublish(c)
    <2>1. /\ call[c] # Idle /\ Remaining(c) = {} /\ call' = [call EXCEPT ![c] = Idle]
          /\ UNCHANGED <<zone, updates, update, answer>>
      BY <1>8 DEF Return, server
    <2>2. call'[c] = Idle /\ \A d \in Clients \ {c} : call'[d] = call[d]
      BY <2>1 DEF TypeOK
    <2>3. Todo(c) = {} /\ \A d \in Clients : Todo(d)' = Todo(d)
      <3>1. update[c] = "none" /\ Todo(c) = {} /\ Todo(c)' = {}
        BY <2>1, <2>2 DEF Todo, TypeOK
      <3>2. \A d \in Clients \ {c} : Todo(d)' = Todo(d)
        BY <2>1, <2>2 DEF Todo, Remaining, Current
      <3> QED BY <3>1, <3>2
    <2>4. busy' = busy \ {c} /\ c \in busy
      BY <2>1, <2>2
    <2> QED BY <2>1, <2>3, <2>4 DEF Store!EndPublish
  <1>9. ASSUME UNCHANGED <<zone, updates, call, update, answer>>
        PROVE  UNCHANGED Store!storeVars
    BY <1>9 DEF Store!storeVars, Todo, Remaining, Current
  <1>10. ASSUME RollKey \/ (\E c \in Clients, n \in Names : Resolve(c, n)) \/ UNCHANGED vars
         PROVE  UNCHANGED Store!storeVars
    BY <1>9, <1>10 DEF RollKey, Resolve, vars, server, writers
  <1>11. ASSUME NEW c \in Clients, FetchKeys(c) \/ FetchRecordFails(c)
         PROVE  Store!Raise(c) \/ UNCHANGED Store!storeVars
    <2>1. UNCHANGED <<server, writers>> /\ (Raise(c) \/ UNCHANGED answer)
      BY <1>11 DEF FetchKeys, FetchRecordFails
    <2>2. CASE UNCHANGED answer
      BY <1>9, <2>1, <2>2 DEF server, writers
    <2> QED BY <1>1, <2>1, <2>2 DEF Raise
  <1> QED BY <1>2, <1>3, <1>4, <1>5, <1>6, <1>7, <1>8, <1>10, <1>11 DEF Next, Store!Next

(* The Knot store implements the trustful mutable store, for any number of  *)
(* processes, SIDs and contents, whatever updates are refused, lost or      *)
(* applied late, and whatever a validating process is sent.                *)
THEOREM StoreRefinement == Spec => ImplementsStore
  <1>1. Init => Store!Init
    BY DEF Init, Store!Init, Store!NoAnswer, Todo
  <1>2. IInv /\ [Next]_vars => [Store!Next]_(Store!storeVars)
    BY StoreStep
  <1> QED BY <1>1, <1>2, IInvariant, PTL DEF Spec, ImplementsStore, Store!Spec
=============================================================================
