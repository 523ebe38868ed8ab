--------------------------- MODULE DnslinkStore_proofs ---------------------------
(***************************************************************************)
(* No pointer of the DNSLink store dangles, no identity is skipped that is  *)
(* not in the zone, and zone and IPFS together are a trustful mutable       *)
(* store, for any number of store objects, SIDs and contents.              *)
(***************************************************************************)
EXTENDS DnslinkStore, KnotStore_proofs

(* Whoever reads does not take altered records for the zone's.             *)
HonestReads == Validating = Clients \/ Tamper = FALSE

(* The document of the current record is added before its pointer is sent,  *)
(* a first read is remembered only while the second one is awaited, always  *)
(* then if reads are honest, and an identity whose update was applied is in *)
(* the zone.                                                               *)
ClientInv(c) ==
  /\ added[c] => call[c] # Idle /\ Remaining(c) # {} /\ Current(c) \in docs
  /\ update[c] = "applied" /\ call[c].key => zone[<<call[c].sid, "identity">>] = Key(call[c].sid)
  /\ pointer[c] # NoValue => query[c] # Idle /\ query[c].stage = "document"
  /\ HonestReads /\ query[c] # Idle /\ query[c].stage = "document" => pointer[c] # NoValue

LinkInv ==
  /\ IInv
  /\ added \in [Clients -> BOOLEAN]
  /\ published \in [Clients -> SUBSET Sids]
  /\ DOMAIN pointer = Clients
  /\ \A c \in Clients : ClientInv(c)

LinkSafety == LinkInv /\ PointersHold /\ SkippedIdentitiesHold

(* The steps that the DNSLink store shares with the Knot store, and its own. *)
LEMMA KnotSteps ==
  ASSUME LinkNext
  PROVE  \/ /\ [Next]_vars /\ pointer' = pointer
            /\ UNCHANGED answer \/ \E c \in Clients : FetchKeys(c) /\ Raise(c)
         \/ \E c \in Clients : FetchPointer(c) \/ FetchDocument(c) \/ LinkResolveFails(c)
  <1>1. ASSUME NEW c \in Clients, NEW sid \in Sids, NEW key \in BOOLEAN,
               NEW metadata \in Contents[sid] \cup {NoMetadata}, LinkPublish(c, sid, key, metadata)
        PROVE  Next /\ pointer' = pointer /\ UNCHANGED answer
    <2>1. PICK k \in BOOLEAN : k = (key /\ sid \notin published[c])
      OBVIOUS
    <2>2. Publish(c, sid, k, metadata)
      BY <1>1, <2>1 DEF LinkPublish, Publish
    <2> QED BY <1>1, <2>2 DEF LinkPublish, Publish, Next
  <1>2. ASSUME NEW c \in Clients,
               AddDocument(c) \/ LinkDocument(c) \/ LinkProceed(c) \/ LinkFail(c)
        PROVE  [Next]_vars /\ pointer' = pointer /\ UNCHANGED answer
    BY <1>2 DEF AddDocument, LinkDocument, LinkProceed, LinkFail, SendUpdate, Proceed, Fail, Next, vars
  <1>3. ASSUME FromKnot
        PROVE  /\ [Next]_vars /\ pointer' = pointer
               /\ UNCHANGED answer \/ \E c \in Clients : FetchKeys(c) /\ Raise(c)
    <2>1. UNCHANGED answer \/ \E c \in Clients : FetchKeys(c) /\ Raise(c)
      BY <1>3 DEF FromKnot, Return, FetchKeys, Resolve, Apply, RollKey
    <2> QED BY <1>3, <2>1 DEF FromKnot, Next
  <1> QED BY <1>1, <1>2, <1>3 DEF LinkNext

LEMMA LinkTypes ==
  ASSUME LinkInv, [LinkNext]_linkVars
  PROVE  IInv'
  <1>1. CASE UNCHANGED linkVars
    BY <1>1, NextIInv DEF linkVars, LinkInv
  <1>2. CASE [Next]_vars
    BY <1>2, NextIInv DEF LinkInv
  <1>3. ASSUME NEW c \in Clients, FetchPointer(c) PROVE IInv'
    <2>1. [query[c] EXCEPT !.stage = "document"] \in QueryType
      BY <1>3 DEF FetchPointer, LinkInv, IInv, TypeOK, QueryType
    <2>2. query' \in [Clients -> QueryType \cup {Idle}]
      BY <1>3, <2>1 DEF FetchPointer, LinkInv, IInv, TypeOK
    <2> QED BY <1>3, <2>2, ReaderTypeOK DEF FetchPointer, LinkInv, IInv
  <1>4. ASSUME NEW c \in Clients, FetchDocument(c) \/ LinkResolveFails(c) PROVE IInv'
    <2>1. query' = [query EXCEPT ![c] = Idle] /\ UNCHANGED <<server, writers>> /\ DOMAIN answer' = Clients
      BY <1>4 DEF FetchDocument, LinkResolveFails, Raise, LinkInv, IInv
    <2>2. query' \in [Clients -> QueryType \cup {Idle}]
      BY <2>1 DEF LinkInv, IInv, TypeOK
    <2> QED BY <2>1, <2>2, ReaderTypeOK DEF LinkInv, IInv
  <1> QED BY <1>1, <1>2, <1>3, <1>4, KnotSteps DEF vars

LEMMA InitLink == LinkInit => LinkSafety
  <1> SUFFICES ASSUME LinkInit PROVE LinkSafety
    OBVIOUS
  <1>1. IInv
    BY InitTypeOK DEF LinkInit, Init, IInv
  <1>2. LinkInv
    BY <1>1 DEF LinkInit, Init, LinkInv, ClientInv
  <1> QED BY <1>2 DEF LinkInit, Init, LinkSafety, PointersHold, SkippedIdentitiesHold

(* A step that leaves the writers, the server and the documents alone.     *)
LEMMA LinkReader ==
  ASSUME LinkSafety, IInv', UNCHANGED <<server, writers, docs, added, published>>,
         DOMAIN pointer' = Clients,
         \A c \in Clients : 
             /\ pointer'[c] # NoValue => query'[c] # Idle /\ query'[c].stage = "document"
             /\ HonestReads /\ query'[c] # Idle /\ query'[c].stage = "document" => pointer'[c] # NoValue
  PROVE  LinkSafety'
  BY DEF LinkSafety, LinkInv, ClientInv, PointersHold, SkippedIdentitiesHold, server, writers,
         Remaining, Current

(* An honest read of the pointer is what the zone holds.                   *)
LEMMA HonestPointer ==
  ASSUME TypeOK, HonestReads, NEW c \in Clients, FetchPointer(c),
         NEW r \in Responses(query[c].name), Accepts(c, r), NEW value \in Readings(r)
  PROVE  value = zone[query[c].name] /\ value # NoValue
  <1>1. query[c] \in QueryType /\ query[c].name \in Names /\ query[c].keys \subseteq 1 .. MaxKeys
    BY DEF FetchPointer, TypeOK, QueryType
  <1>2. r = [value |-> zone[query[c].name], by |-> signer]
    <2>1. CASE Tamper = FALSE
      BY <2>1 DEF Responses
    <2>2. CASE c \in Validating
      <3>1. r.by \in 1 .. MaxKeys
        BY <1>1, <2>2 DEF Accepts
      <3> QED BY <3>1 DEF Responses
    <2> QED BY <2>1, <2>2 DEF HonestReads
  <1>3. r.value = zone[query[c].name] /\ r.value # NoValue
    BY <1>2 DEF Accepts
  <1>4. r.value # Forged
    BY <1>1, <1>3, ForgedAssumption DEF TypeOK
  <1> QED BY <1>3, <1>4 DEF Readings

LEMMA NextLink == LinkSafety /\ [LinkNext]_linkVars => LinkSafety'
  <1> SUFFICES ASSUME LinkSafety, [LinkNext]_linkVars PROVE LinkSafety'
    OBVIOUS
  <1> IInv' BY LinkTypes DEF LinkSafety
  <1> IInv /\ TypeOK BY DEF LinkSafety, LinkInv, IInv
  <1>1. ASSUME NEW c \in Clients, NEW sid \in Sids, NEW key \in BOOLEAN,
               NEW metadata \in Contents[sid] \cup {NoMetadata}, LinkPublish(c, sid, key, metadata)
        PROVE  LinkSafety'
    <2>1. /\ call[c] = Idle /\ update[c] = "none" /\ ~added[c]
          /\ \A d \in Clients \ {c} : call'[d] = call[d]
          /\ UNCHANGED <<zone, updates, update, query, docs, added, published, pointer>>
      BY <1>1 DEF LinkPublish, Publish, server, TypeOK, LinkSafety, LinkInv, ClientInv
    <2>2. \A d \in Clients \ {c} : Remaining(d)' = Remaining(d) /\ Current(d)' = Current(d)
      BY <2>1 DEF Remaining, Current
    <2> QED BY <2>1, <2>2 DEF LinkSafety, LinkInv, ClientInv, PointersHold, SkippedIdentitiesHold
  <1>2. ASSUME NEW c \in Clients, AddDocument(c) PROVE LinkSafety'
    <2>1. /\ docs \subseteq docs' /\ Current(c) \in docs' /\ call[c] # Idle /\ Remaining(c) # {}
          /\ added' = [added EXCEPT ![c] = TRUE] /\ UNCHANGED <<vars, published, pointer>>
      BY <1>2 DEF AddDocument
    <2>2. \A d \in Clients : Remaining(d)' = Remaining(d) /\ Current(d)' = Current(d)
      BY <2>1 DEF Remaining, Current, vars, writers
    <2>3. ASSUME NEW d \in Clients, added'[d]
          PROVE  call'[d] # Idle /\ Remaining(d)' # {} /\ Current(d)' \in docs'
      BY <2>1, <2>2, <2>3 DEF vars, writers, LinkSafety, LinkInv, ClientInv
    <2>4. LinkInv'
      BY <2>1, <2>3 DEF vars, server, writers, LinkSafety, LinkInv, ClientInv
    <2> QED BY <2>1, <2>4 DEF vars, server, LinkSafety, PointersHold, SkippedIdentitiesHold
  <1>3. ASSUME NEW c \in Clients, LinkDocument(c) PROVE LinkSafety'
    <2>1. /\ added[c] /\ updates' = updates \cup {[write |-> Current(c), client |-> c]}
          /\ update' = [update EXCEPT ![c] = "sent"]
          /\ UNCHANGED <<zone, call, query, docs, added, published, pointer>>
      BY <1>3 DEF LinkDocument, SendUpdate
    <2>2. \A d \in Clients : Remaining(d)' = Remaining(d) /\ Current(d)' = Current(d)
      BY <2>1 DEF Remaining, Current
    <2>3. Current(c) \in docs
      BY <2>1 DEF LinkSafety, LinkInv, ClientInv
    <2>4. PointersHold'
      BY <2>1, <2>3 DEF LinkSafety, PointersHold
    <2>5. \A d \in Clients : update'[d] = "applied" => update[d] = "applied"
      BY <2>1 DEF TypeOK
    <2> QED BY <2>1, <2>2, <2>4, <2>5 DEF LinkSafety, LinkInv, ClientInv, SkippedIdentitiesHold
  <1>4. ASSUME NEW u \in updates, Apply(u), UNCHANGED <<docs, added, published, pointer>>
        PROVE  LinkSafety'
    <2>1. /\ zone' = [zone EXCEPT ![u.write[1]] = u.write[2]]
          /\ updates' = updates \ {u}
          /\ UNCHANGED <<call, query, docs, added, published, pointer>>
      BY <1>4 DEF Apply
    <2>2. u.write \in docs /\ u.write \in Write
      BY DEF LinkSafety, PointersHold, TypeOK
    <2>3. u.write = <<u.write[1], u.write[2]>> /\ u.write[1] \in Names /\ u.write[2] \in Values(u.write[1])
      BY <2>2 DEF Write
    <2>4. \A n \in Names : zone'[n] = IF n = u.write[1] THEN u.write[2] ELSE zone[n]
      BY <2>1 DEF TypeOK
    <2>5. PointersHold'
      BY <2>1, <2>2, <2>3, <2>4 DEF LinkSafety, PointersHold
    <2>6. \A sid \in Sids : zone[<<sid, "identity">>] = Key(sid) => zone'[<<sid, "identity">>] = Key(sid)
      BY <2>3, <2>4 DEF Names, Values
    <2>7. SkippedIdentitiesHold'
      BY <2>1, <2>6 DEF LinkSafety, LinkInv, ClientInv, SkippedIdentitiesHold
    <2>8. \A d \in Clients : Remaining(d)' = Remaining(d) /\ Current(d)' = Current(d)
      BY <2>1 DEF Remaining, Current
    <2>9. ASSUME NEW d \in Clients, update'[d] = "applied", call[d].key
          PROVE  zone'[<<call[d].sid, "identity">>] = Key(call[d].sid)
      <3>1. CASE d = u.client
        <4>1. u.write = Current(d)
          BY <3>1 DEF TypeOK
        <4>2. u.write = <<<<call[d].sid, "identity">>, Key(call[d].sid)>>
          BY <2>9, <4>1 DEF Current
        <4> QED BY <2>3, <2>4, <4>2
      <3>2. CASE d # u.client
        <4>1. update[d] = "applied"
          BY <1>4, <2>9, <3>2 DEF Apply, TypeOK
        <4>2. call[d].sid \in Sids
          BY <4>1, CallOfClient DEF TypeOK
        <4> QED BY <2>6, <2>9, <4>1, <4>2 DEF LinkSafety, LinkInv, ClientInv
      <3> QED BY <3>1, <3>2
    <2>10. LinkInv'
      BY <2>1, <2>8, <2>9 DEF LinkSafety, LinkInv, ClientInv
    <2> QED BY <2>5, <2>7, <2>10 DEF LinkSafety
  <1>5. ASSUME NEW c \in Clients, LinkProceed(c) PROVE LinkSafety'
    <2>1. /\ update[c] = "applied" /\ update' = [update EXCEPT ![c] = "none"]
          /\ call' = [call EXCEPT ![c] = Rest(c)]
          /\ added' = [added EXCEPT ![c] = FALSE]
          /\ published' = [published EXCEPT ![c] = @ \cup {sid \in {call[c].sid} : call[c].key}]
          /\ UNCHANGED <<zone, updates, query, docs, pointer>>
      BY <1>5 DEF LinkProceed, Proceed, server
    <2>2. call[c] # Idle /\ call[c].sid \in Sids
      BY <2>1, CallOfClient DEF TypeOK
    <2>3. \A d \in Clients \ {c} : call'[d] = call[d] /\ update'[d] = update[d]
      BY <2>1 DEF TypeOK
    <2>4. \A d \in Clients \ {c} : Remaining(d)' = Remaining(d) /\ Current(d)' = Current(d)
      BY <2>3 DEF Remaining, Current
    <2>5. update'[c] = "none" /\ added' \in [Clients -> BOOLEAN] /\ ~added'[c]
      BY <2>1 DEF TypeOK, LinkSafety, LinkInv
    <2>6. \A d \in Clients \ {c} : added'[d] = added[d] /\ published'[d] = published[d]
      BY <2>1 DEF LinkSafety, LinkInv
    <2>7. published'[c] = published[c] \cup {sid \in {call[c].sid} : call[c].key}
      BY <2>1 DEF LinkSafety, LinkInv
    <2>8. published' \in [Clients -> SUBSET Sids]
      BY <2>1, <2>2 DEF LinkSafety, LinkInv
    <2>9. ASSUME NEW d \in Clients, NEW sid \in published'[d]
          PROVE  zone[<<sid, "identity">>] = Key(sid)
      BY <2>1, <2>6, <2>7 DEF LinkSafety, LinkInv, ClientInv, SkippedIdentitiesHold
    <2>10. SkippedIdentitiesHold' /\ PointersHold'
      BY <2>1, <2>9 DEF LinkSafety, SkippedIdentitiesHold, PointersHold
    <2>11. ClientInv(c)'
      BY <2>1, <2>5 DEF LinkSafety, LinkInv, ClientInv
    <2>12. \A d \in Clients \ {c} : ClientInv(d)'
      BY <2>1, <2>3, <2>4, <2>6 DEF LinkSafety, LinkInv, ClientInv
    <2>13. DOMAIN pointer' = Clients
      BY <2>1 DEF LinkSafety, LinkInv
    <2>14. LinkInv'
      BY <2>5, <2>8, <2>11, <2>12, <2>13 DEF LinkInv
    <2> QED BY <2>10, <2>14 DEF LinkSafety
  <1>6. ASSUME NEW c \in Clients, LinkFail(c) PROVE LinkSafety'
    <2>1. /\ update' = [update EXCEPT ![c] = "none"]
          /\ call' = [call EXCEPT ![c] = Idle]
          /\ added' = [added EXCEPT ![c] = FALSE]
          /\ published' \in {published, [published EXCEPT ![c] = {}]}
          /\ UNCHANGED <<zone, query, docs, pointer>>
      BY <1>6 DEF LinkFail, Fail
    <2>2. \A d \in Clients \ {c} : call'[d] = call[d] /\ update'[d] = update[d] /\ added'[d] = added[d]
      BY <2>1 DEF TypeOK, LinkSafety, LinkInv
    <2>3. \A d \in Clients \ {c} : Remaining(d)' = Remaining(d) /\ Current(d)' = Current(d)
      BY <2>2 DEF Remaining, Current
    <2>4. update'[c] = "none" /\ added' \in [Clients -> BOOLEAN] /\ ~added'[c]
      BY <2>1 DEF TypeOK, LinkSafety, LinkInv
    <2>5. published' \in [Clients -> SUBSET Sids] /\ \A d \in Clients : published'[d] \subseteq published[d]
      BY <2>1 DEF LinkSafety, LinkInv
    <2>6. \A u \in updates' : \E v \in updates : u.write = v.write
      <3> DEFINE mine == {u \in updates : u.client = c}
      <3>1. \A v \in updates : [v EXCEPT !.client = NoClient].write = v.write
        BY DEF TypeOK
      <3>2. updates' \in {updates \ mine,
                        (updates \ mine) \cup {[u EXCEPT !.client = NoClient] : u \in mine}}
        BY <1>6 DEF LinkFail, Fail
      <3>3. \A u \in updates' : u \in updates \/ \E v \in updates : u = [v EXCEPT !.client = NoClient]
        BY <3>2
      <3> QED BY <3>1, <3>3
    <2>7. PointersHold' /\ SkippedIdentitiesHold'
      BY <2>1, <2>5, <2>6 DEF LinkSafety, PointersHold, SkippedIdentitiesHold
    <2>8. ClientInv(c)'
      BY <2>1, <2>4 DEF LinkSafety, LinkInv, ClientInv
    <2>9. \A d \in Clients \ {c} : ClientInv(d)'
      BY <2>1, <2>2, <2>3 DEF LinkSafety, LinkInv, ClientInv
    <2>10. DOMAIN pointer' = Clients
      BY <2>1 DEF LinkSafety, LinkInv
    <2>11. LinkInv'
      BY <2>4, <2>5, <2>8, <2>9, <2>10 DEF LinkInv
    <2> QED BY <2>7, <2>11 DEF LinkSafety
  <1>7. ASSUME NEW c \in Clients, FetchPointer(c) PROVE LinkSafety'
    <2>0. PICK r \in Responses(query[c].name) : \E value \in Readings(r) :
            Accepts(c, r) /\ pointer' = [pointer EXCEPT ![c] = value]
      BY <1>7 DEF FetchPointer
    <2>1. PICK value \in Readings(r) : Accepts(c, r) /\ pointer' = [pointer EXCEPT ![c] = value]
      BY <2>0
    <2>2. /\ HonestReads => pointer'[c] # NoValue
          /\ \A d \in Clients \ {c} : pointer'[d] = pointer[d]
      <3>1. HonestReads => value # NoValue
        BY <1>7, <2>1, HonestPointer
      <3> QED BY <2>1, <3>1 DEF LinkSafety, LinkInv
    <2>3. query[c] \in QueryType /\ query' = [query EXCEPT ![c] = [query[c] EXCEPT !.stage = "document"]]
      BY <1>7 DEF FetchPointer, TypeOK
    <2>4. query'[c].stage = "document" /\ query'[c] \in QueryType
      BY <2>3 DEF QueryType, TypeOK
    <2>5. query'[c] # Idle /\ \A d \in Clients \ {c} : query'[d] = query[d]
      BY <2>3, <2>4, IdleAssumption DEF TypeOK
    <2>6. /\ DOMAIN pointer' = Clients
          /\ \A d \in Clients : 
                 /\ pointer'[d] # NoValue => query'[d] # Idle /\ query'[d].stage = "document"
                 /\ HonestReads /\ query'[d] # Idle /\ query'[d].stage = "document" => pointer'[d] # NoValue
      BY <2>1, <2>2, <2>4, <2>5 DEF LinkSafety, LinkInv, ClientInv
    <2> QED BY <1>7, <2>6, LinkReader DEF FetchPointer
  <1>8. ASSUME NEW c \in Clients, FetchDocument(c) \/ LinkResolveFails(c) PROVE LinkSafety'
    <2>1. /\ query' = [query EXCEPT ![c] = Idle] /\ pointer' = [pointer EXCEPT ![c] = NoValue]
          /\ UNCHANGED <<server, writers, docs, added, published>>
      BY <1>8 DEF FetchDocument, LinkResolveFails, Raise
    <2>2. /\ DOMAIN pointer' = Clients
          /\ \A d \in Clients : 
                 /\ pointer'[d] # NoValue => query'[d] # Idle /\ query'[d].stage = "document"
                 /\ HonestReads /\ query'[d] # Idle /\ query'[d].stage = "document" => pointer'[d] # NoValue
      BY <2>1 DEF LinkSafety, LinkInv, ClientInv, TypeOK
    <2> QED BY <2>1, <2>2, LinkReader
  <1>9. ASSUME NEW c \in Clients, Return(c), UNCHANGED <<docs, added, published, pointer>>
        PROVE  LinkSafety'
    <2>1. /\ Remaining(c) = {} /\ call' = [call EXCEPT ![c] = Idle]
          /\ UNCHANGED <<zone, updates, update, query>>
      BY <1>9 DEF Return, server
    <2>2. update[c] = "none" /\ ~added[c]
      BY <1>9, <2>1 DEF Return, TypeOK, LinkSafety, LinkInv, ClientInv
    <2>3. \A d \in Clients \ {c} : call'[d] = call[d]
      BY <2>1 DEF TypeOK
    <2>4. \A d \in Clients \ {c} : Remaining(d)' = Remaining(d) /\ Current(d)' = Current(d)
      BY <2>3 DEF Remaining, Current
    <2> QED BY <1>9, <2>1, <2>2, <2>3, <2>4 DEF LinkSafety, LinkInv, ClientInv, PointersHold, SkippedIdentitiesHold
  <1>10. ASSUME NEW c \in Clients, FetchKeys(c), UNCHANGED <<docs, added, published, pointer>>
         PROVE  LinkSafety'
    <2>1. query[c] # Idle /\ query[c].stage = "keys" /\ UNCHANGED <<server, writers>>
      BY <1>10 DEF FetchKeys
    <2>2. \A d \in Clients \ {c} : query'[d] = query[d]
      BY <1>10 DEF FetchKeys, Raise, TypeOK
    <2>3. query'[c] = Idle \/ query'[c].stage = "record"
      <3>1. query[c] \in QueryType
        BY <2>1 DEF TypeOK
      <3> DEFINE ks == IF c \in Validating THEN {signer} ELSE {}
      <3>2. [query[c] EXCEPT !.keys = ks, !.stage = "record"].stage = "record"
        BY <3>1 DEF QueryType
      <3> HIDE DEF ks
      <3>3. \/ query' = [query EXCEPT ![c] = Idle]
            \/ query' = [query EXCEPT ![c] = [query[c] EXCEPT !.keys = ks, !.stage = "record"]]
        BY <1>10 DEF FetchKeys, Raise, ks, TypeOK
      <3> QED BY <3>2, <3>3 DEF TypeOK
    <2>4. pointer[c] = NoValue
      BY <2>1 DEF LinkSafety, LinkInv, ClientInv
    <2>5. \A d \in Clients : 
              /\ pointer'[d] # NoValue => query'[d] # Idle /\ query'[d].stage = "document"
              /\ HonestReads /\ query'[d] # Idle /\ query'[d].stage = "document" => pointer'[d] # NoValue
      BY <1>10, <2>2, <2>3, <2>4 DEF LinkSafety, LinkInv, ClientInv
    <2>6. DOMAIN pointer' = Clients
      BY <1>10 DEF LinkSafety, LinkInv, ClientInv
    <2> QED BY <1>10, <2>1, <2>5, <2>6, LinkReader
  <1>11. ASSUME NEW c \in Clients, NEW n \in Names, Resolve(c, n),
                UNCHANGED <<docs, added, published, pointer>>
         PROVE  LinkSafety'
    <2>1. query[c] = Idle /\ query' = [query EXCEPT ![c] = [name |-> n, keys |-> {}, stage |-> "keys"]]
      BY <1>11 DEF Resolve
    <2>2. query'[c].stage = "keys" /\ \A d \in Clients \ {c} : query'[d] = query[d]
      BY <2>1 DEF TypeOK
    <2>3. \A d \in Clients : 
              /\ pointer'[d] # NoValue => query'[d] # Idle /\ query'[d].stage = "document"
              /\ HonestReads /\ query'[d] # Idle /\ query'[d].stage = "document" => pointer'[d] # NoValue
      BY <1>11, <2>1, <2>2 DEF LinkSafety, LinkInv, ClientInv
    <2>4. DOMAIN pointer' = Clients
      BY <1>11 DEF LinkSafety, LinkInv, ClientInv
    <2> QED BY <1>11, <2>3, <2>4, LinkReader DEF Resolve
  <1>12. ASSUME RollKey \/ UNCHANGED vars, UNCHANGED <<docs, added, published, pointer>>
         PROVE  LinkSafety'
    <2>1. UNCHANGED <<zone, updates, call, update, query, docs, added, published, pointer>>
      BY <1>12 DEF RollKey, vars, server, writers
    <2> QED BY <2>1 DEF LinkSafety, LinkInv, ClientInv, PointersHold, SkippedIdentitiesHold, Remaining, Current
  <1>13. ASSUME UNCHANGED linkVars PROVE LinkSafety'
    BY <1>12, <1>13 DEF linkVars
  <1> QED BY <1>1, <1>2, <1>3, <1>4, <1>5, <1>6, <1>7, <1>8, <1>9, <1>10, <1>11, <1>12, <1>13
          DEF LinkNext, FromKnot

LEMMA LinkSafetyInvariant == LinkSpec => []LinkSafety
  BY InitLink, NextLink, PTL DEF LinkSpec

(* No pointer in the zone or on its way to it names a document that was     *)
(* never added, for any number of store objects, SIDs and contents.        *)
THEOREM NoDanglingPointer == LinkSpec => []PointersHold
  <1>1. LinkSafety => PointersHold
    BY DEF LinkSafety
  <1> QED BY <1>1, LinkSafetyInvariant, PTL

(* An identity that a store object will not publish again is in the zone.  *)
THEOREM SkippedIdentities == LinkSpec => []SkippedIdentitiesHold
  <1>1. LinkSafety => SkippedIdentitiesHold
    BY DEF LinkSafety
  <1> QED BY <1>1, LinkSafetyInvariant, PTL

(* A step of the abstract store that shows nobody an answer.               *)
LEMMA UnseenStep ==
  ASSUME [Store!Next]_(Store!storeVars), UNCHANGED [c \in Clients |-> Sampled(c)]
  PROVE  [LinkStore!Next]_(LinkStore!storeVars)
  BY DEF Store!Next, Store!storeVars, Store!BeginPublish, Store!FailPublish, Store!TakeEffect,
         Store!Resolve, Store!EndPublish, Store!Raise, Store!TakeEffectLate, Store!Forget,
         LinkStore!Next, LinkStore!storeVars, LinkStore!BeginPublish, LinkStore!FailPublish,
         LinkStore!TakeEffect, LinkStore!EndPublish, LinkStore!TakeEffectLate, LinkStore!Forget

(* The DNSLink store, zone and IPFS together, implements the trustful        *)
(* mutable store for any number of store objects, SIDs and contents, if     *)
(* every reader validates or no record is altered on its way.              *)
THEOREM LinkRefinement == HonestReads => (LinkSpec => LinkImplementsStore)
  <1> SUFFICES ASSUME HonestReads PROVE LinkSpec => LinkImplementsStore
    OBVIOUS
  <1> DEFINE seen == [c \in Clients |-> Sampled(c)]
             todo == [c \in Clients |-> Todo(c)]
             busy == {c \in Clients : call[c] # Idle}
             late == {u.write : u \in {v \in updates : v.client = NoClient}}
  <1>1. LinkInit => LinkStore!Init
    BY DEF LinkInit, Init, LinkStore!Init, LinkStore!NoAnswer, Todo, Sampled
  <1>2. LinkSafety /\ [LinkNext]_linkVars => [LinkStore!Next]_(LinkStore!storeVars)
    <2> SUFFICES ASSUME LinkSafety, [LinkNext]_linkVars PROVE [LinkStore!Next]_(LinkStore!storeVars)
      OBVIOUS
    <2> LinkInv /\ IInv /\ TypeOK BY DEF LinkSafety, LinkInv, IInv
    <2>1. ASSUME [Next]_vars, UNCHANGED seen PROVE [LinkStore!Next]_(LinkStore!storeVars)
      BY <2>1, StoreStep, UnseenStep
    <2>2. ASSUME [Next]_vars, pointer' = pointer, UNCHANGED answer PROVE UNCHANGED seen
      <3>1. ASSUME NEW c \in Clients PROVE pointer[c] = NoValue \/ query'[c] = query[c]
        <4>1. \/ query' = query
              \/ \E d \in Clients : /\ query[d] = Idle \/ query[d].stage \in {"keys", "record"}
                                   /\ \A e \in Clients \ {d} : query'[e] = query[e]
          BY <2>2 DEF Next, vars, Publish, SendUpdate, Apply, Proceed, Fail, Return, RollKey,
             Resolve, FetchKeys, FetchRecord, FetchRecordFails, Raise, server, writers, TypeOK
        <4> QED BY <4>1 DEF LinkInv, ClientInv
      <3>2. \A c \in Clients : Sampled(c)' = Sampled(c)
        BY <2>2, <3>1 DEF Sampled
      <3> QED BY <3>2
    <2>3. ASSUME NEW c \in Clients, answer' = [answer EXCEPT ![c] = <<"raised">>], pointer'[c] = NoValue,
                 \A d \in Clients \ {c} : pointer'[d] = pointer[d] /\ query'[d] = query[d],
                 UNCHANGED <<server, writers>>
          PROVE  LinkStore!Raise(c)
      <3>1. \A d \in Clients : Sampled(d)' = IF d = c THEN <<"raised">> ELSE Sampled(d)
        BY <2>3 DEF Sampled, IInv
      <3>2. seen' = [seen EXCEPT ![c] = <<"raised">>]
        BY <3>1
      <3>3. UNCHANGED <<zone, todo, busy, late>>
        BY <2>3 DEF server, writers, Todo, Remaining, Current
      <3> QED BY <3>2, <3>3 DEF LinkStore!Raise, LinkStore!Raised
    <2>4. ASSUME NEW c \in Clients, FetchKeys(c), Raise(c), pointer' = pointer PROVE LinkStore!Raise(c)
      <3>1. pointer[c] = NoValue
        BY <2>4 DEF FetchKeys, LinkInv, ClientInv
      <3>2. \A d \in Clients \ {c} : query'[d] = query[d]
        BY <2>4 DEF Raise, TypeOK
      <3> QED BY <2>3, <2>4, <3>1, <3>2 DEF FetchKeys, Raise
    <2>5. ASSUME NEW c \in Clients, LinkResolveFails(c) PROVE LinkStore!Raise(c)
      BY <2>3, <2>5 DEF LinkResolveFails, Raise, LinkInv, TypeOK
    <2>6. ASSUME NEW c \in Clients, FetchPointer(c) PROVE \E n \in Names : LinkStore!Resolve(c, n)
      <3>1. query[c] \in QueryType /\ query[c] # Idle
        BY <2>6 DEF FetchPointer, TypeOK
      <3>2. PICK n \in Names : n = query[c].name
        BY <3>1 DEF QueryType
      <3>3. PICK r \in Responses(n) : \E v \in Readings(r) :
              Accepts(c, r) /\ pointer' = [pointer EXCEPT ![c] = v]
        BY <2>6, <3>2 DEF FetchPointer
      <3> PICK value \in Readings(r) : Accepts(c, r) /\ pointer' = [pointer EXCEPT ![c] = value]
        BY <3>3
      <3>4. value = zone[n] /\ value # NoValue
        BY <2>6, <3>2, <3>3, HonestPointer
      <3>5. query'[c].name = n /\ pointer'[c] = zone[n]
        <4>1. query' = [query EXCEPT ![c] = [query[c] EXCEPT !.stage = "document"]]
          BY <2>6 DEF FetchPointer
        <4>2. [query[c] EXCEPT !.stage = "document"].name = query[c].name
          BY <3>1 DEF QueryType
        <4>3. pointer'[c] = zone[n]
          BY <3>3, <3>4 DEF LinkInv
        <4> QED BY <3>2, <4>1, <4>2, <4>3 DEF TypeOK
      <3>6. \A d \in Clients \ {c} : pointer'[d] = pointer[d] /\ query'[d] = query[d]
        BY <2>6, <3>3 DEF FetchPointer, LinkInv, TypeOK
      <3>7. \A d \in Clients : Sampled(d)' = IF d = c THEN <<"found", n, zone[n]>> ELSE Sampled(d)
        BY <2>6, <3>4, <3>5, <3>6 DEF Sampled, FetchPointer
      <3>8. seen' = [seen EXCEPT ![c] = <<"found", n, zone[n]>>]
        BY <3>7
      <3>9. UNCHANGED <<zone, todo, busy, late>>
        BY <2>6 DEF FetchPointer, server, writers, Todo, Remaining, Current
      <3>10. LinkStore!Resolve(c, n)
        BY <3>8, <3>9 DEF LinkStore!Resolve, LinkStore!Found
      <3> QED BY <3>10
    <2>7. ASSUME NEW c \in Clients, FetchDocument(c) PROVE UNCHANGED LinkStore!storeVars
      <3>1. /\ pointer[c] # NoValue
            /\ answer' = [answer EXCEPT ![c] = <<"found", query[c].name, pointer[c]>>]
            /\ pointer' = [pointer EXCEPT ![c] = NoValue]
            /\ query' = [query EXCEPT ![c] = Idle]
        BY <2>7 DEF FetchDocument, LinkInv, ClientInv
      <3>2. \A d \in Clients : Sampled(d)' = Sampled(d)
        BY <3>1 DEF Sampled, LinkInv, IInv, TypeOK
      <3>3. UNCHANGED <<zone, todo, busy, late>>
        BY <2>7 DEF FetchDocument, server, writers, Todo, Remaining, Current
      <3> QED BY <3>2, <3>3 DEF LinkStore!storeVars
    <2>8. CASE UNCHANGED linkVars
      BY <2>1, <2>2, <2>8 DEF linkVars, vars
    <2> QED BY <2>1, <2>2, <2>4, <2>5, <2>6, <2>7, <2>8, KnotSteps DEF LinkStore!Next
  <1> QED BY <1>1, <1>2, LinkSafetyInvariant, PTL DEF LinkSpec, LinkImplementsStore, LinkStore!Spec
=============================================================================
