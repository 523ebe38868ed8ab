---------------------------- MODULE IpfsStore_proofs ----------------------------
(***************************************************************************)
(* For any number of processes on one registry file, of identifiers and of  *)
(* crashes, a CID in a registry stands for a published document, and an     *)
(* identity is published when publish_identity returns.  A sole process and  *)
(* its successors are a trustful mutable store.                            *)
(***************************************************************************)
EXTENDS IpfsStore, TLAPS

(* How far a publication is, and what it has done by then.                 *)
ProcInv(p) ==
  call[p] # Idle =>
    /\ ~call[p].key => HasCid(registry[p][<<call[p].sid, "identity">>])
    /\ Remaining(p) # {} =>
         /\ stage[p] # "key" => Current(p)[1] \in keys
         /\ stage[p] \in {"point", "record", "done"} => Current(p) \in docs
         /\ stage[p] \in {"record", "done"} => pointer[Current(p)[1]] # NoValue
         /\ stage[p] = "done" => HasCid(registry[p][Current(p)[1]])

IInv ==
  /\ TypeOK
  /\ CidsArePublished
  /\ \A w \in late : w[1] \in keys
  /\ \A p \in Procs : ProcInv(p)

LEMMA CallInType ==
  ASSUME NEW s \in Sids, NEW k \in BOOLEAN, NEW m \in Contents[s] \cup {NoMetadata}
  PROVE  [sid |-> s, key |-> k, metadata |-> m] \in CallType
  <1>1. [sid |-> s, key |-> k, metadata |-> m]
          \in [sid: {s}, key: BOOLEAN, metadata: Contents[s] \cup {NoMetadata}]
    OBVIOUS
  <1> QED BY <1>1 DEF CallType

LEMMA CallOfProcess ==
  ASSUME TypeOK, NEW p \in Procs, call[p] # Idle
  PROVE  /\ call[p].sid \in Sids
         /\ call[p].key \in BOOLEAN
         /\ call[p].metadata \in Contents[call[p].sid] \cup {NoMetadata}
  BY DEF TypeOK, CallType

(* A write is a name with one of its values, and never None.               *)
LEMMA WritesHold ==
  ASSUME NEW w \in Write
  PROVE  /\ w = <<w[1], w[2]>>
         /\ w[1] \in Names
         /\ w[2] \in Values(w[1])
         /\ w[2] # NoValue
  <1>1. PICK n \in Names : w \in {n} \X Values(n)
    BY DEF Write
  <1>2. w = <<w[1], w[2]>> /\ w[1] = n /\ w[2] \in Values(n)
    BY <1>1
  <1> QED BY <1>2, ValuesAssumption

(* The document a publication is at.                                       *)
LEMMA CurrentOfProcess ==
  ASSUME TypeOK, NEW p \in Procs, call[p] # Idle, Remaining(p) # {}
  PROVE  Current(p) \in Write
  <1> DEFINE s == call[p].sid
  <1>1. /\ s \in Sids /\ call[p].key \in BOOLEAN
        /\ call[p].metadata \in Contents[s] \cup {NoMetadata}
    BY CallOfProcess
  <1>2. <<s, "identity">> \in Names /\ <<s, "metadata">> \in Names
    BY <1>1 DEF Names
  <1>3. Values(<<s, "identity">>) = {Key(s)} /\ Values(<<s, "metadata">>) = Contents[s]
    BY DEF Values
  <1>4. CASE call[p].key
    <2>1. Current(p) \in {<<s, "identity">>} \X Values(<<s, "identity">>)
      BY <1>3, <1>4 DEF Current
    <2> QED BY <1>2, <2>1 DEF Write
  <1>5. CASE ~call[p].key
    <2>1. call[p].metadata \in Contents[s]
      BY <1>1, <1>5 DEF Remaining, Records
    <2>2. Current(p) \in {<<s, "metadata">>} \X Values(<<s, "metadata">>)
      BY <1>3, <1>5, <2>1 DEF Current
    <2> QED BY <1>2, <2>2 DEF Write
  <1> QED BY <1>4, <1>5

(* What is done stays done: keys, documents, pointers and CIDs remain.     *)
LEMMA ProcPersists ==
  ASSUME IInv, NEW p \in Procs, call'[p] = call[p], stage'[p] = stage[p],
         keys \subseteq keys', docs \subseteq docs',
         \A n \in Names : pointer[n] # NoValue => pointer'[n] # NoValue,
         \A n \in Names : HasCid(registry[p][n]) => HasCid(registry'[p][n])
  PROVE  ProcInv(p)'
  <1> SUFFICES ASSUME call[p] # Idle PROVE ProcInv(p)'
    BY DEF ProcInv
  <1>1. Remaining(p)' = Remaining(p) /\ Current(p)' = Current(p)
    BY DEF Remaining, Current
  <1>2. <<call[p].sid, "identity">> \in Names
    BY CallOfProcess DEF IInv, Names
  <1>3. Remaining(p) # {} => Current(p)[1] \in Names
    BY CurrentOfProcess, WritesHold DEF IInv
  <1>4. /\ HasCid(registry[p][<<call[p].sid, "identity">>])
             => HasCid(registry[p][<<call[p].sid, "identity">>])'
        /\ Remaining(p) # {} /\ HasCid(registry[p][Current(p)[1]])
             => HasCid(registry[p][Current(p)[1]])'
    BY <1>1, <1>2, <1>3 DEF HasCid
  <1> QED BY <1>1, <1>3, <1>4 DEF IInv, ProcInv

LEMMA InitIInv == Init => IInv
  <1> SUFFICES ASSUME Init PROVE IInv
    OBVIOUS
  <1>1. EmptyRegistry \in Registry
    BY DEF EmptyRegistry, Registry, Entry
  <1>2. file # Partial
    BY <1>1, PartialAssumption DEF Init
  <1>3. TypeOK
    BY <1>1, <1>2 DEF Init, TypeOK
  <1>4. CidsArePublished
    BY DEF Init, CidsArePublished, HasCid, EmptyRegistry
  <1> QED BY <1>3, <1>4 DEF Init, IInv, ProcInv

(* An entry of a registry.                                                 *)
LEMMA EntryOfRegistry ==
  ASSUME NEW r \in Registry, NEW n \in Names
  PROVE  r[n] = NoEntry \/ r[n].cid \in Values(n) \cup {NoValue}
  BY DEF Registry, Entry

(* A registry with one new entry is a registry.                            *)
LEMMA RegistryUpdated ==
  ASSUME NEW r \in Registry, NEW n \in Names, NEW v \in Values(n) \cup {NoValue}
  PROVE  [r EXCEPT ![n] = [cid |-> v]] \in Registry
  <1>1. [cid |-> v] \in Entry(n)
    BY DEF Entry
  <1>2. [cid |-> v] \in UNION {Entry(m) : m \in Names}
    BY <1>1
  <1> QED BY <1>1, <1>2 DEF Registry

LEMMA CidIsSet ==
  ASSUME NEW n \in Names, NEW v \in Values(n)
  PROVE  HasCid([cid |-> v])
  <1>1. [cid |-> v] \in [cid: Values(n) \cup {NoValue}] /\ v # NoValue
    BY ValuesAssumption
  <1> QED BY <1>1, EntryAssumption DEF HasCid

(* A step that leaves Kubo and the registries alone keeps what is global.   *)
LEMMA Globals ==
  ASSUME IInv, UNCHANGED <<kubo, registry, file>>
  PROVE  CidsArePublished' /\ \A w \in late' : w[1] \in keys'
  BY DEF IInv, CidsArePublished, kubo, HasCid

LEMMA NextIInv == IInv /\ [Next]_vars => IInv'
  <1> SUFFICES ASSUME IInv, [Next]_vars PROVE IInv'
    OBVIOUS
  <1> TypeOK BY DEF IInv
  <1>1. ASSUME NEW p \in Procs, NEW sid \in Sids, NEW metadata \in Contents[sid] \cup {NoMetadata},
               Publish(p, sid, metadata)
        PROVE  IInv'
    <2>1. PICK k \in BOOLEAN : k = ~PublishedAlready(p, sid)
      BY DEF PublishedAlready, HasCid
    <2>2. /\ call' = [call EXCEPT ![p] = [sid |-> sid, key |-> k, metadata |-> metadata]]
          /\ stage' = [stage EXCEPT ![p] = "key"]
          /\ UNCHANGED <<keys, docs, pointer, late, registry, file, saving>>
      BY <1>1, <2>1 DEF Publish, kubo
    <2>3. TypeOK'
      <3>1. call' \in [Procs -> CallType \cup {Idle}]
        BY <2>2, CallInType DEF TypeOK
      <3> QED BY <2>2, <3>1 DEF TypeOK
    <2>4. ProcInv(p)'
      <3>1. call'[p] = [sid |-> sid, key |-> k, metadata |-> metadata] /\ stage'[p] = "key"
        BY <2>2 DEF TypeOK
      <3>2. ~k => HasCid(registry[p][<<sid, "identity">>])
        BY <2>1 DEF PublishedAlready
      <3>3. ~k => HasCid(registry[p][<<sid, "identity">>])'
        BY <2>2, <3>2 DEF HasCid
      <3> QED BY <3>1, <3>3 DEF ProcInv
    <2>5. ASSUME NEW q \in Procs, q # p PROVE ProcInv(q)'
      <3>1. call'[q] = call[q] /\ stage'[q] = stage[q]
        BY <2>2, <2>5 DEF TypeOK
      <3> QED BY <2>2, <3>1, ProcPersists
    <2>6. CidsArePublished' /\ \A w \in late' : w[1] \in keys'
      BY <2>2, Globals DEF kubo
    <2> QED BY <2>3, <2>4, <2>5, <2>6 DEF IInv
  <1>2. ASSUME NEW p \in Procs, GenerateKey(p) PROVE IInv'
    <2> DEFINE n == Current(p)[1]
    <2>1. call[p] # Idle /\ Remaining(p) # {} /\ n \in Names
      BY <1>2, CurrentOfProcess, WritesHold DEF GenerateKey, At
    <2>2. /\ keys' = keys \cup {n}
          /\ registry' = [registry EXCEPT ![p][n] =
               IF registry[p][n] = NoEntry THEN [cid |-> NoValue] ELSE registry[p][n]]
          /\ stage' = [stage EXCEPT ![p] = "add"]
          /\ saving' = [saving EXCEPT ![p] = "open"]
          /\ UNCHANGED <<docs, pointer, late, file, call>>
      BY <1>2 DEF GenerateKey
    <2> HIDE DEF n
    <2>3. PICK r : r = registry[p]
      OBVIOUS
    <2>4. r \in Registry
      BY <2>3 DEF TypeOK
    <2>5. PICK s \in Registry : /\ registry' = [registry EXCEPT ![p] = s]
                                /\ \A m \in Names : HasCid(s[m]) <=> HasCid(r[m])
      <3>1. CASE r[n] = NoEntry
        <4>1. registry' = [registry EXCEPT ![p] = [r EXCEPT ![n] = [cid |-> NoValue]]]
          BY <2>2, <2>3, <3>1
        <4>2. [r EXCEPT ![n] = [cid |-> NoValue]] \in Registry
          BY <2>1, <2>4, RegistryUpdated
        <4>3. \A m \in Names : HasCid([r EXCEPT ![n] = [cid |-> NoValue]][m]) <=> HasCid(r[m])
          BY <2>4, <3>1 DEF HasCid, Registry
        <4> QED BY <4>1, <4>2, <4>3
      <3>2. CASE r[n] # NoEntry
        <4>1. registry' = [registry EXCEPT ![p] = r]
          BY <2>1, <2>2, <2>3, <2>4, <3>2 DEF TypeOK, Registry
        <4> QED BY <2>4, <4>1
      <3> QED BY <3>1, <3>2
    <2>6. registry' \in [Procs -> Registry] /\ \A q \in Procs : registry'[q] = IF q = p THEN s ELSE registry[q]
      BY <2>5 DEF TypeOK
    <2>7. \A q \in Procs, m \in Names : HasCid(registry'[q][m]) <=> HasCid(registry[q][m])
      BY <2>3, <2>5, <2>6
    <2>8. TypeOK'
      BY <2>2, <2>6 DEF TypeOK
    <2>9. CidsArePublished'
      BY <2>2, <2>7 DEF IInv, CidsArePublished, HasCid
    <2>10. ProcInv(p)'
      <3>1. Remaining(p)' = Remaining(p) /\ Current(p)' = Current(p) /\ stage'[p] = "add"
        BY <2>2 DEF Remaining, Current, TypeOK
      <3>2. <<call[p].sid, "identity">> \in Names
        BY <2>1, CallOfProcess DEF Names
      <3>3. HasCid(registry[p][<<call[p].sid, "identity">>])
              => HasCid(registry[p][<<call[p].sid, "identity">>])'
        BY <2>2, <2>7, <3>2 DEF HasCid
      <3> QED BY <2>1, <2>2, <3>1, <3>3 DEF n, IInv, ProcInv
    <2>11. ASSUME NEW q \in Procs, q # p PROVE ProcInv(q)'
      <3>1. call'[q] = call[q] /\ stage'[q] = stage[q]
        BY <2>2, <2>11 DEF TypeOK
      <3> QED BY <2>2, <2>7, <3>1, ProcPersists
    <2> QED BY <2>2, <2>8, <2>9, <2>10, <2>11 DEF IInv
  <1>3. ASSUME NEW p \in Procs, WriteTemporary(p) PROVE IInv'
    <2>1. UNCHANGED <<keys, docs, pointer, late, registry, file, call, stage>>
          /\ saving' = [saving EXCEPT ![p] = "move"]
      BY <1>3 DEF WriteTemporary, kubo
    <2>2. TypeOK'
      BY <2>1 DEF TypeOK
    <2>3. \A q \in Procs : ProcInv(q)'
      BY <2>1, ProcPersists
    <2> QED BY <2>1, <2>2, <2>3, Globals DEF IInv, kubo
  <1>4. ASSUME NEW p \in Procs, ReplaceFile(p) PROVE IInv'
    <2>1. UNCHANGED <<keys, docs, pointer, late, registry, call, stage>>
          /\ file' = registry[p] /\ saving' = [saving EXCEPT ![p] = "no"]
      BY <1>4 DEF ReplaceFile, kubo
    <2>2. file' \in Registry /\ file' # Partial
      BY <2>1, PartialAssumption DEF TypeOK
    <2>3. TypeOK'
      BY <2>1, <2>2 DEF TypeOK
    <2>4. CidsArePublished'
      BY <2>1 DEF IInv, CidsArePublished, HasCid
    <2>5. \A q \in Procs : ProcInv(q)'
      BY <2>1, ProcPersists
    <2> QED BY <2>1, <2>3, <2>4, <2>5 DEF IInv
  <1>5. ASSUME NEW p \in Procs, AddDocument(p) PROVE IInv'
    <2>1. /\ call[p] # Idle /\ Remaining(p) # {} /\ stage[p] = "add"
          /\ docs' = docs \cup {Current(p)} /\ stage' = [stage EXCEPT ![p] = "point"]
          /\ UNCHANGED <<keys, pointer, late, registry, file, call, saving>>
      BY <1>5 DEF AddDocument, At
    <2>2. Current(p) \in Write
      BY <2>1, CurrentOfProcess
    <2>3. TypeOK'
      BY <2>1, <2>2 DEF TypeOK
    <2>4. CidsArePublished'
      BY <2>1 DEF IInv, CidsArePublished, HasCid
    <2>5. ProcInv(p)'
      <3>1. Remaining(p)' = Remaining(p) /\ Current(p)' = Current(p) /\ stage'[p] = "point"
        BY <2>1 DEF Remaining, Current, TypeOK
      <3> QED BY <2>1, <3>1 DEF IInv, ProcInv, HasCid
    <2>6. ASSUME NEW q \in Procs, q # p PROVE ProcInv(q)'
      <3>1. call'[q] = call[q] /\ stage'[q] = stage[q]
        BY <2>1, <2>6 DEF TypeOK
      <3> QED BY <2>1, <3>1, ProcPersists
    <2> QED BY <2>1, <2>3, <2>4, <2>5, <2>6 DEF IInv
  <1>6. ASSUME NEW p \in Procs, PublishIpns(p) PROVE IInv'
    <2> DEFINE w == Current(p)
    <2>1. /\ call[p] # Idle /\ Remaining(p) # {} /\ stage[p] = "point"
          /\ pointer' = [pointer EXCEPT ![w[1]] = w[2]] /\ stage' = [stage EXCEPT ![p] = "record"]
          /\ UNCHANGED <<keys, docs, late, registry, file, call, saving>>
      BY <1>6 DEF PublishIpns, At
    <2>2. w = <<w[1], w[2]>> /\ w[1] \in Names /\ w[2] # NoValue
      BY <2>1, CurrentOfProcess, WritesHold
    <2>3. w \in docs /\ w[1] \in keys
      BY <2>1 DEF IInv, ProcInv
    <2> HIDE DEF w
    <2>4. \A n \in Names : pointer'[n] = IF n = w[1] THEN w[2] ELSE pointer[n]
      BY <2>1 DEF TypeOK
    <2>5. TypeOK'
      BY <2>1, <2>2, <2>3, <2>4 DEF TypeOK
    <2>6. \A n \in Names : pointer[n] # NoValue => pointer'[n] # NoValue
      BY <2>2, <2>4
    <2>7. CidsArePublished'
      BY <2>1, <2>6 DEF IInv, CidsArePublished, HasCid
    <2>8. ProcInv(p)'
      <3>1. Remaining(p)' = Remaining(p) /\ Current(p)' = Current(p) /\ stage'[p] = "record"
        BY <2>1 DEF Remaining, Current, TypeOK
      <3>2. pointer'[w[1]] # NoValue
        BY <2>2, <2>4
      <3> QED BY <2>1, <2>3, <3>1, <3>2 DEF w, IInv, ProcInv, HasCid
    <2>9. ASSUME NEW q \in Procs, q # p PROVE ProcInv(q)'
      <3>1. call'[q] = call[q] /\ stage'[q] = stage[q]
        BY <2>1, <2>9 DEF TypeOK
      <3> QED BY <2>1, <2>6, <3>1, ProcPersists
    <2> QED BY <2>1, <2>5, <2>7, <2>8, <2>9 DEF IInv
  <1>7. ASSUME NEW w \in late, PublishLate(w) PROVE IInv'
    <2>1. /\ pointer' = [pointer EXCEPT ![w[1]] = w[2]] /\ late' = late \ {w}
          /\ UNCHANGED <<keys, docs, registry, file, call, stage, saving>>
      BY <1>7 DEF PublishLate, publication
    <2>2. w \in docs /\ w \in Write /\ w[1] \in keys
      BY DEF IInv, TypeOK
    <2>3. w = <<w[1], w[2]>> /\ w[1] \in Names /\ w[2] # NoValue
      BY <2>2, WritesHold
    <2>4. \A n \in Names : pointer'[n] = IF n = w[1] THEN w[2] ELSE pointer[n]
      BY <2>1 DEF TypeOK
    <2>5. TypeOK'
      BY <2>1, <2>2, <2>3, <2>4 DEF TypeOK
    <2>6. \A n \in Names : pointer[n] # NoValue => pointer'[n] # NoValue
      BY <2>3, <2>4
    <2>7. CidsArePublished'
      BY <2>1, <2>6 DEF IInv, CidsArePublished, HasCid
    <2>8. \A q \in Procs : ProcInv(q)'
      BY <2>1, <2>6, ProcPersists
    <2> QED BY <2>1, <2>5, <2>7, <2>8 DEF IInv
  <1>8. ASSUME NEW p \in Procs, RecordCid(p) PROVE IInv'
    <2> DEFINE w == Current(p)
    <2>1. /\ call[p] # Idle /\ Remaining(p) # {} /\ stage[p] = "record"
          /\ registry' = [registry EXCEPT ![p][w[1]] = [cid |-> w[2]]]
          /\ stage' = [stage EXCEPT ![p] = "done"] /\ saving' = [saving EXCEPT ![p] = "open"]
          /\ UNCHANGED <<keys, docs, pointer, late, file, call>>
      BY <1>8 DEF RecordCid, At, kubo
    <2>2. w[1] \in Names /\ w[2] \in Values(w[1])
      BY <2>1, CurrentOfProcess, WritesHold
    <2>3. w[1] \in keys /\ w \in docs /\ pointer[w[1]] # NoValue
      BY <2>1 DEF IInv, ProcInv
    <2> HIDE DEF w
    <2>4. PICK s : s = [registry[p] EXCEPT ![w[1]] = [cid |-> w[2]]]
      OBVIOUS
    <2>5. s \in Registry
      BY <2>2, <2>4, RegistryUpdated DEF TypeOK
    <2>6. registry' \in [Procs -> Registry] /\ \A q \in Procs : registry'[q] = IF q = p THEN s ELSE registry[q]
      BY <2>1, <2>4, <2>5 DEF TypeOK
    <2>7. HasCid(s[w[1]]) /\ \A m \in Names : m # w[1] => s[m] = registry[p][m]
      BY <2>2, <2>4, CidIsSet DEF TypeOK, Registry
    <2>8. TypeOK'
      BY <2>1, <2>6 DEF TypeOK
    <2>9. CidsArePublished'
      BY <2>1, <2>3, <2>6, <2>7 DEF IInv, CidsArePublished, HasCid
    <2>10. \A q \in Procs, m \in Names : HasCid(registry[q][m]) => HasCid(registry'[q][m])
      BY <2>6, <2>7
    <2>11. ProcInv(p)'
      <3>1. Remaining(p)' = Remaining(p) /\ Current(p)' = Current(p) /\ stage'[p] = "done"
        BY <2>1 DEF Remaining, Current, TypeOK
      <3>2. HasCid(registry'[p][w[1]])
        BY <2>6, <2>7
      <3>3. <<call[p].sid, "identity">> \in Names
        BY <2>1, CallOfProcess DEF Names
      <3>4. /\ HasCid(registry[p][Current(p)[1]])'
            /\ HasCid(registry[p][<<call[p].sid, "identity">>])
                 => HasCid(registry[p][<<call[p].sid, "identity">>])'
        BY <2>1, <2>10, <3>1, <3>2, <3>3 DEF HasCid, w
      <3> QED BY <2>1, <2>3, <3>1, <3>4 DEF w, IInv, ProcInv
    <2>12. ASSUME NEW q \in Procs, q # p PROVE ProcInv(q)'
      <3>1. call'[q] = call[q] /\ stage'[q] = stage[q]
        BY <2>1, <2>12 DEF TypeOK
      <3> QED BY <2>1, <2>10, <3>1, ProcPersists
    <2> QED BY <2>1, <2>8, <2>9, <2>11, <2>12 DEF IInv
  <1>9. ASSUME NEW p \in Procs, Proceed(p) PROVE IInv'
    <2>1. /\ call[p] # Idle /\ Remaining(p) # {} /\ stage[p] = "done"
          /\ call' = [call EXCEPT ![p] = Rest(p)] /\ stage' = [stage EXCEPT ![p] = "key"]
          /\ UNCHANGED <<keys, docs, pointer, late, registry, file, saving>>
      BY <1>9 DEF Proceed, At, kubo
    <2> DEFINE m == IF call[p].key THEN call[p].metadata ELSE NoMetadata
    <2>2. m \in Contents[call[p].sid] \cup {NoMetadata} /\ call[p].sid \in Sids /\ FALSE \in BOOLEAN
      BY <2>1, CallOfProcess
    <2>3. Rest(p) = [sid |-> call[p].sid, key |-> FALSE, metadata |-> m]
      BY DEF Rest
    <2> HIDE DEF m
    <2>4. Rest(p) \in CallType
      BY <2>2, <2>3, CallInType
    <2>5. TypeOK'
      BY <2>1, <2>4 DEF TypeOK
    <2>6. ProcInv(p)'
      <3>1. call'[p] = Rest(p) /\ stage'[p] = "key" /\ Rest(p).sid = call[p].sid
        BY <2>1, <2>3 DEF TypeOK
      <3>2. HasCid(registry[p][<<call[p].sid, "identity">>])
        <4>1. CASE call[p].key
          <5>1. Current(p)[1] = <<call[p].sid, "identity">>
            BY <4>1 DEF Current
          <5> QED BY <2>1, <5>1 DEF IInv, ProcInv
        <4>2. CASE ~call[p].key
          BY <2>1, <4>2 DEF IInv, ProcInv
        <4> QED BY <4>1, <4>2
      <3>3. HasCid(registry[p][<<call[p].sid, "identity">>])'
        BY <2>1, <3>1, <3>2 DEF HasCid
      <3> QED BY <3>1, <3>3 DEF ProcInv
    <2>7. ASSUME NEW q \in Procs, q # p PROVE ProcInv(q)'
      <3>1. call'[q] = call[q] /\ stage'[q] = stage[q]
        BY <2>1, <2>7 DEF TypeOK
      <3> QED BY <2>1, <3>1, ProcPersists
    <2> QED BY <2>1, <2>5, <2>6, <2>7, Globals DEF IInv, kubo
  <1>10. ASSUME NEW p \in Procs, Return(p) PROVE IInv'
    <2>1. /\ call' = [call EXCEPT ![p] = Idle]
          /\ UNCHANGED <<keys, docs, pointer, late, registry, file, stage, saving>>
      BY <1>10 DEF Return, kubo
    <2>2. TypeOK'
      BY <2>1 DEF TypeOK
    <2>3. ProcInv(p)'
      BY <2>1 DEF ProcInv, TypeOK
    <2>4. ASSUME NEW q \in Procs, q # p PROVE ProcInv(q)'
      <3>1. call'[q] = call[q]
        BY <2>1, <2>4 DEF TypeOK
      <3> QED BY <2>1, <3>1, ProcPersists
    <2> QED BY <2>1, <2>2, <2>3, <2>4, Globals DEF IInv, kubo
  <1>11. ASSUME NEW p \in Procs, Abandon(p), UNCHANGED <<keys, docs>>
         PROVE  /\ pointer' = pointer
                /\ late' \subseteq docs'
                /\ \A w \in late' : w[1] \in keys'
    BY <1>11 DEF Abandon, At, IInv, ProcInv, TypeOK
  <1>12. ASSUME NEW p \in Procs, Fail(p) PROVE IInv'
    <2>1. /\ call' = [call EXCEPT ![p] = Idle] /\ Abandon(p)
          /\ saving' = [saving EXCEPT ![p] = "no"]
          /\ UNCHANGED <<keys, docs, registry, file, stage>>
      BY <1>12 DEF Fail
    <2>2. pointer' = pointer /\ late' \subseteq docs' /\ \A w \in late' : w[1] \in keys'
      BY <1>11, <2>1
    <2>3. TypeOK'
      BY <2>1, <2>2 DEF TypeOK
    <2>4. CidsArePublished'
      BY <2>1, <2>2 DEF IInv, CidsArePublished, HasCid
    <2>5. ProcInv(p)'
      BY <2>1 DEF ProcInv, TypeOK
    <2>6. ASSUME NEW q \in Procs, q # p PROVE ProcInv(q)'
      <3>1. call'[q] = call[q]
        BY <2>1, <2>6 DEF TypeOK
      <3> QED BY <2>1, <2>2, <3>1, ProcPersists
    <2> QED BY <2>2, <2>3, <2>4, <2>5, <2>6 DEF IInv
  <1>13. ASSUME NEW p \in Procs, Crash(p) PROVE IInv'
    <2>1. /\ call' = [call EXCEPT ![p] = Idle] /\ Abandon(p)
          /\ registry' = [registry EXCEPT ![p] = file] /\ saving' = [saving EXCEPT ![p] = "no"]
          /\ UNCHANGED <<keys, docs, file, stage>>
      BY <1>13 DEF Crash
    <2>2. pointer' = pointer /\ late' \subseteq docs' /\ \A w \in late' : w[1] \in keys'
      BY <1>11, <2>1
    <2>3. registry' \in [Procs -> Registry]
          /\ \A q \in Procs : registry'[q] = IF q = p THEN file ELSE registry[q]
      BY <2>1 DEF TypeOK
    <2>4. TypeOK'
      BY <2>1, <2>2, <2>3 DEF TypeOK
    <2>5. CidsArePublished'
      BY <2>1, <2>2, <2>3 DEF IInv, CidsArePublished, HasCid
    <2>6. ProcInv(p)'
      BY <2>1 DEF ProcInv, TypeOK
    <2>7. ASSUME NEW q \in Procs, q # p PROVE ProcInv(q)'
      <3>1. call'[q] = call[q] /\ registry'[q] = registry[q]
        BY <2>1, <2>3, <2>7 DEF TypeOK
      <3> QED BY <2>1, <2>2, <3>1, ProcPersists
    <2> QED BY <2>2, <2>4, <2>5, <2>6, <2>7 DEF IInv
  <1>14. ASSUME UNCHANGED <<kubo, registry, file, publication>> PROVE IInv'
    <2>1. TypeOK'
      BY <1>14 DEF TypeOK, kubo, publication
    <2>2. \A q \in Procs : ProcInv(q)'
      BY <1>14, ProcPersists DEF kubo, publication
    <2> QED BY <1>14, <2>1, <2>2, Globals DEF IInv
  <1>15. ASSUME NEW p \in Procs, ReadDocument(p) \/ \E n \in Names : ResolveIpns(p, n) PROVE IInv'
    BY <1>14, <1>15 DEF ReadDocument, ResolveIpns
  <1>16. ASSUME UNCHANGED vars PROVE IInv'
    BY <1>14, <1>16 DEF vars
  <1> QED BY <1>1, <1>2, <1>3, <1>4, <1>5, <1>6, <1>7, <1>8, <1>9, <1>10, <1>12, <1>13, <1>15, <1>16
          DEF Next

LEMMA IInvariant == Spec => []IInv
  BY InitIInv, NextIInv, PTL DEF Spec

(* Every reachable state of the IPFS store is well typed: the registry file  *)
(* can be read whenever a process is started, and no pointer dangles.       *)
THEOREM TypeCorrect == Spec => []TypeOK
  <1>1. IInv => TypeOK
    BY DEF IInv
  <1> QED BY <1>1, IInvariant, PTL

(* A CID in a registry, in memory or in the file, stands for a published    *)
(* document, whatever fails and whichever process dies, and also when       *)
(* several processes overwrite each other's registry file.                  *)
THEOREM PublishedCids == Spec => []CidsArePublished
  <1>1. IInv => CidsArePublished
    BY DEF IInv
  <1> QED BY <1>1, IInvariant, PTL

(* When publish_identity returns, the identity can be resolved through its  *)
(* IPNS name, published now or skipped because of its CID.                 *)
THEOREM ReturnsPublished == Spec => IdentityPublishedOnReturn
  <1> DEFINE Returned(p) ==
        call[p] # Idle /\ Remaining(p) = {} /\ call'[p] = Idle =>
          LET n == <<call[p].sid, "identity">>
          IN  registry[p][n] # NoEntry /\ pointer[n] = Key(n[1])
  <1>1. IInv /\ [Next]_vars => [\A p \in Procs : Returned(p)]_vars
    <2> SUFFICES ASSUME IInv, NEW p \in Procs, call[p] # Idle, Remaining(p) = {}
                 PROVE  LET n == <<call[p].sid, "identity">>
                        IN  registry[p][n] # NoEntry /\ pointer[n] = Key(n[1])
      OBVIOUS
    <2> DEFINE n == <<call[p].sid, "identity">>
    <2>1. n \in Names /\ call[p].key \in BOOLEAN
      BY CallOfProcess DEF IInv, Names
    <2>2. ~call[p].key
      BY DEF Remaining, Records
    <2>3. HasCid(registry[p][n])
      BY <2>2 DEF IInv, ProcInv
    <2>4. pointer[n] # NoValue
      BY <2>1, <2>3 DEF IInv, CidsArePublished
    <2>5. <<n, pointer[n]>> \in Write
      BY <2>1, <2>4 DEF IInv, TypeOK
    <2>6. pointer[n] \in Values(n)
      BY <2>5, WritesHold
    <2>7. pointer[n] = Key(call[p].sid)
      BY <2>6 DEF Values
    <2> QED BY <2>3, <2>7 DEF HasCid
  <1> QED BY <1>1, IInvariant, PTL DEF Spec, IdentityPublishedOnReturn

-----------------------------------------------------------------------------
(* One process, and those started after it died, own the registry file.    *)
SoleProcess == \A p, q \in Procs : p = q

(* The process knows all that the file knows, the file has an entry for the *)
(* name being published once it has been written, and for every name that   *)
(* points somewhere, or may point somewhere later.                         *)
ProcKnows(p) ==
  /\ query[p] \in Write \cup {Idle}
  /\ call[p] # Idle => query[p] = Idle
  /\ \A n \in Names : /\ file[n] # NoEntry => registry[p][n] # NoEntry
                      /\ HasCid(file[n]) => HasCid(registry[p][n])
  /\ call[p] # Idle /\ Remaining(p) # {} /\ stage[p] # "key"
       => /\ registry[p][Current(p)[1]] # NoEntry
          /\ saving[p] = "no" => file[Current(p)[1]] # NoEntry

SoleInv ==
  /\ DOMAIN query = Procs /\ DOMAIN answer = Procs
  /\ \A n \in Names : pointer[n] # NoValue => file[n] # NoEntry
  /\ \A w \in late : file[w[1]] # NoEntry
  /\ \A p \in Procs : ProcKnows(p)

LEMMA InitSoleInv == Init => SoleInv
  BY DEF Init, SoleInv, ProcKnows, EmptyRegistry

(* A step that only answers a query, or begins one.                        *)
LEMMA QueryStep ==
  ASSUME IInv, SoleInv, NEW p \in Procs, ReadDocument(p) \/ \E n \in Names : ResolveIpns(p, n)
  PROVE  /\ UNCHANGED <<kubo, registry, file, publication, crashes>>
         /\ \E x \in Write \cup {Idle} : query' = [query EXCEPT ![p] = x]
         /\ DOMAIN answer' = Procs
         /\ call[p] = Idle
  <1>1. CASE ReadDocument(p)
    BY <1>1 DEF ReadDocument, Answer, SoleInv, ProcKnows
  <1>2. ASSUME NEW n \in Names, ResolveIpns(p, n) 
        PROVE  /\ UNCHANGED <<kubo, registry, file, publication, crashes>>
               /\ \E x \in Write \cup {Idle} : query' = [query EXCEPT ![p] = x]
               /\ DOMAIN answer' = Procs
               /\ call[p] = Idle
    <2>1. pointer[n] # NoValue => <<n, pointer[n]>> \in Write
      BY DEF IInv, TypeOK
    <2>2. CASE pointer[n] # NoValue /\ query' = [query EXCEPT ![p] = <<n, pointer[n]>>] /\ UNCHANGED answer
      BY <1>2, <2>1, <2>2 DEF ResolveIpns, SoleInv
    <2>3. CASE query' = [query EXCEPT ![p] = Idle] /\ DOMAIN answer' = Procs
      BY <1>2, <2>3 DEF ResolveIpns
    <2> QED BY <1>2, <2>2, <2>3 DEF ResolveIpns, Answer, SoleInv
  <1> QED BY <1>1, <1>2

LEMMA NextSoleInv ==
  ASSUME SoleProcess, IInv, SoleInv, [Next]_vars
  PROVE  SoleInv'
  <1> TypeOK BY DEF IInv
  <1> USE DEF SoleProcess
  <1>1. ASSUME NEW p \in Procs, NEW sid \in Sids, NEW metadata \in Contents[sid] \cup {NoMetadata},
               Publish(p, sid, metadata)
        PROVE  SoleInv'
    <2>1. /\ query[p] = Idle /\ stage' = [stage EXCEPT ![p] = "key"]
          /\ UNCHANGED <<pointer, late, registry, file, saving, query, answer>>
      BY <1>1 DEF Publish, kubo, resolution
    <2>2. stage'[p] = "key"
      BY <2>1 DEF TypeOK
    <2>3. ProcKnows(p)'
      BY <2>1, <2>2 DEF SoleInv, ProcKnows, HasCid
    <2> QED BY <2>1, <2>3 DEF SoleInv
  <1>2. ASSUME NEW p \in Procs, GenerateKey(p) PROVE SoleInv'
    <2> DEFINE n == Current(p)[1]
    <2>1. call[p] # Idle /\ Remaining(p) # {} /\ n \in Names
      BY <1>2, CurrentOfProcess, WritesHold DEF GenerateKey, At
    <2>2. /\ registry' = [registry EXCEPT ![p][n] =
               IF registry[p][n] = NoEntry THEN [cid |-> NoValue] ELSE registry[p][n]]
          /\ saving' = [saving EXCEPT ![p] = "open"]
          /\ UNCHANGED <<pointer, late, file, call, query, answer>>
      BY <1>2 DEF GenerateKey, resolution
    <2> HIDE DEF n
    <2>3. [cid |-> NoValue] # NoEntry
      BY <2>1, EntryAssumption
    <2>4. \A m \in Names : registry'[p][m] = IF m # n THEN registry[p][m]
            ELSE IF registry[p][n] = NoEntry THEN [cid |-> NoValue] ELSE registry[p][n]
      BY <2>1, <2>2 DEF TypeOK, Registry
    <2>5. saving'[p] = "open"
      BY <2>2 DEF TypeOK
    <2>6. Remaining(p)' = Remaining(p) /\ Current(p)'[1] = n
      BY <2>2 DEF n, Remaining, Current
    <2>7. ProcKnows(p)'
      BY <2>1, <2>2, <2>3, <2>4, <2>5, <2>6 DEF SoleInv, ProcKnows, HasCid
    <2> QED BY <2>2, <2>7 DEF SoleInv
  <1>3. ASSUME NEW p \in Procs, WriteTemporary(p) PROVE SoleInv'
    <2>1. /\ saving' = [saving EXCEPT ![p] = "move"]
          /\ UNCHANGED <<pointer, late, registry, file, call, stage, query, answer>>
      BY <1>3 DEF WriteTemporary, kubo, resolution
    <2>2. /\ saving'[p] = "move"
          /\ Remaining(p)' = Remaining(p) /\ Current(p)' = Current(p)
      BY <2>1 DEF TypeOK, Remaining, Current
    <2>3. ProcKnows(p)'
      BY <2>1, <2>2 DEF SoleInv, ProcKnows, HasCid
    <2> QED BY <2>1, <2>3 DEF SoleInv
  <1>4. ASSUME NEW p \in Procs, ReplaceFile(p) PROVE SoleInv'
    <2>1. /\ file' = registry[p]
          /\ UNCHANGED <<pointer, late, registry, call, stage, query, answer>>
      BY <1>4 DEF ReplaceFile, kubo, resolution
    <2> saving[p] = "move" BY <1>4 DEF ReplaceFile
    <2>2. \A n \in Names : file[n] # NoEntry => file'[n] # NoEntry
      BY <2>1 DEF SoleInv, ProcKnows
    <2>3. \A w \in late : w[1] \in Names
      BY WritesHold DEF TypeOK
    <2>4. ProcKnows(p)'
      <3>1. Remaining(p)' = Remaining(p) /\ Current(p)' = Current(p)
        BY <2>1 DEF Remaining, Current
      <3> QED BY <2>1, <3>1 DEF SoleInv, ProcKnows, HasCid
    <2> QED BY <2>1, <2>2, <2>3, <2>4 DEF SoleInv
  <1>5. ASSUME NEW p \in Procs, AddDocument(p) PROVE SoleInv'
    <2>1. /\ stage[p] = "add" /\ UNCHANGED <<pointer, late, registry, file, call, saving, query, answer>>
      BY <1>5 DEF AddDocument, At, resolution
    <2>2. Remaining(p)' = Remaining(p) /\ Current(p)' = Current(p)
      BY <2>1 DEF Remaining, Current
    <2>3. ProcKnows(p)'
      BY <2>1, <2>2 DEF SoleInv, ProcKnows, HasCid
    <2> QED BY <2>1, <2>3 DEF SoleInv
  <1>6. ASSUME NEW p \in Procs, PublishIpns(p) PROVE SoleInv'
    <2> DEFINE w == Current(p)
    <2>1. /\ call[p] # Idle /\ Remaining(p) # {} /\ stage[p] = "point" /\ saving[p] = "no"
          /\ pointer' = [pointer EXCEPT ![w[1]] = w[2]]
          /\ UNCHANGED <<late, registry, file, call, saving, query, answer>>
      BY <1>6 DEF PublishIpns, At, resolution
    <2>2. Remaining(p)' = Remaining(p) /\ Current(p)' = Current(p)
      BY <2>1 DEF Remaining, Current
    <2>3. ProcKnows(p)'
      BY <2>1, <2>2 DEF SoleInv, ProcKnows, HasCid
    <2>4. file[w[1]] # NoEntry
      BY <2>1 DEF SoleInv, ProcKnows
    <2> HIDE DEF w
    <2>5. \A n \in Names : pointer'[n] # NoValue => pointer[n] # NoValue \/ n = w[1]
      BY <2>1 DEF TypeOK
    <2> QED BY <2>1, <2>3, <2>4, <2>5 DEF SoleInv
  <1>7. ASSUME NEW w \in late, PublishLate(w) PROVE SoleInv'
    <2>1. /\ pointer' = [pointer EXCEPT ![w[1]] = w[2]] /\ late' = late \ {w}
          /\ UNCHANGED <<registry, file, call, stage, saving, query, answer>>
      BY <1>7 DEF PublishLate, publication, resolution
    <2>2. \A n \in Names : pointer'[n] # NoValue => pointer[n] # NoValue \/ n = w[1]
      BY <2>1 DEF TypeOK
    <2>3. ASSUME NEW p \in Procs PROVE ProcKnows(p)'
      <3>1. Remaining(p)' = Remaining(p) /\ Current(p)' = Current(p)
        BY <2>1 DEF Remaining, Current
      <3> QED BY <2>1, <3>1 DEF SoleInv, ProcKnows, HasCid
    <2> QED BY <2>1, <2>2, <2>3 DEF SoleInv
  <1>8. ASSUME NEW p \in Procs, RecordCid(p) PROVE SoleInv'
    <2> DEFINE w == Current(p)
    <2>1. /\ call[p] # Idle /\ Remaining(p) # {} /\ stage[p] = "record"
          /\ registry' = [registry EXCEPT ![p][w[1]] = [cid |-> w[2]]]
          /\ saving' = [saving EXCEPT ![p] = "open"]
          /\ UNCHANGED <<pointer, late, file, call, query, answer>>
      BY <1>8 DEF RecordCid, At, kubo, resolution
    <2>2. w[1] \in Names /\ HasCid([cid |-> w[2]])
      BY <2>1, CurrentOfProcess, WritesHold, CidIsSet
    <2>3. Remaining(p)' = Remaining(p) /\ Current(p)' = w
      BY <2>1 DEF Remaining, Current
    <2> HIDE DEF w
    <2>4. \A m \in Names : registry'[p][m] = IF m = w[1] THEN [cid |-> w[2]] ELSE registry[p][m]
      BY <2>1, <2>2 DEF TypeOK, Registry
    <2>5. saving'[p] = "open"
      BY <2>1 DEF TypeOK
    <2>6. ProcKnows(p)'
      BY <2>1, <2>2, <2>3, <2>4, <2>5 DEF SoleInv, ProcKnows, HasCid
    <2> QED BY <2>1, <2>6 DEF SoleInv
  <1>9. ASSUME NEW p \in Procs, Proceed(p) PROVE SoleInv'
    <2>1. /\ call[p] # Idle /\ stage' = [stage EXCEPT ![p] = "key"]
          /\ UNCHANGED <<pointer, late, registry, file, saving, query, answer>>
      BY <1>9 DEF Proceed, At, kubo, resolution
    <2>2. stage'[p] = "key" /\ query'[p] = Idle
      BY <2>1 DEF TypeOK, SoleInv, ProcKnows
    <2>3. ProcKnows(p)'
      BY <2>1, <2>2 DEF SoleInv, ProcKnows, HasCid
    <2> QED BY <2>1, <2>3 DEF SoleInv
  <1>10. ASSUME NEW p \in Procs, Return(p) PROVE SoleInv'
    <2>1. /\ call' = [call EXCEPT ![p] = Idle]
          /\ UNCHANGED <<pointer, late, registry, file, stage, saving, query, answer>>
      BY <1>10 DEF Return, kubo, resolution
    <2>2. call'[p] = Idle
      BY <2>1 DEF TypeOK
    <2>3. ProcKnows(p)'
      BY <2>1, <2>2 DEF SoleInv, ProcKnows, HasCid
    <2> QED BY <2>1, <2>3 DEF SoleInv
  <1>11. ASSUME NEW p \in Procs, Abandon(p), UNCHANGED file
         PROVE  pointer' = pointer /\ \A w \in late' : file'[w[1]] # NoEntry
    <2>1. At(p, "point") => file[Current(p)[1]] # NoEntry
      BY DEF At, SoleInv, ProcKnows
    <2> QED BY <1>11, <2>1 DEF Abandon, SoleInv
  <1>12. ASSUME NEW p \in Procs, Fail(p) PROVE SoleInv'
    <2>1. /\ call' = [call EXCEPT ![p] = Idle] /\ Abandon(p)
          /\ UNCHANGED <<registry, file, stage, query, answer>>
      BY <1>12 DEF Fail, resolution
    <2>2. call'[p] = Idle
      BY <2>1 DEF TypeOK
    <2>3. ProcKnows(p)'
      BY <2>1, <2>2 DEF SoleInv, ProcKnows, HasCid
    <2> QED BY <1>11, <2>1, <2>3 DEF SoleInv
  <1>13. ASSUME NEW p \in Procs, Crash(p) PROVE SoleInv'
    <2>1. /\ call' = [call EXCEPT ![p] = Idle] /\ Abandon(p)
          /\ registry' = [registry EXCEPT ![p] = file]
          /\ query' = [query EXCEPT ![p] = Idle] /\ DOMAIN answer' = Procs
          /\ UNCHANGED file
      BY <1>13 DEF Crash, SoleInv
    <2>2. call'[p] = Idle /\ registry'[p] = file /\ query'[p] = Idle /\ DOMAIN query' = Procs
      BY <2>1 DEF TypeOK, SoleInv
    <2>3. ProcKnows(p)'
      BY <2>1, <2>2 DEF ProcKnows, HasCid
    <2> QED BY <1>11, <2>1, <2>2, <2>3 DEF SoleInv
  <1>14. ASSUME NEW p \in Procs, ReadDocument(p) \/ \E n \in Names : ResolveIpns(p, n) PROVE SoleInv'
    <2>1. /\ UNCHANGED <<pointer, late, registry, file, call, stage, saving>>
          /\ call[p] = Idle /\ DOMAIN answer' = Procs
      BY <1>14, QueryStep DEF kubo, publication
    <2>2. PICK x \in Write \cup {Idle} : query' = [query EXCEPT ![p] = x]
      BY <1>14, QueryStep
    <2>3. query'[p] = x /\ DOMAIN query' = Procs
      BY <2>2 DEF SoleInv
    <2>4. ProcKnows(p)'
      BY <2>1, <2>3 DEF SoleInv, ProcKnows, HasCid
    <2> QED BY <2>1, <2>3, <2>4 DEF SoleInv
  <1>15. ASSUME UNCHANGED vars PROVE SoleInv'
    <2>1. UNCHANGED <<pointer, late, registry, file, call, stage, saving, query, answer>>
      BY <1>15 DEF vars, kubo, publication, resolution
    <2>2. ASSUME NEW p \in Procs PROVE ProcKnows(p)'
      <3>1. Remaining(p)' = Remaining(p) /\ Current(p)' = Current(p)
        BY <2>1 DEF Remaining, Current
      <3> QED BY <2>1, <3>1 DEF SoleInv, ProcKnows, HasCid
    <2> QED BY <2>1, <2>2 DEF SoleInv
  <1> QED BY <1>1, <1>2, <1>3, <1>4, <1>5, <1>6, <1>7, <1>8, <1>9, <1>10, <1>12, <1>13, <1>14, <1>15
          DEF Next

LEMMA SoleInvariant == SoleProcess => (Spec => [](IInv /\ SoleInv))
  <1> SUFFICES ASSUME SoleProcess PROVE Spec => [](IInv /\ SoleInv)
    OBVIOUS
  <1>1. Init => IInv /\ SoleInv
    BY InitIInv, InitSoleInv
  <1>2. IInv /\ SoleInv /\ [Next]_vars => (IInv /\ SoleInv)'
    BY NextIInv, NextSoleInv
  <1> QED BY <1>1, <1>2, PTL DEF Spec

(* A name that the registry file has a CID for keeps one, through every      *)
(* failure and crash of the only process on the file; of two processes the  *)
(* second overwrites what the first has written.                           *)
THEOREM KeepsEntries == SoleProcess => (Spec => RegistryKeepsEntries)
  <1> SUFFICES ASSUME SoleProcess PROVE Spec => RegistryKeepsEntries
    OBVIOUS
  <1>1. SoleInv /\ [Next]_vars => [\A n \in Names : HasCid(file[n]) => HasCid(file'[n])]_vars
    <2> SUFFICES ASSUME SoleInv, Next, NEW n \in Names, HasCid(file[n]) PROVE HasCid(file'[n])
      BY DEF vars
    <2>1. CASE UNCHANGED file
      BY <2>1
    <2>2. CASE \E p \in Procs : ReplaceFile(p)
      BY <2>2 DEF ReplaceFile, SoleInv, ProcKnows
    <2>3. UNCHANGED file \/ \E p \in Procs : ReplaceFile(p)
      BY DEF Next, Publish, GenerateKey, AddDocument, PublishIpns, RecordCid, WriteTemporary,
             Proceed, Return, Fail, Crash, ResolveIpns, ReadDocument, PublishLate
    <2> QED BY <2>1, <2>2, <2>3
  <1> QED BY <1>1, SoleInvariant, PTL DEF Spec, RegistryKeepsEntries

LEMMA IdleIsNoCall ==
  /\ \A x \in CallType : x # Idle
  /\ \A w \in Write : w # Idle
  BY IdleAssumption

LEMMA RecordsAreWrites ==
  ASSUME NEW s \in Sids, NEW k \in BOOLEAN, NEW m \in Contents[s] \cup {NoMetadata}
  PROVE  Records(s, k, m) \subseteq Write
  <1>1. <<s, "identity">> \in Names /\ <<s, "metadata">> \in Names
    BY DEF Names
  <1>2. Values(<<s, "identity">>) = {Key(s)} /\ Values(<<s, "metadata">>) = Contents[s]
    BY DEF Values
  <1>3. <<<<s, "identity">>, Key(s)>> \in Write
    <2>1. <<<<s, "identity">>, Key(s)>> \in {<<s, "identity">>} \X Values(<<s, "identity">>)
      BY <1>2
    <2> QED BY <1>1, <2>1 DEF Write
  <1>4. m # NoMetadata => <<<<s, "metadata">>, m>> \in Write
    <2>1. m # NoMetadata => <<<<s, "metadata">>, m>> \in {<<s, "metadata">>} \X Values(<<s, "metadata">>)
      BY <1>2
    <2> QED BY <1>1, <2>1 DEF Write
  <1> QED BY <1>3, <1>4 DEF Records

(* The document a publication is at is one of those that remain, and the    *)
(* others are those of Rest.                                               *)
LEMMA CurrentRemains ==
  ASSUME TypeOK, NEW p \in Procs, call[p] # Idle, Remaining(p) # {}
  PROVE  /\ Current(p) \in Remaining(p)
         /\ Rest(p) \in CallType
         /\ Records(Rest(p).sid, Rest(p).key, Rest(p).metadata) = Remaining(p) \ {Current(p)}
  <1> DEFINE s == call[p].sid
             m == IF call[p].key THEN call[p].metadata ELSE NoMetadata
  <1>1. s \in Sids /\ call[p].key \in BOOLEAN /\ m \in Contents[s] \cup {NoMetadata} /\ FALSE \in BOOLEAN
    BY CallOfProcess
  <1>2. /\ Rest(p) = [sid |-> s, key |-> FALSE, metadata |-> m]
        /\ Rest(p).sid = s /\ Rest(p).key = FALSE /\ Rest(p).metadata = m
    BY DEF Rest
  <1>3. Rest(p) \in CallType
    <2> HIDE DEF s, m
    <2> QED BY <1>1, <1>2, CallInType
  <1>4. Current(p) \in Remaining(p)
    BY DEF Current, Remaining, Records
  <1>5. Records(s, FALSE, m) = Remaining(p) \ {Current(p)}
    <2>1. <<s, "identity">> # <<s, "metadata">>
      OBVIOUS
    <2> QED BY <2>1 DEF Current, Remaining, Records
  <1> QED BY <1>2, <1>3, <1>4, <1>5

(* A client that is in the same place of the same publication has the same   *)
(* documents left.                                                         *)
LEMMA SameTodo ==
  ASSUME NEW p \in Procs, call'[p] = call[p],
         call[p] # Idle => (stage'[p] \in {"record", "done"} <=> stage[p] \in {"record", "done"})
  PROVE  Todo(p)' = Todo(p)
  BY DEF Todo, Remaining, Current

(* For a sole process every step is one of the abstract store or none.      *)
LEMMA StoreStep ==
  ASSUME SoleProcess, IInv, SoleInv, [Next]_vars
  PROVE  [Store!Next]_(Store!storeVars)
  <1> DEFINE todo == [p \in Procs |-> Todo(p)]
             busy == {p \in Procs : call[p] # Idle}
             seen == [p \in Procs |-> IF query[p] = Idle THEN answer[p]
                                      ELSE <<"found", query[p][1], query[p][2]>>]
  <1> TypeOK BY DEF IInv
  <1>1. ASSUME NEW p \in Procs, NEW sid \in Sids, NEW metadata \in Contents[sid] \cup {NoMetadata},
               Publish(p, sid, metadata)
        PROVE  \E w \in SUBSET Write : Store!BeginPublish(p, w)
    <2>1. PICK k \in BOOLEAN : k = ~PublishedAlready(p, sid)
      BY DEF PublishedAlready, HasCid
    <2> DEFINE c == [sid |-> sid, key |-> k, metadata |-> metadata]
               w == Records(sid, k, metadata)
    <2>2. /\ call[p] = Idle /\ call' = [call EXCEPT ![p] = c]
          /\ stage' = [stage EXCEPT ![p] = "key"]
          /\ UNCHANGED <<pointer, late, query, answer>>
      BY <1>1, <2>1 DEF Publish, kubo, resolution
    <2>3. c \in CallType /\ c # Idle /\ w \subseteq Write
      BY CallInType, IdleIsNoCall, RecordsAreWrites
    <2>4. call'[p] = c /\ stage'[p] = "key" /\ \A q \in Procs \ {p} : call'[q] = call[q] /\ stage'[q] = stage[q]
      BY <2>2 DEF TypeOK
    <2>5. Todo(p)' = w
      BY <2>3, <2>4 DEF Todo, Remaining
    <2>6. \A q \in Procs \ {p} : Todo(q)' = Todo(q)
      BY <2>4, SameTodo
    <2>7. todo' = [todo EXCEPT ![p] = w]
      <3> HIDE DEF w
      <3> QED BY <2>5, <2>6
    <2>8. busy' = busy \cup {p} /\ p \notin busy
      BY <2>2, <2>3, <2>4
    <2> QED BY <2>2, <2>3, <2>7, <2>8 DEF Store!BeginPublish
  <1>2. ASSUME UNCHANGED <<pointer, late, call, seen>>,
               \A p \in Procs : call[p] # Idle =>
                 (stage'[p] \in {"record", "done"} <=> stage[p] \in {"record", "done"})
        PROVE  UNCHANGED Store!storeVars
    <2>1. todo' = todo
      BY <1>2, SameTodo
    <2> QED BY <1>2, <2>1 DEF Store!storeVars
  <1>3. ASSUME NEW p \in Procs,
               \/ GenerateKey(p) \/ AddDocument(p) \/ RecordCid(p)
               \/ WriteTemporary(p) \/ ReplaceFile(p)
        PROVE  UNCHANGED Store!storeVars
    <2>1. UNCHANGED <<pointer, late, call, query, answer>>
      BY <1>3 DEF GenerateKey, AddDocument, RecordCid, WriteTemporary, ReplaceFile, kubo, resolution
    <2>2. ASSUME NEW q \in Procs
          PROVE  stage'[q] \in {"record", "done"} <=> stage[q] \in {"record", "done"}
      BY <1>3 DEF GenerateKey, AddDocument, RecordCid, WriteTemporary, ReplaceFile, At, TypeOK
    <2> QED BY <1>2, <2>1, <2>2
  <1>4. ASSUME NEW p \in Procs, PublishIpns(p) PROVE \E w \in Write : Store!TakeEffect(p, w)
    <2> DEFINE w == Current(p)
    <2>1. /\ call[p] # Idle /\ Remaining(p) # {} /\ stage[p] = "point"
          /\ pointer' = [pointer EXCEPT ![w[1]] = w[2]] /\ stage' = [stage EXCEPT ![p] = "record"]
          /\ UNCHANGED <<late, call, query, answer>>
      BY <1>4 DEF PublishIpns, At, resolution
    <2>2. w \in Write /\ w \in Remaining(p)
      BY <2>1, CurrentOfProcess, CurrentRemains
    <2>3. stage'[p] = "record" /\ \A q \in Procs \ {p} : stage'[q] = stage[q]
      BY <2>1 DEF TypeOK
    <2>4. Todo(p) = Remaining(p) /\ Todo(p)' = Remaining(p) \ {w}
      BY <2>1, <2>3 DEF Todo, Remaining, Current
    <2>5. \A q \in Procs \ {p} : Todo(q)' = Todo(q)
      BY <2>1, <2>3, SameTodo
    <2> HIDE DEF w
    <2>6. todo' = [todo EXCEPT ![p] = @ \ {w}] /\ w \in todo[p]
      BY <2>2, <2>4, <2>5
    <2>7. Store!TakeEffect(p, w)
      BY <2>1, <2>6 DEF Store!TakeEffect
    <2> QED BY <2>2, <2>7
  <1>5. ASSUME NEW w \in late, PublishLate(w) PROVE \E x \in Write : Store!TakeEffectLate(x)
    <2>1. /\ pointer' = [pointer EXCEPT ![w[1]] = w[2]] /\ late' = late \ {w}
          /\ UNCHANGED <<call, stage, query, answer>>
      BY <1>5 DEF PublishLate, publication, resolution
    <2>2. todo' = todo
      BY <2>1, SameTodo
    <2>3. Store!TakeEffectLate(w)
      BY <2>1, <2>2 DEF Store!TakeEffectLate
    <2>4. w \in Write
      BY DEF TypeOK
    <2> QED BY <2>3, <2>4
  <1>6. ASSUME NEW p \in Procs, Proceed(p) PROVE UNCHANGED Store!storeVars
    <2>1. /\ call[p] # Idle /\ Remaining(p) # {} /\ stage[p] = "done"
          /\ call' = [call EXCEPT ![p] = Rest(p)] /\ stage' = [stage EXCEPT ![p] = "key"]
          /\ UNCHANGED <<pointer, late, query, answer>>
      BY <1>6 DEF Proceed, At, kubo, resolution
    <2>2. /\ call'[p] = Rest(p) /\ stage'[p] = "key"
          /\ \A q \in Procs \ {p} : call'[q] = call[q] /\ stage'[q] = stage[q]
      BY <2>1 DEF TypeOK
    <2>3. Rest(p) # Idle
      BY <2>1, CurrentRemains, IdleIsNoCall
    <2>4. Todo(p) = Remaining(p) \ {Current(p)}
      BY <2>1 DEF Todo
    <2>5. Todo(p)' = Records(Rest(p).sid, Rest(p).key, Rest(p).metadata)
      BY <2>2, <2>3 DEF Todo, Remaining
    <2>6. Todo(p)' = Todo(p)
      BY <2>1, <2>4, <2>5, CurrentRemains
    <2>7. \A q \in Procs \ {p} : Todo(q)' = Todo(q)
      BY <2>2, SameTodo
    <2>8. busy' = busy
      BY <2>1, <2>2, <2>3
    <2> QED BY <2>1, <2>6, <2>7, <2>8 DEF Store!storeVars
  <1>7. ASSUME NEW p \in Procs, Return(p) PROVE Store!EndPublish(p)
    <2>1. /\ call[p] # Idle /\ Remaining(p) = {} /\ call' = [call EXCEPT ![p] = Idle]
          /\ UNCHANGED <<pointer, late, stage, query, answer>>
      BY <1>7 DEF Return, kubo, resolution
    <2>2. call'[p] = Idle /\ \A q \in Procs \ {p} : call'[q] = call[q]
      BY <2>1 DEF TypeOK
    <2>3. Todo(p) = {} /\ Todo(p)' = {}
      BY <2>1, <2>2 DEF Todo
    <2>4. \A q \in Procs \ {p} : Todo(q)' = Todo(q)
      BY <2>1, <2>2, SameTodo
    <2>5. busy' = busy \ {p} /\ p \in busy
      BY <2>1, <2>2
    <2> QED BY <2>1, <2>3, <2>4, <2>5 DEF Store!EndPublish
  <1>8. ASSUME NEW p \in Procs, call[p] # Idle, Abandon(p), call' = [call EXCEPT ![p] = Idle],
               UNCHANGED <<stage, seen>>
        PROVE  \E w \in SUBSET Write : Store!FailPublish(p, w)
    <2>1. call'[p] = Idle /\ \A q \in Procs \ {p} : call'[q] = call[q]
      BY <1>8 DEF TypeOK
    <2>2. Todo(p)' = {}
      BY <2>1 DEF Todo
    <2>3. \A q \in Procs \ {p} : Todo(q)' = Todo(q)
      BY <1>8, <2>1, SameTodo
    <2>4. todo' = [todo EXCEPT ![p] = {}]
      BY <2>2, <2>3
    <2>5. busy' = busy \ {p} /\ p \in busy
      BY <1>8, <2>1
    <2>6. CASE UNCHANGED <<pointer, late>>
      <3>1. Store!FailPublish(p, {})
        BY <1>8, <2>4, <2>5, <2>6 DEF Store!FailPublish
      <3> QED BY <3>1
    <2>7. CASE At(p, "point") /\ late' = late \cup {Current(p)} /\ UNCHANGED pointer
      <3>1. Current(p) \in Write /\ Current(p) \in Todo(p)
        BY <2>7, CurrentOfProcess, CurrentRemains DEF At, Todo
      <3>2. PICK w \in SUBSET Write : w = {Current(p)}
        BY <3>1
      <3>3. Store!FailPublish(p, w)
        BY <1>8, <2>4, <2>5, <2>7, <3>1, <3>2 DEF Store!FailPublish
      <3> QED BY <3>3
    <2> QED BY <1>8, <2>6, <2>7 DEF Abandon
  <1>9. ASSUME NEW p \in Procs, Fail(p) PROVE \E w \in SUBSET Write : Store!FailPublish(p, w)
    BY <1>8, <1>9 DEF Fail, resolution
  <1>10. ASSUME NEW p \in Procs, seen' = [seen EXCEPT ![p] = <<"raised">>],
                UNCHANGED <<pointer, late, call, stage>>
         PROVE  Store!Raise(p)
    <2>1. todo' = todo
      BY <1>10, SameTodo
    <2> QED BY <1>10, <2>1 DEF Store!Raise, Store!Raised
  <1>11. ASSUME NEW p \in Procs, Crash(p)
         PROVE  \/ \E w \in SUBSET Write : Store!FailPublish(p, w)
                \/ Store!Raise(p)
                \/ UNCHANGED Store!storeVars
    <2>1. /\ Abandon(p) /\ call' = [call EXCEPT ![p] = Idle] /\ UNCHANGED stage
          /\ query' = [query EXCEPT ![p] = Idle]
          /\ answer' = IF query[p] = Idle THEN answer ELSE [answer EXCEPT ![p] = <<"raised">>]
      BY <1>11 DEF Crash
    <2>2. query[p] = Idle => UNCHANGED seen
      BY <2>1 DEF SoleInv
    <2>3. CASE call[p] # Idle
      <3>1. UNCHANGED seen
        BY <2>2, <2>3 DEF SoleInv, ProcKnows
      <3> QED BY <1>8, <2>1, <2>3, <3>1
    <2>4. CASE call[p] = Idle
      <3>1. UNCHANGED <<pointer, late, call, stage>>
        BY <2>1, <2>4 DEF Abandon, At, TypeOK
      <3>2. CASE query[p] = Idle
        BY <1>2, <2>2, <3>1, <3>2
      <3>3. CASE query[p] # Idle
        <4>1. seen' = [seen EXCEPT ![p] = <<"raised">>]
          BY <2>1, <3>3 DEF SoleInv
        <4> QED BY <1>10, <3>1, <4>1
      <3> QED BY <3>2, <3>3
    <2> QED BY <2>3, <2>4
  <1>12. ASSUME NEW p \in Procs, NEW n \in Names, ResolveIpns(p, n)
         PROVE  Store!Resolve(p, n) \/ Store!Raise(p)
    <2>1. query[p] = Idle /\ UNCHANGED <<pointer, late, call, stage>>
      BY <1>12 DEF ResolveIpns, kubo, publication
    <2>2. ASSUME seen' = [seen EXCEPT ![p] = <<"found", n, pointer[n]>>] PROVE Store!Resolve(p, n)
      <3>1. todo' = todo
        BY <2>1, SameTodo
      <3> QED BY <2>1, <2>2, <3>1 DEF Store!Resolve, Store!Found
    <2>3. CASE registry[p][n] = NoEntry /\ Answer(p, <<"found", n, NoValue>>)
      <3>1. pointer[n] = NoValue
        BY <2>3 DEF SoleInv, ProcKnows
      <3>2. seen' = [seen EXCEPT ![p] = <<"found", n, NoValue>>]
        BY <2>1, <2>3 DEF Answer, SoleInv
      <3> QED BY <2>2, <3>1, <3>2
    <2>4. CASE pointer[n] # NoValue /\ query' = [query EXCEPT ![p] = <<n, pointer[n]>>] /\ UNCHANGED answer
      <3>1. <<n, pointer[n]>> \in Write
        BY <2>4 DEF TypeOK
      <3>2. <<n, pointer[n]>> # Idle
        BY <3>1, IdleIsNoCall
      <3>3. seen' = [seen EXCEPT ![p] = <<"found", n, pointer[n]>>]
        BY <2>1, <2>4, <3>2 DEF SoleInv
      <3> QED BY <2>2, <3>3
    <2>5. CASE Answer(p, <<"raised">>)
      <3>1. seen' = [seen EXCEPT ![p] = <<"raised">>]
        BY <2>1, <2>5 DEF Answer, SoleInv
      <3> QED BY <1>10, <2>1, <3>1
    <2> QED BY <1>12, <2>3, <2>4, <2>5 DEF ResolveIpns
  <1>13. ASSUME NEW p \in Procs, ReadDocument(p)
         PROVE  Store!Raise(p) \/ UNCHANGED Store!storeVars
    <2>1. query[p] # Idle /\ UNCHANGED <<pointer, late, call, stage>>
      BY <1>13 DEF ReadDocument, kubo, publication
    <2>2. CASE Answer(p, <<"found", query[p][1], query[p][2]>>)
      <3>1. seen' = seen
        BY <2>1, <2>2 DEF Answer, SoleInv
      <3>2. todo' = todo
        BY <2>1, SameTodo
      <3> QED BY <2>1, <3>1, <3>2 DEF Store!storeVars
    <2>3. CASE Answer(p, <<"raised">>)
      <3>1. seen' = [seen EXCEPT ![p] = <<"raised">>]
        BY <2>1, <2>3 DEF Answer, SoleInv
      <3> QED BY <1>10, <2>1, <3>1
    <2> QED BY <1>13, <2>2, <2>3 DEF ReadDocument
  <1>14. ASSUME UNCHANGED vars PROVE UNCHANGED Store!storeVars
    BY <1>2, <1>14 DEF vars, kubo, publication, resolution
  <1> QED BY <1>1, <1>3, <1>4, <1>5, <1>6, <1>7, <1>9, <1>11, <1>12, <1>13, <1>14 DEF Next, Store!Next

(* A sole process and its successors on one registry file implement the     *)
(* trustful mutable store, whatever Kubo fails to do, does late or does     *)
(* without saying so, and wherever in a publication the process dies.       *)
THEOREM StoreRefinement == SoleProcess => (Spec => ImplementsStore)
  <1> SUFFICES ASSUME SoleProcess PROVE Spec => ImplementsStore
    OBVIOUS
  <1>1. Init => Store!Init
    BY DEF Init, Store!Init, Store!NoAnswer, Todo
  <1>2. IInv /\ SoleInv /\ [Next]_vars => [Store!Next]_(Store!storeVars)
    BY StoreStep
  <1> QED BY <1>1, <1>2, SoleInvariant, PTL DEF Spec, ImplementsStore, Store!Spec
=============================================================================
