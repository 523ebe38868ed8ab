---------------------------- MODULE DnsStore_proofs ----------------------------
(***************************************************************************)
(* The emulated DNS store for any number of threads, SIDs and publications: *)
(* a name stays with what was published for it first, so that the store    *)
(* keeps the promise of a trustful mutable store provided no SID is ever    *)
(* published with two different keys or metadata values.                   *)
(***************************************************************************)
EXTENDS DnsStore, TLAPS

Types == {"identity", "agent"}

(* The records of one type have a first one.                               *)
HasFirst(txts, type) ==
  Matching(txts, type) # {} =>
    \E i \in Matching(txts, type) : \A j \in Matching(txts, type) : i <= j

IInv == TypeOK /\ \A sid \in Sids, type \in Types : HasFirst(records[sid], type)

(* An appended record becomes the first of its type or changes nothing.    *)
LEMMA AppendFirst ==
  ASSUME NEW R, NEW txts \in Seq(R), NEW r \in R, NEW type, HasFirst(txts, type)
  PROVE  /\ HasFirst(Append(txts, r), type)
         /\ First(Append(txts, r), type) =
              IF Matching(txts, type) # {} THEN First(txts, type)
              ELSE IF r.type = type THEN r.value ELSE NoValue
  <1> DEFINE longer == Append(txts, r)
             last == Len(txts) + 1
             M == Matching(txts, type)
             N == Matching(longer, type)
  <1>1. /\ Len(txts) \in Nat
        /\ DOMAIN txts = 1 .. Len(txts)
        /\ DOMAIN longer = 1 .. last
        /\ longer[last] = r
        /\ \A i \in 1 .. Len(txts) : longer[i] = txts[i]
    OBVIOUS
  <1>2. M \subseteq 1 .. Len(txts) /\ N = M \cup {i \in {last} : r.type = type}
    BY <1>1 DEF Matching
  <1> HIDE DEF longer
  <1>3. CASE M = {}
    <2>1. CASE r.type = type
      <3>1. N = {last} /\ last <= last
        BY <1>1, <1>2, <1>3, <2>1
      <3>2. (CHOOSE i \in N : \A j \in N : i <= j) = last
        BY <3>1
      <3>3. First(longer, type) = r.value
        BY <1>1, <3>1, <3>2 DEF First
      <3> QED BY <1>3, <2>1, <3>1, <3>3 DEF HasFirst, longer
    <2>2. CASE r.type # type
      <3>1. N = {}
        BY <1>2, <1>3, <2>2
      <3> QED BY <1>3, <2>2, <3>1 DEF HasFirst, First, longer
    <2> QED BY <2>1, <2>2
  <1>4. CASE M # {}
    <2>1. PICK i \in M : \A j \in M : i <= j
      BY <1>4 DEF HasFirst
    <2>2. i \in N /\ \A j \in N : i <= j
      BY <1>1, <1>2, <2>1
    <2>3. /\ \A k \in M : (\A j \in M : k <= j) => k = i
          /\ \A k \in N : (\A j \in N : k <= j) => k = i
      BY <1>1, <1>2, <2>1, <2>2
    <2>4. /\ (CHOOSE k \in M : \A j \in M : k <= j) = i
          /\ (CHOOSE k \in N : \A j \in N : k <= j) = i
      BY <2>1, <2>2, <2>3
    <2>5. First(longer, type) = First(txts, type)
      BY <1>1, <1>2, <1>4, <2>2, <2>4 DEF First
    <2> QED BY <1>4, <2>2, <2>5 DEF HasFirst, longer
  <1> QED BY <1>3, <1>4

(* What is found is the value of a record of the type asked for.           *)
LEMMA FirstRecord ==
  ASSUME NEW R, NEW txts \in Seq(R), NEW type, HasFirst(txts, type), Matching(txts, type) # {}
  PROVE  \E r \in R : r.type = type /\ First(txts, type) = r.value
  <1> DEFINE i == CHOOSE k \in Matching(txts, type) : \A j \in Matching(txts, type) : k <= j
  <1>1. i \in Matching(txts, type)
    BY DEF HasFirst
  <1>2. First(txts, type) = txts[i].value
    BY DEF First
  <1> HIDE DEF i
  <1>3. txts[i] \in R /\ txts[i].type = type
    BY <1>1 DEF Matching
  <1> QED BY <1>2, <1>3

LEMMA InitIInv == Init => IInv
  BY DEF Init, IInv, TypeOK, HasFirst, Matching

(* add_txt_record keeps the invariant.                                     *)
LEMMA AddedIInv ==
  ASSUME IInv, NEW s \in Sids, NEW t, NEW v, [type |-> t, value |-> v] \in RecordsOf(s),
         AddTxtRecord(s, t, v)
  PROVE  /\ DOMAIN records' = Sids
         /\ \A sid \in Sids : records'[sid] \in Seq(RecordsOf(sid))
         /\ \A sid \in Sids, type \in Types : HasFirst(records'[sid], type)
  <1>1. records' = [records EXCEPT ![s] = Append(@, [type |-> t, value |-> v])]
    BY DEF AddTxtRecord
  <1>2. DOMAIN records = Sids /\ \A sid \in Sids : records[sid] \in Seq(RecordsOf(sid))
    BY DEF IInv, TypeOK
  <1>3. \A type \in Types : HasFirst(Append(records[s], [type |-> t, value |-> v]), type)
    BY <1>2, AppendFirst DEF IInv
  <1> QED BY <1>1, <1>2, <1>3 DEF IInv

(* What a client has still to publish is well typed.                       *)
LEMMA CallOfClient ==
  ASSUME TypeOK, NEW c \in Clients, call[c] # Idle
  PROVE  /\ call[c].sid \in Sids
         /\ call[c].key \in Keys[call[c].sid] \cup {NoKey}
         /\ call[c].metadata \in Contents[call[c].sid] \cup {NoMetadata}
         /\ call[c] = [sid |-> call[c].sid, key |-> call[c].key, metadata |-> call[c].metadata]
  BY DEF TypeOK, CallType

LEMMA CallInType ==
  ASSUME NEW s \in Sids, NEW k \in Keys[s] \cup {NoKey}, NEW m \in Contents[s] \cup {NoMetadata}
  PROVE  [sid |-> s, key |-> k, metadata |-> m] \in CallType
  <1>1. [sid |-> s, key |-> k, metadata |-> m]
          \in [sid: {s}, key: Keys[s] \cup {NoKey}, metadata: Contents[s] \cup {NoMetadata}]
    OBVIOUS
  <1> QED BY <1>1 DEF CallType

LEMMA NextIInv == IInv /\ [Next]_vars => IInv'
  <1> SUFFICES ASSUME IInv, [Next]_vars PROVE IInv'
    OBVIOUS
  <1> TypeOK BY DEF IInv
  <1>1. ASSUME NEW c \in Clients, NEW sid \in Sids, NEW key \in Keys[sid] \cup {NoKey},
               NEW metadata \in Contents[sid] \cup {NoMetadata}, Publish(c, sid, key, metadata)
        PROVE  IInv'
    BY <1>1, CallInType DEF Publish, IInv, TypeOK, HasFirst, Matching
  <1>2. ASSUME NEW c \in Clients, PublishKey(c) PROVE IInv'
    <2> DEFINE s == call[c].sid
    <2>1. s \in Sids /\ [type |-> "identity", value |-> call[c].key] \in RecordsOf(s)
      BY <1>2, CallOfClient DEF PublishKey, RecordsOf
    <2>2. \A sid \in Sids, type \in Types : HasFirst(records[sid], type)'
      BY <1>2, <2>1, AddedIInv DEF PublishKey
    <2>3. DOMAIN records' = Sids /\ \A sid \in Sids : records'[sid] \in Seq(RecordsOf(sid))
      BY <1>2, <2>1, AddedIInv DEF PublishKey
    <2>4. call' = [call EXCEPT ![c] = [sid |-> s, key |-> NoKey, metadata |-> call[c].metadata]]
      BY <1>2 DEF PublishKey
    <2>5. [sid |-> s, key |-> NoKey, metadata |-> call[c].metadata] \in CallType
      BY <1>2, <2>1, CallOfClient, CallInType DEF PublishKey
    <2>6. call' \in [Clients -> CallType \cup {Idle}]
      BY <2>4, <2>5 DEF TypeOK
    <2> QED BY <2>2, <2>3, <2>6 DEF IInv, TypeOK
  <1>3. ASSUME NEW c \in Clients, PublishMetadata(c) PROVE IInv'
    <2> DEFINE s == call[c].sid
    <2>1. s \in Sids /\ [type |-> "agent", value |-> call[c].metadata] \in RecordsOf(s)
      BY <1>3, CallOfClient DEF PublishMetadata, RecordsOf
    <2>2. \A sid \in Sids, type \in Types : HasFirst(records[sid], type)'
      BY <1>3, <2>1, AddedIInv DEF PublishMetadata
    <2>3. DOMAIN records' = Sids /\ \A sid \in Sids : records'[sid] \in Seq(RecordsOf(sid))
      BY <1>3, <2>1, AddedIInv DEF PublishMetadata
    <2>4. call' = [call EXCEPT ![c] = [sid |-> s, key |-> NoKey, metadata |-> NoMetadata]]
      BY <1>3 DEF PublishMetadata
    <2>5. [sid |-> s, key |-> NoKey, metadata |-> NoMetadata] \in CallType
      BY <1>3, <2>1, CallOfClient, CallInType DEF PublishMetadata
    <2>6. call' \in [Clients -> CallType \cup {Idle}]
      BY <2>4, <2>5 DEF TypeOK
    <2> QED BY <2>2, <2>3, <2>6 DEF IInv, TypeOK
  <1>4. ASSUME NEW c \in Clients, Return(c) PROVE IInv'
    BY <1>4 DEF Return, IInv, TypeOK, HasFirst, Matching
  <1>5. ASSUME NEW c \in Clients, NEW sid \in Sids, NEW type \in Types, Resolve(c, sid, type)
        PROVE  IInv'
    BY <1>5 DEF Resolve, IInv, TypeOK, HasFirst, Matching
  <1>6. ASSUME UNCHANGED vars PROVE IInv'
    BY <1>6 DEF vars, IInv, TypeOK, HasFirst, Matching
  <1> QED BY <1>1, <1>2, <1>3, <1>4, <1>5, <1>6 DEF Next, Types

(* Every reachable state of the emulated store is well typed.              *)
THEOREM TypeCorrect == Spec => []TypeOK
  <1>1. IInv => TypeOK
    BY DEF IInv
  <1> QED BY <1>1, InitIInv, NextIInv, PTL DEF Spec

(* Without OneVersion: whatever is published besides, by whichever threads,  *)
(* a name that resolves keeps resolving to the value it was first given     *)
(* (dns_store.py 84), so that an update is never seen.                      *)
THEOREM FirstWins ==
  Spec => [][\A sid \in Sids, type \in Types :
               Matching(records[sid], type) # {} =>
                 /\ Matching(records'[sid], type) # {}
                 /\ First(records'[sid], type) = First(records[sid], type)]_vars
  <1> DEFINE Stays(sid, type) ==
        Matching(records[sid], type) # {} =>
          /\ Matching(records'[sid], type) # {}
          /\ First(records'[sid], type) = First(records[sid], type)
  <1>1. ASSUME IInv, [Next]_vars, NEW sid \in Sids, NEW type \in Types
        PROVE  Stays(sid, type)
    <2>1. CASE records' = records
      BY <2>1
    <2>2. ASSUME NEW c \in Clients, PublishKey(c) \/ PublishMetadata(c) PROVE Stays(sid, type)
      <3>1. PICK s, r : records' = [records EXCEPT ![s] = Append(records[s], r)]
        BY <2>2 DEF PublishKey, PublishMetadata, AddTxtRecord
      <3>2. CASE sid # s
        BY <3>1, <3>2
      <3>3. CASE sid = s
        <4> DEFINE R == RecordsOf(s) \cup {r}
        <4>1. /\ records[s] \in Seq(RecordsOf(s)) /\ HasFirst(records[s], type)
              /\ DOMAIN records = Sids
          BY <1>1, <3>3 DEF IInv, TypeOK
        <4>2. records[s] \in Seq(R) /\ r \in R
          BY <4>1
        <4> HIDE DEF R
        <4>3. Matching(records[s], type) # {} =>
                First(Append(records[s], r), type) = First(records[s], type)
          BY <4>1, <4>2, AppendFirst
        <4>4. Matching(records[s], type) \subseteq Matching(Append(records[s], r), type)
          BY <4>2 DEF Matching
        <4>5. records'[s] = Append(records[s], r)
          BY <3>1, <3>3, <4>1
        <4> QED BY <3>3, <4>3, <4>4, <4>5
      <3> QED BY <3>2, <3>3
    <2> QED BY <1>1, <2>1, <2>2 DEF Next, Publish, Return, Resolve, vars
  <1>2. IInv /\ [Next]_vars => \A sid \in Sids, type \in Types : Stays(sid, type)
    BY <1>1
  <1> QED BY <1>2, InitIInv, NextIInv, PTL DEF Spec

(* After a record has been appended, its type resolves to its value if it   *)
(* resolved to nothing, and nothing else changes.                          *)
LEMMA AddedResolves ==
  ASSUME IInv, NEW s \in Sids, NEW t \in Types, NEW v,
         [type |-> t, value |-> v] \in RecordsOf(s), AddTxtRecord(s, t, v)
  PROVE  [n \in Names |-> First(records'[n[1]], n[2])]
           = IF First(records[s], t) = NoValue
               THEN [[n \in Names |-> First(records[n[1]], n[2])] EXCEPT ![<<s, t>>] = v]
               ELSE [n \in Names |-> First(records[n[1]], n[2])]
  <1> DEFINE r == [type |-> t, value |-> v]
  <1>1. records' = [records EXCEPT ![s] = Append(records[s], r)]
    BY DEF AddTxtRecord
  <1>2. DOMAIN records = Sids /\ \A sid \in Sids : records[sid] \in Seq(RecordsOf(sid))
    BY DEF IInv, TypeOK
  <1>3. \A type \in Types :
          First(Append(records[s], r), type) =
            IF Matching(records[s], type) # {} THEN First(records[s], type)
            ELSE IF t = type THEN v ELSE NoValue
    BY <1>2, AppendFirst DEF IInv
  <1>4. Matching(records[s], t) # {} => First(records[s], t) # NoValue
    <2> SUFFICES ASSUME Matching(records[s], t) # {} PROVE First(records[s], t) # NoValue
      OBVIOUS
    <2>1. \E q \in RecordsOf(s) : q.type = t /\ First(records[s], t) = q.value
      BY <1>2, FirstRecord DEF IInv
    <2>2. \A q \in RecordsOf(s) : q.value # NoValue
      BY ValuesAssumption DEF RecordsOf
    <2> QED BY <2>1, <2>2
  <1>5. \A type \in Types : Matching(records[s], type) = {} =>
          First(records[s], type) = NoValue
    BY DEF First
  <1>6. \A sid \in Sids, type \in Types :
          First(records'[sid], type) =
            IF sid = s /\ type = t /\ First(records[s], t) = NoValue
              THEN v ELSE First(records[sid], type)
    BY <1>1, <1>2, <1>3, <1>4, <1>5
  <1>7. \A n \in Names :
          First(records'[n[1]], n[2]) =
            IF n = <<s, t>> /\ First(records[s], t) = NoValue
              THEN v ELSE First(records[n[1]], n[2])
    BY <1>6 DEF Names, Types
  <1> QED BY <1>7

(* What a client has still to publish, and what is left after one record.  *)
LEMMA RemainingSteps ==
  ASSUME TypeOK, NEW c \in Clients, call[c] # Idle
  PROVE  LET sid == call[c].sid
             key == <<<<sid, "identity">>, call[c].key>>
             agent == <<<<sid, "agent">>, call[c].metadata>>
         IN  /\ PublishKey(c) => /\ key \in Remaining(call[c])
                                 /\ Remaining(call'[c]) = Remaining(call[c]) \ {key}
             /\ PublishMetadata(c) => /\ agent \in Remaining(call[c])
                                      /\ Remaining(call'[c]) = Remaining(call[c]) \ {agent}
             /\ Return(c) => Remaining(call[c]) = {} /\ Remaining(call'[c]) = {}
  <1> DEFINE sid == call[c].sid
             key == <<<<sid, "identity">>, call[c].key>>
             agent == <<<<sid, "agent">>, call[c].metadata>>
  <1>1. key # agent
    OBVIOUS
  <1>2. Remaining(call[c]) = {w \in {key} : call[c].key # NoKey} \cup {w \in {agent} : call[c].metadata # NoMetadata}
    BY DEF Remaining
  <1>3. ASSUME PublishKey(c) PROVE key \in Remaining(call[c]) /\ Remaining(call'[c]) = Remaining(call[c]) \ {key}
    <2>1. call'[c] = [sid |-> sid, key |-> NoKey, metadata |-> call[c].metadata] /\ call[c].key # NoKey
      BY <1>3 DEF PublishKey, TypeOK
    <2>2. call'[c] # Idle
      BY <2>1, CallOfClient, CallInType, IdleAssumption
    <2>3. Remaining(call'[c]) = {w \in {agent} : call[c].metadata # NoMetadata}
      BY <2>1, <2>2 DEF Remaining
    <2> QED BY <1>1, <1>2, <2>1, <2>3
  <1>4. ASSUME PublishMetadata(c) PROVE agent \in Remaining(call[c]) /\ Remaining(call'[c]) = Remaining(call[c]) \ {agent}
    <2>1. /\ call'[c] = [sid |-> sid, key |-> NoKey, metadata |-> NoMetadata]
          /\ call[c].key = NoKey /\ call[c].metadata # NoMetadata
      BY <1>4 DEF PublishMetadata, TypeOK
    <2>2. Remaining(call'[c]) = {}
      BY <2>1 DEF Remaining
    <2> QED BY <1>2, <2>1, <2>2
  <1>5. ASSUME Return(c) PROVE Remaining(call[c]) = {} /\ Remaining(call'[c]) = {}
    BY <1>2, <1>5 DEF Return, Remaining, TypeOK
  <1> QED BY <1>3, <1>4, <1>5

LEMMA InitRefines == Init => Store!Init
  BY DEF Init, Store!Init, Matching, First, Remaining, Names, Store!NoAnswer

(* The values that may be published.                                       *)
Writes == UNION {{<<<<sid, "identity">>, k>> : k \in Keys[sid]}
                   \cup {<<<<sid, "agent">>, m>> : m \in Contents[sid]} : sid \in Sids}

LEMMA StepRefines == IInv /\ IInv' /\ [Next]_vars => [Store!NextOnce]_(Store!storeVars)
  <1> SUFFICES ASSUME IInv, IInv', [Next]_vars PROVE [Store!NextOnce]_(Store!storeVars)
    OBVIOUS
  <1> DEFINE writes == Writes
             rec == [n \in Names |-> First(records[n[1]], n[2])]
             todo == [c \in Clients |-> Remaining(call[c])]
             busy == {c \in Clients : call[c] # Idle}
  <1> TypeOK BY DEF IInv
  <1>1. ASSUME NEW c \in Clients, Remaining(call'[c]) \in SUBSET writes, call[c] = Idle, call'[c] # Idle,
               \A d \in Clients \ {c} : call'[d] = call[d], UNCHANGED <<records, answer>>
        PROVE  \E w \in SUBSET writes : Store!BeginPublish(c, w)
    <2>1. busy' = busy \cup {c} /\ c \notin busy
      BY <1>1
    <2>2. todo' = [todo EXCEPT ![c] = Remaining(call'[c])]
      <3>1. \A d \in Clients : Remaining(call'[d]) =
              IF d = c THEN Remaining(call'[c]) ELSE Remaining(call[d])
        BY <1>1
      <3> QED BY <3>1
    <2>3. rec' = rec
      BY <1>1
    <2> QED BY <1>1, <2>1, <2>2, <2>3 DEF Store!BeginPublish
  <1>2. ASSUME NEW c \in Clients, NEW sid \in Sids, NEW key \in Keys[sid] \cup {NoKey},
               NEW metadata \in Contents[sid] \cup {NoMetadata}, Publish(c, sid, key, metadata)
        PROVE  \E w \in SUBSET writes : Store!BeginPublish(c, w)
    <2>1. /\ call'[c] = [sid |-> sid, key |-> key, metadata |-> metadata]
          /\ \A d \in Clients \ {c} : call'[d] = call[d]
      BY <1>2 DEF Publish, TypeOK
    <2>2. call'[c] # Idle
      BY <2>1, CallInType, IdleAssumption
    <2>3. Remaining(call'[c]) \in SUBSET writes
      BY <2>1, <2>2 DEF Remaining, Writes
    <2> QED BY <1>1, <1>2, <2>1, <2>2, <2>3 DEF Publish
  <1>3. ASSUME NEW c \in Clients, NEW s \in Sids, NEW t \in Types, NEW v,
               [type |-> t, value |-> v] \in RecordsOf(s), AddTxtRecord(s, t, v),
               <<<<s, t>>, v>> \in Remaining(call[c]), Remaining(call'[c]) = Remaining(call[c]) \ {<<<<s, t>>, v>>},
               call[c] # Idle, call'[c] # Idle,
               \A d \in Clients \ {c} : call'[d] = call[d], UNCHANGED answer
        PROVE  \E w \in writes : Store!TakeEffectOnce(c, w)
    <2> DEFINE w == <<<<s, t>>, v>>
    <2>0. rec[w[1]] = First(records[s], t) /\ w[1] = <<s, t>> /\ w[2] = v
      BY DEF Names, Types
    <2>1. rec' = IF rec[w[1]] = NoValue THEN [rec EXCEPT ![w[1]] = w[2]] ELSE rec
      <3>1. rec' = IF First(records[s], t) = NoValue THEN [rec EXCEPT ![<<s, t>>] = v] ELSE rec
        BY <1>3, AddedResolves
      <3> QED BY <2>0, <3>1
    <2>2. todo' = [todo EXCEPT ![c] = @ \ {w}]
      BY <1>3 DEF Remaining
    <2>3. busy' = busy
      BY <1>3
    <2>4. w \in writes
      BY <1>3 DEF RecordsOf, Types, Writes
    <2>5. Store!TakeEffectOnce(c, w)
      BY <1>3, <2>1, <2>2, <2>3 DEF Store!TakeEffectOnce, Writes
    <2> QED BY <2>4, <2>5
  <1>4. ASSUME NEW c \in Clients, PublishKey(c) PROVE \E w \in writes : Store!TakeEffectOnce(c, w)
    <2>1. /\ call'[c] = [sid |-> call[c].sid, key |-> NoKey, metadata |-> call[c].metadata]
          /\ \A d \in Clients \ {c} : call'[d] = call[d]
      BY <1>4 DEF PublishKey, TypeOK
    <2>2. call[c].sid \in Sids /\ call'[c] # Idle
      <3>1. /\ call[c].sid \in Sids
            /\ call[c].metadata \in Contents[call[c].sid] \cup {NoMetadata}
        BY <1>4, CallOfClient DEF PublishKey
      <3>2. call'[c] \in CallType
        BY <2>1, <3>1, CallInType
      <3> QED BY <3>1, <3>2, IdleAssumption
    <2>3. [type |-> "identity", value |-> call[c].key] \in RecordsOf(call[c].sid)
      BY <1>4, <2>2, CallOfClient DEF RecordsOf, PublishKey
    <2> QED BY <1>3, <1>4, <2>1, <2>2, <2>3, RemainingSteps DEF PublishKey, Types
  <1>5. ASSUME NEW c \in Clients, PublishMetadata(c)
        PROVE  \E w \in writes : Store!TakeEffectOnce(c, w)
    <2>1. /\ call'[c] = [sid |-> call[c].sid, key |-> NoKey, metadata |-> NoMetadata]
          /\ \A d \in Clients \ {c} : call'[d] = call[d]
      BY <1>5 DEF PublishMetadata, TypeOK
    <2>2. call[c].sid \in Sids /\ call'[c] # Idle
      <3>1. call[c].sid \in Sids
        BY <1>5, CallOfClient DEF PublishMetadata
      <3>2. call'[c] \in CallType
        BY <2>1, <3>1, CallInType
      <3> QED BY <3>1, <3>2, IdleAssumption
    <2>3. [type |-> "agent", value |-> call[c].metadata] \in RecordsOf(call[c].sid)
      BY <1>5, <2>2, CallOfClient DEF RecordsOf, PublishMetadata
    <2> QED BY <1>3, <1>5, <2>1, <2>2, <2>3, RemainingSteps DEF PublishMetadata, Types
  <1>6. ASSUME NEW c \in Clients, Return(c) PROVE Store!EndPublish(c)
    <2>1. call' = [call EXCEPT ![c] = Idle] /\ call[c] # Idle
      BY <1>6 DEF Return
    <2>2. Remaining(call[c]) = {} /\ Remaining(call'[c]) = {}
      BY <1>6, <2>1, RemainingSteps
    <2>3. \A d \in Clients \ {c} : Remaining(call'[d]) = Remaining(call[d])
      BY <2>1 DEF Remaining, TypeOK
    <2>4. todo' = todo
      BY <2>2, <2>3
    <2>5. busy' = busy \ {c} /\ c \in busy
      BY <2>1 DEF TypeOK
    <2> QED BY <1>6, <2>2, <2>4, <2>5 DEF Return, Store!EndPublish
  <1>7. ASSUME NEW c \in Clients, NEW sid \in Sids, NEW type \in Types, Resolve(c, sid, type)
        PROVE  (\E n \in Names : Store!Resolve(c, n)) \/ Store!Raise(c)
    <2>1. <<sid, type>> \in Names
      BY DEF Names, Types
    <2>2. UNCHANGED <<rec, todo, busy>>
      BY <1>7 DEF Resolve
    <2>3. rec[<<sid, type>>] = First(records[sid], type)
      BY <2>1
    <2>4. CASE Mismatch(sid, type, First(records[sid], type))
      BY <1>7, <2>2, <2>4 DEF Resolve, Store!Raise, Store!Raised
    <2>5. CASE ~Mismatch(sid, type, First(records[sid], type))
      <3>1. Store!Resolve(c, <<sid, type>>)
        BY <1>7, <2>2, <2>3, <2>5 DEF Resolve, Store!Resolve, Store!Found
      <3> QED BY <2>1, <3>1
    <2> QED BY <2>4, <2>5
  <1>8. ASSUME UNCHANGED vars PROVE UNCHANGED Store!storeVars
    BY <1>8 DEF vars, Store!storeVars, Remaining
  <1> QED BY <1>2, <1>4, <1>5, <1>6, <1>7, <1>8 DEF Next, Store!NextOnce, Types, Writes

(* Whatever is published, by whichever threads, and with whatever keys: a   *)
(* name that resolves keeps resolving to the value that took effect first   *)
(* (dns_store.py 64 and 84), also when later publications returned.        *)
THEOREM StoreIsWriteOnce == Spec => ImplementsWriteOnce
  <1> QED BY InitIInv, NextIInv, InitRefines, StepRefines, PTL
          DEF Spec, ImplementsWriteOnce, Store!SpecOnce

(* No SID is published with two different keys or metadata values, as in    *)
(* the programs of the repository.                                         *)
OneVersion ==
  \A sid \in Sids : /\ \A k1, k2 \in Keys[sid] : k1 = k2
                    /\ \A m1, m2 \in Contents[sid] : m1 = m2

(* What a name resolves to was published for it.                           *)
LEMMA ResolvedWasPublished ==
  ASSUME IInv, NEW sid \in Sids, NEW type \in Types, First(records[sid], type) # NoValue
  PROVE  <<<<sid, type>>, First(records[sid], type)>> \in Writes
  <1>1. Matching(records[sid], type) # {}
    BY DEF First
  <1>2. records[sid] \in Seq(RecordsOf(sid)) /\ HasFirst(records[sid], type)
    BY DEF IInv, TypeOK
  <1>3. PICK r \in RecordsOf(sid) : r.type = type /\ First(records[sid], type) = r.value
    BY <1>1, <1>2, FirstRecord
  <1> QED BY <1>3 DEF RecordsOf, Writes, Types

(* With one value per name, the write that has no effect would change       *)
(* nothing: then the store is a trustful mutable store (README.md 55), and  *)
(* what publish_identity was given when it returned is what is resolved.   *)
THEOREM StoreRefinement == OneVersion => (Spec => ImplementsStore)
  <1> SUFFICES ASSUME OneVersion PROVE Spec => ImplementsStore
    OBVIOUS
  <1> DEFINE rec == [n \in Names |-> First(records[n[1]], n[2])]
  <1>1. ASSUME NEW n, NEW v1, NEW v2, <<n, v1>> \in Writes, <<n, v2>> \in Writes
        PROVE  v1 = v2
    BY <1>1 DEF Writes, OneVersion
  <1>2. ASSUME IInv, NEW c \in Clients, NEW w \in Writes, Store!TakeEffectOnce(c, w)
        PROVE  Store!TakeEffect(c, w)
    <2>1. PICK s \in Sids, t \in Types : w[1] = <<s, t>> /\ w = <<w[1], w[2]>>
      BY DEF Writes, Types
    <2>2. w[1] \in Names /\ rec[w[1]] = First(records[s], t)
      BY <2>1 DEF Names, Types
    <2>3. rec[w[1]] # NoValue => rec[w[1]] = w[2]
      <3>1. First(records[s], t) # NoValue => <<w[1], First(records[s], t)>> \in Writes
        BY <1>2, <2>1, ResolvedWasPublished
      <3> QED BY <1>1, <2>1, <2>2, <3>1
    <2>4. rec[w[1]] # NoValue => [rec EXCEPT ![w[1]] = w[2]] = rec
      BY <2>2, <2>3
    <2> QED BY <1>2, <2>4 DEF Store!TakeEffectOnce, Store!TakeEffect
  <1>3. IInv /\ [Store!NextOnce]_(Store!storeVars) => [Store!Next]_(Store!storeVars)
    BY <1>2 DEF Store!NextOnce, Store!Next, Writes
  <1> QED BY <1>3, InitIInv, NextIInv, InitRefines, StepRefines, PTL
          DEF Spec, ImplementsStore, Store!Spec
=============================================================================
