-------------------------------- MODULE DnsStore --------------------------------
(***************************************************************************)
(* The emulated DNS store (dns_store.py): TXT records in a dictionary of    *)
(* lists, shared by the threads of one process.  publish_identity appends   *)
(* what it is given, a resolution takes the first record of the right type, *)
(* and of a key checks that it derives the SID.                            *)
(***************************************************************************)
EXTENDS Naturals, Sequences, FiniteSets

CONSTANTS
  Clients,     \* threads that use the store
  Sids,
  Keys,        \* the keys each SID may be published with
  Derived,     \* identity.derive_sid: the SID that belongs to a key
  Contents,    \* the metadata each SID may be published with
  NoKey,       \* no key passed
  NoMetadata,  \* no metadata passed
  NoValue,     \* None
  Idle,
  MaxRecords   \* bound: records explored under one name

ASSUME ValuesAssumption ==
  \A sid \in Sids : /\ NoKey \notin Keys[sid] /\ NoMetadata \notin Contents[sid]
                    /\ NoValue \notin Keys[sid] \cup Contents[sid]

VARIABLES
  records,     \* DNSStore.records
  call,        \* what is left of the publication each client is in
  answer       \* history: the last answer to each client

vars == <<records, call, answer>>

Init ==
  /\ records = [sid \in Sids |-> <<>>]
  /\ call = [c \in Clients |-> Idle]
  /\ answer = [c \in Clients |-> <<"none">>]

AddTxtRecord(sid, type, value) ==
  records' = [records EXCEPT ![sid] = Append(@, [type |-> type, value |-> value])]

(* The bound: a publication starts only if those in progress leave room.    *)
HasRoom(sid) ==
  Len(records[sid]) + 2 * Cardinality({c \in Clients : call[c] # Idle}) + 2 <= MaxRecords

(* Publication with a key or without one (demo.publish_registry adds the   *)
(* registry record alone).                                                 *)
Publish(c, sid, key, metadata) ==
  /\ call[c] = Idle
  /\ key # NoKey \/ metadata # NoMetadata
  /\ HasRoom(sid)
  /\ call' = [call EXCEPT ![c] = [sid |-> sid, key |-> key, metadata |-> metadata]]
  /\ UNCHANGED <<records, answer>>

PublishKey(c) ==
  /\ call[c] # Idle
  /\ call[c].key # NoKey
  /\ AddTxtRecord(call[c].sid, "identity", call[c].key)
  /\ call' = [call EXCEPT ![c] =
       [sid |-> call[c].sid, key |-> NoKey, metadata |-> call[c].metadata]]
  /\ UNCHANGED answer

(* Mutant: the record is typed like the one written before it.             *)
PublishMetadataAsIdentity(c) ==
  /\ call[c] # Idle
  /\ call[c].key = NoKey
  /\ call[c].metadata # NoMetadata
  /\ AddTxtRecord(call[c].sid, "identity", call[c].metadata)
  /\ call' = [call EXCEPT ![c] =
       [sid |-> call[c].sid, key |-> NoKey, metadata |-> NoMetadata]]
  /\ UNCHANGED answer

PublishMetadata(c) ==
  /\ call[c] # Idle
  /\ call[c].key = NoKey
  /\ call[c].metadata # NoMetadata
  /\ AddTxtRecord(call[c].sid, "agent", call[c].metadata)
  /\ call' = [call EXCEPT ![c] =
       [sid |-> call[c].sid, key |-> NoKey, metadata |-> NoMetadata]]
  /\ UNCHANGED answer

Return(c) ==
  /\ call[c] # Idle
  /\ call[c].key = NoKey
  /\ call[c].metadata = NoMetadata
  /\ call' = [call EXCEPT ![c] = Idle]
  /\ UNCHANGED <<records, answer>>

Matching(txts, type) == {i \in DOMAIN txts : txts[i].type = type}

(* Mutant: the last record of the type is taken, the one written last.     *)
LastOfType(txts, type) ==
  IF Matching(txts, type) = {} THEN NoValue
  ELSE txts[CHOOSE i \in Matching(txts, type) :
              \A j \in Matching(txts, type) : i >= j].value

(* The first record of the type; None if there is none.                    *)
First(txts, type) ==
  IF Matching(txts, type) = {} THEN NoValue
  ELSE txts[CHOOSE i \in Matching(txts, type) :
              \A j \in Matching(txts, type) : i <= j].value

(* resolve_public_key ("identity"), which raises when the first key it      *)
(* finds is not that of the SID, and resolve_metadata ("agent").           *)
Mismatch(sid, type, value) ==
  type = "identity" /\ value # NoValue /\ Derived[value] # sid

Resolve(c, sid, type) ==
  /\ call[c] = Idle
  /\ LET value == First(records[sid], type)
     IN  answer' = [answer EXCEPT ![c] =
           IF Mismatch(sid, type, value) THEN <<"raised">>
           ELSE <<"found", <<sid, type>>, value>>]
  /\ UNCHANGED <<records, call>>

Next ==
  \E c \in Clients :
    \/ \E sid \in Sids :
         \E key \in Keys[sid] \cup {NoKey}, metadata \in Contents[sid] \cup {NoMetadata} :
           Publish(c, sid, key, metadata)
    \/ PublishKey(c)
    \/ PublishMetadata(c)
    \/ Return(c)
    \/ \E sid \in Sids, type \in {"identity", "agent"} : Resolve(c, sid, type)

Spec == Init /\ [][Next]_vars

-----------------------------------------------------------------------------
CallType == UNION {[sid: {sid}, key: Keys[sid] \cup {NoKey},
                    metadata: Contents[sid] \cup {NoMetadata}] : sid \in Sids}

(* A client in a publication is not idle.                                  *)
ASSUME IdleAssumption == Idle \notin CallType

RecordsOf(sid) ==
  [type: {"identity"}, value: Keys[sid]] \cup [type: {"agent"}, value: Contents[sid]]

(* The type invariant: every record holds a value of its type that was      *)
(* published for its SID; nothing says that the key belongs to it.         *)
TypeOK ==
  /\ DOMAIN records = Sids
  /\ \A sid \in Sids : records[sid] \in Seq(RecordsOf(sid))
  /\ call \in [Clients -> CallType \cup {Idle}]

(* What is left to write in a publication.                                 *)
Remaining(r) ==
  IF r = Idle THEN {}
  ELSE {w \in {<<<<r.sid, "identity">>, r.key>>} : r.key # NoKey}
         \cup {w \in {<<<<r.sid, "agent">>, r.metadata>>} : r.metadata # NoMetadata}

Names == Sids \X {"identity", "agent"}

Store == INSTANCE WriteOnceStore WITH
  Writes <- UNION {{<<<<sid, "identity">>, k>> : k \in Keys[sid]}
                     \cup {<<<<sid, "agent">>, m>> : m \in Contents[sid]} : sid \in Sids},
  record <- [n \in Names |-> First(records[n[1]], n[2])],
  todo <- [c \in Clients |-> Remaining(call[c])],
  busy <- {c \in Clients : call[c] # Idle},
  late <- {}

(* Whichever threads publish and resolve at the same time, a name resolves  *)
(* to what was published for it first, and stays with it (dns_store.py 64  *)
(* and 84): of a publication that updates metadata or replaces a key,      *)
(* nothing is seen, although it returned.                                  *)
ImplementsWriteOnce == Store!SpecOnce

(* The promise of a trustful mutable store (README.md 55), which it keeps   *)
(* only for values that never change: see DnsStore_proofs.                 *)
ImplementsStore == Store!Spec
=============================================================================
