------------------------------ MODULE DnslinkStore ------------------------------
(***************************************************************************)
(* The DNSLink store (dnslink_ipfs_store.py): the record of a name in the   *)
(* Knot zone is the CID of a document in IPFS.  A publication adds the       *)
(* document, then updates the zone; a resolution reads the zone, then the   *)
(* document.  A CID is determined by the content it names, so documents     *)
(* stand for their CIDs.  Zone, network and resolver are those of           *)
(* KnotStore, whose steps this module extends.                              *)
(***************************************************************************)
EXTENDS KnotStore

VARIABLES
  docs,        \* documents pinned in IPFS
  added,       \* whether each client has added the document it publishes
  published,   \* DNSLinkIPFSStore.published_identities of each client's store
  pointer      \* the CID each resolution in progress has read

linkVars == <<vars, docs, added, published, pointer>>

LinkInit ==
  /\ Init
  /\ docs = {}
  /\ added = [c \in Clients |-> FALSE]
  /\ published = [c \in Clients |-> {}]
  /\ pointer = [c \in Clients |-> NoValue]

(* An identity this store object has published is not published again.     *)
LinkPublish(c, sid, key, metadata) ==
  /\ Publish(c, sid, key /\ sid \notin published[c], metadata)
  /\ UNCHANGED <<docs, added, published, pointer>>

AddDocument(c) ==
  /\ call[c] # Idle
  /\ Remaining(c) # {}
  /\ ~added[c]
  /\ docs' = docs \cup {Current(c)}
  /\ added' = [added EXCEPT ![c] = TRUE]
  /\ UNCHANGED <<vars, published, pointer>>

(* Mutant: the pointer is published before the document.                   *)
LinkBeforeDocument(c) ==
  /\ SendUpdate(c)
  /\ UNCHANGED <<docs, added, published, pointer>>

LinkDocument(c) ==
  /\ added[c]
  /\ SendUpdate(c)
  /\ UNCHANGED <<docs, added, published, pointer>>

LinkProceed(c) ==
  /\ Proceed(c)
  /\ added' = [added EXCEPT ![c] = FALSE]
  /\ published' = [published EXCEPT ![c] = @ \cup {sid \in {call[c].sid} : call[c].key}]
  /\ UNCHANGED <<docs, pointer>>

(* Mutant: the identity counts as published although its update failed.    *)
LinkFailRemembering(c) ==
  /\ Fail(c)
  /\ added' = [added EXCEPT ![c] = FALSE]
  /\ published' = [published EXCEPT ![c] = @ \cup {sid \in {call[c].sid} : call[c].key}]
  /\ UNCHANGED <<docs, pointer>>

(* IPFS or nsupdate raises; when it is the process that ends, its set of    *)
(* published identities is gone.                                           *)
LinkFail(c) ==
  /\ Fail(c)
  /\ added' = [added EXCEPT ![c] = FALSE]
  /\ published' \in {published, [published EXCEPT ![c] = {}]}
  /\ UNCHANGED <<docs, pointer>>

(* The TXT record: the CID is taken from it.  One that is not a DNSLink is  *)
(* skipped.                                                                *)
FetchPointer(c) ==
  /\ query[c] # Idle
  /\ query[c].stage = "record"
  /\ \E r \in Responses(query[c].name) : \E value \in Readings(r) :
       /\ Accepts(c, r)
       /\ pointer' = [pointer EXCEPT ![c] = value]
  /\ query' = [query EXCEPT ![c].stage = "document"]
  /\ UNCHANGED <<server, writers, answer, docs, added, published>>

(* The document is read and its SID and key are checked; without a DNSLink  *)
(* the answer is None.                                                     *)
FetchDocument(c) ==
  /\ query[c] # Idle
  /\ query[c].stage = "document"
  /\ pointer[c] # NoValue => <<query[c].name, pointer[c]>> \in docs
  /\ Certifies(query[c].name, pointer[c])
  /\ answer' = [answer EXCEPT ![c] = <<"found", query[c].name, pointer[c]>>]
  /\ query' = [query EXCEPT ![c] = Idle]
  /\ pointer' = [pointer EXCEPT ![c] = NoValue]
  /\ UNCHANGED <<server, writers, docs, added, published>>

LinkResolveFails(c) ==
  /\ query[c] # Idle
  /\ query[c].stage \in {"record", "document"}
  /\ Raise(c)
  /\ pointer' = [pointer EXCEPT ![c] = NoValue]
  /\ UNCHANGED <<server, writers, docs, added, published>>

FromKnot ==
  /\ \/ \E c \in Clients :
          Return(c) \/ FetchKeys(c) \/ \E n \in Names : Resolve(c, n)
     \/ \E u \in updates : Apply(u)
     \/ RollKey
  /\ UNCHANGED <<docs, added, published, pointer>>

LinkNext ==
  \/ \E c \in Clients :
       \/ \E sid \in Sids, key \in BOOLEAN : \E metadata \in Contents[sid] \cup {NoMetadata} :
            LinkPublish(c, sid, key, metadata)
       \/ AddDocument(c)
       \/ LinkDocument(c)
       \/ LinkProceed(c)
       \/ LinkFail(c)
       \/ FetchPointer(c)
       \/ FetchDocument(c)
       \/ LinkResolveFails(c)
  \/ FromKnot

LinkSpec == LinkInit /\ [][LinkNext]_linkVars

-----------------------------------------------------------------------------
(* No pointer in the zone or on its way to it dangles: whatever fails or    *)
(* arrives late, the document was there first (dnslink_ipfs_store.py 188).  *)
PointersHold ==
  /\ \A n \in Names : zone[n] # NoValue => <<n, zone[n]>> \in docs
  /\ \A u \in updates : u.write \in docs

(* An identity that a store object will not publish again is in the zone:   *)
(* after a failed attempt a retry does publish it.                         *)
SkippedIdentitiesHold ==
  \A c \in Clients : \A sid \in published[c] : zone[<<sid, "identity">>] = Key(sid)

Sampled(c) ==
  IF pointer[c] = NoValue THEN answer[c] ELSE <<"found", query[c].name, pointer[c]>>

LinkStore == INSTANCE TrustfulStore WITH
  Writes <- Write,
  record <- zone,
  todo <- [c \in Clients |-> Todo(c)],
  busy <- {c \in Clients : call[c] # Idle},
  late <- {u.write : u \in {v \in updates : v.client = NoClient}},
  answer <- [c \in Clients |-> Sampled(c)]

(* The two layers together are a trustful mutable store (README.md 67): a   *)
(* resolution answers with what the name held at one moment, although a     *)
(* publication may move the pointer between its two reads.                 *)
LinkImplementsStore == LinkStore!Spec
=============================================================================
