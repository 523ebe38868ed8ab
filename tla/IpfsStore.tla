-------------------------------- MODULE IpfsStore --------------------------------
(***************************************************************************)
(* The IPFS store (ipfs_store.py): a document in IPFS, a mutable IPNS        *)
(* pointer to it, and a registry, in memory and in a file, that leads from  *)
(* an identifier to its IPNS name.  A publication is a dozen steps; Kubo may *)
(* fail at each of them and the process may die between any two.  A CID is  *)
(* determined by the content it names, so documents stand for their CIDs.   *)
(*                                                                         *)
(* Two processes that write the temporary file at the same moment are left  *)
(* out; they take turns at saving.                                         *)
(***************************************************************************)
EXTENDS Naturals

CONSTANTS
  Procs,        \* processes, each with one store object
  Sids,
  Owner,        \* the process that generated each SID and publishes it
  Contents,     \* the metadata each SID may be published with
  Provider,     \* the SID that signs the metadata of each SID, or NoSid
  NoSid, NoMetadata, NoValue, NoEntry, Idle,
  Partial,      \* the content of a file that was not written to its end
  MaxCrashes    \* bound: process deaths explored

ASSUME OwnerAssumption == Owner \in [Sids -> Procs]
ASSUME ProviderAssumption == Provider \in [Sids -> Sids \cup {NoSid}]
ASSUME MetadataAssumption == \A sid \in Sids : NoMetadata \notin Contents[sid]

VARIABLES
  keys,         \* IPNS keys that exist, by the name they are for
  docs,         \* documents pinned in IPFS
  pointer,      \* what each IPNS name points to
  late,         \* pointers whose publication was given up on, and may still happen
  registry,     \* the registry each process has in memory
  file,         \* the registry file
  call,         \* what is left of the publication each process is in
  stage,        \* how far it is with the current document
  saving,       \* how far it is with writing the registry file
  query,        \* the resolution each process is in
  answer,       \* history: the last answer to each process
  crashes

kubo == <<keys, docs, pointer, late>>
publication == <<call, stage, saving>>
resolution == <<query, answer>>
vars == <<kubo, registry, file, publication, resolution, crashes>>

Names == Sids \X {"identity", "metadata"}
(* Every program publishes a SID with the key it was derived from           *)
(* (identity.generate_identity); the stores take that on trust and check    *)
(* the key when it is resolved.                                            *)
Key(sid) == <<"key", sid>>
Values(n) == IF n[2] = "identity" THEN {Key(n[1])} ELSE Contents[n[1]]
Write == UNION {{n} \X Values(n) : n \in Names}

(* A registry: an entry per name, with the CID it was last published under. *)
Entry(n) == {NoEntry} \cup [cid: Values(n) \cup {NoValue}]
Registry == {r \in [Names -> UNION {Entry(n) : n \in Names}] : \A n \in Names : r[n] \in Entry(n)}

ASSUME ValuesAssumption == \A n \in Names : NoValue \notin Values(n)
ASSUME EntryAssumption == \A n \in Names : NoEntry \notin [cid: Values(n) \cup {NoValue}]
ASSUME PartialAssumption == Partial \notin Registry

EmptyRegistry == [n \in Names |-> NoEntry]

Init ==
  /\ keys = {} /\ docs = {} /\ late = {}
  /\ pointer = [n \in Names |-> NoValue]
  /\ registry = [p \in Procs |-> EmptyRegistry]
  /\ file = EmptyRegistry
  /\ call = [p \in Procs |-> Idle]
  /\ stage = [p \in Procs |-> "key"]
  /\ saving = [p \in Procs |-> "no"]
  /\ query = [p \in Procs |-> Idle]
  /\ answer = [p \in Procs |-> <<"none">>]
  /\ crashes = 0

Records(sid, key, metadata) ==
  {w \in {<<<<sid, "identity">>, Key(sid)>>} : key}
    \cup {w \in {<<<<sid, "metadata">>, metadata>>} : metadata # NoMetadata}

(* bool(entry.get("cid"))                                                  *)
HasCid(entry) == entry # NoEntry /\ entry.cid # NoValue

(* Mutant: an identity with a registry entry counts as published.          *)
PublishedAlreadyIfNamed(p, sid) == registry[p][<<sid, "identity">>] # NoEntry

PublishedAlready(p, sid) == HasCid(registry[p][<<sid, "identity">>])

(* publish_identity; an identity the registry has a CID for is skipped.    *)
Publish(p, sid, metadata) ==
  /\ call[p] = Idle /\ query[p] = Idle
  /\ LET key == ~PublishedAlready(p, sid)
     IN  /\ Records(sid, key, metadata) # {}
         /\ call' = [call EXCEPT ![p] = [sid |-> sid, key |-> key, metadata |-> metadata]]
  /\ stage' = [stage EXCEPT ![p] = "key"]
  /\ UNCHANGED <<kubo, registry, file, saving, resolution, crashes>>

Remaining(p) == Records(call[p].sid, call[p].key, call[p].metadata)

Current(p) ==
  LET sid == call[p].sid
  IN  IF call[p].key THEN <<<<sid, "identity">>, Key(sid)>>
      ELSE <<<<sid, "metadata">>, call[p].metadata>>

(* The publication without its current document.                           *)
Rest(p) == [sid |-> call[p].sid, key |-> FALSE,
            metadata |-> IF call[p].key THEN call[p].metadata ELSE NoMetadata]

At(p, s) ==
  call[p] # Idle /\ Remaining(p) # {} /\ stage[p] = s /\ saving[p] = "no"

(* Mutant: the entry is made anew.                                         *)
GenerateKeyForgetting(p) ==
  /\ At(p, "key")
  /\ LET n == Current(p)[1]
     IN  /\ keys' = keys \cup {n}
         /\ registry' = [registry EXCEPT ![p][n] = [cid |-> NoValue]]
  /\ stage' = [stage EXCEPT ![p] = "add"]
  /\ saving' = [saving EXCEPT ![p] = "open"]
  /\ UNCHANGED <<docs, pointer, late, file, call, resolution, crashes>>

(* _namespace_entry: the key is found or generated, entered in the registry *)
(* and the file is written.  An entry keeps the CID it has.                *)
GenerateKey(p) ==
  /\ At(p, "key")
  /\ LET n == Current(p)[1]
         entry == registry[p][n]
     IN  /\ keys' = keys \cup {n}
         /\ registry' = [registry EXCEPT ![p][n] =
              IF entry = NoEntry THEN [cid |-> NoValue] ELSE entry]
  /\ stage' = [stage EXCEPT ![p] = "add"]
  /\ saving' = [saving EXCEPT ![p] = "open"]
  /\ UNCHANGED <<docs, pointer, late, file, call, resolution, crashes>>

(* Mutant: the registry file itself is opened for writing.                 *)
WriteInPlace(p) ==
  /\ saving[p] = "open"
  /\ \A q \in Procs \ {p} : saving[q] \in {"no", "open"}
  /\ saving' = [saving EXCEPT ![p] = "move"]
  /\ file' = Partial
  /\ UNCHANGED <<kubo, registry, call, stage, resolution, crashes>>

(* _write_json_file: the temporary file, written in full, replaces the      *)
(* registry file.                                                          *)
WriteTemporary(p) ==
  /\ saving[p] = "open"
  /\ \A q \in Procs \ {p} : saving[q] \in {"no", "open"}
  /\ saving' = [saving EXCEPT ![p] = "move"]
  /\ UNCHANGED <<kubo, registry, file, call, stage, resolution, crashes>>

ReplaceFile(p) ==
  /\ saving[p] = "move"
  /\ file' = registry[p]
  /\ saving' = [saving EXCEPT ![p] = "no"]
  /\ UNCHANGED <<kubo, registry, call, stage, resolution, crashes>>

(* Mutant: the CID is recorded when the document is added.                 *)
AddAndRecordCid(p) ==
  /\ At(p, "add")
  /\ docs' = docs \cup {Current(p)}
  /\ LET w == Current(p) IN registry' = [registry EXCEPT ![p][w[1]] = [cid |-> w[2]]]
  /\ stage' = [stage EXCEPT ![p] = "point"]
  /\ UNCHANGED <<keys, pointer, late, file, call, saving, resolution, crashes>>

AddDocument(p) ==
  /\ At(p, "add")
  /\ docs' = docs \cup {Current(p)}
  /\ stage' = [stage EXCEPT ![p] = "point"]
  /\ UNCHANGED <<keys, pointer, late, registry, file, call, saving, resolution, crashes>>

(* Mutant: the IPNS publication is not waited for.                         *)
PublishIpnsInBackground(p) ==
  /\ At(p, "point")
  /\ late' = late \cup {Current(p)}
  /\ stage' = [stage EXCEPT ![p] = "record"]
  /\ UNCHANGED <<keys, docs, pointer, registry, file, call, saving, resolution, crashes>>

(* name/publish: the pointer moves.                                        *)
PublishIpns(p) ==
  /\ At(p, "point")
  /\ LET w == Current(p) IN pointer' = [pointer EXCEPT ![w[1]] = w[2]]
  /\ stage' = [stage EXCEPT ![p] = "record"]
  /\ UNCHANGED <<keys, docs, late, registry, file, call, saving, resolution, crashes>>

(* The pointer that a caller no longer waits for moves after all.          *)
PublishLate(w) ==
  /\ w \in late
  /\ pointer' = [pointer EXCEPT ![w[1]] = w[2]]
  /\ late' = late \ {w}
  /\ UNCHANGED <<keys, docs, registry, file, publication, resolution, crashes>>

RecordCid(p) ==
  /\ At(p, "record")
  /\ LET w == Current(p) IN registry' = [registry EXCEPT ![p][w[1]] = [cid |-> w[2]]]
  /\ stage' = [stage EXCEPT ![p] = "done"]
  /\ saving' = [saving EXCEPT ![p] = "open"]
  /\ UNCHANGED <<kubo, file, call, resolution, crashes>>

(* On to the metadata document, or to the end.                             *)
Proceed(p) ==
  /\ At(p, "done")
  /\ call' = [call EXCEPT ![p] = Rest(p)]
  /\ stage' = [stage EXCEPT ![p] = "key"]
  /\ UNCHANGED <<kubo, registry, file, saving, resolution, crashes>>

Return(p) ==
  /\ call[p] # Idle
  /\ Remaining(p) = {}
  /\ call' = [call EXCEPT ![p] = Idle]
  /\ UNCHANGED <<kubo, registry, file, stage, saving, resolution, crashes>>

(* An IPNS publication given up on may have been done, or be done later.   *)
Abandon(p) ==
  \/ UNCHANGED <<pointer, late>>
  \/ /\ At(p, "point")
     /\ late' = late \cup {Current(p)}
     /\ UNCHANGED pointer

(* The IPFS API raises, or _write_json_file does before the file is         *)
(* replaced: the registry in memory stays as it is, ahead of the file.     *)
Fail(p) ==
  /\ call[p] # Idle
  /\ Abandon(p)
  /\ call' = [call EXCEPT ![p] = Idle]
  /\ saving' = [saving EXCEPT ![p] = "no"]
  /\ UNCHANGED <<keys, docs, registry, file, stage, resolution, crashes>>

(* The process dies and is started again: IPFSStore.__init__ reads the      *)
(* registry file, which must be JSON.                                      *)
Crash(p) ==
  /\ crashes < MaxCrashes
  /\ file # Partial
  /\ crashes' = crashes + 1
  /\ Abandon(p)
  /\ registry' = [registry EXCEPT ![p] = file]
  /\ call' = [call EXCEPT ![p] = Idle]
  /\ saving' = [saving EXCEPT ![p] = "no"]
  /\ query' = [query EXCEPT ![p] = Idle]
  /\ answer' = IF query[p] = Idle THEN answer ELSE [answer EXCEPT ![p] = <<"raised">>]
  /\ UNCHANGED <<keys, docs, file, stage>>

Answer(p, a) ==
  /\ answer' = [answer EXCEPT ![p] = a]
  /\ query' = [query EXCEPT ![p] = Idle]

(* _resolve_ipns: without a registry entry the answer is None; a pointer    *)
(* never set is an error.                                                  *)
ResolveIpns(p, n) ==
  /\ call[p] = Idle /\ query[p] = Idle
  /\ \/ /\ registry[p][n] = NoEntry
        /\ Answer(p, <<"found", n, NoValue>>)
     \/ /\ registry[p][n] # NoEntry
        /\ pointer[n] # NoValue
        /\ query' = [query EXCEPT ![p] = <<n, pointer[n]>>]
        /\ UNCHANGED answer
     \/ registry[p][n] # NoEntry /\ Answer(p, <<"raised">>)
  /\ UNCHANGED <<kubo, registry, file, publication, crashes>>

(* The provider's signature needs the provider's key, resolved through the  *)
(* same registry.                                                          *)
ProviderResolves(p, n) ==
  LET signer == <<Provider[n[1]], "identity">>
  IN  n[2] = "metadata" /\ Provider[n[1]] # NoSid
        => registry[p][signer] # NoEntry /\ pointer[signer] # NoValue

(* _cat_json and the verification of the document; the IPFS API may raise.  *)
ReadDocument(p) ==
  /\ query[p] # Idle
  /\ \/ /\ query[p] \in docs
        /\ ProviderResolves(p, query[p][1])
        /\ Answer(p, <<"found", query[p][1], query[p][2]>>)
     \/ Answer(p, <<"raised">>)
  /\ UNCHANGED <<kubo, registry, file, publication, crashes>>

Next ==
  \/ \E p \in Procs :
       \/ \E sid \in Sids : Owner[sid] = p /\
            \E metadata \in Contents[sid] \cup {NoMetadata} : Publish(p, sid, metadata)
       \/ GenerateKey(p) \/ AddDocument(p) \/ PublishIpns(p) \/ RecordCid(p)
       \/ WriteTemporary(p) \/ ReplaceFile(p)
       \/ Proceed(p) \/ Return(p) \/ Fail(p) \/ Crash(p)
       \/ \E n \in Names : ResolveIpns(p, n)
       \/ ReadDocument(p)
  \/ \E w \in late : PublishLate(w)

Spec == Init /\ [][Next]_vars

-----------------------------------------------------------------------------
CallType == UNION {[sid: {sid}, key: BOOLEAN, metadata: Contents[sid] \cup {NoMetadata}]
                     : sid \in Sids}

ASSUME IdleAssumption == Idle \notin CallType \cup Write

(* The type invariant; a process that died can always start again: the      *)
(* registry file is JSON (ipfs_store.py 31-43).                            *)
TypeOK ==
  /\ file # Partial
  /\ file \in Registry
  /\ registry \in [Procs -> Registry]
  /\ call \in [Procs -> CallType \cup {Idle}]
  /\ DOMAIN pointer = Names
  /\ docs \subseteq Write /\ late \subseteq docs
  /\ \A n \in Names : pointer[n] # NoValue => n \in keys /\ <<n, pointer[n]>> \in docs
  /\ stage \in [Procs -> {"key", "add", "point", "record", "done"}]
  /\ saving \in [Procs -> {"no", "open", "move"}]

(* A CID in the registry, in memory or in the file, stands for a document   *)
(* that is published: publish_identity skips an identity because of it      *)
(* (ipfs_store.py 338), and a crash or a failure in between must not make   *)
(* it skip one that nobody can resolve.                                    *)
CidsArePublished ==
  \A n \in Names :
    /\ HasCid(file[n]) => pointer[n] # NoValue
    /\ \A p \in Procs : HasCid(registry[p][n]) => pointer[n] # NoValue

(* When publish_identity returns, the key of the identifier can be resolved *)
(* from the pointer, published now or skipped because of its CID.          *)
IdentityPublishedOnReturn ==
  [][\A p \in Procs : call[p] # Idle /\ Remaining(p) = {} /\ call'[p] = Idle =>
       LET n == <<call[p].sid, "identity">> IN registry[p][n] # NoEntry /\ pointer[n] = Key(n[1])]_vars

(* The file "maps D3 IID -> IPNS key/name -> IPFS CID" (README.md 64): an    *)
(* identifier that is in it stays in it.                                   *)
RegistryKeepsEntries ==
  [][\A n \in Names : HasCid(file[n]) => HasCid(file'[n])]_vars

Todo(p) ==
  IF call[p] = Idle THEN {}
  ELSE IF stage[p] \in {"record", "done"} THEN Remaining(p) \ {Current(p)}
  ELSE Remaining(p)

Store == INSTANCE TrustfulStore WITH
  Clients <- Procs,
  Writes <- Write,
  record <- pointer,
  todo <- [p \in Procs |-> Todo(p)],
  busy <- {p \in Procs : call[p] # Idle},
  answer <- [p \in Procs |-> IF query[p] = Idle THEN answer[p]
                             ELSE <<"found", query[p][1], query[p][2]>>]

(* One process and its successors are a trustful mutable store (README.md   *)
(* 64), whatever fails between the steps of a publication: what was         *)
(* returned from stays resolvable, over restarts too.                      *)
ImplementsStore == Store!Spec
=============================================================================
