------------------------------- MODULE MCDnsStore -------------------------------
(* Two threads publish and resolve one SID: with its own key or another's,   *)
(* and with metadata that changes.                                         *)
EXTENDS DnsStore

CONSTANTS a, other, key, otherKey, first, second

PublishedKeys == [sid \in Sids |-> {key, otherKey}]
SidOfKey == [k \in {key, otherKey} |-> IF k = key THEN a ELSE other]
TwoVersions == [sid \in Sids |-> {first, second}]
=============================================================================
