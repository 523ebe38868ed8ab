----------------------------- MODULE MCDnslinkStore -----------------------------
(* Two store objects of one zone, one SID with two versions of its metadata. *)
EXTENDS DnslinkStore, TLC

CONSTANT a

Moved == [sid \in Sids |-> {<<"metadata", sid>>, <<"moved", sid>>}]
ClientSymmetry == Permutations(Clients)
=============================================================================
