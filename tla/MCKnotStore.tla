------------------------------ MODULE MCKnotStore ------------------------------
(* A client that validates and one that does not, one SID whose metadata has *)
(* two versions, a key rollover.                                            *)
EXTENDS KnotStore

CONSTANT a

Moved == [sid \in Sids |-> {<<"metadata", sid>>, <<"moved", sid>>}]
=============================================================================
