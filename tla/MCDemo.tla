-------------------------------- MODULE MCDemo --------------------------------
(***************************************************************************)
(* Instance of Demo for TLC: demonstrations that share one results file.    *)
(***************************************************************************)
EXTENDS Demo, TLC

ProcessSymmetry == Permutations(Processes)
=============================================================================
