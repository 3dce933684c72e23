---------------------------- MODULE MCEnricherGroup ----------------------------
(* Instances of EnricherGroup for TLC: the constants are in the cfg files. *)
EXTENDS EnricherGroup, TLC

\* The workers differ in their names only.
WorkerSymmetry == Permutations(Workers)
===============================================================================
