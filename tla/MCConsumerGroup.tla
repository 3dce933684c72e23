---------------------------- MODULE MCConsumerGroup ----------------------------
(* Instances of ConsumerGroup for TLC: the constants are in the cfg files. *)
EXTENDS ConsumerGroup, TLC

\* The workers differ in their names only.
WorkerSymmetry == Permutations(Workers)
===============================================================================
