------------------------------- MODULE MCFilter -------------------------------
(* Instances of Filter for TLC.                                             *)
EXTENDS Filter, TLC

ThreadsNodes == Permutations(Threads) \cup Permutations(Nodes) \cup Permutations(Inodes)
=============================================================================
