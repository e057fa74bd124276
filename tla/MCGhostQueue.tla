---------------------------- MODULE MCGhostQueue ----------------------------
(* Small instances of GhostQueue for TLC.                                  *)
EXTENDS GhostQueue, TLC

CONSTANT MaxQueue   \* bound: states with a longer queue are not explored

QueueWithinBound == Len(queue) <= MaxQueue

\* Hashes and threads are told apart by nothing but equality.
Symmetry == Permutations(Hashes) \cup Permutations(Inserters)
=============================================================================
