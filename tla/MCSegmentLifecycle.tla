------------------------- MODULE MCSegmentLifecycle -------------------------
(* Small instances of SegmentLifecycle for TLC.                            *)
EXTENDS SegmentInvariant, TLC

\* Threads run the same code and are told apart by nothing else.
Symmetry == Permutations(Threads)
=============================================================================
