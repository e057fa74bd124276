----------------------------- MODULE MCTtlChain -----------------------------
(* Small instances of TtlChain for TLC.                                    *)
EXTENDS TtlChain, TLC

\* Segments, buckets and threads are told apart by nothing but equality (the
\* buckets' TTLs are one constant).
Symmetry ==
  Permutations(Segments) \cup Permutations(Buckets) \cup Permutations(Threads)
=============================================================================
