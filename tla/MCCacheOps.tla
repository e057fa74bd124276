----------------------------- MODULE MCCacheOps -----------------------------
(* CacheOps on small sets of threads, keys, segments and slots. *)
EXTENDS CacheOps, TLC

CONSTANT MaxCalls

\* Bound: behaviours of at most MaxCalls calls, drains among them.
FewCalls == calls <= MaxCalls

Symmetry == Permutations(Threads) \cup Permutations(Keys) \cup Permutations(Segments)
            \cup Permutations(Slots) \cup Permutations(Values) \cup Permutations(Buckets)
=============================================================================
