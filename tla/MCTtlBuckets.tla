---------------------------- MODULE MCTtlBuckets ----------------------------
(* Small instances of TtlBuckets for TLC.                                  *)
EXTENDS TtlBuckets

\* Around zero, around every tier boundary, around bucket boundaries inside a
\* tier, past the last bucket, and around the ends of i32 and u32 seconds (Wrap
\* is scaled down from 2^32).
BoundarySeconds ==
  (0..20) \cup (2044..2052) \cup (2174..2178) \cup (32766..32770)
    \cup (34814..34818) \cup (524286..524290) \cup (557054..557058)
    \cup (8355838..8355842) \cup (8388606..8388610)
    \cup (9999999..10000001) \cup (19999999..20000001)

\* Whole seconds, and half a second more.
BoundaryTtls == {2 * secs : secs \in BoundarySeconds} \cup {2 * secs + 1 : secs \in BoundarySeconds}
=============================================================================
