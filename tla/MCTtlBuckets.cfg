\* TTLs around every boundary of the bucket table; a rewrite at any time up to
\* the deadline of the shorter ones, and up to ten seconds in the making.
SPECIFICATION TtlSpec
CONSTANTS
  Ttls <- BoundaryTtls
  Wrap = 20000000
  MaxTime = 10
INVARIANTS
  CeilingUpToDelay
  StampFindsBucket
CHECK_DEADLOCK FALSE
