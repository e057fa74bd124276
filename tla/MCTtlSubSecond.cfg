\* A TTL of half a second.
SPECIFICATION TtlSpec
CONSTANTS
  Ttls = {1}
  Wrap = 20000000
  MaxTime = 10
INVARIANT TtlIsCeiling
CHECK_DEADLOCK FALSE
