\* A TTL of 16 seconds and a tick between remaining_ttl and the reserve.
SPECIFICATION TtlSpec
CONSTANTS
  Ttls = {32}
  Wrap = 20000000
  MaxTime = 10
INVARIANT TtlIsCeiling
CHECK_DEADLOCK FALSE
