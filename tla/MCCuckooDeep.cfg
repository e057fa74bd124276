\* A displacement chain long enough to come back to the slot it is to free.
SPECIFICATION Spec
CONSTANTS
  k1 = k1
  k2 = k2
  k3 = k3
  k4 = k4
  k5 = k5
  Keys = {k1, k2, k3, k4, k5}
  nitem = 5
  Positions <- RingPositions
  max_displace = 5
  Policies = {"Expire"}
  max_ttl = 1
  Ttls = {0}
  Width = 1
  bytes = bytes
  blank = blank
  long = long
  Length <- TableLength
  Cut <- TableCut
  Inserted <- RingInserted
  Addends = {1}
  None = None
  NoExpiry = 9
  MaxTime = 0
INVARIANT InCandidates
