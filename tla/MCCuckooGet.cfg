SPECIFICATION Spec
CONSTANTS
  k1 = k1
  k2 = k2
  k3 = k3
  k4 = k4
  k5 = k5
  Keys = {k1, k2, k3, k4}
  nitem = 3
  Positions <- TablePositions
  max_displace = 4
  Policies = {"Random", "Expire"}
  max_ttl = 1
  Ttls = {0, 1, 4}
  Width = 1
  bytes = bytes
  blank = blank
  long = long
  Length <- TableLength
  Cut <- TableCut
  Inserted <- TableInserted
  Addends = {1}
  None = None
  NoExpiry = 9
  MaxTime = 2
INVARIANT LiveIsFound
