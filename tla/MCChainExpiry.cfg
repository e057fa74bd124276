SPECIFICATION Spec
CONSTANTS
  s1 = s1
  s2 = s2
  s3 = s3
  s4 = s4
  b1 = b1
  t1 = t1
  t2 = t2
  Segments = {s1, s2, s3, s4}
  Buckets = {b1}
  Threads = {t1, t2}
  None = None
  Ttl = 1
  MaxMerge = 1
  MaxTime = 1
  MaxGen = 0
SYMMETRY Symmetry
INVARIANTS
  TypeOK
  OldestFirst
  ExpiryMissesNothing
  CopyKeepsDeadline
