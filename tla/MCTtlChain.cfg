SPECIFICATION Spec
CONSTANTS
  s1 = s1
  s2 = s2
  s3 = s3
  b1 = b1
  b2 = b2
  t1 = t1
  t2 = t2
  Segments = {s1, s2, s3}
  Buckets = {b1, b2}
  Threads = {t1, t2}
  None = None
  Ttl = 1
  MaxMerge = 1
  MaxTime = 0
  MaxGen = 1
SYMMETRY Symmetry
INVARIANTS
  ChainWellFormed
  DrainMeetsOnlyMembers
PROPERTY SealsOnlyFull
