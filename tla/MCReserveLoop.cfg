SPECIFICATION LoopSpec
CONSTANTS
  Segments = {s1, s2}
  Threads = {t1, t2}
  NoSegment = NoSegment
  AdmissionCap = 1
  RESERVE_RETRIES = 3
INVARIANTS
  PoolCountExact
  WaitCovered
PROPERTY
  ReserveEnds
