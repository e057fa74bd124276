\* Two segments, one of them a spare: the queues, the claims and the drains.
SPECIFICATION Spec
CONSTANTS
  s1 = s1
  s2 = s2
  t1 = t1
  t2 = t2
  t3 = t3
  Segments = {s1, s2}
  Threads = {t1, t2, t3}
  NoSegment = NoSegment
  SpareSegments = {s2}
  SegmentSize = 1
  TagMod = 2
  LocationTagMod = 2
  MaxGen = 1
SYMMETRY Symmetry
INVARIANTS
  TypeOK
  ExactlyOneFree
  NoSegmentLost
  DrainIsExclusive
  SpareCountExact
