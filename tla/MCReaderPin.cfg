\* What try_acquire_reader promises, against the code as it is.
SPECIFICATION Spec
CONSTANTS
  s1 = s1
  t1 = t1
  t2 = t2
  t3 = t3
  Segments = {s1}
  Threads = {t1, t2, t3}
  NoSegment = NoSegment
  SpareSegments = {}
  SegmentSize = 1
  TagMod = 2
  LocationTagMod = 2
  MaxGen = 2
SYMMETRY Symmetry
INVARIANT PinnedSegmentNotReused
