\* One segment, three scheduled threads, two lives and the start of a third (no
\* symmetry: temporal properties).
SPECIFICATION FairSpec
CONSTANTS
  s1 = s1
  t1 = t1
  t2 = t2
  t3 = t3
  Segments = {s1}
  Threads = {t1, t2, t3}
  NoSegment = NoSegment
  SpareSegments = {}
  SegmentSize = 1
  TagMod = 2
  LocationTagMod = 2
  MaxGen = 2
INVARIANTS
  GenerationCountsUses
  PublishedGenerationCurrent
PROPERTIES
  CondemnedIsFreed
  DrainEnds
  PinSafety
  FreeIsReturned
