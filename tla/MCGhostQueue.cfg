\* Four hashes, room for two, and up to six queue entries (four of them stale).
SPECIFICATION GhostSpec
CONSTANTS
  h1 = h1
  h2 = h2
  h3 = h3
  h4 = h4
  t1 = t1
  t2 = t2
  Hashes = {h1, h2, h3, h4}
  Inserters = {t1, t2}
  NoHash = NoHash
  Capacity = 2
  MaxQueue = 6
CONSTRAINT QueueWithinBound
SYMMETRY Symmetry
INVARIANTS
  GhostBounded
  MembersQueued
PROPERTY ForgetsOneWhenFull
