SPECIFICATION Spec
CONSTANTS
  Threads = {t1, t2}
  Evictor = Evictor
  Segments = {s1, s2, s3}
  FreeSegments = {s3}
  Modulus = 2
  Inserted <- Items
  NotANumber = NotANumber
  None = None
  MaxCells = 3
  MaxVersion = 1
SYMMETRY Symmetry
VIEW View
INVARIANTS
  NoUpdateLost
  NeverWedged
  ReadsAgree
PROPERTY
  ReplacesWhatWasRead
