SPECIFICATION Spec
CONSTANTS
    Threads = {t1, t2}
    Keys = {k1, k2, k3}
    Values = {v1, v2}
    Segments = {s1, s2}
    Slots = {x1, x2}
    Buckets = {b1}
    Absent = Absent
    None = None
    SegmentSize = 2
    MaxGen = 1
    MaxCalls = 3
CONSTRAINT FewCalls
SYMMETRY Symmetry
INVARIANTS
    NoStaleEntry
    NoDuplicateKey
    LiveCoversPublished
    NoWaitCycle
PROPERTIES
    RefinesAtomicCache
