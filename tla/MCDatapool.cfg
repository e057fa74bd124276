SPECIFICATION Spec
CONSTANTS
    UnitsPerPage = 2
    Sizes = {2, 4}
    Values = {0, 1}
    UserVersions = {1, 2}
    MaxWrites = 3
    MaxFlushes = 3
    MaxErrors = 1
INVARIANTS
    OpensAFlush
    FlushSurvives
