SPECIFICATION Spec
CHECK_DEADLOCK FALSE
CONSTANTS
    PageSize = 2
    Bases = {2, 20}
    MaxLength = 12
    Growths = {8}
    ClientRanges <- MCRanges
    OsFails = TRUE
    Configs <- MCConfigs
    Requests = {1, 3}
    Alignments = {1, 4}
    SpanPages = 1
    ObjectSize = 1
INVARIANT RangeHandsOutMapped
