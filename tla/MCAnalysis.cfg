CONSTANTS
    SourceIds <- MCSourceIds
    MemoryKeys <- MCMemoryKeys
    Traces <- MCTraces
    LineageLimit = 2
    EvidenceLimit = 2
    MemoryLength = 4
    LineageLength = 3
SPECIFICATION AnalysisSpec
INVARIANTS
    TypeOK
    ScanExact
    EarliestFirst
    NothingHidden
CHECK_DEADLOCK FALSE
