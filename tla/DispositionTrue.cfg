CONSTANTS
    SourceIds <- MCSourceIds
    MemoryKeys <- MCMemoryKeys
    Traces <- MCTraces
    LineageLimit = 2
    EvidenceLimit = 2
    MemoryLength = 2
    Outcomes = {"go", "abstain"}
SPECIFICATION Spec
INVARIANT
    DispositionTrue
CHECK_DEADLOCK FALSE
