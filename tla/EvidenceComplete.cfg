CONSTANTS
    SourceIds <- LongSourceIds
    MemoryKeys <- MCMemoryKeys
    Traces <- LongTraces
    LineageLimit = 16
    EvidenceLimit = 8
    MemoryLength = 0
    Outcomes = {"abstain"}
SPECIFICATION Spec
INVARIANT
    EvidenceComplete
CHECK_DEADLOCK FALSE
