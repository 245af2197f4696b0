CONSTANTS
    SourceIds <- MCSourceIds
    MemoryKeys <- MCMemoryKeys
    Traces <- MCTraces
    LineageLimit = 2
    EvidenceLimit = 2
    MemoryLength = 4
    Outcomes = {"go", "abstain"}
SPECIFICATION Spec
INVARIANTS
    DiagnosisTypeOK
    LedgerChained
    DerivedInherit
    PatchJustified
    RecommendationJustified
    FailedReplayAbstains
    LooksAgree
    BasePrecedesOutcome
    CorpusAgrees
CHECK_DEADLOCK FALSE
