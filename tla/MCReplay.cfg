CONSTANTS
    Keys = {1, 2, 3}
    MaxEntries = 3
    MaxOutput = 2
    Inputs <- MCInputs
SPECIFICATION FairSpec
INVARIANTS
    ReplayTypeOK
    ControlsBeforeComparison
    PatchReplays
    CriteriaMeanPatched
PROPERTIES
    ReplayReturns
    ImplementsReplayContract
CHECK_DEADLOCK FALSE
