CONSTANTS
    Writers = {w1, w2}
    Names = {ledger, diagnostic}
    Ledger = ledger
    MaxCrashes = 2
SPECIFICATION FairSpec
INVARIANTS
    TypeOK
    OnlyCompletePackets
    ExitCodeTruthful
PROPERTIES
    NeverReplaced
    ImplementsAtomicPublish
    Terminates
CHECK_DEADLOCK FALSE
