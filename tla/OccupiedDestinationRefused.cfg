CONSTANTS
    Writers = {w1, w2}
    Names = {ledger, diagnostic}
    Ledger = ledger
    MaxCrashes = 1
SPECIFICATION Spec
PROPERTY
    OccupiedDestinationRefused
CHECK_DEADLOCK FALSE
