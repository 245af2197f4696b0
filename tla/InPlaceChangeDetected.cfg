CONSTANTS
    Types = {event, gate_decision}
    Payloads = {p, q}
    MaxRecords = 3
    MaxChanges = 2
SPECIFICATION Spec
INVARIANT
    InPlaceChangeDetected
CHECK_DEADLOCK FALSE
