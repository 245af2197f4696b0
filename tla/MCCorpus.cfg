CONSTANTS
    Structure <- MCStructure
    Observed <- MCObserved
    CategoryFloors <- MCFloors
    NegativeFloor = 1
    Manifests <- MCManifests
SPECIFICATION Spec
INVARIANTS
    CorpusTypeOK
    AcceptsExactlySound
CHECK_DEADLOCK FALSE
