\* A journal filled to its limits, and a store that falls back to older images.
SPECIFICATION Spec
CONSTANTS
    Owner = {o1, o2}
    MaxEntries = 3
    MaxBytes = 4
    Headroom = 2
    MaxOutbox = 2
    DeltaSize = {1, 2}
    SnapSize = {1, 3}
    MaxPrep = 3
    MaxFaults = 2
    MaxBackups = 2
SYMMETRY Owners
ACTION_CONSTRAINT InScenario
INVARIANTS AccountsKept ViewIsAcceptedPrefix AckedSurvives PublishedOnlyAccepted
CHECK_DEADLOCK FALSE
