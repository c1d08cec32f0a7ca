\* Two owners share a store that keeps what it acknowledged.
SPECIFICATION LiveSpec
CONSTANTS
    Owner = {o1, o2}
    MaxEntries = 3
    MaxBytes = 4
    Headroom = 2
    MaxOutbox = 1
    DeltaSize = {1}
    SnapSize = {1}
    MaxPrep = 2
    MaxFaults = 1
    MaxBackups = 0
INVARIANTS Reopenable NoPublicationLost
PROPERTIES RefinesAcceptedLog JournalServes
CHECK_DEADLOCK FALSE
