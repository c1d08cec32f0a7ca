\* Two operations compete for the bytes of two coordinators, or two operations
\* of one coordinator meet a transition and a change of authorization.
SPECIFICATION MCSpec
CONSTANTS
    Op = {o1, o2}
    Gate = {g1, g2}
    Size = {1, 2}
    Small = 1
    Meeting = g1
    MaxOps = 2
    MaxBytes = 2
    AllOps = 2
    AllBytes = 3
    MaxNested = 1
    MaxContext = 1
    MaxRoles = 1
INVARIANTS WorkAccounted CancelledNeverApplied
PROPERTIES AppliedInContext CallerAnswered
CHECK_DEADLOCK FALSE
