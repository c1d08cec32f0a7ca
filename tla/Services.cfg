SPECIFICATION Spec

CONSTANTS
    Requesters = {r1, r2}
    Lifetime = 2
    Skew = 1
    Interval = 2
    Capacity = 1
    MaxTime = 4
    MaxRoot = 1
    Instances = {i, j}
    MaxNodes = 2
    MaxHandlers = 2
    MaxFns = 4
    MaxCommits = 2
    Paths = {"p"}
    InvalidVersions = {2}
    MaxVersion = 2
    MaxWork = 1
    MaxGenerations = 2
    MaxLifecycle = 2
    MaxRebuilds = 1
    MaxFailures = 1
    Members = {a, b, c}
    Founder = a
    MaxLeaves = 4
    MaxGeneration = 3
    MaxTransitions = 4
    MaxCheckpoints = 1
    WidestTree = 12
    MaxConsumers = 2
    MaxStoreCalls = 3
    MaxUpdates = 1
    Components = {"k", "l"}
    MaxTasks = 3
    MaxMounts = 3
    Thunks = {1, 2, 3}
    MaxUpdatesSeen = 2
    SlowCloses = FALSE

SYMMETRY Symmetry

INVARIANTS IndexFollows TreeKeepsSecrets BindingsSettle
PROPERTIES RequestsAccounted SessionsExclusive
CHECK_DEADLOCK FALSE
