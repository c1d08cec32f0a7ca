\* An honest peer, and one Byzantine authority behind two peers.
SPECIFICATION Spec
CONSTANTS
    p1 = p1  p3 = p3  p4 = p4
    A = A  C = C
    Peers = {p1, p3, p4}
    Authorities = {A, C}
    AuthOf <- MCAuthOf
    Byzantine = {C}
    Trusted = {A, C}
    Orders <- MCOrders
    K = 3
    Q = 2
    QuorumChoices = {TRUE, FALSE}
    AllowSinglePeer = FALSE
    Compaction = TRUE
    SnapshotOnly = {2}
    Issuer = A
    MaxContent = 2
    MaxLoads = 2
    MaxMutations = 1
    MaxChecks = 4
PROPERTIES LoadSound LoadEnds
CHECK_DEADLOCK FALSE
