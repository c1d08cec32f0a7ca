SPECIFICATION Spec
CONSTANTS
    k1 = k1
    k2 = k2
    ma = ma
    mb = mb
    Keychains = {k1, k2}
    Entries <- SmallEntries
    MAX_KEYCHAIN_EPOCHS = 2
    MaxAuthored = 3
    Lists = {1, 2}
    Callers = {1}
    Members = {ma, mb}
    MAX_ACL_CHANGES = 3
    MAX_ACL_MEMBERS = 1
    MaxOps = 3
    Users = {"u", "v"}
    Capabilities = {"write", "read"}
    MAX_STABLE_READ_ATTEMPTS = 2
    MaxMutations = 4
    Signers = {"f", "g"}
    genesisAuthorizedKeys = {"f"}
    MaxEntries = 2
    Local = "l"
    Others = {r, s}
    Slots = {1, 2}
    Verifiers = {1}
    MaxCalls = 3
    Founder = "f"
    Follower = "h"
    Dishonest = "m"
    Joiner = "j"
    RequestedChanges <- SmallRequests
    ForgedChanges <- SmallForgeries
    MaxLies = 1
    MaxForged = 1
    MaxPublished = 5
SYMMETRY Symmetry
INVARIANT MembersAgree
PROPERTIES KeysKept ListsSound RevocationHolds
CHECK_DEADLOCK FALSE
