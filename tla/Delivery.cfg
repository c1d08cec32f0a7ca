SPECIFICATION Spec

CONSTANTS
    Streams = {1}
    MaxChunks = 2
    MaxMutations = 2
    Handlers = {"h"}
    MaxChanges = 3
    MaxACL = 2
    SourceAnswers <- SmallAnswers
    SourceCount = 2
    Worlds <- SmallWorlds
    maxTotalCandidates = 3
    resolveConcurrency = 2
    Documents = {1,2,3}
    RowChoices <- SmallRows
    Indexes <- SmallIndexes
    Conditions <- SmallConditions
    Orders <- SmallOrders
    PageSizes = {1}
    Changing = {2}
    RelayPeers = {"p","q"}
    DynamicTopics = {"s","t","u"}
    PermanentTopics = {"seed"}
    RefusedTopics = {}
    maxAutoTopics = 2
    maxAutoTopicsPerPeer = 1
    Sessions = {1,2}
    Addresses = {"x","y"}
    maxConnections = 2
    maxConnectionsPerIp = 1
    attemptsPerMinute = 3
    attemptsPerIpPerMinute = 2
    attemptsPerIpPerTenSeconds = 1
    maxTrackedIps = 1
    sessionBytes = 3
    totalBytes = 4
    bytesPerTick = 1
    burstBytes = 1
    Minute = 2
    TenSeconds = 1
    MaxClock = 3
    MaxChunk = 2
    MaxExcess = 1
    AdvertisingPeers = {"a","b","c"}
    maxPeers = 2
    minUpdateInterval = 1
    AdvertisementTtl = 1
    IssueSkew = 0
    MaxNow = 2
    MaxSequence = 1
    MaxAccepting = 2
    Welcomes <- SmallWelcomes
    Rotations <- SmallRotations
    MaxEntries = 2
    MaxBytes = 3
    Ttl = 1
    Clock = {0, 1, 2}
    MaxMerges = 2
    MaxFaults = 1

PROPERTIES ObserversServed SearchesExact RelayBounded WelcomesKept DeliveryEnds
CHECK_DEADLOCK FALSE
