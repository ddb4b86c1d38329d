SPECIFICATION MCSpec
CONSTANTS
    Packets = 3
    QueueLimit = 3
    BatchLimit = 2
    MaxRounds = 2
    MaxCloses = 1
    MaxRequests = 2
    Chunks = 3
    ChunkSize = 2
    BacklogLimit = 5
    EndReserve = 1
    MaxConnections = 2
    MaxStops = 1
    HeartbeatInterval = 1
    OfflineTimeout = 3
    Hosts = 2
    Scores = {0, 1}
    MaxLosses = 1
    Nodes = {"u1", "u2"}
    ResponseTimeout = 2
    MetricQueueLimit = 1
    StoreLimit = 2
    MaxRecords = 3
    MaxResets = 1
    MaxConnects = 2
    MaxWire = 1
INVARIANTS NoDatagramStranded AcceptedUploadIsWhole LivingNodeStaysConnected MetricsWithoutHole
PROPERTIES NobodyWaitsForEver SilentPeersAreDropped
CHECK_DEADLOCK FALSE
