SPECIFICATION Spec
CONSTANTS
    Clients = {"manager"}
    Service = "service"
    OwnChains = {1}
    PeerChains = {3}
    MaxRounds = 1
    MaxCalls = 4
INVARIANT ArchiveNeverBlocks
CHECK_DEADLOCK FALSE
