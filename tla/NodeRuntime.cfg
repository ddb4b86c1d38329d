SPECIFICATION PreparedSpec
CONSTANTS
    Clients = {"manager"}
    Service = "service"
    OwnChains = {1, 2}
    PeerChains = {3}
    MaxRounds = 2
    MaxCalls = 5
INVARIANTS FaultIsNoted RefusedStartIsUndone PauseHoldsBoth AllReported
PROPERTY EveryCallAnswered
CHECK_DEADLOCK FALSE
