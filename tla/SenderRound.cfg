SPECIFICATION MCSpec
CONSTANTS
    TotalPacketCount = 2
    PacketsPerInterval = 1
    DisclosureDelay = 1
    IntervalLength = 1
    StartLead = 1
    StartLeads = {2}
    PauseLeads = {1}
    ResumeLeads = {2}
    FaultDelays = {}
    Calls = {"configure", "start", "reset"}
    WordModulus = 1000
    MaxRuns = 1
    MaxPauses = 2
    MaxTime = 7
INVARIANTS NoDataAfterKey EarlyPauseHonoured EveryRoundReported
PROPERTIES ResultsStayTrue PlannedScheduleKept WorkerMovesOn
CHECK_DEADLOCK FALSE
