SPECIFICATION Spec
CONSTANTS
    TotalPacketCount = 2
    PacketsPerInterval = 1
    DisclosureDelay = 1
    IntervalLength = 1
    StartLead = 0
    StartLeads = {1}
    PauseLeads = {1}
    ResumeLeads = {1}
    FaultDelays = {}
    Calls = {"configure", "start"}
    WordModulus = 1000
    MaxRuns = 1
    MaxPauses = 2
    MaxTime = 4
INVARIANT PauseAheadHonoured
CHECK_DEADLOCK FALSE
