SPECIFICATION MCSpec
CONSTANTS
    PacketsPerInterval = 1
    DisclosureDelay = 1
    IntervalLength = 1
    ClockTolerance = 1
    MaxCandidateVersions = 2
    ContextCount = 1
    PacketTotal <- MCOneTotal
    StartLead = 0
    StartLeads = {1}
    PauseLeads = {1}
    ResumeLeads = {1}
    ReceivedCopies = {"genuine", "badMac", "badKey", "undecodable"}
    MaxQueued = 1
    MaxRuns = 2
    MaxPauses = 0
    MaxSegments = 2
    MaxTime = 6
INVARIANTS KeysReachBack CompletedIsComplete OneResultPerRound EveryRoundReported
PROPERTIES NoTimeoutWhilePaused RoundReportedFairly
CHECK_DEADLOCK FALSE
