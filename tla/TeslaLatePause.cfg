SPECIFICATION MCSpec
CONSTANTS
    TotalPacketCount = 2
    PacketsPerInterval = 1
    DisclosureDelay = 1
    IntervalLength = 2
    ClockTolerance = 1
    MaxCandidateVersions = 4
    StartLead = 1
    ManagerLead = 2
    Skews <- MCSkews
    MaxPauses = 1
    MaxTime = 8
INVARIANT StoredBeforeDisclosure
CHECK_DEADLOCK FALSE
