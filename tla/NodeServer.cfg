SPECIFICATION MCSpec
CONSTANTS
    Roles = {"receiver"}
    MaxEvents = 1
    MaxMetrics = 2
    MaxControl = 1
    BatchSize = 2
    MaxRounds = 2
    MaxRequests = 1
    Clients = {"manager", "monitor"}
    NoClient = "none"
    Deaf = {"monitor"}
    MaxClients = {1, 2}
    QueueLimit = 1
    RoleOf <- TheirRoles
    Requests <- TheirRequests
INVARIANT AnswersInOrder
PROPERTIES DrainWritten TelemetryMovesOn StopReturns
CHECK_DEADLOCK FALSE
