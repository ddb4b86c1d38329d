SPECIFICATION MCSpec
CONSTANTS
    ByteBase = 3
    MaximumFrameLength = 7
    MaxFrames = 3
    Payloads <- SomePayloads
    TextLimit = 3
    MonitorTextLimit = 4
    BlockSize = 2
    BatchLimit = 2
    DelayLimit = 2
    Percent = 2
    MaxChanges = 1
    PacketsPerInterval = 2
    DisclosureDelay = 2
    IntervalLength = 1
    Contexts <- SomeContexts
    MaxDamage = 2
    PacketTotal = 5
    GroupSize = 4
    DetectionThreshold = 1
    MaxCandidateVersions = 3
    MaxRivals = 1
    MaxFieldSize = 31
    AnyLoss = 9
    FarPatterns <- AlteredFar
    Sizes <- GroupSizes
INVARIANTS MessagesMeet LostFieldIsNoticed BytesMeet NoBadPacketPasses
    LocatesExactly VerdictsAreExact
PROPERTY FramesInOrder
CHECK_DEADLOCK FALSE
