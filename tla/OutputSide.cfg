SPECIFICATION OutputSpec
CONSTANTS
    FramesInFlight = 2
    Capacity = 3
    SrtOn = TRUE
    Controllers = {web, tcp}
    Kinds = {"start", "stop"}
    MaxRequests = 2
    MaxValue = 3
    MaxFrames = 4
    PacketRing = 2
    AacFrame = 2
    MaxFailures = 2
    StreamRing = 2
    MaxOutages = 3
    FrameRing = 6
    MaxRefusals = 2
    MaxStartFails = 3
INVARIANTS OutputTypes HandoffSafe PoolIsWhole PacketsWhole
PROPERTIES RecordingsStop OutputsRecover
CHECK_DEADLOCK FALSE
