SPECIFICATION GpuFairSpec
CONSTANTS
    FramesInFlight = 2
    Capacity = 3
    SrtOn = FALSE
    Controllers = {web, tcp}
    Kinds = {"start", "stop"}
    MaxRequests = 2
    MaxValue = 4
PROPERTIES HandshakeMoves
