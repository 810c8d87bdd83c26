SPECIFICATION PathSpec
CONSTANTS
    Window = 3
    Slew = 1
    PtsGap = 2
    LockPresents = 1
    SyncFrames = 1
    Slack = 1
    Periods = {1, 2}
    Steps = {0, 1, 3}
    MaxElapsed = 2
    MaxLate = 1
    MaxArrivals = 4
    MaxNow = 4
    OffSlots = 4
    SyncSlots = 4
    Keep = 2
    FeedCapacity = 1
    QueueCap = 2
    FramesInFlight = 2
    Modes = {TRUE, FALSE}
    MaxFrames = 5
    MaxRings = 2
    MaxValue = 3
    FaultFrames = 4
    FaultValue = 2
    MaxFail = 1
    \* In chunks of 5 ms: a prefill of 20 ms, trimmed above 100 ms.
    Prefill = 4
    MaxFill = 20
    RingSize = 24
    Hold = 4
    MaxStalls = 2
    Sources = {0, 1}
    Full = 2
INVARIANTS PathTypes ScheduleSound PixelsStay DropMeansBehind
PROPERTIES OnlyResyncsStep StatisticsRight PictureForward AudioFollows
CHECK_DEADLOCK FALSE
