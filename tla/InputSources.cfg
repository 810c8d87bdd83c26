SPECIFICATION SourcesSpec
CONSTANTS
    Items <- Playlist
    MaxAge = 8
    MaxOps = 2
    MaxFaults = 2
    Modes = {"hd5994", "hd50", "uhd25"}
    Seed = "hd5994"
    Slots = {1, 2}
    Tallies = {"off", "preview", "program"}
    BadLimit = 2
    MaxEvents = 2
    MaxPackets = 3
    Sources = {"cam", "clip"}
    Without = {{}, {"senders", "srt", "audio"}}
    FramesInFlight = 1
INVARIANTS SourceTypes PlaysTheClip FramesAsDescribed
PROPERTIES MediaGoesOn SourcesSettle TakenDownInOrder
CHECK_DEADLOCK FALSE
