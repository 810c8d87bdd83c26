SPECIFICATION SideSpec
CONSTANTS
    Widths = {4, 5}
    MaxFade = 2
    MaxGain = 4
    Clips = {"a"}
    MaxEdits = 2
    MaxFaults = 1
    Clients = {"c1", "c2"}
    Talkers = {"c1"}
    MaxClients = 1
    QueueSize = 1
    InSize = 2
    Window = 1
    Limits <- PortLimits
    Slots = 3
    InFlight = 2
    MaxTicks = 4
    MaxEvents = 1
    Feeds = {"cam"}
    Stills = {"logo"}
    Syncs <- SyncSettings
    Pasted <- PastedUrls
    Hosts <- TypedHosts
    Phrases <- TypedPhrases
    Shows <- AskedShows
    MaxAsks = 3
INVARIANTS SideTypes ShowFileSafe CommandsInOrder CalmRequestsKeepSource TextsMeanWhatTheySay
PROPERTIES EditsReachDisk ViewersCatchUp MultiviewIntact FieldsSurvive
CHECK_DEADLOCK FALSE
