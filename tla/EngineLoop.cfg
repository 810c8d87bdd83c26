SPECIFICATION Spec
CONSTANTS
    Sources = {1, 2}
    Keyers = {0}
    Full = 2
    Durations = {2}
    FtbDuration = 2
    MaxElapsed = 1
    Clients = {tcp, web}
    Requests <- EveryKind
    Capacity = 2
    MaxRequests = 4
INVARIANTS TypeOK TalliesCoverAir
