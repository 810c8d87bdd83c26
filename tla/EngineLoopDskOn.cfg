SPECIFICATION Spec
CONSTANTS
    Sources = {1, 2}
    Keyers = {0}
    Full = 2
    Durations = {2}
    FtbDuration = 2
    MaxElapsed = 1
    Clients = {tcp, web}
    Requests <- OnOnly
    Capacity = 2
    MaxRequests = 2
PROPERTIES DskOnLeavesItOn
