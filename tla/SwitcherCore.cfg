SPECIFICATION FairSpec
CONSTANTS
    Sources = {1, 2}
    Keyers = {0}
    Full = 4
    Durations = {2, 4}
    FtbDuration = 2
    MaxElapsed = 2
INVARIANTS OneTransition
PROPERTIES LandsAsPreviewed RestingKeyersRestored RampsEnd
