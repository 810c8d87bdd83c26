SPECIFICATION FairSpec
CONSTANTS
    Modes = {"hd5994", "hd50"}
    Seed = "hd5994"
    MaxEvents = 2
PROPERTIES RateFollowsSignal
CHECK_DEADLOCK FALSE
