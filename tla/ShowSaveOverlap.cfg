SPECIFICATION FairSpec
CONSTANTS
    Widths = {4, 5}
    MaxFade = 2
    MaxGain = 4
    Clips = {"a"}
    Overlap = TRUE
    MaxEdits = 1
    MaxFaults = 0
PROPERTIES EditsReachDisk
CHECK_DEADLOCK FALSE
