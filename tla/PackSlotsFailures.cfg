SPECIFICATION FairSpec
CONSTANTS
  NumSlots = 2
  FramesInFlight = 2
  Outs = {omt, sdi}
  SdiOuts = {sdi}
  MaxValue = 3
  CanFail = {"render", "down"}
  MaxFail = 1
PROPERTIES NewestFrameSent
CHECK_DEADLOCK FALSE
