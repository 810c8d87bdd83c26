SPECIFICATION Spec
CONSTANTS
  NumSlots = 5
  FramesInFlight = 2
  Outs = {omt, sdi}
  SdiOuts = {sdi}
  MaxValue = 5
  CanFail = {}
  MaxFail = 0
INVARIANTS NoOverwriteWhileSending SendIntact AlwaysASlot
PROPERTIES FeedSpec
CHECK_DEADLOCK FALSE
