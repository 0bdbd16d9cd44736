CONSTANTS
  MaxFrames = 3
SPECIFICATION FairSpec
INVARIANTS ClosedWhenOver OfferedIsStored FramesInOrder
PROPERTIES EndsOrWaits
CHECK_DEADLOCK FALSE
