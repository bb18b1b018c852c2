SPECIFICATION Spec
CONSTANTS
  Pixels = 1
  Frames <- ThreeFrames
  NumCycles = 1
  FrameTime = 2
  UnknownTime = 4
  PowerOnKeyTime = 4
  SupplyTime = 2
  Levels <- MidLevel
  Faults = {}
PROPERTIES
  HoldRestarts
CHECK_DEADLOCK FALSE
