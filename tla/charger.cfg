SPECIFICATION Spec
CONSTANTS
  Pixels = 2
  Frames <- ThreeFrames
  NumCycles = 2
  FrameTime = 1
  UnknownTime = 3
  PowerOnKeyTime = 2
  SupplyTime = 2
  Levels <- SomeLevels
  Faults = {"gr", "frames", "pan"}
INVARIANTS
  SuspendedIsIdle
  NoEarlyRestart
PROPERTIES
  DoubleBuffered
  PowersOff
  AnimationEnds
CHECK_DEADLOCK FALSE
