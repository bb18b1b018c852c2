SPECIFICATION Spec
CONSTANTS
  Windows = {w1}
  Buffers = {b1}
  Sizes = {s1}
  DefaultSize = s1
  NULL = NULL
  Calls <- CallsErrors
  Faults <- HardFaults
  Patient = FALSE
INVARIANTS
  TypeOK
  LateFrameIgnored
CHECK_DEADLOCK FALSE
