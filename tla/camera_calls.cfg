SPECIFICATION Spec
CONSTANTS
  Windows = {w1, w2}
  Buffers = {b1}
  Sizes = {s1, s2}
  DefaultSize = s1
  NULL = NULL
  Calls <- CallsPicture
  Faults = {"slow"}
  Patient = TRUE
INVARIANTS
  StoppedIsStopped
  CaptureUndisturbed
PROPERTIES
  NodeHandOver
  CallsReturn
  FramesKeepComing
