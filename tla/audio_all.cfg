SPECIFICATION Spec
CONSTANTS
  Outputs = {o1}
  Inputs = {i1}
  EchoIds = {e1, e2, e3, e4, e5}
  NULL = NULL
  HW = HW
  Playback = playback
  Ctl = ctl
  Calls <- CallsAll
  Faults = {"echo"}
INVARIANTS
  RefCounts
  IoOnOpenPcm
  EchoNotReleased
CHECK_DEADLOCK FALSE
