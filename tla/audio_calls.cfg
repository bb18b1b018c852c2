SPECIFICATION FairSpec
CONSTANTS
  Outputs = {o1}
  Inputs = {i1}
  EchoIds = {e1, e2, e3, e4, e5}
  NULL = NULL
  HW = HW
  Playback = playback
  Ctl = ctl
  Calls <- CallsMode
  Faults = {}
INVARIANTS
  LockOrder
  WakeLockWhilePlaying
  LockedStaysActive
PROPERTIES
  StreamFieldsGuarded
  CallsReturn
