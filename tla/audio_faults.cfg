SPECIFICATION Spec
CONSTANTS
  Outputs = {o1}
  Inputs = {i1, i2}
  EchoIds = {e1, e2, e3, e4, e5}
  NULL = NULL
  HW = HW
  Playback = playback
  Ctl = ctl
  Calls <- CallsFault
  Faults = {"pcm", "io", "mixer"}
INVARIANTS
  TypeOK
  NoDeviceLeak
  StandbyClosed
  OneActiveInput
