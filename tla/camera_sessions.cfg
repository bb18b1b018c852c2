SPECIFICATION Spec
CONSTANTS
  Windows = {w1}
  Buffers = {b1, b2}
  Sizes = {s1}
  DefaultSize = s1
  NULL = NULL
  Calls <- CallsRelease
  Faults <- MildFaults
  Patient = TRUE
INVARIANTS
  FlagsAgree
  ThreadsEnded
  ClosedQuiet
  BuffersAccounted
PROPERTIES
  FocusJoined
CHECK_DEADLOCK FALSE
