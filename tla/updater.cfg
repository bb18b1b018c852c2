SPECIFICATION Spec
CONSTANTS
  Kernels = {"stock", "old", "new"}
  Faults = {"power", "mount", "flash"}
  MaxLosses = 3
INVARIANTS
  NvSafe
  WipeConsented
PROPERTIES
  InstallEnds
