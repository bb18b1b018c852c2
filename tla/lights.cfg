SPECIFICATION Spec
CONSTANTS
  Colors <- SomeColors
  NoLight = NoLight
INVARIANTS
  LevelFollowsScreen
PROPERTIES
  Atomic
