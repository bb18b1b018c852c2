SPECIFICATION Spec
CONSTANTS
  Nothing = Nothing
  Cameras = {"back", "front"}
  Changes <- SomeChanges
  Failures <- SomeFailures
INVARIANTS
  SensorAgrees
  TorchIsOff
  ToldIsCached
  RecordSettings
  SceneConsistent
PROPERTIES
  FreshSession
