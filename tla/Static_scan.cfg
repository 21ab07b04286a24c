SPECIFICATION FairSpec
CONSTANTS
  Sessions = {s1, s2}
  Instances = {i1, i2}
  NoSession = NoSession
  NoInstance = NoInstance
  Modes = {"git", "zip", "files", "directory"}
INVARIANTS
  UploadsAreAccountedFor
  StoredScansComplete
PROPERTIES
  JobsSettleOnce
  JobsSettle
CHECK_DEADLOCK FALSE
