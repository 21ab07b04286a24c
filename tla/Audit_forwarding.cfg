SPECIFICATION FairSpec
CONSTANTS
  Categories = {"LOGIN"}
  MaxInMemory = 2
  MaxEvents = 3
  Endpoints = {splunk, webhook}
  Configs <- GrowingConfigs
  BatchSizes = {1, 2}
  Flushes = {f1, f2}
  MaxIngested = 3
INVARIANTS
  VerifiedTrailsAreWhole
  NothingTwice
PROPERTIES
  EveryEndpointTried
  QueueDrains
CHECK_DEADLOCK FALSE
