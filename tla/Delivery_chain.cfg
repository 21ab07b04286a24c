SPECIFICATION Spec
CONSTANTS
  Substrings <- MCSubstrings
  Resistant <- MCResistant
  Versions = {v1, v2}
  Admins = {alice, bob}
  NoOne = none
  NoVersion = noVersion
  Documents <- MCDocuments
  Assets <- MCAssets
  MaxClock = 3
  MaxDepth = 3
  MaxRegexFindings = 3
  Trees <- MCTrees
  Configs <- MCConfigs
  Adapted = {".py"}
  DefaultPolicy <- MCDefaultPolicy
  Now = 1
  ChunkSize = 2
  Snapshot <- MCSnapshot
  TextBefore = {}
  DevTools = {"pytest"}
  MinComponents = 3
  Sources <- MCSources
  Keyrings <- MCKeyrings
  ReleaseKey = "release key"
  Advisories <- MCAdvisories
  MaxNow = 1
  MaxDamage = 1
INVARIANTS
  BooksAgree
  SafeMeansCovered
  VerdictIsEarned
  ReleaseVouches
  AffectedPackageIsReported
PROPERTIES
  HardensWithTime
  SevereFindingsAreAccountedFor
CHECK_DEADLOCK FALSE
