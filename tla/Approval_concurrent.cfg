SPECIFICATION Spec
CONSTANTS
  Dev = dev
  Reviewer = reviewer
  Admin = admin
  NoUser = nobody
  Users <- MCUsers
  MayDo <- MCMayDo
  Workers = {w1, w2}
  Reasons = {"plain", "quotes_failure"}
  MaxHistory = 4
  MaxProposals = 2
  MaxFileWrites = 1
SYMMETRY Symmetry
INVARIANTS StateChainValid HistoryIsWorkflowPath FourEyes
CHECK_DEADLOCK FALSE
