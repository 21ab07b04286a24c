SPECIFICATION Spec
CONSTANTS
  Dev = dev
  Reviewer = reviewer
  Admin = admin
  NoUser = nobody
  Users <- MCUsers
  MayDo <- MCMayDo
  Workers = {w1, w2}
  Reasons = {"plain"}
  MaxHistory = 6
  MaxProposals = 1
  MaxFileWrites = 2
INVARIANT OneTimeUse
CHECK_DEADLOCK FALSE
