SPECIFICATION Spec
CONSTANTS
  Dev = dev
  Reviewer = reviewer
  Admin = admin
  NoUser = nobody
  Users <- MCUsers
  MayDo <- MCMayDo
  Workers = {w1}
  Reasons = {"plain"}
  MaxHistory = 6
  MaxProposals = 2
  MaxFileWrites = 2
PROPERTY PipelineSpec
CHECK_DEADLOCK FALSE
