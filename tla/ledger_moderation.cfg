SPECIFICATION Spec
CONSTANTS
  Leaves = {l1}
  Users = {u1, u2, u3}
  Requests = {q1, q2}
  Workers = {w1}
  Endpoints = {"prepare", "accept", "finalize", "activate", "retire", "decide"}
  Drafts <- OneProposal
  MaxMark = 1
  NoScore = NoScore
  Stages = {1, 2}
  RoleHolders <- EveryoneModerates
  MaxRuns = 1
  MaxCases = 1
  MaxReviews = 1
  MaxDecisions = 4
  MaxTasks = 1
  Faults = {}
  MaxFaults = 0
SYMMETRY UserSymmetry
CHECK_DEADLOCK FALSE
INVARIANTS EveryStageApproved CompletedRunFullyScored
