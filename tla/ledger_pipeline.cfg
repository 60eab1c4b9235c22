SPECIFICATION FairSpec
CONSTANTS
  Leaves = {l1, l2}
  Users = {u1}
  Requests = {q1, q2, q3}
  Workers = {w1, w2}
  Endpoints = {"prepare"}
  Drafts <- ProposedOrPending
  MaxMark = 1
  NoScore = NoScore
  Stages = {1}
  RoleHolders <- EveryoneModerates
  MaxRuns = 3
  MaxCases = 1
  MaxReviews = 2
  MaxDecisions = 1
  MaxTasks = 2
  Faults = {"error"}
  MaxFaults = 2
CHECK_DEADLOCK FALSE
INVARIANTS OneActiveRun LedgerAllOrNothing
PROPERTIES ProposalPreserved EvaluatingEnds
