SPECIFICATION Spec
CONSTANTS
  Leaves = {l1}
  Users = {u1}
  Requests = {q1, q2, q3}
  Workers = {w1}
  Endpoints = {"prepare", "accept", "override", "feedback", "escalate", "finalize"}
  Drafts <- BlankOrUnreadable
  MaxMark = 1
  NoScore = NoScore
  Stages = {1}
  RoleHolders <- EveryoneModerates
  MaxRuns = 1
  MaxCases = 1
  MaxReviews = 2
  MaxDecisions = 1
  MaxTasks = 1
  Faults = {}
  MaxFaults = 0
SYMMETRY SessionSymmetry
CHECK_DEADLOCK FALSE
INVARIANTS TypeOK ScoredWhenReviewed FinalScoreHasReview
