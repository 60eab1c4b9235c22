SPECIFICATION Spec
CONSTANTS
  Leaves = {l1}
  Users = {u1, u2, u3}
  Requests = {q1}
  Workers = {w1}
  Endpoints = {"prepare", "accept", "override", "feedback", "escalate", "finalize", "activate", "retire", "decide"}
  Drafts <- ScoredOrUnreadable
  MaxMark = 1
  NoScore = NoScore
  Stages = {2, 3}
  RoleHolders <- EveryoneModerates
  MaxRuns = 1
  MaxCases = 1
  MaxReviews = 2
  MaxDecisions = 3
  MaxTasks = 1
  Faults = {"enqueue_lost", "error", "crash"}
  MaxFaults = 1
SYMMETRY UserSymmetry
CHECK_DEADLOCK FALSE
INVARIANTS LedgerMatchesReviews ModerationHasCase ApprovedMeansCompleted
PROPERTIES OnlyPartialFinalsDrift
