SPECIFICATION Spec
CONSTANTS
  Requests = {q1}
  Workers = {w1}
  Endpoints = {"prepare", "regenerate", "publish", "grievance"}
  NArtifacts = 1
  MaxScore = 0
  MaxVersions = 3
  MaxRuns = 2
  MaxTasks = 1
  MaxAttempts = 2
  Faults = {}
  MaxFaults = 0
SYMMETRY SessionSymmetry
CHECK_DEADLOCK FALSE
INVARIANTS OnePublished
