SPECIFICATION FairSpec
CONSTANTS
  Requests = {q1}
  Workers = {w1}
  Endpoints = {"prepare", "regenerate", "publish", "override", "grievance"}
  NArtifacts = 1
  MaxScore = 1
  MaxVersions = 2
  MaxRuns = 2
  MaxTasks = 2
  MaxAttempts = 3
  Faults = {"error"}
  MaxFaults = 1
CHECK_DEADLOCK FALSE
PROPERTIES PublicationShowsLedger GeneratingEnds
