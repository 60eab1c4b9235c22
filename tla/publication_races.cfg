SPECIFICATION Spec
CONSTANTS
  Requests = {q1, q2}
  Workers = {w1, w2}
  Endpoints = {"prepare", "regenerate", "publish"}
  NArtifacts = 2
  MaxScore = 0
  MaxVersions = 2
  MaxRuns = 1
  MaxTasks = 1
  MaxAttempts = 2
  Faults = {"crash"}
  MaxFaults = 1
SYMMETRY SessionSymmetry
CHECK_DEADLOCK FALSE
INVARIANTS TypeOK ReleasedHasArtifacts
PROPERTIES VersionImmutable
