\* Upload to evaluation of one paper: one region, one question, one worker.
SPECIFICATION FairSpec
CONSTANTS
  Requests = {"q1", "q2"}
  Workers = {"w1"}
  Students = {"s1"}
  Regions = {"r1"}
  Questions = {"u1"}
  Pairs = {"FIRST"}
  MaxTasks = 1
  MaxVersions = 2
  MaxFaults = 1
  Settings <- MCSettings
CHECK_DEADLOCK FALSE
INVARIANTS TypeOK EvidenceAgrees
PROPERTIES ReviewCounts IntakeEnds
