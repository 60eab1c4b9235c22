\* Authoring of one assessment.
SPECIFICATION Spec
CONSTANTS
  Teachers = {"t1", "t2"}
  Workers = {"w1", "w2"}
  Codes = {"q", "r"}
  MarkValues = {1, 2}
  CriterionCodes = {"c1", "c2"}
  Nodes = {"n1"}
  Trees <- MCTrees
  Criterias <- MCCriterias
  Starts <- MCStarts
  Settings <- MCSettings
  MaxVersions = 2
  MaxKeys = 2
  MaxRubrics = 2
  MaxPapers = 2
  MaxRuns = 2
CHECK_DEADLOCK FALSE
INVARIANTS TypeOK MaterialIsComplete
PROPERTIES FreezeHolds AppliedWholeAndOnce
