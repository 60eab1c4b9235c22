SPECIFICATION MCSpec
CONSTANTS
  Results = {"r1", "r2", "r3", "a1", "a2"}
  Nodes = {"n1", "n2"}
  Attempts = {"attempt"}
  Materializers = {"w1", "w2"}
  Planners = {"p1", "p2"}
  Teachers = {"t1", "t2"}
  MaxTasks = 2
  MaxRebuilds = 1
  MaxPlans = 2
  MaxBlueprints = 2
  SubmissionOf <- MCSubmissionOf
  MasterySettings <- MCMasterySettings
  Topics = {"n1", "n2", "n3"}
  Editors = {"e1", "e2"}
  Profiles = {"concept", "execution", "strong", "none"}
  PathSettings <- MCPathSettings
  Resources = {"x1"}
  Requests = {"q1", "q2"}
  TargetOf <- MCTargetOf
  LibrarySettings <- MCLibrarySettings
  MaxRows = 2
  Outcomes = {"o1", "o2"}
  Questions = {"q1", "q2"}
  Published = {"a1", "a2", "a3"}
  Marks <- MCMarks
  MaxMark = 2
  MinCohort = 2
  Clerks = {"c1", "c2"}
  OutcomeSettings <- MCOutcomeSettings
  MaxReports = 2
  Answers = 4
  Raters = {"u1", "u2"}
  Callers = {"q1", "q2"}
  MinCommon = 3
  QualitySettings <- MCQualitySettings
  MaxPsychometrics = 2
CHECK_DEADLOCK FALSE
INVARIANTS MCTypeOK MasteryFollowsEvidence PlansAreSound RecordsAgree
PROPERTIES DecisionsStay LearningWorkEnds
