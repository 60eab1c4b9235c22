SPECIFICATION MCSpec
CONSTANTS
  Workers = {"w1", "w2"}
  Operators = {"o1"}
  Endpoints = {"e1", "e2"}
  Events = {"v1", "v2"}
  MAX_ATTEMPTS = 2
  MaxCrashes = 1
  MaxRetries = 2
  MaxUpdates = 2
  Settings <- MCSettings
  Browsers = {"b1", "b2"}
  Directories = {"d1", "d2"}
  Subjects = {"x1", "x2"}
  Emails = {"m1", "m2"}
  MaxUsers = 2
  MaxLogins = 2
  MaxWrites = 3
  FederationSettings <- MCFederationSettings
  Requests = {"q1", "q2"}
  Members = {"x1", "x2"}
  MaxVersions = 2
  MaxRequests = 3
  MaxLaunches = 2
  PassbackSettings <- MCPassbackSettings
  Graders = {"g1", "g2"}
  Pools = {"p1", "p2"}
  Questions = {"u1", "u2"}
  MaxItems = 3
  MaxRuns = 3
  MaxGrievances = 2
  GradingSettings <- MCGradingSettings
CHECK_DEADLOCK FALSE
INVARIANTS MCTypeOK DeliveriesAgree WorkIsOwned
PROPERTIES RefinesOutbox DeliveryEnds SignInsAreSafe PassbackIsFaithful DealtWhileActive
