----------------------------- MODULE MCLearning -----------------------------
(***************************************************************************)
(* The parts of the learning cycle in one run.  A behaviour belongs to one *)
(* of them: the settings of the others let nothing happen.                 *)
(***************************************************************************)
EXTENDS LearningPlans

CONSTANTS
  Topics, Editors, Profiles, PathSettings,
  Resources, Requests, TargetOf, LibrarySettings, MaxRows,
  Outcomes, Questions, Published, Marks, MaxMark, MinCohort, Clerks, OutcomeSettings,
  MaxReports, Answers,
  Raters, Callers, MinCommon, QualitySettings, MaxPsychometrics

VARIABLES
  edges, editor, profile, phase, targets, path, psetting,
  resource, assigned, request, answers, lsetting,
  outcome, sets, cohort, reports, clusters, clerk, osetting,
  similar, parent, pending, stage,
  psychometric, effective, calibration, cases, raters, response, icc, rated, caller, qsetting

P == INSTANCE LearningPath
L == INSTANCE ResourceAssignments
O == INSTANCE OutcomeReports
C == INSTANCE AnswerClusters
Q == INSTANCE Quality

-----------------------------------------------------------------------------
MCSubmissionOf == [r \in Results |-> CASE r \in {"r1", "r2"} -> "s1" [] r = "r3" -> "s3" [] OTHER -> "attempt"]

Entry(node, score, codes, blank) == [node |-> node, score |-> score, codes |-> codes, blank |-> blank]
Weak(n) == Entry(n, 0, {"CONCEPT"}, FALSE)
SlipOf(n) == Entry(n, 1, {"SIGN"}, FALSE)
Good(n) == Entry(n, 2, {}, FALSE)
Ledger(a, b, c) == [r \in Results |-> CASE r = "r1" -> a [] r = "r2" -> b [] OTHER -> c]

Setting(ledgers, results, workers, faults, calls, planners, teachers, edits_, sends_) ==
  [ledger : ledgers, results : {results}, workers : {workers}, faults : {faults},
   calls : {calls}, planners : {planners}, teachers : {teachers}, edits : {edits_}, sends : {sends_}]

NoMastery == CHOOSE s \in Setting({Ledger(Good("n1"), Good("n1"), Good("n1"))},
                                   {}, {}, {}, {}, {}, {}, 0, 2) : TRUE
MCMasterySettings == {NoMastery} \cup UNION {
  \* every kind of answer, alone
  Setting({Ledger(e, e, e) : e \in Entries({"n1"})}, {"r1"}, {"w1"}, {}, {}, {}, {}, 0, 2),
  \* a republished submission and another one, with every fault
  Setting({Ledger(Weak("n1"), Good("n1"), SlipOf("n2")), Ledger(Weak("n1"), Weak("n2"), Good("n1"))},
          {"r1", "r2"}, {"w1"}, {"lost", "prepare", "error", "crash", "rebuild"}, {}, {}, {}, 0, 2),
  \* three results, two of one submission
  Setting({Ledger(Weak("n1"), Good("n1"), SlipOf("n2")), Ledger(Weak("n1"), Weak("n2"), Good("n1"))},
          {"r1", "r2", "r3"}, {"w1"}, {"error", "prepare"}, {}, {}, {}, 0, 2),
  \* two analytics tasks at once
  Setting({Ledger(Weak("n1"), Good("n1"), SlipOf("n2"))}, {"r1", "r2"}, {"w1", "w2"},
          {"prepare"}, {}, {}, {}, 0, 2),
  \* plans and blueprints up to a reassessment, whose attempt is published twice
  Setting({Ledger(Weak("n1"), Good("n1"), Good("n1"))}, {"r1", "a1", "a2"}, {"w1"},
          {"rebuild"}, {"plan", "blueprint", "APPROVED", "REJECTED", "instantiate"}, {"p1"}, {"t1"}, 0, 1),
  \* generation fails, or dies
  Setting({Ledger(Weak("n1"), Weak("n2"), Good("n1"))}, {"r1"}, {"w1"},
          {"error"}, {"plan", "blueprint", "APPROVED", "REJECTED"}, {"p1"}, {"t1"}, 0, 2),
  Setting({Ledger(Weak("n1"), Weak("n2"), Good("n1"))}, {"r1"}, {"w1"},
          {"crash"}, {"plan", "blueprint", "APPROVED", "REJECTED"}, {"p1"}, {"t1"}, 0, 1),
  \* two workers, with an edited curriculum and approvals, and with every decision
  Setting({Ledger(Weak("n1"), Weak("n2"), Good("n1"))}, {"r1"}, {"w1"},
          {}, {"plan", "blueprint", "APPROVED"}, {"p1", "p2"}, {"t1"}, 1, 1),
  Setting({Ledger(Weak("n1"), Weak("n2"), Good("n1"))}, {"r1"}, {"w1"},
          {}, {"plan", "blueprint", "APPROVED", "REJECTED"}, {"p1", "p2"}, {"t1"}, 0, 1),
  \* decisions about plans of an edited curriculum
  Setting({Ledger(Weak("n1"), Weak("n2"), Good("n1"))}, {"r1"}, {"w1"},
          {}, {"plan", "blueprint", "APPROVED", "REJECTED"}, {"p1"}, {"t1"}, 1, 1),
  \* two teachers
  Setting({Ledger(Weak("n1"), Weak("n2"), Good("n1"))}, {"r1"}, {"w1"},
          {}, {"plan", "blueprint", "APPROVED", "REJECTED"}, {"p1"}, {"t1", "t2"}, 0, 2),
  \* plans of a submission that is published again
  Setting({Ledger(Weak("n1"), Weak("n2"), Good("n1"))}, {"r1", "r2"}, {"w1"},
          {}, {"plan"}, {"p1"}, {}, 0, 1)}

MCTargetOf == [g1 |-> "n1", g2 |-> "n2"]
NoPath == [editors |-> {}, deletes |-> FALSE, profiles |-> {}, edges |-> 0]
MCPathSettings == {NoPath,
  [editors |-> {"e1"}, deletes |-> FALSE, profiles |-> Profiles, edges |-> 2],
  [editors |-> {"e1"}, deletes |-> FALSE, profiles |-> Profiles \ {"execution"}, edges |-> 3],
  [editors |-> {"e1", "e2"}, deletes |-> TRUE, profiles |-> {"concept"}, edges |-> 2]}

NoLibrary == [requests |-> {}, edits |-> FALSE]
MCLibrarySettings == {NoLibrary, [requests |-> {"q1"}, edits |-> TRUE],
                      [requests |-> {"q1", "q2"}, edits |-> FALSE]}

MCMarks == [a1 |-> [q1 |-> 1, q2 |-> 2], a2 |-> [q1 |-> 0, q2 |-> -1], a3 |-> [q1 |-> -1, q2 |-> -1]]
Clerking(clerks, edits_, sets_, maps, publishes, clusters_, cohort_) ==
  [clerks |-> clerks, edits |-> edits_, sets |-> sets_, maps |-> maps, publishes |-> publishes,
   clusters |-> clusters_, cohort |-> cohort_]
NoOutcomes == Clerking({}, FALSE, 0, {}, {}, FALSE, {})
MCOutcomeSettings == {NoOutcomes,
  Clerking({"c1"}, TRUE, 2, {<<"q1", "o1">>, <<"q2", "o1">>}, {}, FALSE, {"a1", "a2", "a3"}),
  Clerking({"c1"}, TRUE, 1, {<<"q1", "o1">>}, {}, FALSE, {"a3"}),
  Clerking({"c1", "c2"}, TRUE, 1, {<<"q1", "o1">>}, {{"a1", "a2"}}, FALSE, {"a1"}),
  Clerking({"c1", "c2"}, FALSE, 0, {}, SUBSET Published, TRUE, {})}

Calibrating(callers, start, cases_, scores, publishes, psychometrics) ==
  [callers |-> callers, start |-> start, cases |-> cases_, minimum |-> 2, scores |-> scores,
   publishes |-> publishes, psychometrics |-> psychometrics, cohort |-> Published]
NoQuality == Calibrating({}, "NONE", {}, {}, {}, FALSE)
MCQualitySettings == {NoQuality,
  Calibrating({"q1"}, "DRAFT", {}, {0}, {}, FALSE),
  Calibrating({"q1"}, "ACTIVE", {<<"a1", "q1">>, <<"a1", "q2">>, <<"a2", "q1">>}, {0, 1}, {}, FALSE),
  Calibrating({"q1", "q2"}, "ACTIVE", {<<"a1", "q1">>, <<"a1", "q2">>}, {0, 2}, {}, FALSE),
  Calibrating({"q1", "q2"}, "NONE", {}, {}, SUBSET Published, TRUE)}

\* At most one of the parts is on; the clusters are on when the others are off.
PartsOn == {p \in {<<"mastery", msetting # NoMastery>>, <<"path", psetting # NoPath>>,
                   <<"library", lsetting # NoLibrary>>, <<"outcomes", osetting # NoOutcomes>>,
                   <<"quality", qsetting # NoQuality>>} : p[2]}
pathVars == <<edges, editor, profile, phase, targets, path, psetting>>
libraryVars == <<resource, assigned, request, answers, lsetting>>
outcomeVars == <<outcome, sets, cohort, reports, clusters, clerk, osetting>>
clusterVars == <<similar, parent, pending, stage>>
qualityVars ==
  <<psychometric, effective, calibration, cases, raters, response, icc, rated, caller, qsetting>>
AllVars == <<vars, pathVars, libraryVars, outcomeVars, clusterVars, qualityVars>>

MCInit ==
  /\ Init /\ P!PathInit /\ L!LibraryInit /\ O!OutcomeInit /\ Q!QualityInit
  /\ Cardinality(PartsOn) <= 1
  /\ C!ClusterInit(PartsOn = {})
MCNext ==
  \/ Next /\ UNCHANGED <<pathVars, libraryVars, outcomeVars, clusterVars, qualityVars>>
  \/ P!PathNext /\ UNCHANGED <<vars, libraryVars, outcomeVars, clusterVars, qualityVars>>
  \/ L!LibraryNext /\ UNCHANGED <<vars, pathVars, outcomeVars, clusterVars, qualityVars>>
  \/ O!OutcomeNext /\ UNCHANGED <<vars, pathVars, libraryVars, clusterVars, qualityVars>>
  \/ C!TakePair /\ UNCHANGED <<vars, pathVars, libraryVars, outcomeVars, qualityVars>>
  \/ Q!QualityNext /\ UNCHANGED <<vars, pathVars, libraryVars, outcomeVars, clusterVars>>
MCSpec == MCInit /\ [][MCNext]_AllVars /\ Fairness

\* The properties of the parts, for the configuration to name.
MCTypeOK == TypeOK /\ P!PathTypeOK /\ L!LibraryTypeOK /\ O!OutcomeTypeOK /\ C!ClusterTypeOK /\ Q!QualityTypeOK
RecommendedNeverBlocks == P!RecommendedNeverBlocks

\* Paths reach every gap in the order of the curriculum; assignments, reports
\* and clusters agree with what they were made from.
RecordsAgree ==
  /\ P!OneEditorNoCycle /\ P!PrerequisitesFirst /\ P!EveryGapHasStep
  /\ L!OneAssigned /\ L!RaceIsAnswered
  /\ O!OneActiveSet /\ O!ReportsAreReproducible /\ O!AttainmentIsARatio
  /\ O!OneReportPerInput /\ O!ClustersHaveACohort /\ C!ClustersAreComponents
  /\ Q!OneRunPerCohort /\ Q!ClosedIsMeasured /\ Q!PerfectIsAgreement

\* What was decided or taken as a baseline is not changed by what comes later.
DecisionsStay ==
  BaselineStays /\ ApprovedStays /\ ApprovedWasOwn /\ L!AssignmentFits /\ Q!CalibrationStays

\* Plans and analytics tasks end.
LearningWorkEnds == MaterializationEnds /\ PlanSettles
=============================================================================
