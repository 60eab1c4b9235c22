---------------------------- MODULE MCOperations ----------------------------
(***************************************************************************)
(* What surrounds the evaluation, in one run: the webhook outbox, identity *)
(* federation, grade passback and roster, and the grading pools with their *)
(* grievances.  A behaviour belongs to one of them: the settings of the    *)
(* others let nothing happen.                                              *)
(***************************************************************************)
EXTENDS Webhooks, GradingOps

CONSTANTS
  Browsers, Directories, Subjects, Emails, MaxUsers, MaxLogins, MaxWrites, FederationSettings,
  Members, MaxVersions, MaxRequests, MaxLaunches, PassbackSettings

VARIABLES
  provider, user, identity, login, marker, code, token, dead, cred, writes, fsession, fsetting,
  result, student, mapping, lineitem, passback, gradebook, taken, calls, psession, psetting

F == INSTANCE IdentityFederation
       WITH session <- fsession, setting <- fsetting, Settings <- FederationSettings
P == INSTANCE GradePassback
       WITH row <- passback, session <- psession, setting <- psetting, Settings <- PassbackSettings

ASSUME GradingAssumption == GradingConstants

One(S) == {CHOOSE x \in S : TRUE}

-----------------------------------------------------------------------------
Hooks(workers, events, called, faults) ==
  [workers |-> workers, events |-> events, calls |-> called, faults |-> faults]
NoHooks == Hooks({}, {}, {}, {})
MCSettings == {NoHooks,
  Hooks(One(Workers), One(Events), {}, {"refused", "timeout", "crash"}),
  Hooks(Workers, One(Events), {}, {"refused", "crash"}),
  Hooks(One(Workers), Events, {}, {"refused"}),
  Hooks(Workers, One(Events), {"update"}, {"refused"}),
  Hooks(One(Workers), One(Events), {"retry"}, {"refused"})}

SignIn(called, clients, kinds, subjects, linking) ==
  [calls |-> called, clients |-> clients, linking |-> linking, kinds |-> kinds,
   subjects |-> subjects]
NoSignIn == SignIn({}, {}, {}, {}, FALSE)
OneEach == One(Browsers) \cup One(Directories)
MCFederationSettings == {NoSignIn,
  SignIn({"login"}, Browsers, {"OIDC", "IDP"}, One(Subjects), TRUE),
  SignIn({"login"}, Browsers, {"SAML"}, Subjects, FALSE),
  SignIn({"login", "expire"}, OneEach, {"OIDC"}, One(Subjects), TRUE),
  SignIn({"login", "provider"}, OneEach, {"OIDC"}, One(Subjects), FALSE),
  SignIn({"login", "directory"}, OneEach, {"OIDC"}, One(Subjects), TRUE),
  SignIn({"directory", "credential"}, Directories, {}, {}, FALSE)}

Platform(called, clients, faults, enrolled) ==
  [calls |-> called, clients |-> clients, faults |-> faults, enrolled |-> enrolled]
NoPlatform == Platform({}, {}, {}, FALSE)
MCPassbackSettings == {NoPlatform,
  Platform({"sync"}, Requests, {}, FALSE),
  Platform({"publish", "launch", "sync", "passback"}, One(Requests), {"refused"}, FALSE),
  Platform({"publish", "launch", "passback"}, Requests, {"refused", "timeout"}, TRUE)}

Grading(called, clients, pools, results) ==
  [calls |-> called, pools |-> pools, published |-> results, clients |-> clients]
NoGrading == Grading({}, {}, {}, FALSE)
MCGradingSettings == {NoGrading,
  Grading({"pools", "allocate", "assign", "work", "review"}, Requests, One(Pools), FALSE),
  Grading({"pools", "allocate"}, Requests, Pools, FALSE),
  Grading({"pools", "allocate", "work", "review", "escalate"}, One(Requests), One(Pools), FALSE),
  Grading({"pools", "allocate", "work", "review", "moderate"}, One(Requests), One(Pools), FALSE),
  Grading({"grievance", "resolve", "moderate", "review", "publish"}, One(Requests), {}, TRUE),
  Grading({"grievance"}, Requests, {}, TRUE)}

-----------------------------------------------------------------------------
PartsOn == {p \in {<<"hooks", setting # NoHooks>>, <<"sign-in", fsetting # NoSignIn>>,
                   <<"platform", psetting # NoPlatform>>, <<"grading", profile # NoGrading>>} : p[2]}
federationVars ==
  <<provider, user, identity, login, marker, code, token, dead, cred, writes, fsession, fsetting>>
passbackVars ==
  <<result, student, mapping, lineitem, passback, gradebook, taken, calls, psession, psetting>>
AllVars == <<vars, federationVars, passbackVars, gradingVars>>

MCInit == Init /\ F!Init /\ P!Init /\ GradingInit /\ Cardinality(PartsOn) = 1
MCNext ==
  \/ Next /\ UNCHANGED <<federationVars, passbackVars, gradingVars>>
  \/ F!Next /\ UNCHANGED <<vars, passbackVars, gradingVars>>
  \/ P!Next /\ UNCHANGED <<vars, federationVars, gradingVars>>
  \/ GradingNext /\ UNCHANGED <<vars, federationVars, passbackVars>>
MCSpec == MCInit /\ [][MCNext]_AllVars /\ Fairness

-----------------------------------------------------------------------------
\* The properties of the parts, for the configuration to name.
MCTypeOK == TypeOK /\ F!TypeOK /\ P!TypeOK /\ GradingTypeOK
SignInsAreSafe == F!SignInsAreSafe
PassbackIsFaithful == P!PassbackIsFaithful
=============================================================================
