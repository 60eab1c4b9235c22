# Formal models of the EduVijna paper-evaluation platform

EduVijna marks scanned answer papers. Teachers author an assessment; a submission
is normalised into pages, matched to a student, mapped to questions, transcribed,
and evaluated by rules and AI providers into a *ledger* of proposed scores; the
ledger is reviewed, moderated, finalised and published; the published answers feed
mastery, learning plans, reassessments, outcome reports and calibration, and leave
the platform as webhooks and grades. The API is FastAPI over async SQLAlchemy and
PostgreSQL; long work runs in Celery tasks; files live in an S3-compatible store.
This directory models the state machines of all of these, checks them with TLC,
and proves theorems about seven of them with TLAPS.

Contents: [1 Inventory](#1-inventory), [2 Modules](#2-modules),
[3 How the code is modelled](#3-how-the-code-is-modelled),
[4 Runs](#4-runs), [5 What the code does not keep](#5-what-the-code-does-not-keep),
[6 Proofs](#6-proofs), [7 Not modelled](#7-not-modelled), [8 Plan](#8-plan).
Paths below are relative to `src/apps/api/app` unless they start with `src/` or
`docs/` (`src/docs/`).

## 1 Inventory

State is in PostgreSQL rows; the process keeps none between requests. Every
component is a service module called by an API router or by a task.

| Component | State | Operations | What makes it correct |
|---|---|---|---|
| Intake (`services/page_normalization.py`, `identity_ai.py`, `mapping_prepare.py`, `mapping_ai.py`, `transcription.py`, `crop_generation.py`, `api/v1/submissions.py`, `mapping.py`, `transcription.py`) | `submissions`, pages, regions, mappings and their links, transcriptions, `pipeline_jobs` | upload, normalise, identify, map, draw and edit regions, transcribe, confirm, finalise | evidence agrees with the source and the language it was made from; nothing a person wrote is lost; READY only when every leaf is confirmed; processing ends |
| Evaluation pipeline and ledger (`services/evaluation.py`, `api/v1/evaluation.py`) | `evaluation_runs`, `question_evaluations`, `criterion_evaluations`, `review_actions` | prepare, the drafting task, accept, override, feedback, escalate, finalize | one active run; drafts all or nothing; scores only by review; complete runs fully scored; versions count overrides |
| Moderation (`services/enterprise_ops.py`) | `moderation_policies`, `_stages`, `_cases`, `_actions` | activate, retire, case creation by finalize, decide | every stage approved; no case is stuck |
| Grading pools and grievances (`services/enterprise_ops.py`, `grading_access.py`) | `grading_pools`, members, `grading_work_items`, `grievance_cases` | create, activate, allocate, assign, start, submit, close; create, accept, reject, resolve | one active item per row; even shares from active pools; one live run; a regrade supersedes the run |
| Publication (`services/publication.py`) | `published_results`, artifacts in the store | prepare, regenerate, the rendering task, publish | immutable versions; what is published matches the ledger |
| Object store (`services/storage.py`) | objects by key | raw, derived and export writes, reads | raw and export keys are written once |
| Tasks (`tasks/celery_app.py`) | Redis queue, `pipeline_jobs` | enqueue, run | safe to retry (ADR-004) |
| Webhooks (`services/webhooks.py`) | `outbound_events`, `webhook_deliveries`, attempts | record in the publishing transaction, deliver, retry, disable | at least once, bounded attempts, no event lost |
| Identity federation (`services/oidc_sso.py`, `saml_sso.py`, `enterprise_identity.py`, `scim.py`, `integration_credentials.py`) | users, external identities, login transactions, replay markers, exchange codes, credentials | sign-in, exchange, SCIM writes, rotate, revoke | an answer signs in once; a deactivated user's tokens are dead; identities stay bound |
| Passback, roster, LTI (`services/grade_passback.py`, `roster.py`, `lti.py`) | `grade_passback_records`, roster mappings, line items | sync, launch, send | DELIVERED means taken; the gradebook follows publication |
| Analytics and mastery (`services/analytics.py`, `b12_materialization.py`, `b12_algorithm.py`, `mastery_derivation.py`) | evidence, node states, snapshots, jobs | ensure at publish, materialise, rebuild | derived from exactly the results in force |
| Learning (`services/learning.py`, `learning_algorithm.py`, `curriculum.py`, `resources.py`, `reassessment.py`) | plans, blueprints, prerequisite edges, resources, assignments, reassessments | prepare, generate, approve, assign, instantiate | one READY plan; prerequisites first; what was approved is what is used |
| Outcomes (`services/outcome_intelligence.py`, `cluster_math.py`) | mapping sets, attainment reports, cluster runs | map, activate, report, cluster | reports reproducible from what their hash names |
| Authoring (`services/authoring_ai.py`, `readiness.py`, `academic_freeze.py`, `api/v1/curriculum_assessment.py`) | versions, questions, keys, rubrics, criteria, mappings, AI runs | edit, propose, apply, approve, transition | READY means complete; nothing approved changes after use |
| Quality (`services/quality.py`, `quality_stats.py`) | psychometric runs, calibration sessions, responses, metrics | ensure, activate, respond, close | one run per cohort; closed sessions measured; agreement computed right |
| Benchmarks, AI providers, text and layout helpers, web client | their own rows or none | | section 7 |

Interactions: routers call a service and commit; prepare endpoints commit a job
and then enqueue its task; a task opens a session of its own and enqueues the
next one after its commit; finalize creates or re-opens a moderation case in its
transaction; publish writes the analytics job and the outbound event in its
transaction and enqueues afterwards; an accepted grievance copies the run,
supersedes the old one and sends the submission back to review; evidence of
published results feeds plans, and a plan's approved blueprint becomes a
reassessment whose submission is bound back to it.

The hard behaviour is concurrency over rows that are read without locks. Only
evaluation prepare (submission), decide (case), allocation (pool and run) and the
delivery of webhooks lock what they read. Tasks are acknowledged when taken, may
be enqueued twice, and may start late; failure branches write rows that have
moved on; external requests are sent inside the transaction that records them.
`PROJECT.json` lists the forty hazards that matter most by line, with the
properties that cover each; section 5 describes what happens in the others.

## 2 Modules

| Module | What it is |
|---|---|
| `UnitOfWork` | `FlushColumn`: what a SQLAlchemy flush does to one column |
| `EvaluationLedger` | prepare, the drafting worker, review, finalize, moderation |
| `ExtremaLemmas`, `EvaluationLedgerProofs` | facts about `Min` and `Max`; the theorems about `EvaluationLedger`, with any number of sessions and with one at a time |
| `Publication` | versions of the published result, the rendering worker, publish, with the ledger's steps taken whole |
| `PublicationProofs` | the theorems about `Publication` |
| `SubmissionIntake` | upload, normalisation, identity and mapping tasks, the session and commit machinery of intake |
| `AnswerEvidence` | extends it with regions, mappings, crops, transcription and their review; the specification of intake |
| `AnswerEvidenceProofs` | the theorems about intake |
| `GradingOps` | pools, work items, moderation's effect on them, grievances with the copied run |
| `GradingOpsProofs` | the theorems about `GradingOps` |
| `WebhookOutbox` | the abstract promise of the outbox |
| `Webhooks` | events, deliveries, workers with SKIP LOCKED, manual retries; implements `WebhookOutbox` |
| `WebhooksProofs` | the theorems about `Webhooks`: the refinement, and that attempts, receipts, deliveries and events agree |
| `IdentityFederation` | sign-in, replay markers, codes, SCIM, the integration credential |
| `GradePassback` | results, roster, launch, passback and the gradebook outside |
| `MasterySignals` | what one answer says about a node, and how signals aggregate (pure) |
| `Mastery` | the analytics job, evidence, states, snapshots, reassessment outcome |
| `LearningPlans` | extends it with plans, blueprints, their tasks and decisions, instantiation |
| `LearningProofs` | the theorems about `Mastery` and `LearningPlans` |
| `LearningPath` | prerequisite editing and the path algorithm, target by target |
| `ResourceAssignments` | resources and their assignment |
| `OutcomeReports`, `AnswerClusters` | mapping sets, reports and cluster runs; the union-find |
| `Quality` | psychometric runs, the calibration session, the agreement coefficient |
| `AssessmentAuthoring` | an assessment's tables, the teachers' handlers, readiness and freeze |
| `AuthoringAi` | extends it with AI runs, the four pipelines, edit and apply |
| `AuthoringProofs` | the theorems about both |
| `MC...` | the instances for TLC; `MCOperations` and `MCLearning` combine components |

Composition. `AnswerEvidence` extends `SubmissionIntake`, `LearningPlans` extends
`Mastery`, `AuthoringAi` extends `AssessmentAuthoring`: in each pair the second
works on the first's tables and the next-state relation is theirs together.
`MCOperations` and `MCLearning` put components that do not share rows into one
run: a behaviour belongs to one of them, because Init switches exactly one on (at
most one in `MCLearning`), so each is explored alone and none hides in the product.

### EvaluationLedger

One submission that has passed intake. The variables are the rows:
`workflow_state`, `run[n]` (status by run number), `ledger[n][l]` (the
`question_evaluations` row of a leaf with the sum of its criterion finals in
`marks`, which an override that leaves criteria out may set to another number than
the score), `reviews[n][l]` (its `review_actions`), `job[n]`, `tasks[n]` (copies of
the job's task in the broker), `policy`, `cases[c]`, `decisions[c]`, and what each
session holds in memory (`request[q]`, `worker[w]`).

| Action | Code |
|---|---|
| `PrepareRead`, `PrepareLocked`, `Enqueue`, `EnqueueLost` | `prepare_evaluation` up to the lock, from the lock to the commit, and the enqueue after it |
| `WorkerTake`, `WorkerClaim`, `WorkerFinish`, `WorkerDuplicate`, `WorkerFail`, `WorkerError`, `WorkerCrash` | `run_evaluation_pipeline`: its reads, its first flush (row locks from here), its commit, the unique violation of a second delivery, the except branch, an error, the death of the process |
| `Accept`/`Override`/`Feedback`/`EscalateQuestionEvaluation`, `ReviewCommit` | the guards and assignments of each handler, and the flush and commit |
| `FinalizeRead`, `FinalizeApprove`, `FinalizeModerate` | `finalize_evaluation` and `ensure_moderation_case_for_run` |
| `ActivateModerationPolicy`, `RetireModerationPolicy` | the policy's two transitions |
| `DecideRead`, `DecideReturn`, `DecideReject`, `DecideApproveStage`, `DecideApproveFinal` | `decide_moderation`: its guards under the case lock, and its four outcomes |

### Publication

The same submission after finalisation. The ledger is what
`load_approved_ledger_snapshot` would return: the newest run, a `score` that
stands for the reviewed content, and whether a snapshot can be taken (`ready`).
Two snapshots have the same SHA-256 exactly when run and score agree. `results[v]`
are the versions, `store[v][a]` the attempt whose bytes are stored under the key of
artifact `a` of version `v`. `PrepareRead`/`RegenerateRead`/`CreateResult`/`Enqueue`
are the two ways to a version; `WorkerTake` to `WorkerFinish`/`WorkerFail` are
`run_publication_pipeline`, whose first commit (`WorkerStart`) comes before the
rendering; `WorkerExists` and `WorkerPut` are the two requests of
`put_export_bytes`; `PublishRead`/`PublishCommit` are `publish_result`.
`Override`, `CreateGrievance`, `AcceptGrievance` and `Finalize` are the ledger's
steps, whole; like the handler, `Override` has no guard on the submission, so a row may
be overridden after publication.

### SubmissionIntake and AnswerEvidence

`db` is the committed database of one paper: the submission, its pages, regions,
mappings, links and transcriptions; `raw` says whether the source is in the object store. A handler's read
puts the rows it read and the rows as it changed them into its session; `Commit`
writes the columns that differ and fails when a unique or foreign key is broken
by then, which is where two reviewers meet. `Take` delivers a task of one of the
four stages, a task commits twice (RUNNING, then its outcome) and keeps the
submission it read before the first commit; `CommitFails`, `TaskFails`, `Crash` and
`UploadStoreFails` are its failures. A region's geometry is one of two boxes, a
language one of two supported pairs or an unsupported one.

### GradingOps

Pools with members, runs with a row per question, work items, one published
result and its grievances. `request[q]` is the change a handler has read for and will commit, with
the pool and the run whose rows it has locked: `Allocate` locks both until
`CommitItems`, `AssignManual` the pool; the others read without a lock. `Review`, `Escalate`, `ModerationReturns`, `ModerationApproves` and `Publish`
are the steps of other components by their effect on the items. Accepting a
grievance reads twice, copies the run and supersedes the original.

### Webhooks and WebhookOutbox

A worker (`DeliverDue`) locks every due delivery it can get, attempts them one by
one (`Attempt`: answered, refused, or a request whose answer is lost;
`AttemptDisabled`), and commits once. An operator's `RetryRead` reads without a
lock, `RetryLock` waits for the row at its first flush, and the attempt goes on
with what was read. `received[d]` counts what the endpoint outside has taken.
`Elapse` is the time until a delivery is due. In `WebhookOutbox` a delivery is
ABSENT, WAITING, SUCCEEDED or FAILED, and it is known whether its endpoint took it;
`Phase` maps PENDING, RETRYING and a row an operator holds to WAITING.

### IdentityFederation, GradePassback

An assertion is a number with the subject and email it names; OIDC, SAML and
IdP-initiated sign-ins end in a marker, an exchange code and a token with the
user's `auth_version`. SCIM creates, updates, activates and binds; the credential is
rotated and revoked. In `GradePassback` a result is known by its version, a
passback row by the version it sends, the gradebook holds what the platform took
last; a launch may change the line item, a roster sync the student's mapping.

### Mastery, LearningPlans, LearningPath, ResourceAssignments

`Mastery` identifies a row of evidence or state by the results it was computed
from; what an answer says is `MasterySignals`. `LearningPlans` binds a plan and its
blueprints to the evidence and graph they hash; a worker reads the older READY plans
(`PlanWrite`) before the commit that supersedes those (`PlanCommit`). `LearningPath` grows the graph by
edits, then builds the path target by target as `build_learning_plan_structure` does.
`ResourceAssignments` follows one student and the moves of `resources.py`.

### OutcomeReports, AnswerClusters, Quality

The hash of a report is what it was computed from. `AnswerClusters` takes the
similar pairs in any order and maintains the parents of the code's union-find with
path halving; its property compares with the components of the relation. `Quality`
computes the absolute-agreement coefficient in exact integers (sums of squares over
a common denominator).

### AssessmentAuthoring, AuthoringAi

`db[table][id]` are the rows; a session's transaction says of every table what it inserts,
updates (only the columns that change) and deletes. `Commit` applies it whole, cascades
included, or rejects it when a unique index or a reference is broken. `ReadyIsComplete` compares with the ranges of the
marks a rubric can give, computed independently of the code's reconciliation.

## 3 How the code is modelled

*Sessions.* A handler reads committed rows, decides, and commits. The reads up to
its guards are one step and its commit another; anything may happen in between.
`db/session.py` opens sessions with `expire_on_commit=False`, PostgreSQL runs READ
COMMITTED, and no mapped class has a version counter, so a flush sends
`UPDATE ... SET` for the columns whose value differs from the loaded one.
`FlushColumn(loaded, staged, current)` is that merge. Unique indexes and foreign
keys are checked at the commit.

*Locks.* A row is locked where the code says `with_for_update()` or flushes before
its commit: the submission in prepare (its locked part is a single step), job and
run rows of a worker past its first flush (`RunRowFree`, `JobRowFree`), the case in
decide (`CaseRowFree`), the pool in allocation and assignment (`PoolFree`),
deliveries (`owner`), the run of an authoring task (`Holds`). The locked SELECT of
prepare returns the object the session already holds without refreshing it
(SQLAlchemy refreshes only with `populate_existing`), so the state re-checked
there is the one read before.

*Uncommitted statuses.* RUNNING of an evaluation run and IN_PROGRESS of a case are
assigned and replaced inside one transaction; no other session sees them, so they
are not values of the models.

*Data.* A leaf's evaluation is the draft it leaves: a state and a proposed score
out of the constant `Drafts`. Marks are small naturals (the columns are
`Numeric(10,4)`; no property depends on fractions, and the rounding of floats in
the statistics is outside the models). Of an override's `criterion_finals` the models
keep whether there are none, whether they name every criterion once, or otherwise (`SOME`):
then the criteria left out keep their finals and the sum is any number they allow. VALID_ALTERNATIVE is an override. Mapping weights of outcomes are 1.
Texts, hashes (by what they were computed from), timestamps and audit events are
left out; so are two columns no decision reads: the copy of a transcription kept in its
region (`transcription.py:448`, `:771`), and the status of a recommendation, which no
code takes out of ACTIVE. Every leaf of an evaluated assessment has an approved key and
rubric, so a leaf that fails to be scored always gets its stub row
(`evaluation.py:1137`). In `Mastery` results are prepared, not regenerated: the version a
publish supersedes is the submission's published one.

*Reviewers and roles.* In `EvaluationLedger` no grading pool governs the
assessment, so every user with the permission may review (the "Legacy path" of
`grading_access.py`); `GradingOps` has the owners. `RoleHolders[s]` are the users
whose roles may decide stage `s`. There is one moderation policy, created with its
stages before the run.

*Instances.* The `Max...` constants bound versions, runs, items, tasks, attempts,
edits and faults; they sit in guards only. In the ledger and publication modules
`Endpoints` says which endpoints clients call and `Faults` which faults may happen.
The later modules have a variable `setting` (`msetting`, `psetting`, `profile`, ...) that Init
chooses from the constant `Settings` and no step changes: which endpoints are called, by
how many sessions at once, with which faults, from which start. One run then
explores every setting of its MC module, and a property that needs one client at a
time says so by a condition on the setting. Each such condition is a fact about the
code that section 5 spells out.

*Fairness.* `FairSpec` asks for weak fairness of the steps of a session past its
guards and of a worker: the API process and the Celery workers run what they have
started, and a worker that is up takes tasks from a non-empty queue. Intake has
strong fairness of `Take(w, s)`, a task of each stage, because the broker is first
in, first out while tasks of other stages come and go. Webhooks add the beat and
the passing of time until a delivery is due. No client is obliged to call
anything, no request to succeed, and faults are never fair.

## 4 Runs

The states are distinct states found, after symmetry where the configuration names one.

| Run | Instance | Checks | States |
|---|---|---|---|
| `ledger_review` | 3 sessions, 1 row, all review endpoints and finalize | `TypeOK`, `ScoredWhenReviewed`, `FinalScoreHasReview` | 423 k |
| `ledger_serial` | 1 session, 3 users, 1 row, every endpoint, a policy of stages 2 and 3, 3 decisions, one fault of any kind | `LedgerMatchesReviews`, `ModerationHasCase`, `ApprovedMeansCompleted`, `OnlyPartialFinalsDrift` | 247 k |
| `ledger_pipeline` | fair; 3 sessions, 2 workers, 2 leaves, 3 runs, 2 errors | `OneActiveRun`, `LedgerAllOrNothing`, `ProposalPreserved`, `EvaluatingEnds` | 3.9 k |
| `ledger_moderation` | 2 sessions, 3 users, 2 stages, 4 decisions | `EveryStageApproved`, `CompletedRunFullyScored` | 722 k |
| `publication_races` | 2 requests, 2 workers, 2 artifacts, a crash | `TypeOK`, `ReleasedHasArtifacts`, `VersionImmutable` | 543 k |
| `publication_serial` | fair; 1 request, 1 worker, overrides at any time, regrades, grievances, regenerations, an error | `PublicationShowsLedger`, `GeneratingEnds` | 866 k |
| `intake` | fair; 1 paper, 1 region, 1 question, 1 worker, 10 settings with 1 or 2 reviewers and every fault | `TypeOK`, `EvidenceAgrees`, `ReviewCounts`, `IntakeEnds` | 230 k |
| `operations` | fair; 5 settings of webhooks, 6 of federation, 3 of passback, 6 of grading | `MCTypeOK`, `DeliveriesAgree`, `WorkIsOwned`, `RefinesOutbox`, `DeliveryEnds`, `SignInsAreSafe`, `PassbackIsFaithful`, `DealtWhileActive` | 263 k |
| `learning` | fair; 12 groups of settings of mastery and plans, 3 of paths, 2 of resources, 4 of outcomes, 4 of quality, clusters of 4 answers | `MCTypeOK`, `MasteryFollowsEvidence`, `PlansAreSound`, `RecordsAgree`, `DecisionsStay`, `LearningWorkEnds` | 277 k |
| `authoring` | 1 or 2 teachers, 0 to 2 workers, 19 settings from 9 starting databases | `TypeOK`, `MaterialIsComplete`, `FreezeHolds`, `AppliedWholeAndOnce` | 314 k |
| `finding_two_published` | 1 request, 1 worker | violates `OnePublished` | |
| `finding_superseded_evidence` | the instance of `learning` | violates `PlanFromPublished` | |

The properties of the later modules are conjunctions of named parts; each part has
its own comment at its definition.

| Property | Parts |
|---|---|
| `EvidenceAgrees` | `SourceIsStored`, `LinkedRegionsExist`, `OneActiveOfEachSource`, `TranscribedInItsLanguage` |
| `ReviewCounts` | `FinalizedMappingComplete`, `ReadyHasConfirmed`, `HumanEvidenceKept` |
| `IntakeEnds` | `ProcessingEnds`, `TranscriptionEnds` |
| `DeliveriesAgree` | `AttemptLogMatches`, `ExactlyOnce`, `DeliveredMeansAll`, `EventStateAgrees` |
| `WorkIsOwned`, `DealtWhileActive` | `OneActiveItem`, `SubmittedIsReviewed`, `OneLiveRun`, `RegradeSupersedes`; `NoWorkFromClosedPool`, `SharesEven` |
| `SignInsAreSafe` | `SignInAnsweredOnce`, `DeactivationEndsTokens`, `OneScimIdentity`, `IdentityStays`, `RevokeOutlivesRotation` |
| `PassbackIsFaithful` | `DeliveredWasTaken`, `GradebookFollows`, `RosterMatches`, `DeliveredStays` |
| `MasteryFollowsEvidence` | `StateFollowsResults`, `TrendEndsAtState`, `WeaknessIsEvidenced`, `OutcomeIsOfAttempt` |
| `PlansAreSound` | `OneReadyPlan`, `ReassessmentIsApproved` |
| `RecordsAgree` | `OneAssigned`, `RaceIsAnswered`; `OneActiveSet`, `ReportsAreReproducible`, `AttainmentIsARatio`, `OneReportPerInput`, `ClustersHaveACohort`, `ClustersAreComponents`; `OneRunPerCohort`, `ClosedIsMeasured`, `PerfectIsAgreement`; `OneEditorNoCycle`, `PrerequisitesFirst`, `EveryGapHasStep` |
| `DecisionsStay` | `BaselineStays`, `ApprovedStays`, `ApprovedWasOwn`, `AssignmentFits`, `CalibrationStays` |
| `LearningWorkEnds` | `MaterializationEnds`, `PlanSettles` |
| `MaterialIsComplete` | `ReadyIsComplete`, `ParentsAreATree` |
| `FreezeHolds` | `LeafMaterialStays`, `ConfigurationStays`, `ApprovedIsImmutable` |
| `AppliedWholeAndOnce` | `AppliedTreeIsWhole`, `AppliedOnce` |

Why the bounds are enough: the races need two sessions on one row, and where a
third is affordable it brought no new one; two leaves, questions, endpoints, nodes
or artifacts are the least for which "all" and "some" differ; a case returned once
and re-opened has met every transition; two copies of a task give a duplicate that
runs before, during and after the original; two versions give a supersession; three
topics give a chain and the two halves of a diamond; four answers give components
that meet late; two attempts give a retry that succeeds and one that is the last.

The serial runs and the conditions on settings are not weaker copies of concurrent
claims: those properties fail when sessions race (section 5), and the runs show that
a race is needed. Three of them name what one client can do without a race, and say that
nothing else does it: `OnlyPartialFinalsDrift` that finals and score part only by an
override that leaves criteria out (on rows to which the AI gave marks),
`PublicationShowsLedger` that a published submission becomes stale only by a change of the
ledger after publication, `ModerationHasCase` that the only case nobody can
decide is a returned one, re-opened at a stage 1 the policy does not have.

A liveness property says `[]<>` of an end, that nothing is GENERATING, QUEUED, RUNNING
or open for ever: that is `P ~> ~P` without the second set of states TLC needs for a
leads-to, and lets one search serve every version, job and delivery.

What multiplies states without meeting is divided among settings: criteria are edited
in a first rubric and in the one that follows an approved one; a parse meets a new paper
in one setting, an edited assessment in another and a deleted question in a third; two
planners race with an edited curriculum and a teacher who approves, and with one who
also rejects; regions are
ignored and are created or deleted apart.

The liveness properties are checked without crashes and lost enqueues, except
`DeliveryEnds`, which holds through crashes because the beat comes again. Nothing
else in the code finds a job whose task was lost, so with those faults none of
the others holds, and no document promises otherwise.

`CHECK_DEADLOCK FALSE` everywhere: a system that nobody calls stops.

Every property of a passing run has a mutant of the mapped definitions, defined
beside the definition it replaces and marked `Mutant:`, that breaks it.

## 5 What the code does not keep

Two runs check one statement of a document each, and TLC shows the code breaking
it. `PROJECT.json` quotes the statements.

| Run | What happens |
|---|---|
| `finding_two_published` | publish, regrade, prepare, regenerate, publish: the new version supersedes the one it was regenerated from, and the version published first stays PUBLISHED beside it |
| `finding_superseded_evidence` | a regrade is published; the next plan still takes its gaps from the evidence rows of the superseded result, while the mastery state no longer counts them |

The other behaviours were met in the same models. A name in parentheses is a
definition that states what does not hold; put it into the configuration named and
TLC gives the trace. Nothing here is assumed away silently: where a checked
property has a condition, the case it excludes is in this list.

*Ledger and publication.*
- A stale accept commits over another session's override, with no OVERRIDE on record
  (`NoSilentOverwrite`, `ledger_review`), and two racing overrides count as one version.
- A prepare that waited for the lock while the first run finished creates a second
  and sends a reviewed submission back to EVALUATING (the invariant `PreparesShareRun`,
  `ledger_pipeline` with no faults).
- One client may override a row after publication, and the published version is then not
  the ledger's (`PublishedMatchesLedger`, an invariant for `publication_serial`).
  `override_question_evaluation` does not look at the submission (`evaluation.py:1517-1522`), where
  `docs/architecture/WORKFLOW_STATES.md:208` has "late override ... (before publication
  only)". A publish that read the ledger before another request's override commits
  publishes the old scores as well (`PublicationShowsLedger`, with two requests).
- One client may override with `criterion_finals` that name some of the criteria. The
  named ones must "reconcile to the question score" (`evaluation.py:1565`), the others keep the
  finals of an earlier decision, and the sum is not the score.
- A rendering task left over from a superseded snapshot runs after publication,
  fails, and moves the PUBLISHED submission to APPROVED; a duplicate moves a
  published version back to GENERATING (`PublishedStays`).
- An override without `criterion_finals`, of a row whose proposed marks are zero and
  whose rubric has several criteria, leaves the finals of an earlier decision. Where it
  spreads the score, the last criterion gets what remains, which may be above its maximum.
- A row of an APPROVED submission may be escalated, and no handler takes a row out
  of ESCALATED, though `docs/architecture/WORKFLOW_STATES.md` draws a resolve arrow.
- A failed pipeline leads to EVALUATION_REVIEW without ledger rows, where the same
  document has EVALUATING to FAILED; a duplicate delivery that took its task early and
  claims it late marks a COMPLETED run FAILED.
- A moderator may approve a stage and review a row of the run afterwards; a re-opened
  case starts at stage 1 (`enterprise_ops.py:209`) even when its policy has none
  (`enterprise_ops.py:749` takes any `stage_order`): nobody can decide it, and the
  submission stays in MODERATION_REVIEW.
- Two workers of one version may both find an export key free, and the second
  replaces the object; the version is still not released without its artifacts.

*Intake.*
- A late second transcription task adds an unconfirmed version between finalize's
  read and its commit, or over a confirmed one of a reviewer; the submission is then READY with a
  newest version nobody confirmed. After READY, edits of regions, mappings and
  transcriptions have no guard on the workflow, and `prepare_evaluation` does not look.
- `upsert_question_mapping` deletes links by region, so with two reviewers it takes one
  from a CONFIRMED mapping; `confirm_identity` has no guard on the workflow.
- An identity worker that commits over a confirmation, or a confirmation beside a
  "mark unmatched", leaves the paper in PROCESSING with nothing to run. The mapping
  task has no branch for unexpected errors: its job stays RUNNING.
- A stale crop cannot be resolved while an AI transcription is active. A crash
  between the upload's put and its commit makes every later upload of that file fail.

*Grading and grievances.*
- `assign_work_manual` locks its own pool only: two pools give one row to two graders.
  A returned item and a new allocation give two items. A capacity is stored and
  never read. An activation that races a close re-opens a closed pool.
- Two grievances about one result may pass the duplicate check together and each
  makes a run; `accept_grievance` copies question rows without their criterion rows;
  resolve takes any status and any published result of the tenant.

*Webhooks, federation, passback.*
- A manual retry with a stale `attempt_count` sends its request and then conflicts on
  the unique attempt number; a request is sent before its record is committed, so a
  crash sends it again; the path of a disabled endpoint leaves the event's state
  alone; two concurrent refreshes leave a delivered event PARTIAL; a retry racing a
  disabling and enabling leaves RETRYING with `terminal_failure` set.
- Two exchanges of one code are both answered (no lock at
  `services/enterprise_identity.py:447`); two directory clients bind one user twice,
  or lose an increment of `auth_version`; `scim_create_user` deactivates an existing
  user without the event.
- Two requests may send a grade and its successor in either order, and lose a count of
  attempts; INACTIVE in a later roster leaves the student row active.

*Learning and outcomes.*
- A diamond of RECOMMENDED prerequisites fails the plan, though they are meant not to
  block (`RecommendedNeverBlocks`, `learning`); two editors close a cycle that each alone
  could not; a recommended step may precede the required prerequisites of its node.
- After a FAILED or SUPERSEDED plan, preparing one from the same input meets a unique
  key for ever. A duplicate of a plan's or blueprint's task flips what was READY or approved
  to FAILED; two workers that finish two plans leave both READY; approve and reject
  race, the last wins.
- An attempt that is published again while its task is running leaves an outcome made from
  the superseded result, without its history (`reassessment.py:741`, which does not require
  the snapshots), until the task of the new one has run.
- Two materialisations of one student may finish in the wrong order; snapshot rows of
  superseded results are never deleted; a redelivered task of a superseded result
  turns its SUCCEEDED job FAILED; a dead one leaves RUNNING until the next prepare.
- An update that passed its check before the approval changes an approved resource;
  two replacements of a resource's nodes leave their union. Two activations leave two
  ACTIVE mapping sets; the branch of a raced report runs on a broken session.

*Authoring and quality.*
- A worker reads the assessment's status before it asks the provider and writes
  RUBRIC_REVIEW afterwards, which pulls a READY assessment back. The pipelines never
  check the freeze, which reaches questions that are no leaves of the latest
  version (`ConfigurationFrozen`, `authoring`), and deleting a question takes its approved key
  and rubric along (`ApprovedHistoryStays`, `authoring`).
- A proposal beside an IMPORTED draft meets the unique index, and its handler works on
  a broken session; a duplicate task marks a good run FAILED, or proposes another tree
  while the first one is applied, and the run then says SUCCEEDED of a tree that is not
  the one in the tables; two applies of different trees leave their union; two teachers pass the READY gate with a change
  between, change an approved version by a stale patch, or close a cycle of parents.
- `AssessmentVersion.status` never leaves DRAFT, so the guards on it never refuse.
- An answer that passed the ACTIVE check may be committed after the close and is not
  measured; a case or rater after the activation; a second activation may re-open a
  closed session. `icc_a1` finds identical ratings undefined before the branch that
  would call them perfect.

## 6 Proofs

### EvaluationLedgerProofs

Eight properties of `EvaluationLedger`, for every number of leaves, users, requests,
workers, stages and marks, every bound and every set of drafts that fits
`DraftsAssumption`. The assumptions are those of the module: `MaxMark` and the bounds
are naturals, `NoScore` is not a score, there is a leaf and a stage, stages are
positive, and a PROPOSED draft has a score.

| Theorem | Property |
|---|---|
| `TypeCorrect` | `TypeOK` |
| `ReviewedRowsScored` | `ScoredWhenReviewed` |
| `ScoresHaveReviews` | `FinalScoreHasReview` |
| `CompletedRunsScored` | `CompletedRunFullyScored` |
| `ApprovedCasesComplete` | `EveryStageApproved` |
| `AtMostOneActiveRun` | `OneActiveRun` |
| `ProposalsPreserved` | `ProposalPreserved` (an action property) |
| `LedgersAllOrNothing` | `LedgerAllOrNothing` |

None but the last few is inductive as it stands. The strengthenings:

- `TypeInv` adds that a queued run has a job (or `Max(Jobs)` of a re-enqueue would be
  of an empty set) and that cases which sessions hold exist and have a run.
- `ScoreInv` adds `ReviewsFit`, what an open review session may still do to its row:
  it assigns a score or leaves the score alone, and a row that was scored when it
  was loaded still is. This is the reason stale flushes cannot un-score a row:
  no handler assigns NULL.
- `CompletionInv` carries "fully scored" from the read of finalize
  (`FinalizesFullyScored`) to the moderation case (`CasesFullyScored`) to the run. A row
  may be escalated in between; its score stays, which is all that publication sums.
- `StageInv` says every stage before a case's current one has an approval on record;
  re-opening at stage 1 only makes that weaker.

The proofs go action by action; `NextCases` groups the disjuncts of `Next`.
`ExtremaLemmas` derives what `Min` and `Max` return from well-founded induction on the
naturals.

### EvaluationLedgerProofs, one session at a time

Four properties that fail when sessions race (section 5) hold when they do not.
`OneSession` says that the HTTP requests of the submission follow one another; the
workers, the duplicated tasks, the faults, the rows, users, stages and marks stay as
many as one likes. Each theorem is about `Spec` under that assumption, not
about a smaller specification.

| Theorem | Property |
|---|---|
| `SerialOnlyPartialDrift` | `OnlyPartialFinalsDrift` (an action property) |
| `SerialLedgerMatches` | `LedgerMatchesReviews` |
| `SerialApprovedCompleted` | `ApprovedMeansCompleted` |
| `SerialModerationHasCase` | `ModerationHasCase`, for any stages |

- `RowInv` says that a review under way still has the row it loaded
  (`ReviewsCurrent`), what each endpoint stages of it (`StagedFrom`), and that the row
  agrees with its log: the version counts the overrides, the final score is that of the
  last accept or override. `LedgerMatchesReviews` is `RowsAgree` read off, and
  `OnlyPartialFinalsDrift` follows step by step: an accept or an override without or with all
  criterion finals makes the row reconcile, feedback and escalation keep it (`DriftIsPartial`).
- `LifeInv` is why one session suffices although workers run beside it. The submission
  has at most one run (`OneRun`), the task of that run is in one place, still to be
  enqueued, in the broker or with one worker (`OneTask`), so a worker finds the run
  QUEUED and without rows, and a finalisation or a decision commits onto the run and the
  case it read. `ApprovedMeansCompleted` is a conjunct: it is not inductive alone, since
  a late worker could otherwise take a completed run back.
- `ModerationInv` adds that a case that can be decided is at a stage that exists, or at
  stage 1 with a RETURN on record: re-opening a returned case sets the stage to the number
  1, whatever the stages of the policy. The decisions of a case are only
  appended (`ReturnsKept`).

### PublicationProofs

For every number of requests, workers, versions, artifacts, scores and faults, from
`PublicationBounds` alone (the last one also from `Serial`):

| Theorem | Property |
|---|---|
| `PublicationTypeCorrect` | `TypeOK` |
| `ReleasedAreRendered` | `ReleasedHasArtifacts` |
| `VersionsIssuedOnce` | `VersionImmutable` (an action property) |
| `SerialPublicationShowsLedger` | `PublicationShowsLedger` (an action property), assuming `Serial` |

`ReleasedHasArtifacts` is not inductive: a publish commits on what it read. `FileInv` adds
that the version and the prior version a publish holds have their artifacts
(`PublishesHaveFiles`), that a row with artifacts exists (`FilesIssued`, so no insert can
clear them) and that a worker past its first commit has an attempt number. `RowSteps` says
once what a step may do to a row, and both the invariant and the action property
follow from it: what a late failure or a stale start may still do to a published row
is change its status, never its snapshot or its artifacts.

`PublicationShowsLedger` is false of the concurrent system (section 5), so it is proved for
the serial one: `Serial` says one request and one worker at a time. `SerialInv` says that the
version a worker holds is still one it may process and that the version a publish holds
is still GENERATED, from the current ledger, with the prior still PUBLISHED. From it each
step is shown to keep what is shown (`KeepsShowing`): a worker writes no PUBLISHED row, a
publish commits the version of the ledger as it is, and the ledger's own steps either
change the ledger or leave all as it was. Overrides at any time, errors and crashes of any
number are allowed.

### WebhooksProofs

For every number of workers, operators, endpoints and events and every bound:

| Theorem | What it says |
|---|---|
| `OutboxImplemented` | `Spec => RefinesOutbox`: the detailed outbox implements `WebhookOutbox` |
| `AttemptsLogged` | `AttemptLogMatches`: every counted attempt is in the log, without gap or repetition |
| `SucceededWasTaken` | a delivery marked SUCCEEDED, committed or staged, was taken by its endpoint |
| `LocksHold`, `WebhooksTypeCorrect` | what a transaction has read it holds; the state stays typed |

The argument. `LockInv` is the base: an open transaction owns every row it read, a
row a worker holds is one still to be delivered, and a session's pages name rows
that exist. From it, no commit changes a row between another session's lock and its
commit; only an operator who has read and not yet locked can be stale. `CountInv`
bounds how stale: the count an operator loaded is at most the committed one, and its
log and staged count move together, so a commit either extends the log by the next
number or meets the unique key. `TakenInv` carries "taken" from the request that was
answered to the commit. Under the refinement mapping a delivery whose row an operator holds is
WAITING: `RetryLock` of a settled delivery is `Reopen`, an answered request `Take`, the
end of a transaction (a commit that settles, or the rollback of a retry, which
puts the old outcome back) `Settle`, a recorded event `Record`, and everything
else a stutter. That nothing but an operator reopens a settled delivery follows
from `LockInv`, since a worker holds open rows only.

### WebhooksProofs, the agreement

`DeliveriesAgree` for every number of workers, endpoints, events and attempts, in four
theorems, of which `AttemptsLogged` is above.

| Theorem | What it says |
|---|---|
| `DeliveredOnce` | `ExactlyOnce`: without lost answers, deaths and manual retries no endpoint takes an event twice |
| `DeliveredReachedAll` | `DeliveredMeansAll`: without manual retries a DELIVERED event has no delivery that did not succeed |
| `EventStatesAgree` | `EventStateAgrees`: with one worker the event's state is the one its deliveries give |
| `DeliveriesTellOneStory` | `DeliveriesAgree`, their conjunction |
| `RowsDealtWithOnce` | the common ground: without retries a transaction deals with each of its rows once |

The assumption `SettingsAssumption` says the workers of a setting are finitely many workers.
The conditions on faults and calls are in the properties, not in the theorems. `WorkInv`
adds to `LockInv` that a row still to be attempted is not staged: with it a delivery
that succeeded is never open again. `OnceInv` says where a receipt is recorded, in
the committed row or in what the one worker that holds it will write; `DoneInv` and
`StateInv` say of the event's state what the properties say, also of the state a worker
has computed and not committed. `DoneInv` works for many workers because a worker computes
DELIVERED only from rows it has seen succeed, and a row that succeeded stays so.

### GradingOpsProofs

For every set of requests, pools, questions and graders and every number of runs,
grievances and items, from `GradingConstants`: questions and graders are finite sets,
there is room for the first run, and a setting's clients are finitely many requests.

| Theorem | Property |
|---|---|
| `GradingReferences` | every column and every change under way refers to a row that exists |
| `GradingTypeCorrect` | `GradingTypeOK` |
| `GradingSubmitted`, `GradingOneItem`, `GradingOneLiveRun`, `GradingRegrades` | `SubmittedIsReviewed`, `OneActiveItem`, `OneLiveRun`, `RegradeSupersedes` |
| `GradingWorkOwned` | `WorkIsOwned`, their conjunction |
| `GradingPoolsActive`, `GradingSharesEven` | `NoWorkFromClosedPool`, `SharesEven` |
| `GradingDealt` | `DealtWhileActive`, their conjunction (an action property) |

Every handler commits what an earlier step read, so each invariant speaks of the tables
and of the changes under way:

- `TypeInv` says the rows a change names exist. Rows are only appended (`Kept`), which
  is why a stale change still finds its row.
- `ReviewedInv` says an item a request is about to submit has its question reviewed. An
  escalation in between does not take that back: the row moves to ESCALATED and
  never returns to REVIEW_REQUIRED.
- `LockInv` is the lock argument. A request that hands out work holds an ACTIVE pool
  and gives only that pool's items; two such requests have different pools and, unless
  items are assigned by hand, different runs. Closing a pool waits for the lock, so
  the pool is active at the commit.
- `OneInv` says that items and the items about to be inserted are about different
  questions. That two inserts do not collide is `LockInv`: different runs, or one pool.
- `RegradeSupersedes` holds with `TypeInv` alone, races included: the number of a copied
  run is taken under the unique key, so the copy a grievance names is its own. `OneLiveRun`
  is false when two grievances are accepted at once and is proved for one
  client. `SerialInv` adds that a result has at most one grievance that is open or was
  accepted, and that the run of a result without an accepted one is live.
- `SharesEven` needs no invariant but `TypeInv`: `DealtEvenly` counts how often each member's
  turn comes in a round-robin, by an injection from the turns of one member into those
  of another and one more (`TurnsAreEven`).

### AnswerEvidenceProofs

Intake, for every set of requests, workers, students, regions and questions and every
bound. `RowsAssumption` says a paper has a student, a region and a question and that no
question is the absence of one; `SessionsAssumption` that requests and workers are different
sessions, and that the clients of a setting are finitely many requests.

| Theorem | Property |
|---|---|
| `IntakeTypeCorrect` | `TypeOK` |
| `EvidenceAgreesHolds` | `EvidenceAgrees`: `SourceIsStored` and `LinkedRegionsExist` for any clients, `OneActiveOfEachSource` and `TranscribedInItsLanguage` with one |
| `FinalizedMappingHolds`, `ReadyHasConfirmedHolds` | `FinalizedMappingComplete`, `ReadyHasConfirmed`, action properties with one client |
| `HumanEvidenceHolds` | `HumanEvidenceKept`, for any clients |
| `ReviewCountsHolds` | `ReviewCounts`, the conjunction of the three |

Some thirty handlers and tasks read in one step and commit in another, so a proof that
pairs each handler with each would not end. It goes through one abstraction of a
transaction instead:

- `Change(s, c)` says what session `s` may have staged: how a region's transcriptions may
  differ from those it read (`Texts`), which regions it draws (`Draws`), when it changes
  the language (`Speaks`), which mappings and links it writes (`Maps`, `Links`) and over
  what it opens a gate (`Gates`). Each handler has a lemma, `...Reads`, that its read
  establishes it; `NextSteps` collects them in `Step`, which has nine kinds of steps.
- `Since(c)` says what may have become of the rows that `c` read: regions stay drawn, or
  deleted; transcriptions are only added; a region `c` is about to draw is not there yet;
  a mapping a person made remains one. `SinceCommits` shows it of every commit of
  another session.
- `CommitRows` and the lemmas after it say what the flush of such a transaction makes of each
  table. Where two sessions collide they rest on the conflicts `Commit` excludes:
  `AppendsNext` on the unique version number, `TouchedExists` on the update of a deleted
  row, `CommitLinks` on the foreign key and on the unique key of links.

`EvidenceInv` is `Change` and `Since` of every open transaction, with `RowsOK` of the rows
and `DrawnOnce`. `UploadInv` says that before the first commit there is nothing and that one
upload at a time is past its insert; `SourceInv` that whoever knows of a normalisation
job, in a row, in the broker or in a session, knows the source is stored. `SerialInv` is
for one client: what the client read is what is there, up to crops, added
transcriptions and mappings of questions that had none (`ClientSees`), and where nothing
was added a worker finds what it read, up to confirmations (`WorkerSees`). With two
clients this is false, and so are the properties that need it: one puts a transcription
over the version the other confirms.

### LearningProofs

Mastery, plans and blueprints, for every number of results, nodes, attempts, workers,
planners and teachers, every ledger of answers, every bound and every fault.
`MasteryAssumption` says a setting has finitely many workers, publishes results of the
model and maps each to an entry; `PlansAssumption` that its planners and teachers are
finitely many.

| Theorem | What it says |
|---|---|
| `LearningTypeCorrect` | `TypeOK` |
| `MasteryFollows` | `MasteryFollowsEvidence`: its four parts, two of which are about everything being materialised by one worker |
| `PlansSound` | `PlansAreSound`: one READY plan with one planner, reassessments as approved with one planner and one teacher |
| `BaselineKept`, `ApprovalsStay`, `ApprovedOwn` | `BaselineStays`, `ApprovedStays`, `ApprovedWasOwn` (action properties, parts of `DecisionsStay`) |

A materialisation reads the evidence in one step and rewrites states, history and
outcome in another, and results are published in between, so "the state is that of the
results in force" is false most of the time, with one worker too. What is
inductive:

- `HistoryKnown`: the newest published result is in force, and a history row contains
  its own result. The newest result decides, because a publication either adds to what is
  in force or replaces an older result of the same submission.
- `AloneWork`: with one worker, what a session has read is what there is, unless the newest
  result is still to be materialised. When its job has SUCCEEDED, `AloneState` gives the
  state and the end of the trend; jobs sent twice, failed or rebuilt only come back
  to the same rows.
- `OutcomeKnown` and `AloneOutcome` say which result the outcome is of. While a superseded
  attempt is being materialised the one in force has not been, so the last to finish is
  the one in force. This conjunct came out of the proof: without "once everything is
  materialised" the property is false (section 5).
- `BlueprintsKnown` says an approved or awaiting blueprint asks for the weaknesses of its
  plan, and so does one that is being decided, whatever a late delivery has done to its
  status. `DecisionsAlone` says that nobody drafts a blueprint that awaits a decision or has
  an approval, which needs one planner and one teacher.
- `OlderKnown` says that nothing becomes READY between a planner's read of the older plans
  and its commit; with two planners it is false and both plans stay READY.

`BlueprintRows` and `PlanRows` say once what a step may do to the rows and
sessions of plans; the invariants and `ApprovalsStay` follow from them.

### AuthoringProofs

Authoring with its AI pipelines, for every number of teachers, workers, question codes,
marks, criteria, nodes, runs and trees, and every bound. `AuthoringAssumption` says that
teachers and workers are different sessions, finitely many in a setting; that marks are
naturals and a rubric has finitely many criteria; that trees are finite and have roots
(they are nested lists); and that an assessment starts as a consistent DRAFT.

| Theorem | Property |
|---|---|
| `AuthoringTypeCorrect` | `TypeOK` |
| `ReadyMaterialComplete` | `MaterialIsComplete`: `ReadyIsComplete` and `ParentsAreATree`, with one teacher and any tasks |
| `FrozenStays` | `FreezeHolds`: `LeafMaterialStays`, `ConfigurationStays` and `ApprovedIsImmutable`, with one teacher |
| `ProposalsAppliedWhole` | `AppliedWholeAndOnce`: `AppliedOnce` with one worker, `AppliedTreeIsWhole` with one teacher and one worker |

Thirty handlers and tasks decide on what they read and commit later. The argument is
about the transaction in between, whoever made it:

- `Steps` says that every step is a commit, a request that asks well (`AskedWell`), a task
  that goes on (`WorkerGoes`), an enqueue or a new configuration. Each handler has one
  lemma, `...Asks` or `...Goes`, that what it decided to write fits.
- `TypeInv`: the tables have their types, foreign keys hold, and every session's pending
  transaction has rows and columns of the right kind (`Fits`). A commit is accepted only when
  its references hold, so what was deleted in between does no harm. The
  foreign keys of a run and of a version were missing in the model until this proof.
- `TeacherInv`, for one teacher: the pending transaction is `Careful`. It touches no
  material while the assessment is frozen, it freezes only what is ready, it keeps the questions
  a tree (`KeepsTree`) and changes no approved key, rubric or criterion but to supersede it
  (`KeepsApproved`). That a transaction was careful when its request checked is
  not enough, it must still be at its commit: `CarefulStays` shows that what a task commits
  in between, which is only added (`WorkerTx`), does not undo it. It also keeps a READY
  assessment ready, and the unique indexes on active keys and rubrics are
  why a late proposal for a leaf is rejected (`LeafStep`).
- `RunInv`, for one worker: the run a worker holds is neither up for review nor
  applied, and no teacher is about to call it applied; what a teacher is about to call
  applied is settled. Neither half is inductive without the other. A task calls no
  parse SUCCEEDED (`Honest`).
- `TreeInv`: a tree about to be applied is still the tree that was checked, its version
  is without questions and has the marks it had. With two workers this is false (section 5).

`Marks` is the sum of the maximal marks of some rows, by `MapThenSumSet`, that is by a
function over all subsets. `SumExists` and `MarksAre` show that it adds up in any order:
of the sets where it fails one has the fewest elements (`SmallestSet`). From that follow
`PerfectAndEmpty`, that a rubric that reconciles gives all marks to a perfect answer and none to an
empty one, and `TreeApplied`, that the leaves of an applied tree add up to its version
(`MarksRenamed`).

### What stays with TLC

Liveness and ENABLED are out of the prover's reach. So is induction over data: that
union-find computes components, that the path algorithm reaches every gap or that
the agreement coefficient is right is checked on bounded inputs. RECURSIVE operators are in
`AnswerClusters` and `LearningPath` only, which no theorem is about. (The sums of
authoring are an exception to the rule about induction: `AuthoringProofs` reasons about them by a
smallest counterexample.) The invariants of federation and passback in `operations`, and
those of paths, resources, outcomes and quality in `learning` are only model-checked.

## 7 Not modelled

- Benchmarks and datasets (`services/benchmark.py`): imports and scorings of
  evaluation data by one actor in one transaction; nothing of the workflow depends on
  them.
- AI providers (`app/ai`): external; their answers are choices in the models.
- Math verification, subject and language context: pure functions over texts. What
  they decide reaches the ledger inside a draft.
- Reports, page rendering, text extraction of question papers: layout.
- Authorization, SSRF, upload validation, the rate limiter: stateless checks and one
  counter; that a user may call an endpoint is assumed.
- The web client: calls the endpoints in any order, as the models let it.

Within the modelled components: the finals of single criteria (their sum is modelled); several
policies of one assessment; annotations, reports and read endpoints; the rotation
and order of pages; creating policies, webhook endpoints, identity providers,
credentials, outcome definitions, calibration sessions and curriculum nodes, which are
part of the initial states; signatures, claims and role mapping; the texts of plans
and recommendations; tolerance shares and the item statistics; the single-step gap
between the re-read and the commit of except branches. `PROJECT.json` has the status of
every component.

## 8 Plan

Done: the models of the ledger, publication, intake, grading, webhooks with their
refinement, federation, passback, mastery to reassessment, outcomes,
quality, authoring; the proofs of the ledger, publication, intake, webhooks, grading, mastery
and plans, and authoring. What would add most next:

1. `PublishedVersions`, an abstract specification (versions are issued once, released
   once, then only superseded) that the serial instance of `Publication` implements.
2. `SubmissionLifecycle`: the state machine of `docs/architecture/WORKFLOW_STATES.md` as
   an abstract specification, with intake, ledger and publication shown to implement
   it on the instances where they do.
3. Single-criterion finals and the proportional fallback of an override with more
   than one proposal; weights of outcome mappings.

Bounds stay near the present ones: two or three sessions, two workers, two or
three rows, one or two faults.
