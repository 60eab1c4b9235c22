------------------------- MODULE EvaluationLedger -------------------------
(***************************************************************************)
(* The evaluation ledger of one submission: preparing an evaluation run,   *)
(* the Celery worker that drafts the ledger, the teacher's review of each  *)
(* row, finalisation, and the moderation case a finalised run goes through *)
(* (services/evaluation.py, api/v1/evaluation.py, tasks/celery_app.py, and *)
(* the moderation half of services/enterprise_ops.py).                     *)
(*                                                                         *)
(* Every HTTP request and every worker is a database session.  It reads    *)
(* committed rows at one step, decides on what it read, and commits at a   *)
(* later step, when other sessions may have committed in between; the      *)
(* merge of what it wrote with what is there is UnitOfWork!FlushColumn.    *)
(* Row locks exist only where the code takes them (SELECT FOR UPDATE) or   *)
(* where a flush precedes the commit (the worker's first flush).           *)
(*                                                                         *)
(* No grading pool exists for the assessment version, so every reviewer    *)
(* passes the ownership check of grading_access.py ("Legacy path").        *)
(***************************************************************************)
EXTENDS Integers, Sequences, FiniteSets, FiniteSetsExt, UnitOfWork

CONSTANTS
  Leaves,        \* LEAF_SCORABLE question versions of the assessment version
  Users,         \* teachers, evaluators and moderators
  Requests,      \* concurrent HTTP requests (each is one session at a time)
  Workers,       \* Celery worker processes
  Endpoints,     \* the endpoints clients call in this instance
  Drafts,        \* the drafts _evaluate_one_leaf may leave in this instance
  MaxMark,       \* QuestionVersion.max_marks
  NoScore,       \* SQL NULL in a score column
  Stages,        \* stage_order of the moderation policy's stages
  RoleHolders,   \* RoleHolders[s]: users whose roles may decide stage s
  MaxRuns,       \* bound: evaluation runs of the submission
  MaxCases,      \* bound: moderation cases of the submission
  MaxReviews,    \* bound: review actions on a row when a review begins
  MaxDecisions,  \* bound: moderation actions on a case when a decision begins
  MaxTasks,      \* bound: copies of one job's task in the broker
  Faults,        \* the kinds of fault that may happen in this instance
  MaxFaults      \* bound: how many of them

Score == 0 .. MaxMark
RunId == 1 .. MaxRuns
CaseId == 1 .. MaxCases

WorkflowState ==
  { "READY_FOR_EVALUATION", "EVALUATING", "EVALUATION_REVIEW",
    "MODERATION_REVIEW", "APPROVED", "FAILED" }
RunStatus == {"NONE", "QUEUED", "REVIEW_REQUIRED", "COMPLETED", "FAILED"}
JobStatus == {"NONE", "QUEUED", "SUCCEEDED", "FAILED"}
RowState ==
  { "ABSENT", "PENDING", "PROPOSED", "REVIEW_REQUIRED",
    "ACCEPTED", "OVERRIDDEN", "ESCALATED" }
Reviewed == {"ACCEPTED", "OVERRIDDEN"}
\* An override with valid_alternative is recorded as VALID_ALTERNATIVE and is
\* otherwise an OVERRIDE; here both are OVERRIDE.
ReviewOp == {"ACCEPT", "OVERRIDE", "EDIT_FEEDBACK", "ESCALATE"}
CaseStatus == {"NONE", "PENDING", "RETURNED", "APPROVED", "REJECTED"}
Actionable == {"PENDING", "RETURNED"}
Decision == {"APPROVE", "RETURN", "REJECT"}

NullableScore == Score \cup {NoScore}

\* What a row's criterion finals may add up to.  Each named one is checked
\* against its criterion's max_marks, but the proportional fallback gives its
\* last criterion the whole remainder, up to the score, whatever its max_marks.
CriterionSum == 0 .. 2 * MaxMark

\* An override's criterion_finals: an empty list, every criterion once, or
\* anything else that adds up (some criteria only, or one of them twice).
CriterionFinals == {"NONE", "ALL", "SOME"}
Draft == [state : {"PENDING", "PROPOSED", "REVIEW_REQUIRED"},
          proposed : NullableScore]

ASSUME MaxMarkAssumption == MaxMark \in Nat
ASSUME NoScoreAssumption == NoScore \notin Score
ASSUME BoundsAssumption ==
  /\ MaxRuns \in Nat /\ MaxCases \in Nat /\ MaxReviews \in Nat
  /\ MaxDecisions \in Nat /\ MaxTasks \in Nat /\ MaxFaults \in Nat
ASSUME LeavesAssumption == Leaves # {}
ASSUME StagesAssumption == Stages \subseteq Nat \ {0} /\ Stages # {}
ASSUME DraftsAssumption ==
  Drafts \subseteq {d \in Draft : d.state = "PROPOSED" => d.proposed # NoScore}

VARIABLES
  workflow_state, \* submissions.workflow_state
  run,            \* run[n]: evaluation_runs.status of run_number n
  ledger,         \* ledger[n][l]: the question_evaluations row of run n, leaf l
  reviews,        \* reviews[n][l]: its review_actions, oldest first
  job,            \* job[n]: pipeline_jobs.status, key evaluation:{sub}:run:{n}
  tasks,          \* tasks[n]: copies of the task of job[n] in the broker
  policy,         \* moderation_policies.status of the version's one policy
  cases,          \* cases[c]: the moderation_cases rows
  decisions,      \* decisions[c]: the moderation_actions of a case
  request,        \* request[q]: what the session of an HTTP request holds
  worker,         \* worker[w]: what the session of a worker holds
  faults          \* crashes and infrastructure errors so far

ledgerVars == <<ledger, reviews>>
moderationVars == <<policy, cases, decisions>>
queueVars == <<job, tasks>>
vars == <<workflow_state, run, ledgerVars, queueVars, moderationVars,
          request, worker, faults>>

\* `marks` is the sum of the criterion rows' final_marks, NULL while none is set.
Row == [state : RowState, proposed : NullableScore, final : NullableScore,
        marks : CriterionSum \cup {NoScore}, version : Nat]
NoRow == [state |-> "ABSENT", proposed |-> NoScore, final |-> NoScore,
          marks |-> NoScore, version |-> 0]
ReviewAction == [type : ReviewOp, user : Users, score : NullableScore]
Case == [status : CaseStatus, run : RunId \cup {0}, stage : Nat]
NoCase == [status |-> "NONE", run |-> 0, stage |-> 0]
ModerationAction == [stage : Nat, user : Users, decision : Decision]

Idle == [op |-> "IDLE"]
EnqueueRequest == [op : {"ENQUEUE"}, job : RunId]
ReviewRequest == [op : ReviewOp, user : Users, run : RunId, leaf : Leaves,
                  finals : CriterionFinals, loaded : Row, staged : Row]
FinalizeRequest == [op : {"FINALIZE"}, run : RunId, status : RunStatus,
                    moderate : BOOLEAN, case : CaseId \cup {0},
                    loaded : Case]
DecideRequest == [op : {"DECIDE"}, user : Users, case : CaseId,
                  decision : Decision, state : WorkflowState,
                  status : RunStatus]
Request == {Idle, [op |-> "PREPARE"]} \cup EnqueueRequest
             \cup ReviewRequest \cup FinalizeRequest \cup DecideRequest
PipelineSession == [op : {"LOADED", "EVALUATING", "ROLLED_BACK"},
                    job : RunId, run : RunId, state : WorkflowState]
Worker == {Idle} \cup PipelineSession

TypeOK ==
  /\ workflow_state \in WorkflowState
  /\ run \in [RunId -> RunStatus]
  /\ ledger \in [RunId -> [Leaves -> Row]]
  /\ reviews \in [RunId -> [Leaves -> Seq(ReviewAction)]]
  /\ job \in [RunId -> JobStatus]
  /\ tasks \in [RunId -> Nat]
  /\ policy \in {"DRAFT", "ACTIVE", "RETIRED"}
  /\ cases \in [CaseId -> Case]
  /\ decisions \in [CaseId -> Seq(ModerationAction)]
  /\ request \in [Requests -> Request]
  /\ worker \in [Workers -> Worker]
  /\ faults \in Nat

\* A submission that has passed intake: identity CONFIRMED, transcription
\* READY, every leaf mapped, every key and rubric approved and frozen.
Init ==
  /\ workflow_state = "READY_FOR_EVALUATION"
  /\ run = [n \in RunId |-> "NONE"]
  /\ ledger = [n \in RunId |-> [l \in Leaves |-> NoRow]]
  /\ reviews = [n \in RunId |-> [l \in Leaves |-> << >>]]
  /\ job = [n \in RunId |-> "NONE"]
  /\ tasks = [n \in RunId |-> 0]
  /\ policy = "DRAFT"
  /\ cases = [c \in CaseId |-> NoCase]
  /\ decisions = [c \in CaseId |-> << >>]
  /\ request = [q \in Requests |-> Idle]
  /\ worker = [w \in Workers |-> Idle]
  /\ faults = 0

Calls(q, endpoint) == endpoint \in Endpoints /\ request[q] = Idle

Faulty(kind) == /\ kind \in Faults
                /\ faults < MaxFaults
                /\ faults' = faults + 1

---------------------------------------------------------------------------
(* Preparing a run                                                         *)

Runs == {n \in RunId : run[n] # "NONE"}
\* Mutant: the query looks for RUNNING runs only.
RunningRuns == {n \in Runs : run[n] = "RUNNING"}

ActiveRuns == {n \in Runs : run[n] = "QUEUED"}
Jobs == {n \in RunId : job[n] # "NONE"}

\* prepare_evaluation found an active run: the handler re-enqueues the newest
\* EVALUATION job of the submission when that job is still QUEUED.
AfterActiveRun ==
  IF job[Max(Jobs)] = "QUEUED"
  THEN [op |-> "ENQUEUE", job |-> Max(Jobs)]
  ELSE Idle

\* The guards of prepare_evaluation, on rows read without a lock.
PrepareRead(q) ==
  /\ Calls(q, "prepare")
  /\ workflow_state = "READY_FOR_EVALUATION"
  /\ request' = [request EXCEPT ![q] =
       IF ActiveRuns = {} THEN [op |-> "PREPARE"] ELSE AfterActiveRun]
  /\ UNCHANGED <<workflow_state, run, ledgerVars, queueVars, moderationVars,
                 worker, faults>>

\* SELECT ... FOR UPDATE and what follows, up to the handler's commit.  The
\* session already holds the submission object, so the locked SELECT does not
\* refresh it: its workflow_state still reads READY_FOR_EVALUATION and the
\* re-check of the state under the lock never fails.  Only the query for an
\* active run is fresh.
PrepareLocked(q) ==
  /\ request[q].op = "PREPARE"
  /\ IF ActiveRuns # {}
     THEN /\ request' = [request EXCEPT ![q] = AfterActiveRun]
          /\ UNCHANGED <<workflow_state, run, job>>
     ELSE LET n == Max(Runs \cup {0}) + 1 IN
          /\ n \in RunId
          /\ run' = [run EXCEPT ![n] = "QUEUED"]
          /\ job' = [job EXCEPT ![n] = "QUEUED"]
          /\ workflow_state' = "EVALUATING"
          /\ request' = [request EXCEPT ![q] = [op |-> "ENQUEUE", job |-> n]]
  /\ UNCHANGED <<ledgerVars, tasks, moderationVars, worker, faults>>

\* enqueue_evaluation, after the commit.
Enqueue(q) ==
  /\ request[q].op = "ENQUEUE"
  /\ tasks[request[q].job] < MaxTasks
  /\ tasks' = [tasks EXCEPT ![request[q].job] = @ + 1]
  /\ request' = [request EXCEPT ![q] = Idle]
  /\ UNCHANGED <<workflow_state, run, ledgerVars, job, moderationVars, worker,
                 faults>>

\* The API process dies, or the broker is down, between commit and enqueue.
EnqueueLost(q) ==
  /\ request[q].op = "ENQUEUE"
  /\ Faulty("enqueue_lost")
  /\ request' = [request EXCEPT ![q] = Idle]
  /\ UNCHANGED <<workflow_state, run, ledgerVars, queueVars, moderationVars,
                 worker>>

---------------------------------------------------------------------------
(* The worker: run_evaluation_pipeline                                     *)

\* Tasks are acknowledged when taken.  The pipeline reads its job, the
\* submission and the newest active run, which need not be the job's own;
\* with none it raises RUN_NOT_FOUND having written nothing.
WorkerTake(w, n) ==
  /\ worker[w] = Idle
  /\ tasks[n] > 0
  /\ tasks' = [tasks EXCEPT ![n] = @ - 1]
  /\ worker' = [worker EXCEPT ![w] =
       IF ActiveRuns = {} THEN Idle
       ELSE [op |-> "LOADED", job |-> n, run |-> Max(ActiveRuns),
             state |-> workflow_state]]
  /\ UNCHANGED <<workflow_state, run, ledgerVars, job, moderationVars, request,
                 faults>>

\* A worker past its first flush holds the locks of its job and run rows.
HoldsRun(v, n) == worker[v].op = "EVALUATING" /\ worker[v].run = n
HoldsJob(v, n) == worker[v].op = "EVALUATING" /\ worker[v].job = n
RunRowFree(n) == \A v \in Workers : ~HoldsRun(v, n)
JobRowFree(n) == \A v \in Workers : ~HoldsJob(v, n)

\* job.status = run.status = "RUNNING"; flush().  RUNNING is never committed:
\* the transaction ends in REVIEW_REQUIRED or is rolled back.
WorkerClaim(w) ==
  /\ worker[w].op = "LOADED"
  /\ RunRowFree(worker[w].run) /\ JobRowFree(worker[w].job)
  /\ worker' = [worker EXCEPT ![w].op = "EVALUATING"]
  /\ UNCHANGED <<workflow_state, run, ledgerVars, queueVars, moderationVars,
                 request, faults>>

\* Mutant: the run's rows are unique only once reviewed.
HasReviewedRows(n) == \E l \in Leaves : ledger[n][l].state \in Reviewed

HasRows(n) == \E l \in Leaves : ledger[n][l].state # "ABSENT"

\* Mutant: a leaf whose evaluation raises is skipped.
DraftRowOrNone(d) ==
  IF d.state = "PENDING" THEN NoRow
  ELSE [state |-> d.state, proposed |-> d.proposed, final |-> NoScore,
        marks |-> NoScore, version |-> 1]

\* The row a leaf is left with: a leaf whose evaluation raises keeps the row
\* flushed so far (PENDING) or gets a REVIEW_REQUIRED stub.  The stub is only
\* added for a leaf with an approved key and rubric; prepare_evaluation refuses
\* a leaf without them and the freeze keeps them, so every leaf has a row.
DraftRow(d) == [state |-> d.state, proposed |-> d.proposed, final |-> NoScore,
                marks |-> NoScore, version |-> 1]

\* Every leaf is drafted and the whole run is committed at once.
WorkerFinish(w) ==
  LET n == worker[w].run IN
  /\ worker[w].op = "EVALUATING"
  /\ ~HasRows(n)
  /\ \E draft \in [Leaves -> Drafts] :
       ledger' = [ledger EXCEPT ![n] = [l \in Leaves |-> DraftRow(draft[l])]]
  /\ workflow_state' =
       FlushColumn(worker[w].state, "EVALUATION_REVIEW", workflow_state)
  /\ run' = [run EXCEPT ![n] = "REVIEW_REQUIRED"]
  /\ job' = [job EXCEPT ![worker[w].job] = "SUCCEEDED"]
  /\ worker' = [worker EXCEPT ![w] = Idle]
  /\ UNCHANGED <<reviews, tasks, moderationVars, request, faults>>

\* Another delivery already committed the run's rows: the first INSERT violates
\* (tenant, run, question_version), the session refuses further statements,
\* and the outer handler rolls back.
WorkerDuplicate(w) ==
  /\ worker[w].op = "EVALUATING"
  /\ HasRows(worker[w].run)
  /\ worker' = [worker EXCEPT ![w].op = "ROLLED_BACK"]
  /\ UNCHANGED <<workflow_state, run, ledgerVars, queueVars, moderationVars,
                 request, faults>>

\* An error outside the per-leaf isolation (the database, the commit).
WorkerError(w) ==
  /\ worker[w].op = "EVALUATING"
  /\ Faulty("error")
  /\ worker' = [worker EXCEPT ![w].op = "ROLLED_BACK"]
  /\ UNCHANGED <<workflow_state, run, ledgerVars, queueVars, moderationVars,
                 request>>

\* Mutant: a failed pipeline leaves the submission where it is.
AfterFailureUnchanged(state) == state

AfterFailure(state) ==
  IF state = "EVALUATING" THEN "EVALUATION_REVIEW" ELSE state

\* The except branch: a new transaction marks job and run FAILED, whatever
\* they are by now, and moves the submission only out of EVALUATING.
WorkerFail(w) ==
  LET n == worker[w].run IN
  /\ worker[w].op = "ROLLED_BACK"
  /\ RunRowFree(n) /\ JobRowFree(worker[w].job)
  /\ job' = [job EXCEPT ![worker[w].job] = "FAILED"]
  /\ run' = [run EXCEPT ![n] = "FAILED"]
  /\ workflow_state' = AfterFailure(workflow_state)
  /\ worker' = [worker EXCEPT ![w] = Idle]
  /\ UNCHANGED <<ledgerVars, tasks, moderationVars, request, faults>>

\* The worker process dies: its transaction is rolled back, its task is gone.
WorkerCrash(w) ==
  /\ worker[w] # Idle
  /\ Faulty("crash")
  /\ worker' = [worker EXCEPT ![w] = Idle]
  /\ UNCHANGED <<workflow_state, run, ledgerVars, queueVars, moderationVars,
                 request>>

---------------------------------------------------------------------------
(* Reviewing a row                                                         *)

\* The handler has loaded the row and passed its guards; `staged` is the row
\* as the handler will leave it in memory, its criterion rows aside.
BeginReview(q, type, u, n, l, finals, staged) ==
  /\ ledger[n][l].state # "ABSENT"
  /\ Len(reviews[n][l]) < MaxReviews
  /\ request' = [request EXCEPT ![q] =
       [op |-> type, user |-> u, run |-> n, leaf |-> l, finals |-> finals,
        loaded |-> ledger[n][l], staged |-> staged]]
  /\ UNCHANGED <<workflow_state, run, ledgerVars, queueVars, moderationVars,
                 worker, faults>>

\* Mutant: NO_PROPOSAL is not raised.
AcceptableUnproposed(qe) == qe.state \notin Reviewed \cup {"ESCALATED"}

Acceptable(qe) ==
  qe.proposed # NoScore /\ qe.state \notin Reviewed \cup {"ESCALATED"}

AcceptQuestionEvaluation(q, u, n, l) ==
  LET qe == ledger[n][l] IN
  /\ Calls(q, "accept")
  /\ Acceptable(qe)
  /\ BeginReview(q, "ACCEPT", u, n, l, "NONE",
       [qe EXCEPT !.state = "ACCEPTED", !.final = qe.proposed])

\* Mutant: SCORE_OUT_OF_RANGE is not raised above max_mark.
UncheckedScores == 0 .. (MaxMark + 1)

\* SCORE_OUT_OF_RANGE is raised outside 0 <= score <= max_mark.
OverrideScores == Score

OverriddenRow(qe, score) ==
  [qe EXCEPT !.state = "OVERRIDDEN", !.final = score, !.version = @ + 1]

OverrideQuestionEvaluation(q, u, n, l, score, finals) ==
  LET qe == ledger[n][l] IN
  /\ Calls(q, "override")
  /\ qe.state # "ESCALATED"
  /\ BeginReview(q, "OVERRIDE", u, n, l, finals, OverriddenRow(qe, score))

FeedbackQuestionEvaluation(q, u, n, l) ==
  /\ Calls(q, "feedback")
  /\ BeginReview(q, "EDIT_FEEDBACK", u, n, l, "NONE", ledger[n][l])

EscalateQuestionEvaluation(q, u, n, l) ==
  /\ Calls(q, "escalate")
  /\ BeginReview(q, "ESCALATE", u, n, l, "NONE",
       [ledger[n][l] EXCEPT !.state = "ESCALATED"])

\* Mutant: without criterion_finals the criterion rows may always be left alone.
CriterionTotalsUnspread(finals, score, row) == {score, row.marks}

\* What the criterion finals may add up to after an override.  The finals in
\* the request must add up to the score.  Criteria it does not name keep theirs,
\* and of a criterion named twice the last value stays, so only a request that
\* names every criterion once fixes the sum.  Without them the score is spread
\* in proportion to the proposed marks; when those sum to nothing and the
\* rubric has several criteria (or the row is a stub with none) the criterion
\* rows are left alone.
CriterionTotals(finals, score, row) ==
  LET kept == IF row.marks = NoScore THEN 0 ELSE row.marks IN
  {m \in CriterionSum \cup {NoScore} :
     \/ m = score
     \/ finals = "SOME" /\ m \in 0 .. score + kept
     \/ finals = "NONE" /\ row.proposed \in {0, NoScore} /\ m = row.marks}

\* The criterion rows are read after the row's own UPDATE took its lock: they
\* are those of the row as it is now.
CriterionMarks(rq, row) ==
  IF rq.op = "ACCEPT" THEN {row.proposed}
  ELSE IF rq.op = "OVERRIDE"
       THEN CriterionTotals(rq.finals, rq.staged.final, row)
       ELSE {row.marks}

\* The row after a review session's flush.  proposed_ai_score is assigned by
\* no handler.
FlushedRow(loaded, staged, current, marks) ==
  [state |-> FlushColumn(loaded.state, staged.state, current.state),
   proposed |-> current.proposed,
   final |-> FlushColumn(loaded.final, staged.final, current.final),
   marks |-> marks,
   version |-> FlushColumn(loaded.version, staged.version, current.version)]

\* Mutant: a second action of the same type is not recorded.
LoggedOnce(log, rq) ==
  IF log # << >> /\ log[Len(log)].type = rq.op THEN log
  ELSE Append(log, [type |-> rq.op, user |-> rq.user,
                    score |-> rq.staged.final])

\* Mutant: new_score records the score before the action.
LoggedPrevious(log, rq) ==
  Append(log, [type |-> rq.op, user |-> rq.user, score |-> rq.loaded.final])

Logged(log, rq) ==
  Append(log, [type |-> rq.op, user |-> rq.user, score |-> rq.staged.final])

\* flush() and commit(): the row and its ReviewAction, in one transaction.
ReviewCommit(q) ==
  LET rq == request[q] IN
  /\ rq.op \in ReviewOp
  /\ \E marks \in CriterionMarks(rq, ledger[rq.run][rq.leaf]) :
       ledger' = [ledger EXCEPT ![rq.run][rq.leaf] =
                    FlushedRow(rq.loaded, rq.staged, @, marks)]
  /\ reviews' = [reviews EXCEPT ![rq.run][rq.leaf] = Logged(@, rq)]
  /\ request' = [request EXCEPT ![q] = Idle]
  /\ UNCHANGED <<workflow_state, run, queueVars, moderationVars, worker,
                 faults>>

---------------------------------------------------------------------------
(* Finalising a run                                                        *)

\* The case ensure_moderation_case_for_run finds for a run, 0 for none.
OpenCases(n) ==
  {c \in CaseId : cases[c].run = n /\ cases[c].status \in Actionable}
FoundCase(n) == IF OpenCases(n) = {} THEN {0} ELSE OpenCases(n)

\* Mutant: finalisation only refuses missing and escalated rows.
NoneEscalated(n) ==
  \A l \in Leaves : ledger[n][l].state \notin {"ABSENT", "ESCALATED"}

AllReviewed(n) == \A l \in Leaves : ledger[n][l].state \in Reviewed

\* The guards are on the newest run by number, whatever its status.
FinalizeRead(q) ==
  /\ Calls(q, "finalize")
  /\ workflow_state = "EVALUATION_REVIEW"
  /\ \E n \in Runs, c \in CaseId \cup {0} :
       /\ \A m \in Runs : m <= n
       /\ AllReviewed(n)
       /\ c \in FoundCase(n)
       /\ request' = [request EXCEPT ![q] =
            [op |-> "FINALIZE", run |-> n, status |-> run[n],
             moderate |-> policy = "ACTIVE", case |-> c,
             loaded |-> IF c = 0 THEN NoCase ELSE cases[c]]]
  /\ UNCHANGED <<workflow_state, run, ledgerVars, queueVars, moderationVars,
                 worker, faults>>

\* No active policy: APPROVED and COMPLETED.
FinalizeApprove(q) ==
  LET rq == request[q] IN
  /\ rq.op = "FINALIZE" /\ ~rq.moderate
  /\ RunRowFree(rq.run)
  /\ workflow_state' = "APPROVED"
  /\ run' = [run EXCEPT ![rq.run] = FlushColumn(rq.status, "COMPLETED", @)]
  /\ request' = [request EXCEPT ![q] = Idle]
  /\ UNCHANGED <<ledgerVars, queueVars, moderationVars, worker, faults>>

CaseRowFree(c) ==
  \A p \in Requests : request[p].op = "DECIDE" => request[p].case # c

\* ensure_moderation_case_for_run re-opens a RETURNED case at stage 1.
ReopenedCase(loaded, current) ==
  IF loaded.status = "RETURNED"
  THEN [current EXCEPT !.status = "PENDING",
                       !.stage = FlushColumn(loaded.stage, 1, @)]
  ELSE current

\* An active policy: MODERATION_REVIEW, with the run's case made or re-opened.
FinalizeModerate(q) ==
  LET rq == request[q]
      fresh == {c \in CaseId : cases[c].status = "NONE"}
      c == IF rq.case = 0 THEN Min(fresh) ELSE rq.case IN
  /\ rq.op = "FINALIZE" /\ rq.moderate
  /\ RunRowFree(rq.run)
  /\ rq.case = 0 => fresh # {}
  /\ CaseRowFree(c)
  /\ workflow_state' = "MODERATION_REVIEW"
  /\ run' = [run EXCEPT ![rq.run] =
               FlushColumn(rq.status, "REVIEW_REQUIRED", @)]
  /\ cases' = [cases EXCEPT ![c] =
       IF rq.case = 0
       THEN [status |-> "PENDING", run |-> rq.run, stage |-> Min(Stages)]
       ELSE ReopenedCase(rq.loaded, @)]
  /\ request' = [request EXCEPT ![q] = Idle]
  /\ UNCHANGED <<ledgerVars, queueVars, policy, decisions, worker, faults>>

---------------------------------------------------------------------------
(* Moderation                                                              *)

ActivateModerationPolicy ==
  /\ "activate" \in Endpoints /\ policy = "DRAFT"
  /\ policy' = "ACTIVE"
  /\ UNCHANGED <<workflow_state, run, ledgerVars, queueVars, cases, decisions,
                 request, worker, faults>>

RetireModerationPolicy ==
  /\ "retire" \in Endpoints /\ policy = "ACTIVE"
  /\ policy' = "RETIRED"
  /\ UNCHANGED <<workflow_state, run, ledgerVars, queueVars, cases, decisions,
                 request, worker, faults>>

ReviewersOf(n) ==
  {u \in Users : \E l \in Leaves : \E i \in DOMAIN reviews[n][l] :
     reviews[n][l][i].user = u}

\* The guards of decide_moderation.  The case row is locked until the commit;
\* the submission and the run are read without a lock.
DecideRead(q, u, c, decision) ==
  LET case == cases[c] IN
  /\ Calls(q, "decide")
  /\ case.status \in Actionable
  /\ CaseRowFree(c)
  /\ case.stage \in Stages /\ u \in RoleHolders[case.stage]
  /\ decision = "APPROVE" => u \notin ReviewersOf(case.run)
  /\ Len(decisions[c]) < MaxDecisions
  /\ request' = [request EXCEPT ![q] =
       [op |-> "DECIDE", user |-> u, case |-> c, decision |-> decision,
        state |-> workflow_state, status |-> run[case.run]]]
  /\ UNCHANGED <<workflow_state, run, ledgerVars, queueVars, moderationVars,
                 worker, faults>>

\* Every decision appends its ModerationAction and updates the case; `state`
\* and `status` are what it assigns to the submission and the run.
Decide(q, case, state, status) ==
  LET rq == request[q]
      c == rq.case IN
  /\ RunRowFree(cases[c].run)
  /\ decisions' = [decisions EXCEPT ![c] =
       Append(@, [stage |-> cases[c].stage, user |-> rq.user,
                  decision |-> rq.decision])]
  /\ cases' = [cases EXCEPT ![c] = case]
  /\ workflow_state' = FlushColumn(rq.state, state, workflow_state)
  /\ run' = [run EXCEPT ![cases[c].run] = FlushColumn(rq.status, status, @)]
  /\ request' = [request EXCEPT ![q] = Idle]
  /\ UNCHANGED <<ledgerVars, queueVars, policy, worker, faults>>

DecideReturn(q) ==
  LET rq == request[q] IN
  /\ rq.op = "DECIDE" /\ rq.decision = "RETURN"
  /\ Decide(q, [cases[rq.case] EXCEPT !.status = "RETURNED"],
            "EVALUATION_REVIEW", rq.status)

DecideReject(q) ==
  LET rq == request[q] IN
  /\ rq.op = "DECIDE" /\ rq.decision = "REJECT"
  /\ Decide(q, [cases[rq.case] EXCEPT !.status = "REJECTED"],
            "FAILED", "FAILED")

\* Mutant: a stage is skipped.
StagesAfterNext(case) == {s \in Stages : s > case.stage + 1}

\* Mutant: the next stage is looked for one past the last.
StagesOnePast(case) ==
  IF case.stage <= Max(Stages) THEN {case.stage + 1} ELSE {}

LaterStages(case) == {s \in Stages : s > case.stage}

DecideApproveStage(q) ==
  LET rq == request[q]
      case == cases[rq.case] IN
  /\ rq.op = "DECIDE" /\ rq.decision = "APPROVE"
  /\ LaterStages(case) # {}
  /\ Decide(q, [case EXCEPT !.status = "PENDING",
                            !.stage = Min(LaterStages(case))],
            rq.state, rq.status)

\* Mutant: the final approval does not complete the run.
DecideApproveFinalRunOpen(q) ==
  LET rq == request[q]
      case == cases[rq.case] IN
  /\ rq.op = "DECIDE" /\ rq.decision = "APPROVE"
  /\ LaterStages(case) = {}
  /\ Decide(q, [case EXCEPT !.status = "APPROVED"], "APPROVED", rq.status)

DecideApproveFinal(q) ==
  LET rq == request[q]
      case == cases[rq.case] IN
  /\ rq.op = "DECIDE" /\ rq.decision = "APPROVE"
  /\ LaterStages(case) = {}
  /\ Decide(q, [case EXCEPT !.status = "APPROVED"], "APPROVED", "COMPLETED")

---------------------------------------------------------------------------
ReviewCall(q) ==
  \E u \in Users, n \in RunId, l \in Leaves :
    \/ AcceptQuestionEvaluation(q, u, n, l)
    \/ \E score \in OverrideScores, finals \in CriterionFinals :
         OverrideQuestionEvaluation(q, u, n, l, score, finals)
    \/ FeedbackQuestionEvaluation(q, u, n, l)
    \/ EscalateQuestionEvaluation(q, u, n, l)

DecideCall(q) ==
  \E u \in Users, c \in CaseId, decision \in Decision :
    DecideRead(q, u, c, decision)

\* A request past its guards goes on to its commit.
RequestStep(q) ==
  \/ PrepareLocked(q) \/ Enqueue(q)
  \/ ReviewCommit(q)
  \/ FinalizeApprove(q) \/ FinalizeModerate(q)
  \/ DecideReturn(q) \/ DecideReject(q)
  \/ DecideApproveStage(q) \/ DecideApproveFinal(q)

WorkerStep(w) ==
  \/ \E n \in RunId : WorkerTake(w, n)
  \/ WorkerClaim(w) \/ WorkerFinish(w) \/ WorkerDuplicate(w) \/ WorkerFail(w)

Fault ==
  \/ \E q \in Requests : EnqueueLost(q)
  \/ \E w \in Workers : WorkerError(w) \/ WorkerCrash(w)

Next ==
  \/ \E q \in Requests :
       \/ PrepareRead(q) \/ ReviewCall(q) \/ FinalizeRead(q) \/ DecideCall(q)
       \/ RequestStep(q)
  \/ \E w \in Workers : WorkerStep(w)
  \/ ActivateModerationPolicy \/ RetireModerationPolicy
  \/ Fault

Spec == Init /\ [][Next]_vars

\* A request past its guards runs to its commit, and a worker that is up keeps
\* taking and finishing tasks; nobody is obliged to call an endpoint.
Fairness ==
  /\ \A q \in Requests : WF_vars(RequestStep(q))
  /\ \A w \in Workers : WF_vars(WorkerStep(w))

FairSpec == Spec /\ Fairness
---------------------------------------------------------------------------
(* Properties                                                              *)

\* A row that a human has accepted or overridden carries a score, and one that
\* no stale session's flush can take away (EVALUATION_LEDGER.md: final score is
\* "set on ACCEPT/OVERRIDE; null while pending").
ScoredWhenReviewed ==
  \A n \in RunId, l \in Leaves :
    ledger[n][l].state \in Reviewed => ledger[n][l].final \in Score

\* Every final score is the new_score of an ACCEPT or OVERRIDE action recorded
\* on its row, however sessions interleave.
FinalScoreHasReview ==
  \A n \in RunId, l \in Leaves :
    ledger[n][l].final # NoScore =>
      \E i \in DOMAIN reviews[n][l] :
        /\ reviews[n][l][i].type \in {"ACCEPT", "OVERRIDE"}
        /\ reviews[n][l][i].score = ledger[n][l].final

\* A completed run has a human-approved score on every leaf question: what
\* publication sums is never partly null.
CompletedRunFullyScored ==
  \A n \in RunId, l \in Leaves :
    run[n] = "COMPLETED" => ledger[n][l].final \in Score

\* The lock of prepare_evaluation lets at most one run be queued or running,
\* however many prepares race and whatever a worker does meanwhile.
OneActiveRun ==
  \A m, n \in RunId : run[m] = "QUEUED" /\ run[n] = "QUEUED" => m = n

\* Workers are safe to retry: duplicate deliveries, errors and crashes leave a
\* run either without ledger rows or with one row for every leaf.
LedgerAllOrNothing ==
  \A n \in RunId, k, l \in Leaves :
    ledger[n][k].state # "ABSENT" => ledger[n][l].state # "ABSENT"

\* A drafted row is never drafted again and never disappears: the AI's proposal
\* stays what it was when the teacher saw it.
ProposalPreserved ==
  [][\A n \in RunId, l \in Leaves :
       ledger[n][l].state # "ABSENT" =>
         /\ ledger'[n][l].state # "ABSENT"
         /\ ledger'[n][l].proposed = ledger[n][l].proposed]_vars

\* ledger_version is "incremented on each override": it is one more than the
\* overrides recorded on the row.
LedgerVersionCountsOverrides ==
  \A n \in RunId, l \in Leaves :
    ledger[n][l].state # "ABSENT" =>
      ledger[n][l].version =
        1 + Cardinality({i \in DOMAIN reviews[n][l] :
                           reviews[n][l][i].type = "OVERRIDE"})

Decisive(n, l) == {i \in DOMAIN reviews[n][l] :
                     reviews[n][l][i].type \in {"ACCEPT", "OVERRIDE"}}

\* The score in the ledger is the one of the latest accept or override.
LatestDecisionStands ==
  \A n \in RunId, l \in Leaves :
    Decisive(n, l) # {} =>
      ledger[n][l].final = reviews[n][l][Max(Decisive(n, l))].score

\* With one session at a time the ledger and its review actions agree: the score
\* is the latest decision's and ledger_version has counted the overrides.
LedgerMatchesReviews == LatestDecisionStands /\ LedgerVersionCountsOverrides

\* "Approved rows are never silently overwritten; corrections append OVERRIDE
\* review actions": the score of a reviewed row changes only with an override.
NoSilentOverwrite ==
  [][\A n \in RunId, l \in Leaves :
       /\ ledger[n][l].state \in Reviewed
       /\ ledger'[n][l].final # ledger[n][l].final
       => reviews'[n][l][Len(reviews'[n][l])].type = "OVERRIDE"]_vars

\* On a row the AI gave marks, a reviewed score and its criterion finals, where
\* any is set, are the same number.
Reconciled(row) ==
  /\ row.state \in Reviewed
  /\ row.proposed \notin {0, NoScore}
  /\ row.marks # NoScore
  => row.marks = row.final

\* An override whose criterion_finals leave a criterion out.
PartialOverride(rq) == rq.op = "OVERRIDE" /\ rq.finals = "SOME"

\* "Criterion finals must reconcile to the question score": with one session at
\* a time a row leaves that relation only when an override that names some of
\* the criteria commits, and never by an accept, a complete or empty
\* criterion_finals, feedback or an escalation.
OnlyPartialFinalsDrift ==
  [][\A n \in RunId, l \in Leaves :
       Reconciled(ledger[n][l]) /\ ~Reconciled(ledger'[n][l]) =>
         \E q \in Requests :
           /\ PartialOverride(request[q])
           /\ request[q].run = n /\ request[q].leaf = l
           /\ request'[q] = Idle]_vars

\* Finalisation leaves "APPROVED + run COMPLETED".
ApprovedMeansCompleted ==
  workflow_state = "APPROVED" => run[Max(Runs)] = "COMPLETED"

\* Concurrent prepares of one submission are serialised: they share one run.
PreparesShareRun == Cardinality(Runs) <= 1

\* An approved case has the approval of every stage of its policy.
EveryStageApproved ==
  \A c \in CaseId : cases[c].status = "APPROVED" =>
    \A s \in Stages : \E i \in DOMAIN decisions[c] :
      /\ decisions[c][i].stage = s
      /\ decisions[c][i].decision = "APPROVE"

ReturnedBefore(c) ==
  \E i \in DOMAIN decisions[c] : decisions[c][i].decision = "RETURN"

\* A submission in MODERATION_REVIEW has an actionable case, at a stage of the
\* policy that someone can decide; nothing else moves the submission on.  The
\* only other stage an actionable case is ever at is stage 1, where a case that
\* was RETURNED is re-opened whether or not the policy has that stage.
ModerationHasCase ==
  workflow_state = "MODERATION_REVIEW" =>
    \E c \in CaseId :
      /\ cases[c].run = Max(Runs)
      /\ cases[c].status \in Actionable
      /\ cases[c].stage \in Stages \/ (cases[c].stage = 1 /\ ReturnedBefore(c))

\* Without crashes an evaluation ends: an error in the pipeline, a duplicate
\* delivery or a second run never leaves the submission in EVALUATING.
EvaluatingEnds ==
  workflow_state = "EVALUATING" ~> workflow_state # "EVALUATING"
===========================================================================
