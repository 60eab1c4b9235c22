----------------------- MODULE EvaluationLedgerProofs -----------------------
(***************************************************************************)
(* Proofs about EvaluationLedger, for every number of leaves, users,       *)
(* requests, workers and stages, every mark and every bound.               *)
(*                                                                         *)
(* TypeInv types the state and relates the rows that point at each other.  *)
(* ScoreInv adds what an open review session may still do to its row, so   *)
(* that the score invariants survive a commit of stale data.  CompletionInv*)
(* carries "fully scored" from the read of finalize, through a moderation  *)
(* case, to the run that is completed long after.                          *)
(***************************************************************************)
EXTENDS EvaluationLedger, ExtremaLemmas, SequenceTheorems, FiniteSetTheorems, TLAPS

---------------------------------------------------------------------------
(* The inductive invariants                                                *)

QueuedRunsHaveJobs ==
  \A n \in RunId : run[n] = "QUEUED" => job[n] # "NONE"

CasesHaveRuns == \A c \in CaseId : cases[c].status # "NONE" => cases[c].run # 0

DecidedCasesExist ==
  \A q \in Requests : request[q].op = "DECIDE" =>
    cases[request[q].case].status # "NONE"

ReopenedCasesExist ==
  \A q \in Requests :
    request[q].op = "FINALIZE" /\ request[q].case # 0 =>
      cases[request[q].case].status # "NONE"

TypeInv ==
  TypeOK /\ QueuedRunsHaveJobs /\ CasesHaveRuns /\ DecidedCasesExist
    /\ ReopenedCasesExist

AbsentRowsUnscored ==
  \A n \in RunId, l \in Leaves :
    ledger[n][l].state = "ABSENT" => ledger[n][l].final = NoScore

Scores(rq) == rq.op \in {"ACCEPT", "OVERRIDE"}

\* What a review session may do to its row: it only ever assigns scores, and
\* the row it loaded is still there, scored if it was scored.
ReviewFits(rq) ==
  LET row == ledger[rq.run][rq.leaf] IN
  /\ row.state # "ABSENT" /\ rq.staged.state # "ABSENT"
  /\ rq.loaded.final # NoScore => row.final # NoScore
  /\ Scores(rq) => rq.staged.final \in Score
  /\ ~Scores(rq) => /\ rq.staged.final = rq.loaded.final
                    /\ \/ rq.staged.state = rq.loaded.state
                       \/ rq.staged.state \notin Reviewed

ReviewsFit ==
  \A q \in Requests : request[q].op \in ReviewOp => ReviewFits(request[q])

ScoreInv ==
  ScoredWhenReviewed /\ FinalScoreHasReview /\ AbsentRowsUnscored /\ ReviewsFit

FullyScored(n) == \A l \in Leaves : ledger[n][l].final \in Score

FinalizesFullyScored ==
  \A q \in Requests : request[q].op = "FINALIZE" => FullyScored(request[q].run)

CasesFullyScored ==
  \A c \in CaseId : cases[c].status # "NONE" => FullyScored(cases[c].run)

CompletionInv ==
  CompletedRunFullyScored /\ FinalizesFullyScored /\ CasesFullyScored

Approved(c, s) ==
  \E i \in DOMAIN decisions[c] : /\ decisions[c][i].stage = s
                                 /\ decisions[c][i].decision = "APPROVE"

\* A case is at a stage only after the stages before it were approved, in this
\* round or in one before a return.
StagesBehindApproved ==
  \A c \in CaseId : \A s \in Stages :
    s < cases[c].stage => Approved(c, s)

StageInv == EveryStageApproved /\ StagesBehindApproved
---------------------------------------------------------------------------
(* Types of what the sessions hold                                         *)

\* A request is exactly the record of its operation.
LEMMA RequestKinds ==
  ASSUME NEW rq \in Request
  PROVE  /\ rq.op = "ENQUEUE" => rq \in EnqueueRequest
         /\ rq.op \in ReviewOp => rq \in ReviewRequest
         /\ rq.op = "FINALIZE" => rq \in FinalizeRequest
         /\ rq.op = "DECIDE" => rq \in DecideRequest
  BY DEF Request, Idle, EnqueueRequest, ReviewRequest, FinalizeRequest,
         DecideRequest, ReviewOp

\* A session that is not idle is past the read of run_evaluation_pipeline.
LEMMA WorkerKinds ==
  ASSUME NEW wk \in Worker, wk.op # "IDLE"
  PROVE  wk \in PipelineSession
  BY DEF Worker, Idle

\* The merge of a flush takes one of the two values.
LEMMA FlushType ==
  ASSUME NEW T, NEW staged \in T, NEW current \in T, NEW loaded
  PROVE  FlushColumn(loaded, staged, current) \in T
  BY DEF FlushColumn

\* A session at rest is typed.
LEMMA IdleIsTyped == Idle \in Request /\ Idle \in Worker
  BY DEF Request, Worker

\* An active run has a job, so the handler finds one to enqueue again.
LEMMA AfterActiveRunType ==
  ASSUME TypeInv, ActiveRuns # {}
  PROVE  AfterActiveRun \in Request
<1>1. Jobs \in SUBSET (0 .. MaxRuns) /\ Jobs \subseteq RunId
  BY BoundsAssumption DEF Jobs, RunId
<1>2. Jobs # {}
  BY DEF TypeInv, QueuedRunsHaveJobs, ActiveRuns, Runs, Jobs
<1>3. Max(Jobs) \in RunId
  BY <1>1, <1>2, MaxOfInterval, BoundsAssumption
<1> QED  BY <1>3 DEF AfterActiveRun, Request, EnqueueRequest

\* The newest active run, which a worker takes, is a run.
LEMMA NewestActiveRunType ==
  ASSUME ActiveRuns # {}
  PROVE  Max(ActiveRuns) \in ActiveRuns /\ Max(ActiveRuns) \in RunId
<1>1. ActiveRuns \in SUBSET (0 .. MaxRuns) /\ ActiveRuns \subseteq RunId
  BY BoundsAssumption DEF ActiveRuns, Runs, RunId
<1> QED  BY <1>1, MaxOfInterval, BoundsAssumption

\* The first stage of the policy, and the next one, exist.
LEMMA FirstStageType == Min(Stages) \in Stages /\ Min(Stages) \in Nat
  BY StagesAssumption, MinOfNats

\* A case that is not at its last stage moves to a later stage that exists.
LEMMA NextStage ==
  ASSUME NEW case, LaterStages(case) # {}
  PROVE  /\ Min(LaterStages(case)) \in Stages
         /\ Min(LaterStages(case)) \in Nat
         /\ \A s \in LaterStages(case) : Min(LaterStages(case)) <= s
<1>1. LaterStages(case) \in SUBSET Nat /\ LaterStages(case) \subseteq Stages
  BY StagesAssumption DEF LaterStages
<1> QED  BY <1>1, MinOfNats

---------------------------------------------------------------------------
(* TypeInv is inductive                                                    *)

\* The initial state satisfies the typing invariant.
LEMMA TypeInit == Init => TypeInv
<1> SUFFICES ASSUME Init PROVE TypeInv
  OBVIOUS
<1>1. TypeOK
  <2>1. NoRow \in Row /\ NoCase \in Case
    BY DEF NoRow, NoCase, Row, Case, RowState, NullableScore, CaseStatus
  <2> QED
    BY <2>1, IdleIsTyped
    DEF Init, TypeOK, WorkflowState, RunStatus, JobStatus
<1>2. /\ QueuedRunsHaveJobs /\ CasesHaveRuns /\ DecidedCasesExist
      /\ ReopenedCasesExist
  BY DEF Init, QueuedRunsHaveJobs, CasesHaveRuns, NoCase, DecidedCasesExist,
         ReopenedCasesExist, Idle
<1> QED  BY <1>1, <1>2 DEF TypeInv

\* Preparing a run: the request goes from its read to its commit to the broker.
LEMMA TypePrepare ==
  ASSUME TypeInv, NEW q \in Requests,
         PrepareRead(q) \/ PrepareLocked(q) \/ Enqueue(q) \/ EnqueueLost(q)
  PROVE  TypeInv'
<1> USE DEF ledgerVars, queueVars, moderationVars
<1>1. CASE PrepareRead(q)
  <2>1. PICK rq \in Request : /\ request' = [request EXCEPT ![q] = rq]
                              /\ rq.op \in {"PREPARE", "ENQUEUE", "IDLE"}
    <3>1. CASE ActiveRuns = {}
      <4>1. [op |-> "PREPARE"] \in Request
        BY DEF Request
      <4>2. request' = [request EXCEPT ![q] = [op |-> "PREPARE"]]
        BY <1>1, <3>1 DEF PrepareRead
      <4> QED  BY <4>1, <4>2
    <3>2. CASE ActiveRuns # {}
      BY <1>1, <3>2, AfterActiveRunType DEF PrepareRead, AfterActiveRun, Idle
    <3> QED  BY <3>1, <3>2
  <2>2. TypeOK'
    BY <1>1, <2>1 DEF PrepareRead, TypeInv, TypeOK
  <2> QED
    BY <1>1, <2>1, <2>2
    DEF PrepareRead, TypeInv, TypeOK, QueuedRunsHaveJobs, CasesHaveRuns,
        DecidedCasesExist, ReopenedCasesExist
<1>2. CASE PrepareLocked(q)
  <2>1. CASE ActiveRuns # {}
    <3>1. AfterActiveRun \in Request
             /\ AfterActiveRun.op \in {"ENQUEUE", "IDLE"}
      BY <2>1, AfterActiveRunType DEF AfterActiveRun, Idle
    <3>2. TypeOK'
      BY <1>2, <2>1, <3>1 DEF PrepareLocked, TypeInv, TypeOK
    <3> QED
      BY <1>2, <2>1, <3>1, <3>2
      DEF PrepareLocked, TypeInv, TypeOK, QueuedRunsHaveJobs, CasesHaveRuns,
          DecidedCasesExist, ReopenedCasesExist
  <2>2. CASE ActiveRuns = {}
    <3> DEFINE n == Max(Runs \cup {0}) + 1
               rq == [op |-> "ENQUEUE", job |-> n]
    <3>1. /\ n \in RunId
          /\ run' = [run EXCEPT ![n] = "QUEUED"]
          /\ job' = [job EXCEPT ![n] = "QUEUED"]
          /\ workflow_state' = "EVALUATING"
          /\ request' = [request EXCEPT ![q] = rq]
      BY <1>2, <2>2 DEF PrepareLocked
    <3>2. rq \in Request
      BY <3>1 DEF Request, EnqueueRequest
    <3> HIDE DEF n
    <3>3. TypeOK'
      BY <1>2, <3>1, <3>2
      DEF PrepareLocked, TypeInv, TypeOK, RunStatus, JobStatus, WorkflowState
    <3> QED
      BY <1>2, <3>1, <3>3
      DEF PrepareLocked, TypeInv, TypeOK, QueuedRunsHaveJobs, CasesHaveRuns,
          DecidedCasesExist, ReopenedCasesExist
  <2> QED  BY <2>1, <2>2
<1>3. CASE Enqueue(q)
  <2>1. request[q].job \in RunId
    BY <1>3, RequestKinds DEF Enqueue, TypeInv, TypeOK, EnqueueRequest
  <2>2. TypeOK'
    BY <1>3, <2>1, IdleIsTyped DEF Enqueue, TypeInv, TypeOK
  <2> QED
    BY <1>3, <2>2
    DEF Enqueue, TypeInv, TypeOK, QueuedRunsHaveJobs, CasesHaveRuns,
        DecidedCasesExist, ReopenedCasesExist, Idle
<1>4. CASE EnqueueLost(q)
  <2>1. TypeOK'
    BY <1>4, IdleIsTyped DEF EnqueueLost, Faulty, TypeInv, TypeOK
  <2> QED
    BY <1>4, <2>1
    DEF EnqueueLost, TypeInv, TypeOK, QueuedRunsHaveJobs, CasesHaveRuns,
        DecidedCasesExist, ReopenedCasesExist, Idle
<1> QED  BY <1>1, <1>2, <1>3, <1>4

\* The worker, from taking a task to its commit, its failure or its death.
LEMMA TypeWorker ==
  ASSUME TypeInv, NEW w \in Workers,
         \/ WorkerStep(w)
         \/ WorkerError(w) \/ WorkerCrash(w)
  PROVE  TypeInv'
<1> USE DEF ledgerVars, queueVars, moderationVars
<1>1. CASE \E n \in RunId : WorkerTake(w, n)
  <2>1. PICK n \in RunId : WorkerTake(w, n)
    BY <1>1
  <2>2. PICK wk \in Worker : worker' = [worker EXCEPT ![w] = wk]
    <3>1. CASE ActiveRuns = {}
      BY <2>1, <3>1, IdleIsTyped DEF WorkerTake
    <3>2. CASE ActiveRuns # {}
      <4> DEFINE wk == [op |-> "LOADED", job |-> n, run |-> Max(ActiveRuns),
                        state |-> workflow_state]
      <4>1. wk \in Worker
        BY <3>2, NewestActiveRunType
        DEF Worker, PipelineSession, TypeInv, TypeOK
      <4>2. worker' = [worker EXCEPT ![w] = wk]
        BY <2>1, <3>2 DEF WorkerTake
      <4> QED  BY <4>1, <4>2
    <3> QED  BY <3>1, <3>2
  <2>3. TypeOK'
    <3>1. tasks' \in [RunId -> Nat]
      BY <2>1 DEF WorkerTake, TypeInv, TypeOK
    <3> QED  BY <2>1, <2>2, <3>1 DEF WorkerTake, TypeInv, TypeOK
  <2> QED
    BY <2>1, <2>3
    DEF WorkerTake, TypeInv, QueuedRunsHaveJobs, CasesHaveRuns,
        DecidedCasesExist, ReopenedCasesExist
<1>2. ASSUME worker[w].op # "IDLE"
      PROVE  /\ worker[w] \in PipelineSession
             /\ worker[w].run \in RunId /\ worker[w].job \in RunId
             /\ worker[w].state \in WorkflowState
  BY <1>2, WorkerKinds DEF TypeInv, TypeOK, PipelineSession
<1>3. ASSUME NEW op \in {"LOADED", "EVALUATING", "ROLLED_BACK"},
             worker[w].op # "IDLE",
             worker' = [worker EXCEPT ![w].op = op]
      PROVE  worker' \in [Workers -> Worker]
  <2>1. [worker[w] EXCEPT !.op = op] \in Worker
    BY <1>2, <1>3 DEF Worker, PipelineSession
  <2> QED  BY <1>3, <2>1 DEF TypeInv, TypeOK
<1>4. CASE WorkerClaim(w) \/ WorkerDuplicate(w) \/ WorkerError(w)
  <2>1. TypeOK'
    BY <1>3, <1>4
    DEF WorkerClaim, WorkerDuplicate, WorkerError, Faulty, TypeInv, TypeOK
  <2> QED
    BY <1>4, <2>1
    DEF WorkerClaim, WorkerDuplicate, WorkerError, TypeInv, QueuedRunsHaveJobs,
        CasesHaveRuns, DecidedCasesExist, ReopenedCasesExist
<1>5. CASE WorkerFinish(w)
  <2> DEFINE n == worker[w].run
             j == worker[w].job
  <2>1. n \in RunId /\ j \in RunId
    BY <1>2, <1>5 DEF WorkerFinish
  <2>2. PICK draft \in [Leaves -> Drafts] :
          ledger' = [ledger EXCEPT ![n] =
                       [l \in Leaves |-> DraftRow(draft[l])]]
    BY <1>5 DEF WorkerFinish
  <2>3. ledger' \in [RunId -> [Leaves -> Row]]
    <3>1. ASSUME NEW l \in Leaves
          PROVE  DraftRow(draft[l]) \in Row
      BY DraftsAssumption DEF DraftRow, Row, Draft, RowState, NullableScore
    <3> QED  BY <2>2, <3>1 DEF TypeInv, TypeOK
  <2>4. workflow_state' \in WorkflowState
    BY <1>5, FlushType DEF WorkerFinish, TypeInv, TypeOK, WorkflowState
  <2>5. run' = [run EXCEPT ![n] = "REVIEW_REQUIRED"]
        /\ job' = [job EXCEPT ![j] = "SUCCEEDED"]
    BY <1>5 DEF WorkerFinish
  <2>6. TypeOK'
    BY <1>5, <2>3, <2>4, <2>5, IdleIsTyped
    DEF WorkerFinish, TypeInv, TypeOK, RunStatus, JobStatus
  <2> QED
    BY <1>5, <2>5, <2>6
    DEF WorkerFinish, TypeInv, TypeOK, QueuedRunsHaveJobs, CasesHaveRuns,
        DecidedCasesExist, ReopenedCasesExist
<1>6. CASE WorkerFail(w)
  <2> DEFINE n == worker[w].run
             j == worker[w].job
  <2>1. n \in RunId /\ j \in RunId
    BY <1>2, <1>6 DEF WorkerFail
  <2>2. run' = [run EXCEPT ![n] = "FAILED"]
        /\ job' = [job EXCEPT ![j] = "FAILED"]
    BY <1>6 DEF WorkerFail
  <2>3. TypeOK'
    BY <1>6, <2>2, IdleIsTyped
    DEF WorkerFail, AfterFailure, TypeInv, TypeOK, RunStatus, JobStatus,
        WorkflowState
  <2> QED
    BY <1>6, <2>2, <2>3
    DEF WorkerFail, TypeInv, TypeOK, QueuedRunsHaveJobs, CasesHaveRuns,
        DecidedCasesExist, ReopenedCasesExist
<1>7. CASE WorkerCrash(w)
  <2>1. TypeOK'
    BY <1>7, IdleIsTyped DEF WorkerCrash, Faulty, TypeInv, TypeOK
  <2> QED
    BY <1>7, <2>1
    DEF WorkerCrash, TypeInv, QueuedRunsHaveJobs, CasesHaveRuns,
        DecidedCasesExist, ReopenedCasesExist
<1> QED  BY <1>1, <1>4, <1>5, <1>6, <1>7 DEF WorkerStep

\* Reviews: the row a handler stages, and the row its flush leaves, are rows.
LEMMA StagedType ==
  ASSUME TypeInv, NEW q \in Requests, ReviewCall(q)
  PROVE  \E rq \in ReviewRequest :
           /\ rq.op \in ReviewOp
           /\ request' = [request EXCEPT ![q] = rq]
           /\ UNCHANGED <<workflow_state, run, ledgerVars, queueVars,
                          moderationVars, worker, faults>>
<1>1. PICK u \in Users, n \in RunId, l \in Leaves :
        \/ AcceptQuestionEvaluation(q, u, n, l)
        \/ \E score \in OverrideScores, finals \in CriterionFinals :
             OverrideQuestionEvaluation(q, u, n, l, score, finals)
        \/ FeedbackQuestionEvaluation(q, u, n, l)
        \/ EscalateQuestionEvaluation(q, u, n, l)
  BY DEF ReviewCall
<1> DEFINE qe == ledger[n][l]
<1>2. qe \in Row
  BY DEF TypeInv, TypeOK
<1>3. ASSUME NEW type \in ReviewOp, NEW finals \in CriterionFinals,
             NEW staged \in Row, BeginReview(q, type, u, n, l, finals, staged)
      PROVE  \E rq \in ReviewRequest :
               /\ rq.op \in ReviewOp
               /\ request' = [request EXCEPT ![q] = rq]
               /\ UNCHANGED <<workflow_state, run, ledgerVars, queueVars,
                              moderationVars, worker, faults>>
  <2> DEFINE rq == [op |-> type, user |-> u, run |-> n, leaf |-> l,
                    finals |-> finals, loaded |-> qe, staged |-> staged]
  <2>1. rq \in ReviewRequest /\ rq.op \in ReviewOp
    BY <1>2 DEF ReviewRequest
  <2>2. request' = [request EXCEPT ![q] = rq]
    BY <1>3 DEF BeginReview
  <2>3. UNCHANGED <<workflow_state, run, ledgerVars, queueVars,
                    moderationVars, worker, faults>>
    BY <1>3 DEF BeginReview
  <2> HIDE DEF rq
  <2> QED  BY <2>1, <2>2, <2>3
<1>4. CASE AcceptQuestionEvaluation(q, u, n, l)
  <2> DEFINE staged == [qe EXCEPT !.state = "ACCEPTED", !.final = qe.proposed]
  <2>1. staged \in Row
    BY <1>2 DEF Row, RowState
  <2>2. BeginReview(q, "ACCEPT", u, n, l, "NONE", staged)
    BY <1>4 DEF AcceptQuestionEvaluation
  <2> QED  BY <1>3, <2>1, <2>2 DEF ReviewOp, CriterionFinals
<1>5. CASE \E score \in OverrideScores, finals \in CriterionFinals :
             OverrideQuestionEvaluation(q, u, n, l, score, finals)
  <2>1. PICK score \in OverrideScores, finals \in CriterionFinals :
          OverrideQuestionEvaluation(q, u, n, l, score, finals)
    BY <1>5
  <2>2. score \in NullableScore
    BY DEF OverrideScores, NullableScore
  <2>3. OverriddenRow(qe, score) \in Row
    <3> HIDE DEF qe
    <3>1. qe.version + 1 \in Nat
      BY <1>2 DEF Row
    <3> QED  BY <1>2, <2>2, <3>1 DEF OverriddenRow, Row, RowState
  <2>4. BeginReview(q, "OVERRIDE", u, n, l, finals, OverriddenRow(qe, score))
    BY <2>1 DEF OverrideQuestionEvaluation
  <2> QED  BY <1>3, <2>3, <2>4 DEF ReviewOp
<1>6. CASE FeedbackQuestionEvaluation(q, u, n, l)
  BY <1>2, <1>3, <1>6 DEF FeedbackQuestionEvaluation, ReviewOp, CriterionFinals
<1>7. CASE EscalateQuestionEvaluation(q, u, n, l)
  <2>1. [qe EXCEPT !.state = "ESCALATED"] \in Row
    BY <1>2 DEF Row, RowState
  <2> QED
    BY <1>3, <1>7, <2>1
    DEF EscalateQuestionEvaluation, ReviewOp, CriterionFinals
<1> QED  BY <1>1, <1>4, <1>5, <1>6, <1>7

\* The row a flush leaves is a row, whatever was committed in between.
LEMMA FlushedRowType ==
  ASSUME NEW loaded \in Row, NEW staged \in Row, NEW current \in Row,
         NEW marks \in CriterionSum \cup {NoScore}
  PROVE  FlushedRow(loaded, staged, current, marks) \in Row
  BY DEF FlushedRow, FlushColumn, Row

\* Whatever an operation leaves in the criterion rows is a sum of theirs.
LEMMA CriterionMarksType ==
  ASSUME NEW rq \in ReviewRequest, NEW row \in Row
  PROVE  CriterionMarks(rq, row) \subseteq CriterionSum \cup {NoScore}
<1>1. NullableScore \subseteq CriterionSum \cup {NoScore}
  BY MaxMarkAssumption DEF NullableScore, Score, CriterionSum
<1>2. /\ row.proposed \in NullableScore
      /\ row.marks \in CriterionSum \cup {NoScore}
  BY DEF Row
<1>3. CriterionTotals(rq.finals, rq.staged.final, row)
        \subseteq CriterionSum \cup {NoScore}
  BY DEF CriterionTotals
<1> QED  BY <1>1, <1>2, <1>3 DEF CriterionMarks

\* What a commit of a review writes: the flushed row with what its operation
\* makes of the criterion rows, and the action.
LEMMA ReviewWrites ==
  ASSUME TypeInv, NEW q \in Requests, ReviewCommit(q)
  PROVE  LET rq == request[q]
             row == ledger[rq.run][rq.leaf]
             log == reviews[rq.run][rq.leaf]
         IN  /\ rq \in ReviewRequest /\ row \in Row
             /\ \E marks \in CriterionMarks(rq, row) :
                  /\ marks \in CriterionSum \cup {NoScore}
                  /\ ledger' = [ledger EXCEPT ![rq.run][rq.leaf] =
                                  FlushedRow(rq.loaded, rq.staged, row, marks)]
             /\ reviews' = [reviews EXCEPT ![rq.run][rq.leaf] = Logged(log, rq)]
             /\ request' = [request EXCEPT ![q] = Idle]
<1> DEFINE rq == request[q]
           row == ledger[rq.run][rq.leaf]
           log == reviews[rq.run][rq.leaf]
<1>1. rq \in ReviewRequest
  BY RequestKinds DEF ReviewCommit, TypeInv, TypeOK
<1>2. rq.run \in RunId /\ rq.leaf \in Leaves /\ row \in Row
  BY <1>1 DEF ReviewRequest, TypeInv, TypeOK
<1>3. PICK marks \in CriterionMarks(rq, row) :
        ledger' = [ledger EXCEPT ![rq.run][rq.leaf] =
                     FlushedRow(rq.loaded, rq.staged, row, marks)]
  BY <1>2 DEF ReviewCommit, TypeInv, TypeOK
<1>4. marks \in CriterionSum \cup {NoScore}
  BY <1>1, <1>2, CriterionMarksType
<1>5. /\ reviews' = [reviews EXCEPT ![rq.run][rq.leaf] = Logged(log, rq)]
      /\ request' = [request EXCEPT ![q] = Idle]
  BY <1>2 DEF ReviewCommit, TypeInv, TypeOK
<1> QED  BY <1>1, <1>2, <1>3, <1>4, <1>5

\* Opening and committing a review keeps the typing invariant.
LEMMA TypeReview ==
  ASSUME TypeInv, NEW q \in Requests, ReviewCall(q) \/ ReviewCommit(q)
  PROVE  TypeInv'
<1> USE DEF ledgerVars, queueVars, moderationVars
<1>1. CASE ReviewCall(q)
  <2>1. PICK rq \in ReviewRequest :
          /\ rq.op \in ReviewOp
          /\ request' = [request EXCEPT ![q] = rq]
          /\ UNCHANGED <<workflow_state, run, ledgerVars, queueVars,
                         moderationVars, worker, faults>>
    BY <1>1, StagedType
  <2>2. rq \in Request
    BY DEF Request
  <2>3. TypeOK'
    BY <2>1, <2>2 DEF TypeInv, TypeOK
  <2> QED
    BY <2>1, <2>3
    DEF TypeInv, TypeOK, QueuedRunsHaveJobs, CasesHaveRuns,
        DecidedCasesExist, ReopenedCasesExist, ReviewOp
<1>2. CASE ReviewCommit(q)
  <2> DEFINE rq == request[q]
             row == ledger[rq.run][rq.leaf]
             log == reviews[rq.run][rq.leaf]
  <2>1. /\ rq \in ReviewRequest /\ rq.run \in RunId /\ rq.leaf \in Leaves
        /\ rq.loaded \in Row /\ rq.staged \in Row
        /\ rq.user \in Users /\ rq.op \in ReviewOp
    BY <1>2, RequestKinds DEF ReviewCommit, TypeInv, TypeOK, ReviewRequest
  <2>2. row \in Row /\ log \in Seq(ReviewAction)
    BY <2>1 DEF TypeInv, TypeOK
  <2>3. PICK marks \in CriterionSum \cup {NoScore} :
          ledger' = [ledger EXCEPT ![rq.run][rq.leaf] =
                       FlushedRow(rq.loaded, rq.staged, row, marks)]
    BY <1>2, ReviewWrites
  <2>4. Logged(log, rq) \in Seq(ReviewAction)
    <3>1. [type |-> rq.op, user |-> rq.user, score |-> rq.staged.final]
            \in ReviewAction
      BY <2>1 DEF ReviewAction, Row
    <3> HIDE DEF rq, log
    <3> QED  BY <2>2, <3>1, AppendProperties DEF Logged
  <2>5. FlushedRow(rq.loaded, rq.staged, row, marks) \in Row
    BY <2>1, <2>2, FlushedRowType
  <2>6. reviews' = [reviews EXCEPT ![rq.run][rq.leaf] = Logged(log, rq)]
    BY <1>2, <2>1 DEF ReviewCommit, TypeInv, TypeOK
  <2>7. TypeOK'
    <3>1. ledger' \in [RunId -> [Leaves -> Row]]
      BY <2>1, <2>3, <2>5 DEF TypeInv, TypeOK
    <3>2. reviews' \in [RunId -> [Leaves -> Seq(ReviewAction)]]
      BY <2>1, <2>4, <2>6 DEF TypeInv, TypeOK
    <3> QED  BY <1>2, <3>1, <3>2, IdleIsTyped DEF ReviewCommit, TypeInv, TypeOK
  <2> QED
    BY <1>2, <2>7
    DEF ReviewCommit, TypeInv, TypeOK, QueuedRunsHaveJobs, CasesHaveRuns,
        DecidedCasesExist, ReopenedCasesExist, Idle
<1> QED  BY <1>1, <1>2

\* Finalisation: the request carries the case it found, which exists.
LEMMA TypeFinalizeRead ==
  ASSUME TypeInv, NEW q \in Requests, FinalizeRead(q)
  PROVE  TypeInv'
<1> USE DEF ledgerVars, queueVars, moderationVars
<1>1. PICK n \in Runs, c \in CaseId \cup {0} :
        /\ c \in FoundCase(n)
        /\ request' = [request EXCEPT ![q] =
             [op |-> "FINALIZE", run |-> n, status |-> run[n],
              moderate |-> policy = "ACTIVE", case |-> c,
              loaded |-> IF c = 0 THEN NoCase ELSE cases[c]]]
  BY DEF FinalizeRead
<1> DEFINE loaded == IF c = 0 THEN NoCase ELSE cases[c]
           rq == [op |-> "FINALIZE", run |-> n, status |-> run[n],
                  moderate |-> policy = "ACTIVE", case |-> c,
                  loaded |-> loaded]
<1>2. loaded \in Case
  <2>1. NoCase \in Case
    BY DEF NoCase, Case, CaseStatus
  <2>2. c # 0 => cases[c] \in Case
    BY DEF TypeInv, TypeOK
  <2> QED  BY <2>1, <2>2
<1>3. c # 0 => cases[c].status # "NONE"
  BY <1>1 DEF FoundCase, OpenCases, Actionable
<1>4. rq \in FinalizeRequest
  <2>1. n \in RunId /\ run[n] \in RunStatus
    BY DEF Runs, TypeInv, TypeOK
  <2>2. (policy = "ACTIVE") \in BOOLEAN
    OBVIOUS
  <2> HIDE DEF loaded
  <2> QED  BY <1>2, <2>1, <2>2 DEF FinalizeRequest
<1>5. /\ request' = [request EXCEPT ![q] = rq]
      /\ rq.op = "FINALIZE" /\ rq.case = c
  BY <1>1
<1> HIDE DEF rq, loaded
<1>6. TypeOK'
  <2>1. rq \in Request
    BY <1>4 DEF Request
  <2> QED  BY <1>5, <2>1 DEF FinalizeRead, TypeInv, TypeOK
<1>7. UNCHANGED <<run, job, cases>>
  BY DEF FinalizeRead
<1> QED
  BY <1>3, <1>5, <1>6, <1>7
  DEF TypeInv, TypeOK, QueuedRunsHaveJobs, CasesHaveRuns, DecidedCasesExist,
      ReopenedCasesExist

\* Finalising without a policy keeps the typing invariant.
LEMMA TypeFinalizeApprove ==
  ASSUME TypeInv, NEW q \in Requests, FinalizeApprove(q)
  PROVE  TypeInv'
<1> USE DEF ledgerVars, queueVars, moderationVars
<1> DEFINE n == request[q].run
           status == FlushColumn(request[q].status, "COMPLETED", run[n])
<1>1. n \in RunId
  BY RequestKinds DEF FinalizeApprove, TypeInv, TypeOK, FinalizeRequest
<1>2. status \in RunStatus /\ (status = "QUEUED" => run[n] = "QUEUED")
  BY <1>1 DEF FlushColumn, TypeInv, TypeOK, RunStatus
<1>3. run' = [run EXCEPT ![n] = status]
  BY <1>1 DEF FinalizeApprove, TypeInv, TypeOK
<1> HIDE DEF status
<1>4. TypeOK'
  BY <1>1, <1>2, <1>3, IdleIsTyped
  DEF FinalizeApprove, TypeInv, TypeOK, WorkflowState
<1> QED
  BY <1>1, <1>2, <1>3, <1>4
  DEF FinalizeApprove, TypeInv, TypeOK, QueuedRunsHaveJobs, CasesHaveRuns,
      DecidedCasesExist, ReopenedCasesExist, Idle

\* The case a finalisation leaves: a new one at the first stage, or the one it
\* found, still about the same run.
LEMMA FinalizeModerateCase ==
  ASSUME TypeInv, NEW q \in Requests, FinalizeModerate(q)
  PROVE  /\ request[q] \in FinalizeRequest
         /\ \E c \in CaseId, case \in Case :
              /\ cases' = [cases EXCEPT ![c] = case]
              /\ case.status # "NONE" /\ case.run # 0
              /\ \/ cases[c].status = "NONE" /\ case.run = request[q].run
                 \/ cases[c].status # "NONE" /\ case.run = cases[c].run
              /\ case.status = "APPROVED" => cases[c].status = "APPROVED"
              /\ \/ case.stage = Min(Stages) \/ case.stage = 1
                 \/ case.stage = cases[c].stage
<1> DEFINE rq == request[q]
           fresh == {c \in CaseId : cases[c].status = "NONE"}
<1>1. rq \in FinalizeRequest
  BY RequestKinds DEF FinalizeModerate, TypeInv, TypeOK
<1>2. rq.run \in RunId /\ rq.run # 0 /\ rq.case \in CaseId \cup {0}
      /\ rq.loaded \in Case
  BY <1>1, BoundsAssumption DEF FinalizeRequest, RunId
<1>3. CASE rq.case = 0
  <2> DEFINE c == Min(fresh)
             case == [status |-> "PENDING", run |-> rq.run,
                      stage |-> Min(Stages)]
  <2>1. c \in CaseId /\ cases[c].status = "NONE"
    <3>1. fresh # {}
      BY <1>3 DEF FinalizeModerate
    <3>2. fresh \in SUBSET Nat
      BY DEF CaseId
    <3>3. c \in fresh
      BY <3>1, <3>2, MinOfNats
    <3> QED  BY <3>3
  <2>2. case \in Case
    BY <1>2, FirstStageType DEF Case, CaseStatus
  <2>3. cases' = [cases EXCEPT ![c] = case]
    BY <1>3 DEF FinalizeModerate
  <2> QED  BY <1>1, <1>2, <2>1, <2>2, <2>3
<1>4. CASE rq.case # 0
  <2> DEFINE c == rq.case
             case == ReopenedCase(rq.loaded, cases[c])
  <2>1. c \in CaseId /\ cases[c] \in Case
    BY <1>2, <1>4 DEF TypeInv, TypeOK
  <2>2. cases[c].status # "NONE" /\ cases[c].run # 0
    BY <1>4, <2>1 DEF FinalizeModerate, TypeInv, ReopenedCasesExist,
                      CasesHaveRuns
  <2>3. cases' = [cases EXCEPT ![c] = case]
    BY <1>4, <2>1 DEF FinalizeModerate, TypeInv, TypeOK
  <2>4. /\ case \in Case /\ case.run = cases[c].run
        /\ case.status \in {"PENDING", cases[c].status}
        /\ case.stage \in {1, cases[c].stage}
    BY <2>1 DEF ReopenedCase, FlushColumn, Case, CaseStatus
  <2> HIDE DEF c, case
  <2> QED  BY <1>1, <2>1, <2>2, <2>3, <2>4
<1> QED  BY <1>3, <1>4

\* Finalising into moderation keeps the typing invariant.
LEMMA TypeFinalizeModerate ==
  ASSUME TypeInv, NEW q \in Requests, FinalizeModerate(q)
  PROVE  TypeInv'
<1> USE DEF ledgerVars, queueVars, moderationVars
<1>1. request[q] \in FinalizeRequest
  BY FinalizeModerateCase
<1>2. PICK c \in CaseId, case \in Case :
        /\ cases' = [cases EXCEPT ![c] = case]
        /\ case.status # "NONE" /\ case.run # 0
  BY FinalizeModerateCase
<1> DEFINE n == request[q].run
           status == FlushColumn(request[q].status, "REVIEW_REQUIRED", run[n])
<1>3. n \in RunId
  BY <1>1 DEF FinalizeRequest
<1>4. status \in RunStatus /\ (status = "QUEUED" => run[n] = "QUEUED")
  BY <1>3 DEF FlushColumn, TypeInv, TypeOK, RunStatus
<1>5. run' = [run EXCEPT ![n] = status]
  BY <1>3 DEF FinalizeModerate, TypeInv, TypeOK
<1> HIDE DEF status
<1>6. /\ request' = [request EXCEPT ![q] = Idle]
      /\ workflow_state' = "MODERATION_REVIEW"
      /\ UNCHANGED <<ledger, reviews, job, tasks, policy, decisions, worker,
                     faults>>
  BY DEF FinalizeModerate
<1>7. TypeOK'
  BY <1>2, <1>3, <1>4, <1>5, <1>6, IdleIsTyped
  DEF TypeInv, TypeOK, WorkflowState
<1> QED
  BY <1>2, <1>3, <1>4, <1>5, <1>6, <1>7
  DEF TypeInv, TypeOK, QueuedRunsHaveJobs, CasesHaveRuns,
      DecidedCasesExist, ReopenedCasesExist, Idle

\* Moderation: a decision is held by the request whose lock keeps the case.
LEMMA TypeDecideRead ==
  ASSUME TypeInv, NEW q \in Requests, DecideCall(q)
  PROVE  TypeInv'
<1> USE DEF ledgerVars, queueVars, moderationVars
<1>1. PICK u \in Users, c \in CaseId, decision \in Decision :
        DecideRead(q, u, c, decision)
  BY DEF DecideCall
<1> DEFINE rq == [op |-> "DECIDE", user |-> u, case |-> c,
                  decision |-> decision, state |-> workflow_state,
                  status |-> run[cases[c].run]]
<1>2. cases[c].status # "NONE"
  BY <1>1 DEF DecideRead, Actionable
<1>3. cases[c].run \in RunId
  BY <1>2 DEF TypeInv, TypeOK, CasesHaveRuns, Case
<1>4. rq \in DecideRequest
  BY <1>3 DEF DecideRequest, TypeInv, TypeOK
<1>5. /\ request' = [request EXCEPT ![q] = rq]
      /\ rq.op = "DECIDE" /\ rq.case = c
  BY <1>1 DEF DecideRead
<1> HIDE DEF rq
<1>6. TypeOK'
  <2>1. rq \in Request
    BY <1>4 DEF Request
  <2> QED  BY <1>1, <1>5, <2>1 DEF DecideRead, TypeInv, TypeOK
<1>7. UNCHANGED <<run, job, cases>>
  BY <1>1 DEF DecideRead
<1> QED
  BY <1>2, <1>5, <1>6, <1>7
  DEF TypeInv, TypeOK, QueuedRunsHaveJobs, CasesHaveRuns, DecidedCasesExist,
      ReopenedCasesExist

\* What every decision has in common.
DecisionStep(q) ==
  DecideReturn(q) \/ DecideReject(q) \/ DecideApproveStage(q)
    \/ DecideApproveFinal(q)

\* The four outcomes of a decision: the case they write, and that its run stays.
LEMMA DecisionCase ==
  ASSUME TypeInv, NEW q \in Requests, DecisionStep(q)
  PROVE  LET rq == request[q]
             c == rq.case IN
         /\ rq \in DecideRequest
         /\ cases[c].status # "NONE" /\ cases[c].run \in RunId
         /\ \E case \in Case, state \in WorkflowState, status \in RunStatus :
              /\ Decide(q, case, state, status)
              /\ case.status # "NONE" /\ case.run = cases[c].run
              /\ status \in {rq.status, "FAILED", "COMPLETED"}
              /\ \/ case.stage = cases[c].stage
                 \/ /\ rq.decision = "APPROVE"
                    /\ LaterStages(cases[c]) # {}
                    /\ case.stage = Min(LaterStages(cases[c]))
              /\ case.status = "APPROVED" =>
                   rq.decision = "APPROVE" /\ LaterStages(cases[c]) = {}
<1> DEFINE rq == request[q]
           c == rq.case
<1>1. rq \in DecideRequest /\ rq.op = "DECIDE"
  BY RequestKinds
  DEF DecisionStep, DecideReturn, DecideReject, DecideApproveStage,
      DecideApproveFinal, TypeInv, TypeOK
<1>2. /\ c \in CaseId /\ rq.state \in WorkflowState /\ rq.status \in RunStatus
      /\ cases[c] \in Case
  BY <1>1 DEF DecideRequest, TypeInv, TypeOK
<1>3. cases[c].status # "NONE" /\ cases[c].run \in RunId
  BY <1>1, <1>2
  DEF TypeInv, TypeOK, DecidedCasesExist, CasesHaveRuns, Case
<1>4. CASE DecideReturn(q)
  <2> DEFINE case == [cases[c] EXCEPT !.status = "RETURNED"]
  <2>1. case \in Case /\ "EVALUATION_REVIEW" \in WorkflowState
    BY <1>2 DEF Case, CaseStatus, WorkflowState
  <2>2. Decide(q, case, "EVALUATION_REVIEW", rq.status)
    BY <1>4 DEF DecideReturn
  <2>3. /\ case.status = "RETURNED" /\ case.run = cases[c].run
        /\ case.stage = cases[c].stage
    BY <1>2 DEF Case
  <2> HIDE DEF case
  <2> QED  BY <1>1, <1>2, <1>3, <2>1, <2>2, <2>3
<1>5. CASE DecideReject(q)
  <2> DEFINE case == [cases[c] EXCEPT !.status = "REJECTED"]
  <2>1. /\ case \in Case
        /\ "FAILED" \in WorkflowState /\ "FAILED" \in RunStatus
    BY <1>2 DEF Case, CaseStatus, WorkflowState, RunStatus
  <2>2. Decide(q, case, "FAILED", "FAILED")
    BY <1>5 DEF DecideReject
  <2>3. /\ case.status = "REJECTED" /\ case.run = cases[c].run
        /\ case.stage = cases[c].stage
    BY <1>2 DEF Case
  <2> HIDE DEF case
  <2> QED  BY <1>1, <1>2, <1>3, <2>1, <2>2, <2>3
<1>6. CASE DecideApproveStage(q)
  <2> DEFINE case == [cases[c] EXCEPT !.status = "PENDING",
                                      !.stage = Min(LaterStages(cases[c]))]
  <2>1. LaterStages(cases[c]) # {} /\ rq.decision = "APPROVE"
    BY <1>6 DEF DecideApproveStage
  <2>2. case \in Case
    BY <1>2, <2>1, NextStage DEF Case, CaseStatus
  <2>3. Decide(q, case, rq.state, rq.status)
    BY <1>6 DEF DecideApproveStage
  <2>4. /\ case.status = "PENDING" /\ case.run = cases[c].run
        /\ case.stage = Min(LaterStages(cases[c]))
    BY <1>2 DEF Case
  <2> HIDE DEF case
  <2> QED  BY <1>1, <1>2, <1>3, <2>1, <2>2, <2>3, <2>4
<1>7. CASE DecideApproveFinal(q)
  <2> DEFINE case == [cases[c] EXCEPT !.status = "APPROVED"]
  <2>1. /\ case \in Case
        /\ "APPROVED" \in WorkflowState /\ "COMPLETED" \in RunStatus
    BY <1>2 DEF Case, CaseStatus, WorkflowState, RunStatus
  <2>2. /\ Decide(q, case, "APPROVED", "COMPLETED")
        /\ LaterStages(cases[c]) = {} /\ rq.decision = "APPROVE"
    BY <1>7 DEF DecideApproveFinal
  <2>3. /\ case.status = "APPROVED" /\ case.run = cases[c].run
        /\ case.stage = cases[c].stage
    BY <1>2 DEF Case
  <2> HIDE DEF case
  <2> QED  BY <1>1, <1>2, <1>3, <2>1, <2>2, <2>3
<1> QED  BY <1>4, <1>5, <1>6, <1>7 DEF DecisionStep

\* A decision, whatever its outcome, keeps the typing invariant.
LEMMA TypeDecide ==
  ASSUME TypeInv, NEW q \in Requests, DecisionStep(q)
  PROVE  TypeInv'
<1> USE DEF ledgerVars, queueVars, moderationVars
<1> DEFINE rq == request[q]
           c == rq.case
           n == cases[c].run
<1>1. rq \in DecideRequest /\ cases[c].status # "NONE" /\ n \in RunId
  BY DecisionCase
<1>2. PICK case \in Case, state \in WorkflowState, status \in RunStatus :
        /\ Decide(q, case, state, status)
        /\ case.status # "NONE" /\ case.run = n
        /\ status \in {rq.status, "FAILED", "COMPLETED"}
  BY DecisionCase
<1>3. c \in CaseId /\ rq.user \in Users /\ rq.decision \in Decision
  BY <1>1 DEF DecideRequest
<1> DEFINE committed == FlushColumn(rq.status, status, run[n])
<1>4. /\ committed \in RunStatus
      /\ committed = "QUEUED" => run[n] = "QUEUED"
  BY <1>1, <1>2 DEF FlushColumn, TypeInv, TypeOK
<1>5. /\ run' = [run EXCEPT ![n] = committed]
      /\ cases' = [cases EXCEPT ![c] = case]
      /\ request' = [request EXCEPT ![q] = Idle]
      /\ UNCHANGED <<ledger, reviews, job, tasks, policy, worker, faults>>
  BY <1>1, <1>2 DEF Decide, TypeInv, TypeOK
<1> HIDE DEF committed
<1>6. workflow_state' \in WorkflowState
  BY <1>2, FlushType DEF Decide, TypeInv, TypeOK
<1>7. decisions' \in [CaseId -> Seq(ModerationAction)]
  <2> DEFINE action == [stage |-> cases[c].stage, user |-> rq.user,
                        decision |-> rq.decision]
  <2>1. action \in ModerationAction
    BY <1>3 DEF ModerationAction, Case, TypeInv, TypeOK
  <2>2. decisions' = [decisions EXCEPT ![c] = Append(decisions[c], action)]
    BY <1>2, <1>3 DEF Decide, TypeInv, TypeOK
  <2> HIDE DEF action
  <2>3. Append(decisions[c], action) \in Seq(ModerationAction)
    BY <1>3, <2>1, AppendProperties DEF TypeInv, TypeOK
  <2> QED  BY <1>3, <2>2, <2>3 DEF TypeInv, TypeOK
<1>8. TypeOK'
  BY <1>1, <1>2, <1>3, <1>4, <1>5, <1>6, <1>7, IdleIsTyped
  DEF TypeInv, TypeOK
<1> QED
  BY <1>1, <1>2, <1>3, <1>4, <1>5, <1>8
  DEF TypeInv, TypeOK, QueuedRunsHaveJobs, CasesHaveRuns,
      DecidedCasesExist, ReopenedCasesExist, Idle

\* Activating or retiring the policy keeps the typing invariant.
LEMMA TypePolicy ==
  ASSUME TypeInv, ActivateModerationPolicy \/ RetireModerationPolicy
  PROVE  TypeInv'
  BY DEF ActivateModerationPolicy, RetireModerationPolicy, TypeInv, TypeOK,
         QueuedRunsHaveJobs, CasesHaveRuns, DecidedCasesExist,
         ReopenedCasesExist, ledgerVars, queueVars

\* A stuttering step keeps the typing invariant.
LEMMA TypeStutter ==
  ASSUME TypeInv, UNCHANGED vars
  PROVE  TypeInv'
  BY DEF vars, ledgerVars, queueVars, moderationVars, TypeInv, TypeOK,
         QueuedRunsHaveJobs, CasesHaveRuns, DecidedCasesExist,
         ReopenedCasesExist

\* The disjuncts of Next, as the lemmas group them.
LEMMA NextCases ==
  ASSUME Next
  PROVE  \/ \E q \in Requests :
              \/ PrepareRead(q) \/ PrepareLocked(q) \/ Enqueue(q)
              \/ EnqueueLost(q)
              \/ ReviewCall(q) \/ ReviewCommit(q)
              \/ FinalizeRead(q) \/ FinalizeApprove(q) \/ FinalizeModerate(q)
              \/ DecideCall(q) \/ DecisionStep(q)
         \/ \E w \in Workers :
              WorkerStep(w) \/ WorkerError(w) \/ WorkerCrash(w)
         \/ ActivateModerationPolicy \/ RetireModerationPolicy
  BY DEF Next, RequestStep, Fault, DecisionStep

\* Every step keeps the typing invariant.
LEMMA TypeNext ==
  ASSUME TypeInv, [Next]_vars
  PROVE  TypeInv'
<1>1. CASE UNCHANGED vars
  BY <1>1, TypeStutter
<1>2. CASE Next
  BY <1>2, NextCases, TypePrepare, TypeWorker, TypeReview, TypeFinalizeRead,
     TypeFinalizeApprove, TypeFinalizeModerate, TypeDecideRead, TypeDecide,
     TypePolicy
<1> QED  BY <1>1, <1>2

\* Every reachable state is typed: in particular the handlers' "newest job",
\* "first stage" and "next stage" queries never come back empty when they are
\* used, and a decided case always has a run.
THEOREM TypeCorrect == Spec => []TypeOK
<1>1. TypeInv => TypeOK
  BY DEF TypeInv
<1> QED  BY TypeInit, TypeNext, <1>1, PTL DEF Spec

---------------------------------------------------------------------------
(* Scores: ScoreInv is inductive relative to TypeInv                       *)

\* The initial ledger has no row, so the scoring invariant holds of it.
LEMMA ScoreInit == Init => ScoreInv
  BY DEF Init, NoRow, Idle, ReviewOp, ScoreInv, ScoredWhenReviewed, Reviewed,
         FinalScoreHasReview, AbsentRowsUnscored, ReviewsFit

\* A step that leaves the ledger alone and opens no review session.
LEMMA ScoreFrame ==
  ASSUME ScoreInv, UNCHANGED ledgerVars,
         \A q \in Requests :
           request'[q] = request[q] \/ request'[q].op \notin ReviewOp
  PROVE  ScoreInv'
<1>1. ledger' = ledger /\ reviews' = reviews
  BY DEF ledgerVars
<1>2. (ScoredWhenReviewed /\ FinalScoreHasReview /\ AbsentRowsUnscored)'
  BY <1>1 DEF ScoreInv, ScoredWhenReviewed, FinalScoreHasReview,
              AbsentRowsUnscored
<1>3. ReviewsFit'
  BY <1>1 DEF ScoreInv, ReviewsFit, ReviewFits
<1> QED  BY <1>2, <1>3 DEF ScoreInv

\* Drafting fills only absent rows, and leaves no final score.
LEMMA ScoreDraft ==
  ASSUME TypeInv, ScoreInv, NEW w \in Workers, WorkerFinish(w)
  PROVE  ScoreInv'
<1> DEFINE n == worker[w].run
<1>1. n \in RunId
  BY WorkerKinds DEF WorkerFinish, TypeInv, TypeOK, PipelineSession
<1>2. PICK draft \in [Leaves -> Drafts] :
        ledger' = [ledger EXCEPT ![n] = [l \in Leaves |-> DraftRow(draft[l])]]
  BY DEF WorkerFinish
<1>3. reviews' = reviews /\ request' = request /\ ~HasRows(n)
  BY DEF WorkerFinish
<1> HIDE DEF n
<1>4. ASSUME NEW l \in Leaves
      PROVE  /\ ledger'[n][l].final = NoScore
             /\ ledger'[n][l].state \notin Reviewed \cup {"ABSENT"}
  <2>1. ledger'[n][l] = DraftRow(draft[l])
    BY <1>1, <1>2 DEF TypeInv, TypeOK
  <2>2. draft[l].state \in {"PENDING", "PROPOSED", "REVIEW_REQUIRED"}
    BY DraftsAssumption DEF Draft
  <2> QED  BY <2>1, <2>2 DEF DraftRow, Reviewed
<1>5. ASSUME NEW m \in RunId, m # n
      PROVE  ledger'[m] = ledger[m]
  BY <1>2, <1>5 DEF TypeInv, TypeOK
<1>6. ScoredWhenReviewed'
  BY <1>4, <1>5 DEF ScoreInv, ScoredWhenReviewed
<1>7. FinalScoreHasReview'
  BY <1>3, <1>4, <1>5 DEF ScoreInv, FinalScoreHasReview
<1>8. AbsentRowsUnscored'
  BY <1>4, <1>5 DEF ScoreInv, AbsentRowsUnscored
<1>9. ReviewsFit'
  <2>1. ASSUME NEW q \in Requests, request[q].op \in ReviewOp
        PROVE  request[q].run \in RunId /\ request[q].run # n
    <3>1. request[q] \in ReviewRequest
      BY <2>1, RequestKinds DEF TypeInv, TypeOK
    <3>2. request[q].run \in RunId /\ request[q].leaf \in Leaves
      BY <3>1 DEF ReviewRequest
    <3>3. ledger[request[q].run][request[q].leaf].state # "ABSENT"
      BY <2>1 DEF ScoreInv, ReviewsFit, ReviewFits
    <3> QED  BY <1>3, <3>2, <3>3 DEF HasRows
  <2> QED  BY <1>3, <1>5, <2>1 DEF ScoreInv, ReviewsFit, ReviewFits
<1> QED  BY <1>6, <1>7, <1>8, <1>9 DEF ScoreInv

\* A review session opens on a row it fits.
LEMMA ScoreReviewCall ==
  ASSUME TypeInv, ScoreInv, NEW q \in Requests, ReviewCall(q)
  PROVE  ScoreInv'
<1>1. PICK u \in Users, n \in RunId, l \in Leaves :
        \/ AcceptQuestionEvaluation(q, u, n, l)
        \/ \E score \in OverrideScores, finals \in CriterionFinals :
             OverrideQuestionEvaluation(q, u, n, l, score, finals)
        \/ FeedbackQuestionEvaluation(q, u, n, l)
        \/ EscalateQuestionEvaluation(q, u, n, l)
  BY DEF ReviewCall
<1> DEFINE qe == ledger[n][l]
           Opened(type, finals, staged) ==
             [op |-> type, user |-> u, run |-> n, leaf |-> l,
              finals |-> finals, loaded |-> qe, staged |-> staged]
<1>2. qe \in Row
  BY DEF TypeInv, TypeOK
<1>3. ASSUME NEW type \in ReviewOp, NEW finals, NEW staged,
             BeginReview(q, type, u, n, l, finals, staged),
             qe.state # "ABSENT" => ReviewFits(Opened(type, finals, staged))
      PROVE  ScoreInv'
  <2> DEFINE rq == Opened(type, finals, staged)
  <2>1. /\ request' = [request EXCEPT ![q] = rq]
        /\ ledger' = ledger /\ reviews' = reviews /\ qe.state # "ABSENT"
    BY <1>3 DEF BeginReview, ledgerVars
  <2>2. ReviewFits(rq)
    BY <1>3, <2>1
  <2> HIDE DEF rq
  <2>3. (ScoredWhenReviewed /\ FinalScoreHasReview /\ AbsentRowsUnscored)'
    BY <2>1 DEF ScoreInv, ScoredWhenReviewed, FinalScoreHasReview,
                AbsentRowsUnscored
  <2>4. ReviewsFit'
    BY <2>1, <2>2 DEF TypeInv, TypeOK, ScoreInv, ReviewsFit, ReviewFits
  <2> QED  BY <2>3, <2>4 DEF ScoreInv
<1>4. CASE AcceptQuestionEvaluation(q, u, n, l)
  <2> DEFINE staged == [qe EXCEPT !.state = "ACCEPTED", !.final = qe.proposed]
  <2>1. BeginReview(q, "ACCEPT", u, n, l, "NONE", staged)
    BY <1>4 DEF AcceptQuestionEvaluation
  <2>2. qe.proposed \in Score
    BY <1>2, <1>4
    DEF AcceptQuestionEvaluation, Acceptable, Row, NullableScore
  <2>3. staged.state = "ACCEPTED" /\ staged.final = qe.proposed
    BY <1>2 DEF Row
  <2> HIDE DEF staged
  <2>4. qe.state # "ABSENT" => ReviewFits(Opened("ACCEPT", "NONE", staged))
    BY <2>2, <2>3 DEF ReviewFits, Scores
  <2> QED  BY <1>3, <2>1, <2>4 DEF ReviewOp
<1>5. CASE \E score \in OverrideScores, finals \in CriterionFinals :
             OverrideQuestionEvaluation(q, u, n, l, score, finals)
  <2>1. PICK score \in OverrideScores, finals \in CriterionFinals :
          OverrideQuestionEvaluation(q, u, n, l, score, finals)
    BY <1>5
  <2> DEFINE staged == OverriddenRow(qe, score)
  <2>2. BeginReview(q, "OVERRIDE", u, n, l, finals, staged)
    BY <2>1 DEF OverrideQuestionEvaluation
  <2>3. staged.state = "OVERRIDDEN" /\ staged.final = score
    BY <1>2 DEF OverriddenRow, Row
  <2> HIDE DEF staged
  <2>4. qe.state # "ABSENT" => ReviewFits(Opened("OVERRIDE", finals, staged))
    BY <2>3 DEF ReviewFits, Scores, OverrideScores
  <2> QED  BY <1>3, <2>2, <2>4 DEF ReviewOp
<1>6. CASE FeedbackQuestionEvaluation(q, u, n, l)
  <2> DEFINE staged == qe
  <2>1. BeginReview(q, "EDIT_FEEDBACK", u, n, l, "NONE", staged)
    BY <1>6 DEF FeedbackQuestionEvaluation
  <2>2. staged.state = qe.state /\ staged.final = qe.final
    BY <1>2 DEF Row
  <2> HIDE DEF staged
  <2>3. qe.state # "ABSENT" => ReviewFits(Opened("EDIT_FEEDBACK", "NONE", staged))
    BY <2>2 DEF ReviewFits, Scores
  <2> QED  BY <1>3, <2>1, <2>3 DEF ReviewOp
<1>7. CASE EscalateQuestionEvaluation(q, u, n, l)
  <2> DEFINE staged == [qe EXCEPT !.state = "ESCALATED"]
  <2>1. BeginReview(q, "ESCALATE", u, n, l, "NONE", staged)
    BY <1>7 DEF EscalateQuestionEvaluation
  <2>2. staged.state = "ESCALATED" /\ staged.final = qe.final
    BY <1>2 DEF Row
  <2> HIDE DEF staged
  <2>3. qe.state # "ABSENT" => ReviewFits(Opened("ESCALATE", "NONE", staged))
    BY <2>2 DEF ReviewFits, Scores, Reviewed
  <2> QED  BY <1>3, <2>1, <2>3 DEF ReviewOp
<1> QED  BY <1>1, <1>4, <1>5, <1>6, <1>7

\* A score, once set, is never taken back: a flush writes a score or nothing.
LEMMA CommitKeepsScore ==
  ASSUME NEW rq \in ReviewRequest, ReviewFits(rq), NEW row \in Row,
         row = ledger[rq.run][rq.leaf],
         NEW marks, NEW new,
         new = FlushedRow(rq.loaded, rq.staged, row, marks)
  PROVE  /\ new.state # "ABSENT"
         /\ row.final # NoScore => new.final # NoScore
         /\ \/ new.final = row.final
            \/ Scores(rq) /\ new.final = rq.staged.final
         /\ new.state \in Reviewed =>
              new.final \in Score \/ (row.state \in Reviewed
                                        /\ new.final = row.final)
<1>1. /\ rq.loaded \in Row /\ rq.staged \in Row /\ rq.op \in ReviewOp
      /\ rq.loaded.final \in NullableScore /\ rq.staged.final \in NullableScore
      /\ row.final \in NullableScore
  BY DEF ReviewRequest, Row
<1>2. /\ new.state = FlushColumn(rq.loaded.state, rq.staged.state, row.state)
      /\ new.final = FlushColumn(rq.loaded.final, rq.staged.final, row.final)
  BY DEF FlushedRow
<1>3. CASE Scores(rq)
  <2>1. rq.staged.final \in Score /\ rq.staged.final # NoScore
    BY <1>3, NoScoreAssumption DEF ReviewFits
  <2>2. new.final \in Score
    BY <1>1, <1>2, <2>1 DEF ReviewFits, FlushColumn, NullableScore
  <2> QED
    BY <1>2, <1>3, <2>1, <2>2, NoScoreAssumption DEF ReviewFits, FlushColumn
<1>4. CASE ~Scores(rq)
  <2>1. new.final = row.final
    BY <1>2, <1>4 DEF ReviewFits, FlushColumn
  <2>2. new.state \in Reviewed => row.state \in Reviewed
    BY <1>2, <1>4 DEF ReviewFits, FlushColumn
  <2>3. new.state # "ABSENT"
    BY <1>2 DEF ReviewFits, FlushColumn
  <2> QED  BY <2>1, <2>2, <2>3
<1> QED  BY <1>3, <1>4

\* The flush of a review keeps the scoring invariant, stale or not.
LEMMA ScoreReviewCommit ==
  ASSUME TypeInv, ScoreInv, NEW q \in Requests, ReviewCommit(q)
  PROVE  ScoreInv'
<1> DEFINE rq == request[q]
           row == ledger[rq.run][rq.leaf]
           log == reviews[rq.run][rq.leaf]
           action == [type |-> rq.op, user |-> rq.user,
                      score |-> rq.staged.final]
<1>1. rq \in ReviewRequest /\ ReviewFits(rq)
  BY RequestKinds DEF ReviewCommit, TypeInv, TypeOK, ScoreInv, ReviewsFit
<1>2. rq.run \in RunId /\ rq.leaf \in Leaves /\ row \in Row
      /\ log \in Seq(ReviewAction) /\ rq.op \in ReviewOp
  BY <1>1 DEF ReviewRequest, TypeInv, TypeOK
<1>0. PICK marks :
        ledger' = [ledger EXCEPT ![rq.run][rq.leaf] =
                     FlushedRow(rq.loaded, rq.staged, row, marks)]
  BY ReviewWrites
<1> DEFINE new == FlushedRow(rq.loaded, rq.staged, row, marks)
<1>3. /\ ledger' = [ledger EXCEPT ![rq.run][rq.leaf] = new]
      /\ reviews' = [reviews EXCEPT ![rq.run][rq.leaf] = Append(log, action)]
      /\ request' = [request EXCEPT ![q] = Idle]
  BY <1>0, ReviewWrites DEF Logged
<1>4. /\ new.state # "ABSENT"
      /\ row.final # NoScore => new.final # NoScore
      /\ \/ new.final = row.final
         \/ Scores(rq) /\ new.final = rq.staged.final
      /\ new.state \in Reviewed =>
           new.final \in Score \/ (row.state \in Reviewed
                                     /\ new.final = row.final)
  BY <1>1, <1>2, CommitKeepsScore
<1>5. /\ ledger'[rq.run][rq.leaf] = new
      /\ reviews'[rq.run][rq.leaf] = Append(log, action)
      /\ \A n \in RunId, l \in Leaves : n # rq.run \/ l # rq.leaf =>
           /\ ledger'[n][l] = ledger[n][l]
           /\ reviews'[n][l] = reviews[n][l]
  BY <1>2, <1>3 DEF TypeInv, TypeOK
<1>6. ScoredWhenReviewed'
  <2>1. new.state \in Reviewed => new.final \in Score
    BY <1>2, <1>4 DEF ScoreInv, ScoredWhenReviewed
  <2> HIDE DEF rq, new
  <2> QED  BY <1>5, <2>1 DEF ScoreInv, ScoredWhenReviewed
<1>7. FinalScoreHasReview'
  <2>1. /\ Len(Append(log, action)) = Len(log) + 1
        /\ \A i \in 1 .. Len(log) : Append(log, action)[i] = log[i]
        /\ Append(log, action)[Len(log) + 1] = action
        /\ DOMAIN log = 1 .. Len(log) /\ Len(log) \in Nat
        /\ DOMAIN Append(log, action) = 1 .. (Len(log) + 1)
    <3> HIDE DEF log, action
    <3> QED  BY <1>2, AppendProperties
  <2>2. ASSUME new.final # NoScore
        PROVE  \E i \in DOMAIN Append(log, action) :
                 /\ Append(log, action)[i].type \in {"ACCEPT", "OVERRIDE"}
                 /\ Append(log, action)[i].score = new.final
    <3>1. CASE new.final = row.final
      <4>1. PICK i \in DOMAIN log :
              /\ log[i].type \in {"ACCEPT", "OVERRIDE"}
              /\ log[i].score = row.final
        BY <1>2, <2>2, <3>1 DEF ScoreInv, FinalScoreHasReview
      <4> HIDE DEF log, action, new, row
      <4> QED  BY <2>1, <3>1, <4>1
    <3>2. CASE Scores(rq) /\ new.final = rq.staged.final
      <4>1. action.type \in {"ACCEPT", "OVERRIDE"}
            /\ action.score = new.final
        BY <3>2 DEF Scores
      <4> HIDE DEF log, action, new, row
      <4> QED  BY <2>1, <4>1
    <3> QED  BY <1>4, <3>1, <3>2
  <2> HIDE DEF rq, new, log, action
  <2>3. ASSUME NEW n \in RunId, NEW l \in Leaves,
               ledger'[n][l].final # NoScore
        PROVE  \E i \in DOMAIN reviews'[n][l] :
                 /\ reviews'[n][l][i].type \in {"ACCEPT", "OVERRIDE"}
                 /\ reviews'[n][l][i].score = ledger'[n][l].final
    <3>1. CASE n = rq.run /\ l = rq.leaf
      BY <1>5, <2>2, <2>3, <3>1
    <3>2. CASE n # rq.run \/ l # rq.leaf
      BY <1>5, <2>3, <3>2 DEF ScoreInv, FinalScoreHasReview
    <3> QED  BY <3>1, <3>2
  <2> QED  BY <2>3 DEF FinalScoreHasReview
<1>8. AbsentRowsUnscored'
  <2> HIDE DEF rq, new
  <2> QED  BY <1>4, <1>5 DEF ScoreInv, AbsentRowsUnscored
<1>9. ReviewsFit'
  <2>1. ASSUME NEW p \in Requests, request'[p].op \in ReviewOp
        PROVE  ReviewFits(request[p])'
    <3>1. request'[p] = request[p] /\ p # q
      BY <1>3, <2>1 DEF TypeInv, TypeOK, Idle, ReviewOp
    <3>2. request[p] \in ReviewRequest /\ ReviewFits(request[p])
      BY <2>1, <3>1, RequestKinds
      DEF TypeInv, TypeOK, ScoreInv, ReviewsFit
    <3>3. request[p].run \in RunId /\ request[p].leaf \in Leaves
      BY <3>2 DEF ReviewRequest
    <3> HIDE DEF new
    <3> QED  BY <1>4, <1>5, <3>1, <3>2, <3>3 DEF ReviewFits, Scores
  <2> QED  BY <2>1 DEF ReviewsFit
<1> QED  BY <1>6, <1>7, <1>8, <1>9 DEF ScoreInv

\* What the steps outside drafting and reviewing leave alone.
LEMMA OtherRequests ==
  ASSUME TypeInv, NEW q \in Requests,
         \/ PrepareRead(q) \/ PrepareLocked(q) \/ Enqueue(q) \/ EnqueueLost(q)
         \/ FinalizeRead(q) \/ FinalizeApprove(q) \/ FinalizeModerate(q)
         \/ DecideCall(q) \/ DecisionStep(q)
  PROVE  /\ UNCHANGED ledgerVars
         /\ \A p \in Requests :
              request'[p] = request[p] \/ request'[p].op \notin ReviewOp
<1> USE DEF ledgerVars
<1>0. request \in [Requests -> Request]
  BY DEF TypeInv, TypeOK
<1>1. CASE PrepareRead(q) \/ PrepareLocked(q)
  <2>1. ledger' = ledger /\ reviews' = reviews
    BY <1>1 DEF PrepareRead, PrepareLocked
  <2>2. CASE PrepareRead(q)
    BY <1>0, <2>1, <2>2 DEF PrepareRead, AfterActiveRun, Idle, ReviewOp
  <2>3. CASE PrepareLocked(q)
    BY <1>0, <2>1, <2>3 DEF PrepareLocked, AfterActiveRun, Idle, ReviewOp
  <2> QED  BY <1>1, <2>2, <2>3
<1>2. CASE Enqueue(q) \/ EnqueueLost(q) \/ FinalizeApprove(q)
             \/ FinalizeModerate(q)
  BY <1>2 DEF Enqueue, EnqueueLost, FinalizeApprove, FinalizeModerate, Idle,
              TypeInv, TypeOK, ReviewOp
<1>3. CASE FinalizeRead(q)
  BY <1>0, <1>3 DEF FinalizeRead, ReviewOp
<1>4. CASE DecideCall(q)
  BY <1>0, <1>4 DEF DecideCall, DecideRead, ReviewOp
<1>5. CASE DecisionStep(q)
  <2>1. /\ request' = [request EXCEPT ![q] = Idle]
        /\ ledger' = ledger /\ reviews' = reviews
    BY <1>5 DEF DecisionStep, DecideReturn, DecideReject, DecideApproveStage,
                DecideApproveFinal, Decide
  <2> QED  BY <2>1 DEF TypeInv, TypeOK, ReviewOp, Idle
<1> QED  BY <1>1, <1>2, <1>3, <1>4, <1>5

\* A worker writes the ledger only when it finishes a run.
LEMMA OtherWorkerSteps ==
  ASSUME NEW w \in Workers,
         WorkerStep(w) \/ WorkerError(w) \/ WorkerCrash(w),
         ~WorkerFinish(w)
  PROVE  UNCHANGED <<ledgerVars, request, cases, decisions>>
  BY DEF WorkerStep, WorkerTake, WorkerClaim, WorkerDuplicate, WorkerFail,
         WorkerError, WorkerCrash, ledgerVars, moderationVars

\* Every step keeps the scoring invariant.
LEMMA ScoreNext ==
  ASSUME TypeInv, ScoreInv, [Next]_vars
  PROVE  ScoreInv'
<1>1. CASE UNCHANGED vars
  BY <1>1, ScoreFrame DEF vars
<1>2. ASSUME NEW q \in Requests, ReviewCall(q) \/ ReviewCommit(q)
      PROVE  ScoreInv'
  BY <1>2, ScoreReviewCall, ScoreReviewCommit
<1>3. ASSUME NEW q \in Requests,
             \/ PrepareRead(q) \/ PrepareLocked(q) \/ Enqueue(q)
             \/ EnqueueLost(q) \/ FinalizeRead(q) \/ FinalizeApprove(q)
             \/ FinalizeModerate(q) \/ DecideCall(q) \/ DecisionStep(q)
      PROVE  ScoreInv'
  BY <1>3, OtherRequests, ScoreFrame
<1>4. ASSUME NEW w \in Workers,
             WorkerStep(w) \/ WorkerError(w) \/ WorkerCrash(w)
      PROVE  ScoreInv'
  <2>1. CASE WorkerFinish(w)
    BY <2>1, ScoreDraft
  <2>2. CASE ~WorkerFinish(w)
    BY <1>4, <2>2, OtherWorkerSteps, ScoreFrame
  <2> QED  BY <2>1, <2>2
<1>5. CASE ActivateModerationPolicy \/ RetireModerationPolicy
  BY <1>5, ScoreFrame
  DEF ActivateModerationPolicy, RetireModerationPolicy, ledgerVars
<1> QED  BY <1>1, <1>2, <1>3, <1>4, <1>5, NextCases

\* No interleaving of review sessions leaves an accepted or overridden row
\* without a score.
THEOREM ReviewedRowsScored == Spec => []ScoredWhenReviewed
<1>1. TypeInv /\ ScoreInv => ScoredWhenReviewed
  BY DEF ScoreInv
<1> QED
  BY TypeInit, TypeNext, ScoreInit, ScoreNext, <1>1, PTL DEF Spec

\* Every final score in the ledger is one that a teacher gave in a recorded
\* ACCEPT or OVERRIDE: no flush of stale columns can make a score up.
THEOREM ScoresHaveReviews == Spec => []FinalScoreHasReview
<1>1. TypeInv /\ ScoreInv => FinalScoreHasReview
  BY DEF ScoreInv
<1> QED
  BY TypeInit, TypeNext, ScoreInit, ScoreNext, <1>1, PTL DEF Spec

---------------------------------------------------------------------------
(* Completion: a run is completed only when fully scored                   *)

\* No run, no case and no finalisation exists initially.
LEMMA CompletionInit == Init => CompletionInv
  BY DEF Init, NoCase, Idle, CompletionInv, CompletedRunFullyScored,
         FinalizesFullyScored, CasesFullyScored

\* A fully scored run stays so: scores are never taken back and a run that has
\* rows is never drafted again.
LEMMA FullyScoredStays ==
  ASSUME TypeInv, ScoreInv, [Next]_vars, NEW n \in RunId, FullyScored(n)
  PROVE  FullyScored(n)'
<1>1. SUFFICES ASSUME ~ UNCHANGED ledger
               PROVE  FullyScored(n)'
  BY DEF FullyScored
<1>2. ASSUME NEW q \in Requests, ReviewCommit(q)
      PROVE  FullyScored(n)'
  <2> DEFINE rq == request[q]
             row == ledger[rq.run][rq.leaf]
  <2>0. PICK marks \in CriterionSum \cup {NoScore} :
          ledger' = [ledger EXCEPT ![rq.run][rq.leaf] =
                       FlushedRow(rq.loaded, rq.staged, row, marks)]
    BY <1>2, ReviewWrites
  <2> DEFINE new == FlushedRow(rq.loaded, rq.staged, row, marks)
  <2>1. rq \in ReviewRequest /\ ReviewFits(rq)
    BY <1>2, RequestKinds
    DEF ReviewCommit, TypeInv, TypeOK, ScoreInv, ReviewsFit
  <2>2. rq.run \in RunId /\ rq.leaf \in Leaves /\ row \in Row
        /\ rq.loaded \in Row /\ rq.staged \in Row
    BY <2>1 DEF ReviewRequest, TypeInv, TypeOK
  <2>3. row.final # NoScore => new.final # NoScore
    BY <2>1, <2>2, CommitKeepsScore
  <2>4. new \in Row
    BY <2>2, FlushedRowType
  <2>5. ledger' = [ledger EXCEPT ![rq.run][rq.leaf] = new]
    BY <2>0
  <2>6. row.final \in Score => new.final \in Score
    <3> HIDE DEF new, row
    <3> QED  BY <2>3, <2>4, NoScoreAssumption DEF Row, NullableScore
  <2>7. ASSUME NEW l \in Leaves
        PROVE  ledger'[n][l].final \in Score
    <3>1. CASE n = rq.run /\ l = rq.leaf
      BY <2>2, <2>5, <2>6, <3>1 DEF FullyScored, TypeInv, TypeOK
    <3>2. CASE n # rq.run \/ l # rq.leaf
      <4> HIDE DEF new, rq
      <4>1. ledger'[n][l] = ledger[n][l]
        BY <2>2, <2>5, <3>2 DEF TypeInv, TypeOK
      <4> QED  BY <4>1 DEF FullyScored
    <3> QED  BY <3>1, <3>2
  <2> QED  BY <2>7 DEF FullyScored
<1>3. ASSUME NEW w \in Workers, WorkerFinish(w)
      PROVE  FullyScored(n)'
  <2>1. ~HasRows(worker[w].run)
    BY <1>3 DEF WorkerFinish
  <2>2. HasRows(n)
    BY LeavesAssumption, NoScoreAssumption
    DEF HasRows, FullyScored, ScoreInv, AbsentRowsUnscored
  <2>3. worker[w].run # n
    BY <2>1, <2>2
  <2>4. ledger'[n] = ledger[n]
    BY <1>3, <2>3 DEF WorkerFinish, TypeInv, TypeOK
  <2> QED  BY <2>4 DEF FullyScored
<1>4. \/ \E q \in Requests : ReviewCommit(q)
      \/ \E w \in Workers : WorkerFinish(w)
  <2>1. Next
    BY <1>1 DEF vars, ledgerVars
  <2>2. ASSUME NEW q \in Requests, ReviewCall(q)
        PROVE  UNCHANGED ledgerVars
    BY <2>2, StagedType
  <2>3. CASE ActivateModerationPolicy \/ RetireModerationPolicy
    BY <1>1, <2>3
    DEF ActivateModerationPolicy, RetireModerationPolicy, ledgerVars
  <2> QED
    BY <1>1, <2>1, <2>2, <2>3, NextCases, OtherRequests, OtherWorkerSteps
    DEF ledgerVars
<1> QED  BY <1>2, <1>3, <1>4

\* A run becomes COMPLETED only from a finalisation or a final approval, and
\* both carry a fully scored run.
LEMMA CompletedFrom ==
  ASSUME TypeInv, CompletionInv, [Next]_vars, NEW n \in RunId,
         run'[n] = "COMPLETED"
  PROVE  FullyScored(n)
<1>1. CASE run[n] = "COMPLETED"
  BY <1>1 DEF CompletionInv, CompletedRunFullyScored, FullyScored
<1>2. SUFFICES ASSUME run[n] # "COMPLETED", Next
               PROVE  FullyScored(n)
  BY <1>1 DEF vars
<1>3. ASSUME NEW q \in Requests, FinalizeApprove(q)
      PROVE  FullyScored(n)
  <2>1. n = request[q].run
    BY <1>2, <1>3 DEF FinalizeApprove, TypeInv, TypeOK
  <2> QED
    BY <1>3, <2>1 DEF FinalizeApprove, CompletionInv, FinalizesFullyScored
<1>4. ASSUME NEW q \in Requests, DecisionStep(q)
      PROVE  FullyScored(n)
  <2> DEFINE c == request[q].case
  <2>1. request[q] \in DecideRequest /\ cases[c].status # "NONE"
    BY <1>4, DecisionCase
  <2>2. c \in CaseId
    BY <2>1 DEF DecideRequest
  <2>3. n = cases[c].run
    BY <1>2, <1>4
    DEF DecisionStep, DecideReturn, DecideReject, DecideApproveStage,
        DecideApproveFinal, Decide, TypeInv, TypeOK
  <2> QED  BY <2>1, <2>2, <2>3 DEF CompletionInv, CasesFullyScored
<1>5. ASSUME NEW q \in Requests,
             \/ PrepareRead(q) \/ PrepareLocked(q) \/ Enqueue(q)
             \/ EnqueueLost(q) \/ ReviewCommit(q) \/ FinalizeRead(q)
             \/ DecideCall(q) \/ ReviewCall(q)
      PROVE  FALSE
  <2>1. CASE PrepareLocked(q)
    <3>1. run' = run \/ \E m \in RunId : run' = [run EXCEPT ![m] = "QUEUED"]
      BY <2>1 DEF PrepareLocked
    <3> QED  BY <1>2, <3>1 DEF TypeInv, TypeOK
  <2>2. CASE ReviewCall(q)
    BY <1>2, <2>2, StagedType
  <2>3. CASE \/ PrepareRead(q) \/ Enqueue(q) \/ EnqueueLost(q)
             \/ ReviewCommit(q) \/ FinalizeRead(q) \/ DecideCall(q)
    BY <1>2, <2>3
    DEF PrepareRead, Enqueue, EnqueueLost, ReviewCommit, FinalizeRead,
        DecideCall, DecideRead
  <2> QED  BY <1>5, <2>1, <2>2, <2>3
<1>6. ASSUME NEW q \in Requests, FinalizeModerate(q)
      PROVE  FALSE
  <2>1. run' = [run EXCEPT ![request[q].run] =
                  FlushColumn(request[q].status, "REVIEW_REQUIRED", @)]
    BY <1>6 DEF FinalizeModerate
  <2> QED  BY <1>2, <2>1 DEF FlushColumn, TypeInv, TypeOK
<1>7. ASSUME NEW w \in Workers,
             WorkerStep(w) \/ WorkerError(w) \/ WorkerCrash(w)
      PROVE  FALSE
  <2>1. \/ run' = run
        \/ run' = [run EXCEPT ![worker[w].run] = "REVIEW_REQUIRED"]
        \/ run' = [run EXCEPT ![worker[w].run] = "FAILED"]
    BY <1>7 DEF WorkerStep, WorkerTake, WorkerClaim, WorkerFinish,
                WorkerDuplicate, WorkerFail, WorkerError, WorkerCrash
  <2> QED  BY <1>2, <2>1 DEF TypeInv, TypeOK
<1>8. CASE ActivateModerationPolicy \/ RetireModerationPolicy
  BY <1>2, <1>8 DEF ActivateModerationPolicy, RetireModerationPolicy
<1> QED  BY <1>2, <1>3, <1>4, <1>5, <1>6, <1>7, <1>8, NextCases

\* A finalisation is opened only on a run whose rows are all reviewed.
LEMMA FinalizeFrom ==
  ASSUME TypeInv, ScoreInv, CompletionInv, [Next]_vars, NEW p \in Requests,
         request'[p].op = "FINALIZE"
  PROVE  request'[p].run \in RunId /\ FullyScored(request'[p].run)
<1>1. CASE request'[p] = request[p]
  <2>1. request[p] \in FinalizeRequest
    BY <1>1, RequestKinds DEF TypeInv, TypeOK
  <2> QED
    BY <1>1, <2>1 DEF CompletionInv, FinalizesFullyScored, FinalizeRequest
<1>2. CASE FinalizeRead(p)
  <2>1. PICK n \in Runs, c \in CaseId \cup {0} :
          /\ AllReviewed(n)
          /\ request' = [request EXCEPT ![p] =
               [op |-> "FINALIZE", run |-> n, status |-> run[n],
                moderate |-> policy = "ACTIVE", case |-> c,
                loaded |-> IF c = 0 THEN NoCase ELSE cases[c]]]
    BY <1>2 DEF FinalizeRead
  <2>2. request'[p].run = n /\ n \in RunId
    BY <2>1 DEF TypeInv, TypeOK, Runs
  <2> QED
    BY <2>1, <2>2
    DEF AllReviewed, ScoreInv, ScoredWhenReviewed, FullyScored
<1>3. SUFFICES ASSUME Next, request'[p] # request[p], ~FinalizeRead(p)
               PROVE  FALSE
  BY <1>1, <1>2 DEF vars
<1>4. request \in [Requests -> Request]
  BY DEF TypeInv, TypeOK
<1>5. ASSUME NEW q \in Requests,
             PrepareRead(q) \/ PrepareLocked(q)
      PROVE  FALSE
  BY <1>3, <1>4, <1>5
  DEF PrepareRead, PrepareLocked, AfterActiveRun, Idle
<1>6. ASSUME NEW q \in Requests,
             \/ Enqueue(q) \/ EnqueueLost(q) \/ ReviewCommit(q)
             \/ FinalizeApprove(q) \/ FinalizeModerate(q)
      PROVE  FALSE
  BY <1>3, <1>4, <1>6
  DEF Enqueue, EnqueueLost, ReviewCommit, FinalizeApprove, FinalizeModerate,
      Idle
<1>7. ASSUME NEW q \in Requests, ReviewCall(q)
      PROVE  FALSE
  <2>1. PICK rq \in ReviewRequest :
          /\ rq.op \in ReviewOp
          /\ request' = [request EXCEPT ![q] = rq]
    BY <1>7, StagedType
  <2> QED  BY <1>3, <1>4, <2>1 DEF ReviewOp
<1>8. ASSUME NEW q \in Requests, FinalizeRead(q)
      PROVE  FALSE
  <2>1. q # p
    BY <1>3, <1>8
  <2>2. \E rq : request' = [request EXCEPT ![q] = rq]
    BY <1>8 DEF FinalizeRead
  <2> QED  BY <1>3, <1>4, <2>1, <2>2
<1>9. ASSUME NEW q \in Requests, DecideCall(q)
      PROVE  FALSE
  BY <1>3, <1>4, <1>9 DEF DecideCall, DecideRead
<1>10. ASSUME NEW q \in Requests, DecisionStep(q)
       PROVE  FALSE
  <2>1. request' = [request EXCEPT ![q] = Idle]
    BY <1>10
    DEF DecisionStep, DecideReturn, DecideReject, DecideApproveStage,
        DecideApproveFinal, Decide
  <2> QED  BY <1>3, <1>4, <2>1 DEF Idle
<1>11. ASSUME NEW w \in Workers,
              WorkerStep(w) \/ WorkerError(w) \/ WorkerCrash(w)
       PROVE  request' = request
  BY <1>11, OtherWorkerSteps DEF WorkerFinish
<1>12. ActivateModerationPolicy \/ RetireModerationPolicy => request' = request
  BY DEF ActivateModerationPolicy, RetireModerationPolicy
<1> QED
  BY <1>3, <1>5, <1>6, <1>7, <1>8, <1>9, <1>10, <1>11, <1>12, NextCases

\* Which steps write a case row.
LEMMA CaseWriters ==
  ASSUME TypeInv, [Next]_vars, cases' # cases
  PROVE  \E q \in Requests : FinalizeModerate(q) \/ DecisionStep(q)
<1>1. Next
  BY DEF vars, moderationVars
<1>2. ASSUME NEW q \in Requests,
             \/ PrepareRead(q) \/ PrepareLocked(q) \/ Enqueue(q)
             \/ EnqueueLost(q) \/ ReviewCommit(q) \/ FinalizeRead(q)
             \/ FinalizeApprove(q) \/ DecideCall(q)
      PROVE  FALSE
  BY <1>2
  DEF PrepareRead, PrepareLocked, Enqueue, EnqueueLost, ReviewCommit,
      FinalizeRead, FinalizeApprove, DecideCall, DecideRead, moderationVars
<1>3. ASSUME NEW q \in Requests, ReviewCall(q)
      PROVE  FALSE
  BY <1>3, StagedType DEF moderationVars
<1>4. ASSUME NEW w \in Workers,
             WorkerStep(w) \/ WorkerError(w) \/ WorkerCrash(w)
      PROVE  FALSE
  BY <1>4, OtherWorkerSteps DEF WorkerFinish, moderationVars
<1>5. ~ (ActivateModerationPolicy \/ RetireModerationPolicy)
  BY DEF ActivateModerationPolicy, RetireModerationPolicy
<1> QED  BY <1>1, <1>2, <1>3, <1>4, <1>5, NextCases

\* A case is made only by a finalisation, about the run it carries.
LEMMA CaseFrom ==
  ASSUME TypeInv, CompletionInv, [Next]_vars, NEW c \in CaseId,
         cases'[c].status # "NONE"
  PROVE  cases'[c].run \in RunId /\ FullyScored(cases'[c].run)
<1>1. CASE cases'[c] = cases[c]
  BY <1>1
  DEF CompletionInv, CasesFullyScored, TypeInv, TypeOK, CasesHaveRuns, Case
<1>2. SUFFICES ASSUME cases'[c] # cases[c]
               PROVE  cases'[c].run \in RunId /\ FullyScored(cases'[c].run)
  BY <1>1
<1>3. PICK q \in Requests : FinalizeModerate(q) \/ DecisionStep(q)
  BY <1>2, CaseWriters
<1>4. CASE FinalizeModerate(q)
  <2>1. request[q] \in FinalizeRequest /\ FullyScored(request[q].run)
    BY <1>4, FinalizeModerateCase
    DEF FinalizeModerate, CompletionInv, FinalizesFullyScored
  <2>2. PICK d \in CaseId, case \in Case :
          /\ cases' = [cases EXCEPT ![d] = case]
          /\ case.run # 0
          /\ \/ cases[d].status = "NONE" /\ case.run = request[q].run
             \/ cases[d].status # "NONE" /\ case.run = cases[d].run
    BY <1>4, FinalizeModerateCase
  <2>3. d = c /\ cases'[c] = case
    BY <1>2, <2>2 DEF TypeInv, TypeOK
  <2>4. case.run \in RunId
    BY <2>2 DEF Case
  <2> QED  BY <2>1, <2>2, <2>3, <2>4 DEF CompletionInv, CasesFullyScored
<1>5. CASE DecisionStep(q)
  <2> DEFINE d == request[q].case
  <2>1. /\ request[q] \in DecideRequest
        /\ cases[d].status # "NONE" /\ cases[d].run \in RunId
    BY <1>5, DecisionCase
  <2>2. PICK case \in Case, state \in WorkflowState, status \in RunStatus :
          Decide(q, case, state, status) /\ case.run = cases[d].run
    BY <1>5, DecisionCase
  <2>3. d \in CaseId /\ cases' = [cases EXCEPT ![d] = case]
    BY <2>1, <2>2 DEF Decide, DecideRequest
  <2>4. d = c /\ cases'[c] = case
    BY <1>2, <2>3 DEF TypeInv, TypeOK
  <2> QED  BY <2>1, <2>2, <2>3, <2>4 DEF CompletionInv, CasesFullyScored
<1> QED  BY <1>3, <1>4, <1>5

\* Every step keeps the completion invariant.
LEMMA CompletionNext ==
  ASSUME TypeInv, ScoreInv, CompletionInv, [Next]_vars
  PROVE  CompletionInv'
<1>1. CompletedRunFullyScored'
  <2>1. ASSUME NEW n \in RunId, run'[n] = "COMPLETED"
        PROVE  FullyScored(n)'
    BY <2>1, CompletedFrom, FullyScoredStays
  <2> QED  BY <2>1 DEF CompletedRunFullyScored, FullyScored
<1>2. FinalizesFullyScored'
  <2>1. ASSUME NEW q \in Requests, request'[q].op = "FINALIZE"
        PROVE  FullyScored(request[q].run)'
    <3>1. PICK n \in RunId : n = request'[q].run /\ FullyScored(n)
      BY <2>1, FinalizeFrom
    <3>2. FullyScored(n)'
      BY <3>1, FullyScoredStays
    <3> QED  BY <3>1, <3>2 DEF FullyScored
  <2> QED  BY <2>1 DEF FinalizesFullyScored
<1>3. CasesFullyScored'
  <2>1. ASSUME NEW c \in CaseId, cases'[c].status # "NONE"
        PROVE  FullyScored(cases[c].run)'
    <3>1. PICK n \in RunId : n = cases'[c].run /\ FullyScored(n)
      BY <2>1, CaseFrom
    <3>2. FullyScored(n)'
      BY <3>1, FullyScoredStays
    <3> QED  BY <3>1, <3>2 DEF FullyScored
  <2> QED  BY <2>1 DEF CasesFullyScored
<1> QED  BY <1>1, <1>2, <1>3 DEF CompletionInv

\* What publication sums is never partly null: whatever sessions interleave
\* between the reads of finalize and of the moderators and their commits, a
\* COMPLETED run has a human-approved score on every leaf.
THEOREM CompletedRunsScored == Spec => []CompletedRunFullyScored
<1>1. TypeInv /\ ScoreInv /\ CompletionInv => CompletedRunFullyScored
  BY DEF CompletionInv
<1> QED
  BY TypeInit, TypeNext, ScoreInit, ScoreNext, CompletionInit,
     CompletionNext, <1>1, PTL DEF Spec

---------------------------------------------------------------------------
(* Moderation: an approved case has the approval of every stage            *)

\* No case exists initially.
LEMMA StageInit == Init => StageInv
<1> SUFFICES ASSUME Init PROVE StageInv
  OBVIOUS
<1>1. \A c \in CaseId : cases[c].status = "NONE" /\ cases[c].stage = 0
  BY DEF Init, NoCase
<1>2. EveryStageApproved
  BY <1>1 DEF EveryStageApproved
<1>3. StagesBehindApproved
  <2>1. \A s \in Stages : ~(s < 0)
    BY StagesAssumption
  <2> QED  BY <1>1, <2>1 DEF StagesBehindApproved
<1> QED  BY <1>2, <1>3 DEF StageInv

\* Decisions are only ever appended: an approval is never lost.
LEMMA DecisionsKept ==
  ASSUME TypeInv, NEW q \in Requests, DecisionStep(q),
         NEW c \in CaseId, NEW s, Approved(c, s)
  PROVE  Approved(c, s)'
<1> DEFINE d == request[q].case
           action == [stage |-> cases[d].stage, user |-> request[q].user,
                      decision |-> request[q].decision]
<1>1. decisions' = [decisions EXCEPT ![d] = Append(@, action)]
  BY DEF DecisionStep, DecideReturn, DecideReject, DecideApproveStage,
         DecideApproveFinal, Decide
<1>2. decisions[c] \in Seq(ModerationAction)
  BY DEF TypeInv, TypeOK
<1>3. decisions'[c] = decisions[c] \/ decisions'[c] = Append(decisions[c], action)
  BY <1>1 DEF TypeInv, TypeOK
<1> HIDE DEF action
<1>4. \A i \in DOMAIN decisions[c] :
        i \in DOMAIN decisions'[c] /\ decisions'[c][i] = decisions[c][i]
  BY <1>2, <1>3
<1> QED  BY <1>4 DEF Approved

\* An APPROVE decision records the approval of the case's stage.
LEMMA DecisionRecorded ==
  ASSUME TypeInv, NEW q \in Requests, DecisionStep(q),
         request[q].decision = "APPROVE",
         NEW c, c = request[q].case, NEW stage, stage = cases[c].stage
  PROVE  Approved(c, stage)'
<1> DEFINE action == [stage |-> stage, user |-> request[q].user,
                      decision |-> "APPROVE"]
<1>1. decisions' = [decisions EXCEPT ![c] = Append(@, action)]
  BY DEF DecisionStep, DecideReturn, DecideReject, DecideApproveStage,
         DecideApproveFinal, Decide
<1>2. c \in CaseId
  BY DecisionCase DEF DecideRequest
<1>3. /\ decisions[c] \in Seq(ModerationAction)
      /\ decisions'[c] = Append(decisions[c], action)
  BY <1>1, <1>2 DEF TypeInv, TypeOK
<1>4. action.stage = stage /\ action.decision = "APPROVE"
  OBVIOUS
<1> HIDE DEF action
<1>5. /\ Len(decisions[c]) + 1 \in DOMAIN decisions'[c]
      /\ decisions'[c][Len(decisions[c]) + 1] = action
  BY <1>3
<1> QED  BY <1>4, <1>5 DEF Approved

\* Every step keeps the stage invariant.
LEMMA StageNext ==
  ASSUME TypeInv, StageInv, [Next]_vars
  PROVE  StageInv'
<1>1. CASE \E q \in Requests : DecisionStep(q)
  <2>1. PICK q \in Requests : DecisionStep(q)
    BY <1>1
  <2>2. PICK d \in CaseId : d = request[q].case /\ cases[d].status # "NONE"
    BY <2>1, DecisionCase DEF DecideRequest
  <2>3. PICK case \in Case, state \in WorkflowState, status \in RunStatus :
          /\ Decide(q, case, state, status)
          /\ \/ case.stage = cases[d].stage
             \/ /\ request[q].decision = "APPROVE"
                /\ LaterStages(cases[d]) # {}
                /\ case.stage = Min(LaterStages(cases[d]))
          /\ case.status = "APPROVED" =>
               request[q].decision = "APPROVE" /\ LaterStages(cases[d]) = {}
    BY <2>1, <2>2, DecisionCase
  <2>4. cases' = [cases EXCEPT ![d] = case]
    BY <2>2, <2>3 DEF Decide
  <2>5. ASSUME NEW s \in Stages, s < cases[d].stage
        PROVE  Approved(d, s)'
    BY <2>1, <2>2, <2>5, DecisionsKept DEF StageInv, StagesBehindApproved
  <2>6. ASSUME request[q].decision = "APPROVE",
               NEW s \in Stages, s <= cases[d].stage
        PROVE  Approved(d, s)'
    <3>1. CASE s = cases[d].stage
      BY <2>1, <2>2, <2>6, <3>1, DecisionRecorded
    <3>2. CASE s < cases[d].stage
      BY <2>5, <3>2
    <3>3. s \in Nat /\ cases[d].stage \in Nat
      BY StagesAssumption DEF TypeInv, TypeOK, Case
    <3> QED  BY <2>6, <3>1, <3>2, <3>3
  <2>7. ASSUME NEW c \in CaseId
        PROVE  /\ \A s \in Stages : s < cases'[c].stage => Approved(c, s)'
               /\ cases'[c].status = "APPROVED" =>
                    \A s \in Stages : Approved(c, s)'
    <3>1. CASE c = d
      <4>1. cases'[c] = case /\ cases[d].stage \in Nat
        BY <2>4, <3>1 DEF TypeInv, TypeOK, Case
      <4>2. ASSUME NEW s \in Stages, s < case.stage
            PROVE  Approved(c, s)'
        <5>1. CASE case.stage = cases[d].stage
          BY <2>5, <3>1, <4>2, <5>1
        <5>2. CASE /\ request[q].decision = "APPROVE"
                   /\ LaterStages(cases[d]) # {}
                   /\ case.stage = Min(LaterStages(cases[d]))
          <6>1. s \notin LaterStages(cases[d])
            BY <4>2, <5>2, NextStage, StagesAssumption
          <6>2. s <= cases[d].stage
            BY <4>1, <6>1, StagesAssumption DEF LaterStages
          <6> QED  BY <2>6, <3>1, <5>2, <6>2
        <5> QED  BY <2>3, <5>1, <5>2
      <4>3. ASSUME NEW s \in Stages, case.status = "APPROVED"
            PROVE  Approved(c, s)'
        <5>1. request[q].decision = "APPROVE" /\ s \notin LaterStages(cases[d])
          BY <2>3, <4>3
        <5>2. s <= cases[d].stage
          BY <4>1, <5>1, StagesAssumption DEF LaterStages
        <5> QED  BY <2>6, <3>1, <5>1, <5>2
      <4> QED  BY <4>1, <4>2, <4>3
    <3>2. CASE c # d
      <4>1. cases'[c] = cases[c]
        BY <2>4, <3>2 DEF TypeInv, TypeOK
      <4> QED
        BY <2>1, <4>1, DecisionsKept
        DEF StageInv, StagesBehindApproved, EveryStageApproved, Approved
    <3> QED  BY <3>1, <3>2
  <2> QED
    BY <2>7 DEF StageInv, StagesBehindApproved, EveryStageApproved, Approved
<1>2. CASE ~ \E q \in Requests : DecisionStep(q)
  <2>1. decisions' = decisions
    <3>1. CASE Next
      <4>1. ASSUME NEW q \in Requests, ReviewCall(q)
            PROVE  decisions' = decisions
        BY <4>1, StagedType DEF moderationVars
      <4>2. ASSUME NEW q \in Requests,
                   \/ PrepareRead(q) \/ PrepareLocked(q) \/ Enqueue(q)
                   \/ EnqueueLost(q) \/ ReviewCommit(q) \/ FinalizeRead(q)
                   \/ FinalizeApprove(q) \/ FinalizeModerate(q)
                   \/ DecideCall(q)
            PROVE  decisions' = decisions
        BY <4>2
        DEF PrepareRead, PrepareLocked, Enqueue, EnqueueLost, ReviewCommit,
            FinalizeRead, FinalizeApprove, FinalizeModerate, DecideCall,
            DecideRead, moderationVars
      <4>3. ASSUME NEW w \in Workers,
                   WorkerStep(w) \/ WorkerError(w) \/ WorkerCrash(w)
            PROVE  decisions' = decisions
        BY <4>3, OtherWorkerSteps DEF WorkerFinish, moderationVars
      <4>4. ActivateModerationPolicy \/ RetireModerationPolicy =>
              decisions' = decisions
        BY DEF ActivateModerationPolicy, RetireModerationPolicy
      <4> QED  BY <1>2, <3>1, <4>1, <4>2, <4>3, <4>4, NextCases
    <3> QED  BY <3>1 DEF vars, moderationVars
  <2>2. ASSUME NEW c \in CaseId
        PROVE  /\ \A s \in Stages : s < cases'[c].stage => s < cases[c].stage
               /\ cases'[c].status = "APPROVED" => cases[c].status = "APPROVED"
    <3>1. CASE cases' = cases
      BY <3>1
    <3>2. CASE cases' # cases
      <4>1. PICK q \in Requests : FinalizeModerate(q)
        BY <1>2, <3>2, CaseWriters
      <4>2. PICK d \in CaseId, case \in Case :
              /\ cases' = [cases EXCEPT ![d] = case]
              /\ case.status = "APPROVED" => cases[d].status = "APPROVED"
              /\ \/ case.stage = Min(Stages) \/ case.stage = 1
                 \/ case.stage = cases[d].stage
        BY <4>1, FinalizeModerateCase
      <4>3. \A s \in Stages : ~ (s < Min(Stages)) /\ ~ (s < 1)
        <5>1. Stages \in SUBSET Nat /\ Stages # {} /\ 0 \notin Stages
          BY StagesAssumption
        <5>2. Min(Stages) \in Stages /\ \A s \in Stages : Min(Stages) <= s
          BY <5>1, MinOfNats
        <5>3. ASSUME NEW s \in Stages
              PROVE  ~ (s < Min(Stages)) /\ ~ (s < 1)
          <6>1. s \in Nat /\ s # 0 /\ Min(Stages) \in Nat /\ Min(Stages) <= s
            BY <5>1, <5>2
          <6> QED  BY <6>1
        <5> QED  BY <5>3
      <4> QED  BY <4>2, <4>3 DEF TypeInv, TypeOK
    <3> QED  BY <3>1, <3>2
  <2> QED
    BY <2>1, <2>2
    DEF StageInv, StagesBehindApproved, EveryStageApproved, Approved
<1> QED  BY <1>1, <1>2

\* However returns, re-openings and the moderators' sessions interleave, a case
\* is APPROVED only with an approval of every stage on record.
THEOREM ApprovedCasesComplete == Spec => []EveryStageApproved
<1>1. TypeInv /\ StageInv => EveryStageApproved
  BY DEF StageInv
<1> QED
  BY TypeInit, TypeNext, StageInit, StageNext, <1>1, PTL DEF Spec

---------------------------------------------------------------------------
(* The pipeline: one active run, and drafts that stay                      *)

\* Every step keeps at most one run queued.
LEMMA ActiveRunNext ==
  ASSUME TypeInv, OneActiveRun, [Next]_vars
  PROVE  OneActiveRun'
<1>1. CASE \E q \in Requests : PrepareLocked(q)
  <2>1. \/ run' = run
        \/ /\ ActiveRuns = {}
           /\ \E m \in RunId : run' = [run EXCEPT ![m] = "QUEUED"]
    BY <1>1 DEF PrepareLocked
  <2> QED  BY <2>1 DEF OneActiveRun, ActiveRuns, Runs, TypeInv, TypeOK
<1>2. CASE ~ \E q \in Requests : PrepareLocked(q)
  <2>1. \/ run' = run
        \/ \E m \in RunId, status \in RunStatus :
             /\ run' = [run EXCEPT ![m] = status]
             /\ status = "QUEUED" => run[m] = "QUEUED"
    <3>1. CASE UNCHANGED vars
      BY <3>1 DEF vars
    <3>2. ASSUME NEW q \in Requests, FinalizeApprove(q) \/ FinalizeModerate(q)
          PROVE  \E m \in RunId, status \in RunStatus :
                   /\ run' = [run EXCEPT ![m] = status]
                   /\ status = "QUEUED" => run[m] = "QUEUED"
      <4> DEFINE m == request[q].run
      <4>1. m \in RunId
        BY <3>2, RequestKinds
        DEF FinalizeApprove, FinalizeModerate, TypeInv, TypeOK, FinalizeRequest
      <4>2. PICK status \in {"COMPLETED", "REVIEW_REQUIRED"} :
              run' = [run EXCEPT ![m] =
                        FlushColumn(request[q].status, status, run[m])]
        BY <3>2, <4>1 DEF FinalizeApprove, FinalizeModerate, TypeInv, TypeOK
      <4> DEFINE new == FlushColumn(request[q].status, status, run[m])
      <4>3. new \in RunStatus /\ (new = "QUEUED" => run[m] = "QUEUED")
        BY <4>1 DEF FlushColumn, RunStatus, TypeInv, TypeOK
      <4> HIDE DEF new
      <4>4. run' = [run EXCEPT ![m] = new]
        BY <4>2 DEF new
      <4> QED  BY <4>1, <4>3, <4>4
    <3>3. ASSUME NEW q \in Requests, DecisionStep(q)
          PROVE  \E m \in RunId, status \in RunStatus :
                   /\ run' = [run EXCEPT ![m] = status]
                   /\ status = "QUEUED" => run[m] = "QUEUED"
      <4> DEFINE m == cases[request[q].case].run
      <4>1. m \in RunId
        BY <3>3, DecisionCase
      <4>2. PICK case \in Case, state \in WorkflowState, status \in RunStatus :
              /\ Decide(q, case, state, status)
              /\ status \in {request[q].status, "FAILED", "COMPLETED"}
        BY <3>3, DecisionCase
      <4> DEFINE new == FlushColumn(request[q].status, status, run[m])
      <4>3. new \in RunStatus /\ (new = "QUEUED" => run[m] = "QUEUED")
        BY <4>1, <4>2 DEF FlushColumn, TypeInv, TypeOK
      <4>4. run' = [run EXCEPT ![m] = new]
        BY <4>1, <4>2 DEF Decide, TypeInv, TypeOK
      <4> HIDE DEF new
      <4> QED  BY <4>1, <4>3, <4>4
    <3>4. ASSUME NEW w \in Workers,
                 WorkerStep(w) \/ WorkerError(w) \/ WorkerCrash(w)
          PROVE  \/ run' = run
                 \/ \E m \in RunId, status \in RunStatus :
                      /\ run' = [run EXCEPT ![m] = status]
                      /\ status = "QUEUED" => run[m] = "QUEUED"
      <4>1. CASE WorkerFinish(w) \/ WorkerFail(w)
        <5>1. worker[w].run \in RunId
          BY <4>1, WorkerKinds
          DEF WorkerFinish, WorkerFail, TypeInv, TypeOK, PipelineSession
        <5>2. \/ run' = [run EXCEPT ![worker[w].run] = "REVIEW_REQUIRED"]
              \/ run' = [run EXCEPT ![worker[w].run] = "FAILED"]
          BY <4>1 DEF WorkerFinish, WorkerFail
        <5> QED  BY <5>1, <5>2 DEF RunStatus
      <4>2. CASE ~WorkerFinish(w) /\ ~WorkerFail(w)
        BY <3>4, <4>2 DEF WorkerStep, WorkerTake, WorkerClaim, WorkerDuplicate,
                          WorkerError, WorkerCrash
      <4> QED  BY <4>1, <4>2
    <3>5. ASSUME NEW q \in Requests,
                 \/ PrepareRead(q) \/ Enqueue(q) \/ EnqueueLost(q)
                 \/ ReviewCall(q) \/ ReviewCommit(q) \/ FinalizeRead(q)
                 \/ DecideCall(q)
          PROVE  run' = run
      <4>1. CASE ReviewCall(q)
        BY <4>1, StagedType
      <4>2. CASE ~ReviewCall(q)
        BY <3>5, <4>2
        DEF PrepareRead, Enqueue, EnqueueLost, ReviewCommit, FinalizeRead,
            DecideCall, DecideRead
      <4> QED  BY <4>1, <4>2
    <3>6. ActivateModerationPolicy \/ RetireModerationPolicy => run' = run
      BY DEF ActivateModerationPolicy, RetireModerationPolicy
    <3> QED
      BY <1>2, <3>1, <3>2, <3>3, <3>4, <3>5, <3>6, NextCases
  <2> QED  BY <2>1 DEF OneActiveRun, TypeInv, TypeOK
<1> QED  BY <1>1, <1>2

\* At most one run of a submission is queued, although prepares race, and
\* workers, finalisations and moderators write run rows they read earlier.
THEOREM AtMostOneActiveRun == Spec => []OneActiveRun
<1>1. Init => OneActiveRun
  BY DEF Init, OneActiveRun
<1> QED  BY TypeInit, TypeNext, <1>1, ActiveRunNext, PTL DEF Spec

\* A step keeps every drafted row and its proposal.
LEMMA ProposalKept ==
  ASSUME TypeInv, ScoreInv, [Next]_vars,
         NEW n \in RunId, NEW l \in Leaves, ledger[n][l].state # "ABSENT"
  PROVE  /\ ledger'[n][l].state # "ABSENT"
         /\ ledger'[n][l].proposed = ledger[n][l].proposed
<1>1. ASSUME NEW q \in Requests, ReviewCommit(q)
      PROVE  /\ ledger'[n][l].state # "ABSENT"
             /\ ledger'[n][l].proposed = ledger[n][l].proposed
  <2> DEFINE rq == request[q]
             row == ledger[rq.run][rq.leaf]
  <2>0. PICK marks :
          ledger' = [ledger EXCEPT ![rq.run][rq.leaf] =
                       FlushedRow(rq.loaded, rq.staged, row, marks)]
    BY <1>1, ReviewWrites
  <2> DEFINE new == FlushedRow(rq.loaded, rq.staged, row, marks)
  <2>1. rq \in ReviewRequest /\ ReviewFits(rq)
    BY <1>1, RequestKinds
    DEF ReviewCommit, TypeInv, TypeOK, ScoreInv, ReviewsFit
  <2>2. rq.run \in RunId /\ rq.leaf \in Leaves /\ row \in Row
    BY <2>1 DEF ReviewRequest, TypeInv, TypeOK
  <2>3. new.state # "ABSENT" /\ new.proposed = row.proposed
    <3>1. new.state # "ABSENT"
      BY <2>1, <2>2, CommitKeepsScore
    <3> QED  BY <3>1 DEF FlushedRow
  <2>4. ledger' = [ledger EXCEPT ![rq.run][rq.leaf] = new]
    BY <2>0
  <2>5. CASE n = rq.run /\ l = rq.leaf
    <3> HIDE DEF new
    <3> QED  BY <2>2, <2>3, <2>4, <2>5 DEF TypeInv, TypeOK
  <2>6. CASE n # rq.run \/ l # rq.leaf
    <3> HIDE DEF new, rq
    <3>1. ledger'[n][l] = ledger[n][l]
      BY <2>2, <2>4, <2>6 DEF TypeInv, TypeOK
    <3> QED  BY <3>1
  <2> QED  BY <2>5, <2>6
<1>2. ASSUME NEW w \in Workers, WorkerFinish(w)
      PROVE  ledger'[n] = ledger[n]
  <2>1. worker[w].run # n
    BY <1>2 DEF WorkerFinish, HasRows
  <2> QED  BY <1>2, <2>1 DEF WorkerFinish, TypeInv, TypeOK
<1>3. ASSUME NEW q \in Requests, ReviewCall(q)
      PROVE  UNCHANGED ledgerVars
  BY <1>3, StagedType
<1>4. ASSUME UNCHANGED ledgerVars
      PROVE  ledger'[n] = ledger[n]
  BY <1>4 DEF ledgerVars
<1>5. ActivateModerationPolicy \/ RetireModerationPolicy => UNCHANGED ledgerVars
  BY DEF ActivateModerationPolicy, RetireModerationPolicy, ledgerVars
<1>6. CASE UNCHANGED vars
  BY <1>4, <1>6 DEF vars
<1>7. CASE Next
  BY <1>1, <1>2, <1>3, <1>4, <1>5, <1>7, NextCases, OtherRequests,
     OtherWorkerSteps
<1> QED  BY <1>6, <1>7

\* Retries, duplicate deliveries and stale review sessions never drop a drafted
\* row and never change the proposal the teacher saw.
THEOREM ProposalsPreserved == Spec => ProposalPreserved
<1> DEFINE Keep == \A n \in RunId, l \in Leaves :
                     ledger[n][l].state # "ABSENT" =>
                       /\ ledger'[n][l].state # "ABSENT"
                       /\ ledger'[n][l].proposed = ledger[n][l].proposed
<1>1. TypeInv /\ ScoreInv /\ [Next]_vars => [Keep]_vars
  BY ProposalKept
<1>2. ProposalPreserved <=> [][Keep]_vars
  BY DEF ProposalPreserved
<1> HIDE DEF Keep
<1> QED
  BY TypeInit, TypeNext, ScoreInit, ScoreNext, <1>1, <1>2, PTL DEF Spec

\* Every step keeps a run without rows or with a row for every leaf.
LEMMA AllOrNothingNext ==
  ASSUME TypeInv, ScoreInv, LedgerAllOrNothing, [Next]_vars
  PROVE  LedgerAllOrNothing'
<1>1. CASE \E w \in Workers : WorkerFinish(w)
  <2>1. PICK w \in Workers : WorkerFinish(w)
    BY <1>1
  <2> DEFINE n == worker[w].run
  <2>2. n \in RunId
    BY <2>1, WorkerKinds DEF WorkerFinish, TypeInv, TypeOK, PipelineSession
  <2>3. PICK draft \in [Leaves -> Drafts] :
          ledger' = [ledger EXCEPT ![n] =
                       [l \in Leaves |-> DraftRow(draft[l])]]
    BY <2>1 DEF WorkerFinish
  <2> HIDE DEF n
  <2>4. ASSUME NEW l \in Leaves
        PROVE  ledger'[n][l].state # "ABSENT"
    <3>1. ledger'[n][l] = DraftRow(draft[l])
      BY <2>2, <2>3 DEF TypeInv, TypeOK
    <3>2. draft[l].state \in {"PENDING", "PROPOSED", "REVIEW_REQUIRED"}
      BY DraftsAssumption DEF Draft
    <3> QED  BY <3>1, <3>2 DEF DraftRow
  <2>5. ASSUME NEW m \in RunId, m # n
        PROVE  ledger'[m] = ledger[m]
    BY <2>3, <2>5 DEF TypeInv, TypeOK
  <2> QED  BY <2>4, <2>5 DEF LedgerAllOrNothing
<1>2. CASE ~ \E w \in Workers : WorkerFinish(w)
  <2>1. ASSUME NEW n \in RunId, NEW k \in Leaves,
               ledger'[n][k].state # "ABSENT"
        PROVE  ledger[n][k].state # "ABSENT"
    <3>1. CASE UNCHANGED ledgerVars
      BY <2>1, <3>1 DEF ledgerVars
    <3>2. ASSUME NEW q \in Requests, ReviewCommit(q)
          PROVE  ledger[n][k].state # "ABSENT"
      <4> DEFINE rq == request[q]
      <4>1. rq \in ReviewRequest /\ ReviewFits(rq)
        BY <3>2, RequestKinds
        DEF ReviewCommit, TypeInv, TypeOK, ScoreInv, ReviewsFit
      <4>2. rq.run \in RunId /\ rq.leaf \in Leaves
        BY <4>1 DEF ReviewRequest
      <4>3. CASE n = rq.run /\ k = rq.leaf
        BY <4>1, <4>3 DEF ReviewFits
      <4>4. CASE n # rq.run \/ k # rq.leaf
        <5>1. ledger'[n][k] = ledger[n][k]
          BY <3>2, <4>2, <4>4 DEF ReviewCommit, TypeInv, TypeOK
        <5> QED  BY <2>1, <5>1
      <4> QED  BY <4>3, <4>4
    <3>3. ASSUME NEW q \in Requests, ReviewCall(q)
          PROVE  UNCHANGED ledgerVars
      BY <3>3, StagedType
    <3>4. ActivateModerationPolicy \/ RetireModerationPolicy =>
            UNCHANGED ledgerVars
      BY DEF ActivateModerationPolicy, RetireModerationPolicy, ledgerVars
    <3>5. UNCHANGED vars => UNCHANGED ledgerVars
      BY DEF vars
    <3> QED
      BY <1>2, <3>1, <3>2, <3>3, <3>4, <3>5, NextCases, OtherRequests,
         OtherWorkerSteps
  <2> QED  BY <2>1, ProposalKept DEF LedgerAllOrNothing
<1> QED  BY <1>1, <1>2

\* Duplicate deliveries, errors and crashes leave a run without ledger rows or
\* with one for every leaf, and the sessions that review them add none.
THEOREM LedgersAllOrNothing == Spec => []LedgerAllOrNothing
<1>1. Init => LedgerAllOrNothing
  BY DEF Init, LedgerAllOrNothing, NoRow
<1> QED
  BY TypeInit, TypeNext, ScoreInit, ScoreNext, <1>1, AllOrNothingNext,
     PTL DEF Spec

---------------------------------------------------------------------------
(***************************************************************************)
(* What EvaluationLedger keeps when the HTTP requests of the submission    *)
(* follow one another: one session at a time, with any number of workers,  *)
(* faults, rows, users and stages.                                         *)
(*                                                                         *)
(* RowInv says that a review still sees the row it loaded and what it is   *)
(* going to do to it.  LifeInv follows the one run the submission then     *)
(* has: its task is in one place, so whoever holds it finds the run as it  *)
(* was prepared, and a finalisation or a decision commits what it read.    *)
(* ModerationInv adds where the moderation case stands.                    *)
(***************************************************************************)
\* The HTTP requests follow one another.
OneSession == \A p, q \in Requests : p = q

---------------------------------------------------------------------------
(* The inductive invariants                                                *)

\* What each review operation stages of the row it loaded.
StagedFrom(op, loaded, staged) ==
  /\ op = "ACCEPT" =>
       /\ staged.state = "ACCEPTED" /\ staged.version = loaded.version
       /\ staged.final = loaded.proposed
  /\ op = "OVERRIDE" =>
       staged.state = "OVERRIDDEN" /\ staged.version = loaded.version + 1
  /\ op = "EDIT_FEEDBACK" =>
       /\ staged.state = loaded.state /\ staged.version = loaded.version
       /\ staged.final = loaded.final
  /\ op = "ESCALATE" =>
       /\ staged.state = "ESCALATED" /\ staged.version = loaded.version
       /\ staged.final = loaded.final

\* What a review loaded is still the row.
ReviewsCurrent ==
  \A q \in Requests : request[q].op \in ReviewOp =>
    LET rq == request[q] IN
    /\ rq.loaded = ledger[rq.run][rq.leaf]
    /\ rq.loaded.state # "ABSENT"
    /\ StagedFrom(rq.op, rq.loaded, rq.staged)

OverridesIn(log) == {i \in DOMAIN log : log[i].type = "OVERRIDE"}
DecisiveIn(log) == {i \in DOMAIN log : log[i].type \in {"ACCEPT", "OVERRIDE"}}

\* A row agrees with the log of its review actions.
RowAgrees(row, log) ==
  /\ row.state = "ABSENT" => log = << >>
  /\ row.state # "ABSENT" => row.version = 1 + Cardinality(OverridesIn(log))
  /\ DecisiveIn(log) # {} => row.final = log[Max(DecisiveIn(log))].score

RowsAgree == \A n \in RunId, l \in Leaves : RowAgrees(ledger[n][l], reviews[n][l])

RowInv == ReviewsCurrent /\ RowsAgree

\* The submission has no run before it is prepared and one afterwards.
OneRun ==
  /\ Runs \subseteq {1}
  /\ workflow_state = "READY_FOR_EVALUATION" => Runs = {}
  /\ workflow_state \in {"APPROVED", "MODERATION_REVIEW"} => Runs # {}
  /\ Runs = {} => \A n \in RunId : tasks[n] = 0
  /\ \A q \in Requests : request[q].op = "PREPARE" => Runs = {}

\* Its task is in one place: still to be enqueued, in the broker, or taken.
OneTask ==
  /\ \A m, n \in RunId : tasks[m] # 0 /\ tasks[n] # 0 => m = n
  /\ \A n \in RunId : tasks[n] <= 1
  /\ \A v, w \in Workers : worker[v] # Idle /\ worker[w] # Idle => v = w
  /\ \A n \in RunId, w \in Workers : tasks[n] # 0 => worker[w] = Idle
  /\ \A q \in Requests : request[q].op = "ENQUEUE" =>
       /\ Runs # {}
       /\ \A n \in RunId : tasks[n] = 0
       /\ \A w \in Workers : worker[w] = Idle

WorkersHoldQueued ==
  \A w \in Workers : worker[w] # Idle => run[worker[w].run] = "QUEUED"

QueuedRunsBare ==
  \A n \in RunId : run[n] \in {"NONE", "QUEUED"} => ~HasRows(n)

\* A finalisation still sees the run and the case it read.
FinalizesCurrent ==
  \A q \in Requests : request[q].op = "FINALIZE" =>
    LET rq == request[q] IN
    /\ rq.run \in Runs /\ HasRows(rq.run) /\ rq.status = run[rq.run]
    /\ rq.case # 0 => /\ rq.loaded = cases[rq.case]
                      /\ cases[rq.case].run = rq.run
                      /\ cases[rq.case].status \in Actionable

\* A decision still sees the submission, the run and the case it read.
DecisionsCurrent ==
  \A q \in Requests : request[q].op = "DECIDE" =>
    LET rq == request[q] IN
    /\ rq.state = workflow_state
    /\ rq.status = run[cases[rq.case].run]
    /\ cases[rq.case].status \in Actionable

CasesHaveRows ==
  \A c \in CaseId : cases[c].status # "NONE" =>
    cases[c].run \in Runs /\ HasRows(cases[c].run)

LifeInv ==
  OneRun /\ OneTask /\ WorkersHoldQueued /\ QueuedRunsBare /\ FinalizesCurrent
    /\ DecisionsCurrent /\ CasesHaveRows /\ ApprovedMeansCompleted

\* A case's stage is one that someone may decide, or the stage 1 at which it
\* was re-opened.
StageReached(case, c) ==
  case.stage \in Stages \/ (case.stage = 1 /\ ReturnedBefore(c))

OpenCasesHaveStage ==
  \A c \in CaseId : cases[c].status \in Actionable => StageReached(cases[c], c)

ReturnsRecorded ==
  \A c \in CaseId : cases[c].status = "RETURNED" => ReturnedBefore(c)

ModerationInv == OpenCasesHaveStage /\ ReturnsRecorded /\ ModerationHasCase

---------------------------------------------------------------------------
(* Logs of review actions                                                  *)

\* Recording an action adds one entry at the end of the row's log.
LEMMA AppendedEntries ==
  ASSUME NEW log \in Seq(ReviewAction), NEW a \in ReviewAction
  PROVE  LET n == Len(log) + 1
             new == Append(log, a) IN
         /\ n \in Nat \ {0} /\ n \notin DOMAIN log
         /\ DOMAIN log = 1 .. Len(log)
         /\ DOMAIN new = DOMAIN log \cup {n}
         /\ new[n] = a
         /\ \A i \in DOMAIN log : new[i] = log[i] /\ i < n
<1>1. Len(log) \in Nat /\ DOMAIN log = 1 .. Len(log)
  OBVIOUS
<1>2. /\ Append(log, a) \in Seq(ReviewAction)
      /\ Len(Append(log, a)) = Len(log) + 1
      /\ \A i \in 1 .. Len(log) : Append(log, a)[i] = log[i]
      /\ Append(log, a)[Len(log) + 1] = a
  BY AppendProperties
<1>3. DOMAIN Append(log, a) = 1 .. (Len(log) + 1)
  BY <1>2
<1> HIDE DEF ReviewAction
<1> QED  BY <1>1, <1>2, <1>3

\* The overrides recorded on a row grow by one with an override and by nothing
\* with any other action.
LEMMA AppendedOverrides ==
  ASSUME NEW log \in Seq(ReviewAction), NEW a \in ReviewAction
  PROVE  /\ Cardinality(OverridesIn(log)) \in Nat
         /\ Cardinality(OverridesIn(Append(log, a))) =
              IF a.type = "OVERRIDE" THEN Cardinality(OverridesIn(log)) + 1
              ELSE Cardinality(OverridesIn(log))
<1> DEFINE n == Len(log) + 1
           new == Append(log, a)
<1>1. /\ n \in Nat \ {0} /\ n \notin DOMAIN log
      /\ DOMAIN log = 1 .. Len(log)
      /\ DOMAIN new = DOMAIN log \cup {n}
      /\ new[n] = a
      /\ \A i \in DOMAIN log : new[i] = log[i]
  BY AppendedEntries
<1>2. IsFiniteSet(DOMAIN log)
  BY <1>1, FS_Interval
<1>3. OverridesIn(log) \in SUBSET DOMAIN log
  BY DEF OverridesIn
<1>4. IsFiniteSet(OverridesIn(log))
  BY <1>2, <1>3, FS_Subset
<1>5. Cardinality(OverridesIn(log)) \in Nat
  BY <1>4, FS_CardinalityType
<1> HIDE DEF new, n
<1>6. CASE a.type = "OVERRIDE"
  <2>1. OverridesIn(new) = OverridesIn(log) \cup {n}
    BY <1>1, <1>6 DEF OverridesIn
  <2>2. n \notin OverridesIn(log)
    BY <1>1, <1>3
  <2> QED  BY <1>4, <1>5, <1>6, <2>1, <2>2, FS_AddElement DEF new
<1>7. CASE a.type # "OVERRIDE"
  <2>1. OverridesIn(new) = OverridesIn(log)
    BY <1>1, <1>7 DEF OverridesIn
  <2> QED  BY <1>5, <1>7, <2>1 DEF new
<1> QED  BY <1>6, <1>7

\* The latest decision is the action just recorded when that decides a score,
\* and otherwise the one it was before.
LEMMA AppendedDecisive ==
  ASSUME NEW log \in Seq(ReviewAction), NEW a \in ReviewAction
  PROVE  LET new == Append(log, a)
             latest == new[Max(DecisiveIn(new))] IN
         IF a.type \in {"ACCEPT", "OVERRIDE"}
         THEN latest = a
         ELSE /\ DecisiveIn(new) = DecisiveIn(log)
              /\ DecisiveIn(log) # {} => latest = log[Max(DecisiveIn(log))]
<1> DEFINE n == Len(log) + 1
           new == Append(log, a)
<1>1. /\ n \in Nat \ {0} /\ n \notin DOMAIN log
      /\ DOMAIN log = 1 .. Len(log)
      /\ DOMAIN new = DOMAIN log \cup {n}
      /\ new[n] = a
      /\ \A i \in DOMAIN log : new[i] = log[i] /\ i < n
  BY AppendedEntries
<1>2. DecisiveIn(log) \in SUBSET (0 .. n) /\ DecisiveIn(new) \in SUBSET (0 .. n)
  <2> HIDE DEF new
  <2> QED  BY <1>1 DEF DecisiveIn
<1> HIDE DEF new
<1>3. CASE a.type \in {"ACCEPT", "OVERRIDE"}
  <2>1. n \in DecisiveIn(new)
    BY <1>1, <1>3 DEF DecisiveIn
  <2>2. Max(DecisiveIn(new)) \in 0 .. n /\ Max(DecisiveIn(new)) >= n
    BY <1>1, <1>2, <2>1, MaxOfInterval
  <2>3. Max(DecisiveIn(new)) = n
    BY <1>1, <2>2
  <2> QED  BY <1>1, <1>3, <2>3 DEF new
<1>4. CASE a.type \notin {"ACCEPT", "OVERRIDE"}
  <2>1. DecisiveIn(new) = DecisiveIn(log)
    BY <1>1, <1>4 DEF DecisiveIn
  <2>2. ASSUME DecisiveIn(log) # {}
        PROVE  Max(DecisiveIn(log)) \in DOMAIN log
    <3>1. Max(DecisiveIn(log)) \in DecisiveIn(log)
      BY <1>1, <1>2, <2>2, MaxOfInterval
    <3> QED  BY <3>1 DEF DecisiveIn
  <2> QED  BY <1>1, <1>4, <2>1, <2>2 DEF new
<1> QED  BY <1>3, <1>4
---------------------------------------------------------------------------
(* One row under review: RowInv is inductive relative to TypeInv           *)

\* With nothing committed in between, a flush leaves what the handler staged.
LEMMA FlushOfCurrent ==
  ASSUME NEW loaded, NEW staged
  PROVE  FlushColumn(loaded, staged, loaded) = staged
  BY DEF FlushColumn

\* The flush of a review that still sees its row keeps the row in agreement with
\* its log: whichever operation it was, the score and the version are those of the
\* action it records.
LEMMA ReviewedRowAgrees ==
  ASSUME NEW rq \in ReviewRequest, rq.op \in ReviewOp,
         NEW log \in Seq(ReviewAction), NEW marks,
         rq.loaded.state # "ABSENT",
         StagedFrom(rq.op, rq.loaded, rq.staged),
         RowAgrees(rq.loaded, log)
  PROVE  RowAgrees(FlushedRow(rq.loaded, rq.staged, rq.loaded, marks),
                   Logged(log, rq))
<1> DEFINE row == rq.loaded
           new == FlushedRow(row, rq.staged, row, marks)
           a == [type |-> rq.op, user |-> rq.user, score |-> rq.staged.final]
           logged == Append(log, a)
<1>1. row \in Row /\ rq.staged \in Row /\ rq.user \in Users
  BY DEF ReviewRequest
<1>2. a \in ReviewAction /\ a.type = rq.op /\ a.score = rq.staged.final
  BY <1>1 DEF ReviewAction, Row
<1>3. /\ new.state = rq.staged.state /\ new.final = rq.staged.final
      /\ new.version = rq.staged.version
  BY FlushOfCurrent DEF FlushedRow
<1>4. /\ Cardinality(OverridesIn(log)) \in Nat
      /\ Cardinality(OverridesIn(logged)) =
           IF rq.op = "OVERRIDE" THEN Cardinality(OverridesIn(log)) + 1
           ELSE Cardinality(OverridesIn(log))
  BY <1>2, AppendedOverrides
<1>5. LET latest == logged[Max(DecisiveIn(logged))] IN
      IF rq.op \in {"ACCEPT", "OVERRIDE"}
      THEN latest = a
      ELSE /\ DecisiveIn(logged) = DecisiveIn(log)
           /\ DecisiveIn(log) # {} => latest = log[Max(DecisiveIn(log))]
  BY <1>2, AppendedDecisive
<1>6. Logged(log, rq) = logged
  BY DEF Logged
<1>7. new.state # "ABSENT"
  BY <1>3, Zenon DEF StagedFrom, ReviewOp
<1> HIDE DEF new, logged, a
<1>8. new.version = 1 + Cardinality(OverridesIn(logged))
  BY <1>3, <1>4 DEF RowAgrees, StagedFrom, ReviewOp
<1>9. DecisiveIn(logged) # {} =>
        new.final = logged[Max(DecisiveIn(logged))].score
  BY <1>2, <1>3, <1>5 DEF RowAgrees, StagedFrom, ReviewOp
<1> QED  BY <1>6, <1>7, <1>8, <1>9 DEF RowAgrees, new

\* The initial state satisfies the row invariant.
LEMMA RowInit == Init => RowInv
<1> SUFFICES ASSUME Init PROVE RowInv
  OBVIOUS
<1>1. DecisiveIn(<< >>) = {}
  BY DEF DecisiveIn
<1> QED
  BY <1>1 DEF Init, RowInv, ReviewsCurrent, RowsAgree, RowAgrees, NoRow, Idle,
              ReviewOp, Reviewed

\* A step that leaves the ledger alone and opens no review session.
LEMMA RowFrame ==
  ASSUME RowInv, UNCHANGED ledgerVars,
         \A q \in Requests :
           request'[q] = request[q] \/ request'[q].op \notin ReviewOp
  PROVE  RowInv'
<1>1. ledger' = ledger /\ reviews' = reviews
  BY DEF ledgerVars
<1>2. RowsAgree'
  BY <1>1 DEF RowInv, RowsAgree, RowAgrees
<1>3. ReviewsCurrent'
  BY <1>1 DEF RowInv, ReviewsCurrent, StagedFrom
<1> QED  BY <1>2, <1>3 DEF RowInv

\* Drafting a run's rows: no action is recorded on them yet.
LEMMA RowDraft ==
  ASSUME TypeInv, RowInv, NEW w \in Workers, WorkerFinish(w)
  PROVE  RowInv'
<1> DEFINE n == worker[w].run
<1>1. n \in RunId
  BY WorkerKinds DEF WorkerFinish, TypeInv, TypeOK, PipelineSession
<1>2. PICK draft \in [Leaves -> Drafts] :
        ledger' = [ledger EXCEPT ![n] = [l \in Leaves |-> DraftRow(draft[l])]]
  BY DEF WorkerFinish
<1>3. reviews' = reviews /\ request' = request
  BY DEF WorkerFinish
<1>4. /\ \A l \in Leaves : ledger'[n][l] = DraftRow(draft[l])
      /\ \A m \in RunId, l \in Leaves : m # n => ledger'[m][l] = ledger[m][l]
  BY <1>1, <1>2 DEF TypeInv, TypeOK
<1>5. \A l \in Leaves : ledger[n][l].state = "ABSENT"
  BY DEF WorkerFinish, HasRows
<1> HIDE DEF n
<1>6. RowsAgree'
  <2>1. ASSUME NEW l \in Leaves
        PROVE  RowAgrees(ledger'[n][l], reviews[n][l])
    <3>1. reviews[n][l] = << >>
      BY <1>1, <1>5 DEF RowInv, RowsAgree, RowAgrees
    <3>2. OverridesIn(<< >>) = {} /\ DecisiveIn(<< >>) = {}
      BY DEF OverridesIn, DecisiveIn
    <3>3. Cardinality(OverridesIn(<< >>)) = 0
      BY <3>2, FS_EmptySet
    <3>4. draft[l].state \in {"PENDING", "PROPOSED", "REVIEW_REQUIRED"}
      BY DraftsAssumption DEF Draft
    <3>5. /\ ledger'[n][l].state = draft[l].state
          /\ ledger'[n][l].version = 1
      <4>1. ledger'[n][l] = DraftRow(draft[l])
        BY <1>4
      <4> QED  BY <4>1 DEF DraftRow
    <3> QED  BY <3>1, <3>2, <3>3, <3>4, <3>5 DEF RowAgrees, Reviewed
  <2>2. ASSUME NEW m \in RunId, NEW l \in Leaves
        PROVE  RowAgrees(ledger'[m][l], reviews'[m][l])
    <3>1. CASE m = n
      BY <1>3, <2>1, <3>1
    <3>2. CASE m # n
      BY <1>3, <1>4, <3>2 DEF RowInv, RowsAgree
    <3> QED  BY <3>1, <3>2
  <2> QED  BY <2>2 DEF RowsAgree, RowAgrees
<1>7. ReviewsCurrent'
  <2>1. ASSUME NEW p \in Requests, request[p].op \in ReviewOp
        PROVE  ledger'[request[p].run][request[p].leaf]
                 = ledger[request[p].run][request[p].leaf]
    <3>1. /\ request[p].run \in RunId /\ request[p].leaf \in Leaves
          /\ ledger[request[p].run][request[p].leaf].state # "ABSENT"
      BY <2>1, RequestKinds
      DEF TypeInv, TypeOK, ReviewRequest, RowInv, ReviewsCurrent
    <3> QED  BY <1>4, <1>5, <3>1
  <2> QED  BY <1>3, <2>1 DEF RowInv, ReviewsCurrent, StagedFrom
<1> QED  BY <1>6, <1>7 DEF RowInv

\* What a handler stages of the row it has just loaded.
LEMMA StagedByCall ==
  ASSUME TypeInv, NEW q \in Requests, ReviewCall(q)
  PROVE  \E rq \in ReviewRequest :
           /\ request' = [request EXCEPT ![q] = rq]
           /\ rq.loaded = ledger[rq.run][rq.leaf]
           /\ rq.loaded.state # "ABSENT"
           /\ StagedFrom(rq.op, rq.loaded, rq.staged)
<1>1. PICK u \in Users, n \in RunId, l \in Leaves :
        \/ AcceptQuestionEvaluation(q, u, n, l)
        \/ \E score \in OverrideScores, finals \in CriterionFinals :
             OverrideQuestionEvaluation(q, u, n, l, score, finals)
        \/ FeedbackQuestionEvaluation(q, u, n, l)
        \/ EscalateQuestionEvaluation(q, u, n, l)
  BY DEF ReviewCall
<1> DEFINE qe == ledger[n][l]
<1>2. qe \in Row
  BY DEF TypeInv, TypeOK
<1>3. ASSUME NEW type \in ReviewOp, NEW finals \in CriterionFinals,
             NEW staged \in Row, BeginReview(q, type, u, n, l, finals, staged),
             StagedFrom(type, qe, staged)
      PROVE  \E rq \in ReviewRequest :
               /\ request' = [request EXCEPT ![q] = rq]
               /\ rq.loaded = ledger[rq.run][rq.leaf]
               /\ rq.loaded.state # "ABSENT"
               /\ StagedFrom(rq.op, rq.loaded, rq.staged)
  <2> DEFINE rq == [op |-> type, user |-> u, run |-> n, leaf |-> l,
                    finals |-> finals, loaded |-> qe, staged |-> staged]
  <2>1. rq \in ReviewRequest
    BY <1>2 DEF ReviewRequest
  <2>2. request' = [request EXCEPT ![q] = rq] /\ qe.state # "ABSENT"
    BY <1>3 DEF BeginReview
  <2>3. /\ rq.loaded = ledger[rq.run][rq.leaf] /\ rq.loaded.state # "ABSENT"
        /\ StagedFrom(rq.op, rq.loaded, rq.staged)
    BY <1>3, <2>2
  <2> HIDE DEF rq
  <2> QED  BY <2>1, <2>2, <2>3
<1>4. CASE AcceptQuestionEvaluation(q, u, n, l)
  <2> DEFINE staged == [qe EXCEPT !.state = "ACCEPTED", !.final = qe.proposed]
  <2>1. staged \in Row
    BY <1>2 DEF Row, RowState
  <2>2. BeginReview(q, "ACCEPT", u, n, l, "NONE", staged)
    BY <1>4 DEF AcceptQuestionEvaluation
  <2>3. StagedFrom("ACCEPT", qe, staged)
    <3> HIDE DEF qe
    <3> QED  BY <1>2 DEF StagedFrom, Row
  <2> QED  BY <1>3, <2>1, <2>2, <2>3 DEF ReviewOp, CriterionFinals
<1>5. CASE \E score \in OverrideScores, finals \in CriterionFinals :
             OverrideQuestionEvaluation(q, u, n, l, score, finals)
  <2>1. PICK score \in OverrideScores, finals \in CriterionFinals :
          OverrideQuestionEvaluation(q, u, n, l, score, finals)
    BY <1>5
  <2>2. score \in NullableScore
    BY DEF OverrideScores, NullableScore
  <2>3. OverriddenRow(qe, score) \in Row
    <3> HIDE DEF qe
    <3>1. qe.version + 1 \in Nat
      BY <1>2 DEF Row
    <3> QED  BY <1>2, <2>2, <3>1 DEF OverriddenRow, Row, RowState
  <2>4. StagedFrom("OVERRIDE", qe, OverriddenRow(qe, score))
    <3> HIDE DEF qe
    <3> QED  BY <1>2, <2>2 DEF StagedFrom, OverriddenRow, Row
  <2>5. BeginReview(q, "OVERRIDE", u, n, l, finals, OverriddenRow(qe, score))
    BY <2>1 DEF OverrideQuestionEvaluation
  <2> QED  BY <1>3, <2>3, <2>4, <2>5 DEF ReviewOp
<1>6. CASE FeedbackQuestionEvaluation(q, u, n, l)
  <2>1. BeginReview(q, "EDIT_FEEDBACK", u, n, l, "NONE", qe)
    BY <1>6 DEF FeedbackQuestionEvaluation
  <2>2. StagedFrom("EDIT_FEEDBACK", qe, qe)
    BY DEF StagedFrom
  <2> QED  BY <1>2, <1>3, <2>1, <2>2 DEF ReviewOp, CriterionFinals
<1>7. CASE EscalateQuestionEvaluation(q, u, n, l)
  <2> DEFINE staged == [qe EXCEPT !.state = "ESCALATED"]
  <2>1. staged \in Row
    BY <1>2 DEF Row, RowState
  <2>2. BeginReview(q, "ESCALATE", u, n, l, "NONE", staged)
    BY <1>7 DEF EscalateQuestionEvaluation
  <2>3. StagedFrom("ESCALATE", qe, staged)
    <3> HIDE DEF qe
    <3> QED  BY <1>2 DEF StagedFrom, Row
  <2> QED  BY <1>3, <2>1, <2>2, <2>3 DEF ReviewOp, CriterionFinals
<1> QED  BY <1>1, <1>4, <1>5, <1>6, <1>7

\* Opening a review keeps the row invariant.
LEMMA RowReviewCall ==
  ASSUME TypeInv, RowInv, NEW q \in Requests, ReviewCall(q)
  PROVE  RowInv'
<1>1. ledger' = ledger /\ reviews' = reviews
  BY StagedType DEF ledgerVars
<1>2. PICK rq \in ReviewRequest :
        /\ request' = [request EXCEPT ![q] = rq]
        /\ rq.loaded = ledger[rq.run][rq.leaf]
        /\ rq.loaded.state # "ABSENT"
        /\ StagedFrom(rq.op, rq.loaded, rq.staged)
  BY StagedByCall
<1>3. RowsAgree'
  BY <1>1 DEF RowInv, RowsAgree, RowAgrees
<1>4. ReviewsCurrent'
  <2>1. ASSUME NEW p \in Requests
        PROVE  request'[p] = IF p = q THEN rq ELSE request[p]
    BY <1>2 DEF TypeInv, TypeOK
  <2> QED  BY <1>1, <1>2, <2>1 DEF RowInv, ReviewsCurrent, StagedFrom
<1> QED  BY <1>3, <1>4 DEF RowInv

\* Committing the only open review keeps the row invariant.
LEMMA RowReviewCommit ==
  ASSUME OneSession, TypeInv, RowInv, NEW q \in Requests, ReviewCommit(q)
  PROVE  RowInv'
<1> DEFINE rq == request[q]
           row == ledger[rq.run][rq.leaf]
<1>0. PICK marks :
        ledger' = [ledger EXCEPT ![rq.run][rq.leaf] =
                     FlushedRow(rq.loaded, rq.staged, row, marks)]
  BY ReviewWrites
<1> DEFINE new == FlushedRow(rq.loaded, rq.staged, rq.loaded, marks)
<1>1. rq \in ReviewRequest /\ rq.op \in ReviewOp
  BY RequestKinds DEF ReviewCommit, TypeInv, TypeOK
<1>2. rq.run \in RunId /\ rq.leaf \in Leaves
  BY <1>1 DEF ReviewRequest
<1>3. /\ rq.loaded = ledger[rq.run][rq.leaf]
      /\ rq.loaded.state # "ABSENT"
      /\ StagedFrom(rq.op, rq.loaded, rq.staged)
  BY <1>1 DEF RowInv, ReviewsCurrent
<1>4. RowAgrees(new, Logged(reviews[rq.run][rq.leaf], rq))
  <2>1. /\ reviews[rq.run][rq.leaf] \in Seq(ReviewAction)
        /\ RowAgrees(rq.loaded, reviews[rq.run][rq.leaf])
    BY <1>2, <1>3 DEF TypeInv, TypeOK, RowInv, RowsAgree
  <2> QED  BY <1>1, <1>3, <2>1, ReviewedRowAgrees
<1>5. /\ ledger' = [ledger EXCEPT ![rq.run][rq.leaf] = new]
      /\ reviews' = [reviews EXCEPT ![rq.run][rq.leaf] =
                       Logged(reviews[rq.run][rq.leaf], rq)]
      /\ request' = [request EXCEPT ![q] = Idle]
  BY <1>0, <1>3, ReviewWrites
<1>6. RowsAgree'
  <2>1. ASSUME NEW n \in RunId, NEW l \in Leaves
        PROVE  RowAgrees(ledger'[n][l], reviews'[n][l])
    <3>1. CASE n = rq.run /\ l = rq.leaf
      <4>1. ledger'[n][l] = new
            /\ reviews'[n][l] = Logged(reviews[rq.run][rq.leaf], rq)
        BY <1>2, <1>5, <3>1 DEF TypeInv, TypeOK
      <4> HIDE DEF new
      <4> QED  BY <1>4, <4>1
    <3>2. CASE ~(n = rq.run /\ l = rq.leaf)
      <4>1. ledger'[n][l] = ledger[n][l] /\ reviews'[n][l] = reviews[n][l]
        BY <1>2, <1>5, <3>2 DEF TypeInv, TypeOK
      <4> QED  BY <4>1 DEF RowInv, RowsAgree
    <3> QED  BY <3>1, <3>2
  <2> QED  BY <2>1 DEF RowsAgree, RowAgrees
<1>7. ReviewsCurrent'
  <2>1. ASSUME NEW p \in Requests
        PROVE  request'[p] = Idle
    BY <1>5 DEF OneSession, TypeInv, TypeOK
  <2> QED  BY <2>1 DEF ReviewsCurrent, Idle, ReviewOp
<1> QED  BY <1>6, <1>7 DEF RowInv

\* Every step keeps the row invariant.
LEMMA RowNext ==
  ASSUME OneSession, TypeInv, RowInv, [Next]_vars
  PROVE  RowInv'
<1>1. CASE UNCHANGED vars
  BY <1>1, RowFrame DEF vars
<1>2. ASSUME NEW q \in Requests, ReviewCall(q) \/ ReviewCommit(q)
      PROVE  RowInv'
  BY <1>2, RowReviewCall, RowReviewCommit
<1>3. ASSUME NEW q \in Requests,
             \/ PrepareRead(q) \/ PrepareLocked(q) \/ Enqueue(q)
             \/ EnqueueLost(q) \/ FinalizeRead(q) \/ FinalizeApprove(q)
             \/ FinalizeModerate(q) \/ DecideCall(q) \/ DecisionStep(q)
      PROVE  RowInv'
  BY <1>3, OtherRequests, RowFrame
<1>4. ASSUME NEW w \in Workers,
             WorkerStep(w) \/ WorkerError(w) \/ WorkerCrash(w)
      PROVE  RowInv'
  <2>1. CASE WorkerFinish(w)
    BY <2>1, RowDraft
  <2>2. CASE ~WorkerFinish(w)
    BY <1>4, <2>2, OtherWorkerSteps, RowFrame
  <2> QED  BY <2>1, <2>2
<1>5. CASE ActivateModerationPolicy \/ RetireModerationPolicy
  BY <1>5, RowFrame
  DEF ActivateModerationPolicy, RetireModerationPolicy, ledgerVars
<1> QED  BY <1>1, <1>2, <1>3, <1>4, <1>5, NextCases

\* A review whose session is the only one, and which is no partial override,
\* leaves a row reconciled that was.
LEMMA ReviewKeepsReconciled ==
  ASSUME TypeInv, RowInv, NEW q \in Requests, ReviewCommit(q),
         ~PartialOverride(request[q]),
         NEW n \in RunId, NEW l \in Leaves, Reconciled(ledger[n][l])
  PROVE  Reconciled(ledger'[n][l])
<1> DEFINE rq == request[q]
           row == ledger[rq.run][rq.leaf]
<1>1. /\ rq \in ReviewRequest /\ row \in Row
      /\ rq.run \in RunId /\ rq.leaf \in Leaves /\ rq.op \in ReviewOp
      /\ rq.finals \in CriterionFinals
  BY ReviewWrites DEF ReviewRequest
<1>2. PICK marks \in CriterionMarks(rq, row) :
        ledger' = [ledger EXCEPT ![rq.run][rq.leaf] =
                     FlushedRow(rq.loaded, rq.staged, row, marks)]
  BY ReviewWrites
<1> DEFINE new == FlushedRow(rq.loaded, rq.staged, row, marks)
<1>3. CASE n = rq.run /\ l = rq.leaf
  <2>1. ledger'[n][l] = new
    BY <1>1, <1>2, <1>3 DEF TypeInv, TypeOK
  <2>2. rq.loaded = row /\ StagedFrom(rq.op, row, rq.staged)
    BY <1>1 DEF RowInv, ReviewsCurrent
  <2>3. /\ new.state = rq.staged.state /\ new.final = rq.staged.final
        /\ new.proposed = row.proposed /\ new.marks = marks
    BY <2>2, FlushOfCurrent DEF FlushedRow
  <2>4. Reconciled(row)
    BY <1>3
  <2> SUFFICES Reconciled(new)
    BY <2>1
  <2>5. CASE rq.op = "ACCEPT"
    <3>1. marks = rq.staged.final
      BY <2>2, <2>5 DEF CriterionMarks, StagedFrom
    <3> QED  BY <2>3, <3>1 DEF Reconciled
  <2>6. CASE rq.op = "OVERRIDE"
    <3>1. rq.finals \in {"ALL", "NONE"}
      BY <1>1, <2>6 DEF CriterionFinals, PartialOverride
    <3>2. marks = rq.staged.final \/ row.proposed \in {0, NoScore}
      BY <2>6, <3>1 DEF CriterionMarks, CriterionTotals
    <3> QED  BY <2>3, <3>2 DEF Reconciled
  <2>7. CASE rq.op = "EDIT_FEEDBACK"
    <3>1. marks = row.marks
      BY <2>7 DEF CriterionMarks
    <3> QED  BY <2>2, <2>3, <2>4, <2>7, <3>1 DEF Reconciled, StagedFrom
  <2>8. CASE rq.op = "ESCALATE"
    BY <2>2, <2>3, <2>8 DEF Reconciled, StagedFrom, Reviewed
  <2> HIDE DEF new
  <2> QED  BY <1>1, <2>5, <2>6, <2>7, <2>8 DEF ReviewOp
<1>4. CASE ~(n = rq.run /\ l = rq.leaf)
  <2>1. ledger'[n][l] = ledger[n][l]
    BY <1>1, <1>2, <1>4 DEF TypeInv, TypeOK
  <2> QED  BY <2>1
<1> QED  BY <1>3, <1>4

\* A step after which a row does not reconcile that did is the commit of a
\* partial override of that row.
LEMMA DriftIsPartial ==
  ASSUME TypeInv, RowInv, [Next]_vars, NEW n \in RunId, NEW l \in Leaves,
         Reconciled(ledger[n][l]), ~Reconciled(ledger'[n][l])
  PROVE  \E q \in Requests :
           /\ PartialOverride(request[q])
           /\ request[q].run = n /\ request[q].leaf = l
           /\ request'[q] = Idle
<1>1. ASSUME NEW q \in Requests, ReviewCommit(q)
      PROVE  /\ PartialOverride(request[q])
             /\ request[q].run = n /\ request[q].leaf = l
             /\ request'[q] = Idle
  <2>1. PartialOverride(request[q])
    BY <1>1, ReviewKeepsReconciled
  <2> DEFINE rq == request[q]
             row == ledger[rq.run][rq.leaf]
  <2>2. /\ rq.run \in RunId /\ rq.leaf \in Leaves
        /\ request' = [request EXCEPT ![q] = Idle]
    BY <1>1, ReviewWrites DEF ReviewRequest
  <2>3. request'[q] = Idle
    BY <2>2 DEF TypeInv, TypeOK
  <2>4. CASE ~(rq.run = n /\ rq.leaf = l)
    <3>1. PICK marks :
            ledger' = [ledger EXCEPT ![rq.run][rq.leaf] =
                         FlushedRow(rq.loaded, rq.staged, row, marks)]
      BY <1>1, ReviewWrites
    <3>2. ledger'[n][l] = ledger[n][l]
      BY <2>2, <2>4, <3>1 DEF TypeInv, TypeOK
    <3> QED  BY <3>2
  <2> QED  BY <2>1, <2>3, <2>4
<1>2. ASSUME NEW w \in Workers, WorkerFinish(w)
      PROVE  FALSE
  <2>1. PICK draft \in [Leaves -> Drafts] :
          ledger' = [ledger EXCEPT ![worker[w].run] =
                       [k \in Leaves |-> DraftRow(draft[k])]]
    BY <1>2 DEF WorkerFinish
  <2>2. CASE worker[w].run = n
    <3>1. ledger'[n][l] = DraftRow(draft[l])
      BY <2>1, <2>2 DEF TypeInv, TypeOK
    <3>2. draft[l].state \in {"PENDING", "PROPOSED", "REVIEW_REQUIRED"}
      BY DraftsAssumption DEF Draft
    <3> QED  BY <3>1, <3>2 DEF DraftRow, Reconciled, Reviewed
  <2>3. CASE worker[w].run # n
    <3>1. ledger'[n] = ledger[n]
      BY <2>1, <2>3 DEF TypeInv, TypeOK
    <3> QED  BY <3>1
  <2> QED  BY <2>2, <2>3
<1>3. ledger' # ledger
  OBVIOUS
<1>4. ASSUME NEW q \in Requests, ReviewCall(q)
      PROVE  UNCHANGED ledgerVars
  BY <1>4, StagedType
<1>5. ~UNCHANGED ledgerVars /\ ~UNCHANGED vars
  BY <1>3 DEF ledgerVars, vars
<1>6. ActivateModerationPolicy \/ RetireModerationPolicy => UNCHANGED ledgerVars
  BY DEF ActivateModerationPolicy, RetireModerationPolicy, ledgerVars
<1> QED
  BY <1>1, <1>2, <1>4, <1>5, <1>6, NextCases, OtherRequests, OtherWorkerSteps

\* With one session at a time only an override whose criterion_finals leave a
\* criterion out parts the criterion finals of a row from its score, whatever
\* the teacher did in whichever order.
THEOREM SerialOnlyPartialDrift ==
  ASSUME OneSession
  PROVE  Spec => OnlyPartialFinalsDrift
<1> DEFINE Drift == \A n \in RunId, l \in Leaves :
                      Reconciled(ledger[n][l]) /\ ~Reconciled(ledger'[n][l]) =>
                        \E q \in Requests :
                          /\ PartialOverride(request[q])
                          /\ request[q].run = n /\ request[q].leaf = l
                          /\ request'[q] = Idle
<1>1. TypeInv /\ RowInv /\ [Next]_vars => [Drift]_vars
  BY DriftIsPartial
<1>2. OnlyPartialFinalsDrift <=> [][Drift]_vars
  BY DEF OnlyPartialFinalsDrift
<1>3. TypeInv /\ RowInv /\ [Next]_vars => RowInv'
  BY RowNext
<1> HIDE DEF Drift
<1> QED
  BY TypeInit, TypeNext, RowInit, <1>1, <1>2, <1>3, PTL DEF Spec

\* With one session at a time the score is the latest decision's and
\* ledger_version has counted every override.
THEOREM SerialLedgerMatches ==
  ASSUME OneSession
  PROVE  Spec => []LedgerMatchesReviews
<1>1. RowInv => LedgerMatchesReviews
  BY DEF RowInv, RowsAgree, RowAgrees, LedgerMatchesReviews,
         LatestDecisionStands, LedgerVersionCountsOverrides, Decisive,
         DecisiveIn, OverridesIn
<1>2. TypeInv /\ RowInv /\ [Next]_vars => RowInv'
  BY RowNext
<1> QED
  BY TypeInit, TypeNext, RowInit, <1>1, <1>2, PTL DEF Spec
---------------------------------------------------------------------------
(* The life of the one run: LifeInv is inductive relative to TypeInv and   *)
(* RowInv                                                                  *)

\* The newest of one run is that run.
LEMMA NewestOfOne ==
  ASSUME NEW S, S = {1}
  PROVE  Max(S) = 1
<1>1. S \in SUBSET (0 .. 1) /\ S # {}
  OBVIOUS
<1> QED  BY <1>1, MaxOfInterval

\* The initial state satisfies the life invariant.
LEMMA LifeInit == Init => LifeInv
  BY DEF Init, LifeInv, OneRun, OneTask, WorkersHoldQueued, QueuedRunsBare,
         FinalizesCurrent, DecisionsCurrent, CasesHaveRows, Runs, HasRows,
         ApprovedMeansCompleted, NoRow, NoCase, Idle

\* Rows are there or not independently of what a review changes in them.
LEMMA ReviewsKeepRows ==
  ASSUME OneSession, TypeInv, RowInv, NEW q \in Requests,
         ReviewCall(q) \/ ReviewCommit(q), NEW n \in RunId
  PROVE  HasRows(n)' <=> HasRows(n)
<1>1. CASE ReviewCall(q)
  BY <1>1, StagedType DEF HasRows, ledgerVars
<1>2. CASE ReviewCommit(q)
  <2> DEFINE rq == request[q]
             row == ledger[rq.run][rq.leaf]
  <2>0. PICK marks :
          ledger' = [ledger EXCEPT ![rq.run][rq.leaf] =
                       FlushedRow(rq.loaded, rq.staged, row, marks)]
    BY <1>2, ReviewWrites
  <2> DEFINE new == FlushedRow(rq.loaded, rq.staged, rq.loaded, marks)
  <2>1. rq \in ReviewRequest /\ rq.op \in ReviewOp
    BY <1>2, RequestKinds DEF ReviewCommit, TypeInv, TypeOK
  <2>2. rq.run \in RunId /\ rq.leaf \in Leaves
    BY <2>1 DEF ReviewRequest
  <2>3. /\ rq.loaded = ledger[rq.run][rq.leaf]
        /\ rq.loaded.state # "ABSENT"
        /\ StagedFrom(rq.op, rq.loaded, rq.staged)
    BY <2>1 DEF RowInv, ReviewsCurrent
  <2>4. ledger' = [ledger EXCEPT ![rq.run][rq.leaf] = new]
    BY <2>0, <2>3
  <2>5. new.state # "ABSENT"
    BY <2>1, <2>3, FlushOfCurrent, Zenon DEF FlushedRow, StagedFrom, ReviewOp
  <2> HIDE DEF new
  <2>6. \A l \in Leaves :
          ledger'[n][l].state = "ABSENT" <=> ledger[n][l].state = "ABSENT"
    <3>1. ASSUME NEW l \in Leaves, n = rq.run /\ l = rq.leaf
          PROVE  ledger'[n][l] = new
      BY <2>2, <2>4, <3>1 DEF TypeInv, TypeOK
    <3>2. ASSUME NEW l \in Leaves, ~(n = rq.run /\ l = rq.leaf)
          PROVE  ledger'[n][l] = ledger[n][l]
      BY <2>2, <2>4, <3>2 DEF TypeInv, TypeOK
    <3> HIDE DEF rq
    <3> QED  BY <2>3, <2>5, <3>1, <3>2
  <2> QED  BY <2>6 DEF HasRows
<1> QED  BY <1>1, <1>2

\* A step that leaves the run, its task, its cases and its workers alone and
\* opens no request that looks at them.
LEMMA LifeFrame ==
  ASSUME LifeInv, UNCHANGED <<workflow_state, run, tasks, cases, worker>>,
         \A n \in RunId : HasRows(n)' <=> HasRows(n),
         \A q \in Requests :
           \/ request'[q] = request[q]
           \/ request'[q].op \notin {"PREPARE", "ENQUEUE", "FINALIZE", "DECIDE"}
  PROVE  LifeInv'
<1>1. Runs' = Runs /\ Runs \subseteq RunId
  BY DEF Runs
<1>2. OneRun' /\ OneTask' /\ WorkersHoldQueued' /\ ApprovedMeansCompleted'
  BY <1>1 DEF LifeInv, OneRun, OneTask, WorkersHoldQueued,
              ApprovedMeansCompleted
<1>3. QueuedRunsBare'
  BY DEF LifeInv, QueuedRunsBare
<1>4. CasesHaveRows'
  BY <1>1 DEF LifeInv, CasesHaveRows
<1>5. FinalizesCurrent'
  <2>1. ASSUME NEW q \in Requests, request'[q].op = "FINALIZE"
        PROVE  request'[q] = request[q] /\ request[q].run \in RunId
    BY <1>1, <2>1 DEF LifeInv, FinalizesCurrent
  <2> QED  BY <1>1, <2>1 DEF LifeInv, FinalizesCurrent
<1>6. DecisionsCurrent'
  BY DEF LifeInv, DecisionsCurrent
<1> QED  BY <1>2, <1>3, <1>4, <1>5, <1>6 DEF LifeInv

\* While a worker holds the task nothing else is under way: the run is queued
\* and bare, so nobody can have finalised it or decided about it.
LEMMA HeldRun ==
  ASSUME TypeInv, LifeInv, NEW w \in Workers, worker[w] # Idle
  PROVE  /\ worker[w] \in PipelineSession
         /\ worker[w].run = 1 /\ 1 \in RunId
         /\ Runs = {1} /\ run[1] = "QUEUED" /\ ~HasRows(1)
         /\ \A n \in RunId : tasks[n] = 0
         /\ \A v \in Workers : v # w => worker[v] = Idle
         /\ \A q \in Requests :
              request[q].op \notin {"PREPARE", "ENQUEUE", "FINALIZE", "DECIDE"}
         /\ \A c \in CaseId : cases[c].status = "NONE"
         /\ workflow_state \notin {"READY_FOR_EVALUATION", "APPROVED"}
<1>1. worker[w] \in PipelineSession /\ worker[w].run \in RunId
  BY DEF TypeInv, TypeOK, Worker, PipelineSession
<1>2. run[worker[w].run] = "QUEUED"
  BY DEF LifeInv, WorkersHoldQueued
<1>3. worker[w].run \in Runs
  BY <1>1, <1>2 DEF Runs
<1>4. worker[w].run = 1 /\ 1 \in RunId /\ Runs = {1} /\ run[1] = "QUEUED"
  BY <1>1, <1>2, <1>3 DEF LifeInv, OneRun
<1>5. ~HasRows(1)
  BY <1>4 DEF LifeInv, QueuedRunsBare
<1>6. /\ \A n \in RunId : tasks[n] = 0
      /\ \A v \in Workers : v # w => worker[v] = Idle
      /\ \A q \in Requests : request[q].op # "ENQUEUE"
  BY DEF LifeInv, OneTask
<1>7. \A c \in CaseId : cases[c].status = "NONE"
  BY <1>4, <1>5 DEF LifeInv, CasesHaveRows
<1>8. \A q \in Requests : request[q].op # "PREPARE" /\ request[q].op # "FINALIZE"
  BY <1>4, <1>5 DEF LifeInv, OneRun, FinalizesCurrent
<1>9. \A q \in Requests : request[q].op # "DECIDE"
  <2>1. ASSUME NEW q \in Requests, request[q].op = "DECIDE"
        PROVE  FALSE
    <3>1. request[q].case \in CaseId
      BY <2>1, RequestKinds DEF TypeInv, TypeOK, DecideRequest
    <3> QED  BY <1>7, <2>1, <3>1 DEF LifeInv, DecisionsCurrent, Actionable
  <2> QED  BY <2>1
<1>10. workflow_state \notin {"READY_FOR_EVALUATION", "APPROVED"}
  <2>1. Max(Runs) = 1
    BY <1>4, NewestOfOne
  <2> QED
    BY <1>4, <2>1 DEF LifeInv, OneRun, ApprovedMeansCompleted
<1> QED  BY <1>1, <1>4, <1>5, <1>6, <1>7, <1>8, <1>9, <1>10

\* What the holder of the task may do: it keeps the run queued and bare, or
\* leaves it with another status.
LEMMA LifeHeldStep ==
  ASSUME TypeInv, LifeInv, NEW w \in Workers, worker[w] # Idle,
         NEW wk, worker' = [worker EXCEPT ![w] = wk],
         wk # Idle => wk.run = 1 /\ run'[1] = "QUEUED",
         NEW status, run' = [run EXCEPT ![1] = status], status # "NONE",
         status = "QUEUED" => ~HasRows(1)',
         \A n \in RunId : n # 1 => (HasRows(n)' <=> HasRows(n)),
         workflow_state' \notin {"READY_FOR_EVALUATION", "APPROVED"},
         UNCHANGED <<tasks, cases, request>>
  PROVE  LifeInv'
<1>1. /\ 1 \in RunId /\ Runs = {1}
      /\ \A n \in RunId : tasks[n] = 0
      /\ \A v \in Workers : v # w => worker[v] = Idle
      /\ \A q \in Requests :
           request[q].op \notin {"PREPARE", "ENQUEUE", "FINALIZE", "DECIDE"}
      /\ \A c \in CaseId : cases[c].status = "NONE"
  BY HeldRun
<1>2. /\ run'[1] = status
      /\ \A n \in RunId : n # 1 => run'[n] = run[n]
      /\ \A v \in Workers : worker'[v] = IF v = w THEN wk ELSE worker[v]
  BY <1>1 DEF TypeInv, TypeOK
<1>3. Runs' = {1}
  BY <1>1, <1>2 DEF Runs
<1>4. OneRun'
  BY <1>1, <1>3 DEF OneRun
<1>5. OneTask'
  BY <1>1, <1>2 DEF OneTask
<1>6. WorkersHoldQueued'
  BY <1>1, <1>2 DEF WorkersHoldQueued
<1>7. QueuedRunsBare'
  BY <1>2 DEF LifeInv, QueuedRunsBare
<1>8. FinalizesCurrent' /\ DecisionsCurrent' /\ CasesHaveRows'
  BY <1>1 DEF FinalizesCurrent, DecisionsCurrent, CasesHaveRows
<1> QED
  BY <1>4, <1>5, <1>6, <1>7, <1>8 DEF LifeInv, ApprovedMeansCompleted

\* The worker, from taking the task to its commit, its failure or its death.
LEMMA LifeWorker ==
  ASSUME TypeInv, LifeInv, NEW w \in Workers,
         WorkerStep(w) \/ WorkerError(w) \/ WorkerCrash(w)
  PROVE  LifeInv'
<1>1. CASE \E n \in RunId : WorkerTake(w, n)
  <2>1. PICK n \in RunId : WorkerTake(w, n)
    BY <1>1
  <2>2. /\ tasks[n] # 0 /\ tasks' = [tasks EXCEPT ![n] = tasks[n] - 1]
        /\ UNCHANGED <<workflow_state, run, ledger, cases, request>>
    BY <2>1 DEF WorkerTake, ledgerVars, moderationVars, TypeInv, TypeOK
  <2>3. \A m \in RunId : tasks[n] = 1 /\ tasks'[m] = 0
    BY <2>2 DEF LifeInv, OneTask, TypeInv, TypeOK
  <2>4. /\ \A v \in Workers : worker[v] = Idle
        /\ \A q \in Requests : request[q].op # "ENQUEUE"
    BY <2>2 DEF LifeInv, OneTask
  <2>5. \A v \in Workers : worker'[v] # Idle =>
          v = w /\ run[worker'[v].run] = "QUEUED"
    <3>1. CASE ActiveRuns = {}
      BY <2>1, <2>4, <3>1 DEF WorkerTake, TypeInv, TypeOK
    <3>2. CASE ActiveRuns # {}
      <4> DEFINE wk == [op |-> "LOADED", job |-> n, run |-> Max(ActiveRuns),
                        state |-> workflow_state]
      <4>1. run[Max(ActiveRuns)] = "QUEUED"
        BY <3>2, NewestActiveRunType DEF ActiveRuns
      <4>2. wk.run = Max(ActiveRuns)
        OBVIOUS
      <4>3. worker' = [worker EXCEPT ![w] = wk]
        BY <2>1, <3>2 DEF WorkerTake
      <4> HIDE DEF wk
      <4> QED  BY <2>4, <4>1, <4>2, <4>3 DEF TypeInv, TypeOK
    <3> QED  BY <3>1, <3>2
  <2>6. Runs' = Runs
    BY <2>2 DEF Runs
  <2>7. OneRun' /\ ApprovedMeansCompleted'
    BY <2>2, <2>3, <2>6 DEF LifeInv, OneRun, ApprovedMeansCompleted
  <2>8. OneTask'
    <3>1. \A m \in RunId : tasks'[m] = 0
      BY <2>3
    <3> QED  BY <2>2, <2>4, <2>5, <3>1 DEF OneTask
  <2>9. WorkersHoldQueued'
    BY <2>2, <2>5 DEF WorkersHoldQueued
  <2>10. QueuedRunsBare' /\ CasesHaveRows'
    BY <2>2, <2>6 DEF LifeInv, QueuedRunsBare, CasesHaveRows, HasRows
  <2>11. FinalizesCurrent' /\ DecisionsCurrent'
    BY <2>2, <2>6 DEF LifeInv, FinalizesCurrent, DecisionsCurrent, HasRows
  <2> QED  BY <2>7, <2>8, <2>9, <2>10, <2>11 DEF LifeInv
<1>2. ASSUME worker[w] # Idle
      PROVE  /\ worker[w].run = 1 /\ 1 \in RunId
             /\ worker[w] \in PipelineSession
             /\ run[1] = "QUEUED" /\ run = [run EXCEPT ![1] = "QUEUED"]
             /\ ~HasRows(1)
             /\ workflow_state \notin {"READY_FOR_EVALUATION", "APPROVED"}
  BY <1>2, HeldRun DEF TypeInv, TypeOK
<1>3. CASE WorkerClaim(w) \/ WorkerError(w)
  <2>1. PICK op : worker' = [worker EXCEPT ![w].op = op]
    BY <1>3 DEF WorkerClaim, WorkerError
  <2> DEFINE wk == [worker[w] EXCEPT !.op = op]
  <2>2. worker[w] # Idle
    BY <1>3 DEF WorkerClaim, WorkerError, Idle
  <2>3. worker' = [worker EXCEPT ![w] = wk]
    BY <2>1 DEF TypeInv, TypeOK
  <2>4. wk.run = 1
    BY <1>2, <2>2 DEF PipelineSession
  <2>5. UNCHANGED <<workflow_state, run, ledger, tasks, cases, request>>
    BY <1>3 DEF WorkerClaim, WorkerError, ledgerVars, queueVars, moderationVars
  <2> HIDE DEF wk
  <2>6. \A n \in RunId : HasRows(n)' <=> HasRows(n)
    BY <2>5 DEF HasRows
  <2>7. run' = [run EXCEPT ![1] = "QUEUED"] /\ run'[1] = "QUEUED"
    BY <1>2, <2>2, <2>5
  <2> QED
    BY <1>2, <2>2, <2>3, <2>4, <2>5, <2>6, <2>7, LifeHeldStep
<1>4. CASE WorkerDuplicate(w)
  <2>1. worker[w] # Idle
    BY <1>4 DEF WorkerDuplicate, Idle
  <2> QED  BY <1>2, <1>4, <2>1 DEF WorkerDuplicate
<1>5. CASE WorkerCrash(w)
  <2>1. /\ worker[w] # Idle /\ worker' = [worker EXCEPT ![w] = Idle]
        /\ UNCHANGED <<workflow_state, run, ledger, tasks, cases, request>>
    BY <1>5 DEF WorkerCrash, ledgerVars, queueVars, moderationVars
  <2>2. \A n \in RunId : HasRows(n)' <=> HasRows(n)
    BY <2>1 DEF HasRows
  <2>3. run' = [run EXCEPT ![1] = "QUEUED"]
    BY <1>2, <2>1
  <2> QED  BY <1>2, <2>1, <2>2, <2>3, LifeHeldStep
<1>6. CASE WorkerFinish(w)
  <2>1. worker[w] # Idle
    BY <1>6 DEF WorkerFinish, Idle
  <2>2. /\ run' = [run EXCEPT ![1] = "REVIEW_REQUIRED"]
        /\ worker' = [worker EXCEPT ![w] = Idle]
        /\ UNCHANGED <<tasks, cases, request>>
    BY <1>2, <1>6, <2>1 DEF WorkerFinish, moderationVars
  <2>3. workflow_state' \notin {"READY_FOR_EVALUATION", "APPROVED"}
    BY <1>2, <1>6, <2>1 DEF WorkerFinish, FlushColumn
  <2>4. ASSUME NEW n \in RunId, n # 1
        PROVE  HasRows(n)' <=> HasRows(n)
    <3>1. PICK rows : ledger' = [ledger EXCEPT ![1] = rows]
      BY <1>2, <1>6, <2>1 DEF WorkerFinish
    <3>2. ledger'[n] = ledger[n]
      BY <2>4, <3>1 DEF TypeInv, TypeOK
    <3> QED  BY <3>2 DEF HasRows
  <2> QED  BY <2>1, <2>2, <2>3, <2>4, LifeHeldStep
<1>7. CASE WorkerFail(w)
  <2>1. worker[w] # Idle
    BY <1>7 DEF WorkerFail, Idle
  <2>2. /\ run' = [run EXCEPT ![1] = "FAILED"]
        /\ worker' = [worker EXCEPT ![w] = Idle]
        /\ UNCHANGED <<ledger, tasks, cases, request>>
    BY <1>2, <1>7, <2>1 DEF WorkerFail, moderationVars, ledgerVars
  <2>3. workflow_state' \notin {"READY_FOR_EVALUATION", "APPROVED"}
    BY <1>2, <1>7, <2>1 DEF WorkerFail, AfterFailure
  <2>4. \A n \in RunId : HasRows(n)' <=> HasRows(n)
    BY <2>2 DEF HasRows
  <2> QED  BY <2>1, <2>2, <2>3, <2>4, LifeHeldStep
<1> QED  BY <1>1, <1>3, <1>4, <1>5, <1>6, <1>7 DEF WorkerStep
\* A run with rows is past its worker: nobody holds its task.
LEMMA RunWithRows ==
  ASSUME TypeInv, LifeInv, NEW n \in Runs, HasRows(n)
  PROVE  /\ n = 1 /\ 1 \in RunId /\ Runs = {1}
         /\ run[1] \notin {"NONE", "QUEUED"}
         /\ \A w \in Workers : worker[w] = Idle
<1>1. n = 1 /\ 1 \in RunId /\ Runs = {1}
  BY DEF LifeInv, OneRun, Runs
<1>2. run[1] \notin {"NONE", "QUEUED"}
  BY <1>1 DEF LifeInv, QueuedRunsBare
<1>3. \A w \in Workers : worker[w] = Idle
  BY <1>1, HeldRun
<1> QED  BY <1>1, <1>2, <1>3

\* What a finalisation or a decision may do when it is the only request.
LEMMA LifeDecided ==
  ASSUME OneSession, TypeInv, LifeInv, NEW q \in Requests,
         request' = [request EXCEPT ![q] = Idle],
         1 \in Runs, HasRows(1),
         NEW status, run' = [run EXCEPT ![1] = status],
         status \notin {"NONE", "QUEUED"},
         workflow_state' # "READY_FOR_EVALUATION",
         workflow_state' = "APPROVED" => status = "COMPLETED",
         \A c \in CaseId : cases'[c].status # "NONE" => cases'[c].run = 1,
         UNCHANGED <<ledger, tasks, worker>>
  PROVE  LifeInv'
<1>1. /\ 1 \in RunId /\ Runs = {1} /\ \A w \in Workers : worker[w] = Idle
  BY RunWithRows
<1>2. \A p \in Requests : request'[p] = Idle
  BY DEF OneSession, TypeInv, TypeOK
<1>3. /\ run'[1] = status /\ \A n \in RunId : n # 1 => run'[n] = run[n]
      /\ Runs' = {1}
  BY <1>1 DEF Runs, TypeInv, TypeOK
<1>4. \A n \in RunId : HasRows(n)' <=> HasRows(n)
  BY DEF HasRows
<1>5. OneRun' /\ OneTask'
  BY <1>1, <1>2, <1>3 DEF LifeInv, OneRun, OneTask, Idle
<1>6. WorkersHoldQueued'
  BY <1>1 DEF WorkersHoldQueued
<1>7. QueuedRunsBare'
  BY <1>3, <1>4 DEF LifeInv, QueuedRunsBare
<1>8. FinalizesCurrent' /\ DecisionsCurrent'
  BY <1>2 DEF FinalizesCurrent, DecisionsCurrent, Idle
<1>9. CasesHaveRows'
  BY <1>1, <1>3, <1>4 DEF CasesHaveRows
<1>10. ApprovedMeansCompleted'
  <2>1. Max(Runs') = 1
    BY <1>3, NewestOfOne
  <2> QED  BY <1>3, <2>1 DEF ApprovedMeansCompleted
<1> QED  BY <1>5, <1>6, <1>7, <1>8, <1>9, <1>10 DEF LifeInv

\* Preparing the run and enqueueing its task.
LEMMA LifePrepare ==
  ASSUME OneSession, TypeInv, LifeInv, NEW q \in Requests,
         PrepareRead(q) \/ PrepareLocked(q) \/ Enqueue(q) \/ EnqueueLost(q)
  PROVE  LifeInv'
<1>1. \A p \in Requests : p = q
  BY DEF OneSession
<1>2. CASE PrepareRead(q)
  <2>1. Runs = {} /\ ActiveRuns = {}
    BY <1>2 DEF PrepareRead, LifeInv, OneRun, ActiveRuns
  <2>2. /\ \A p \in Requests : request'[p] = [op |-> "PREPARE"]
        /\ UNCHANGED <<workflow_state, run, ledger, tasks, cases, worker>>
    BY <1>1, <1>2, <2>1 DEF PrepareRead, ledgerVars, queueVars, moderationVars,
                            TypeInv, TypeOK
  <2>3. Runs' = Runs /\ \A n \in RunId : HasRows(n)' <=> HasRows(n)
    BY <2>2 DEF Runs, HasRows
  <2>4. OneRun' /\ OneTask' /\ WorkersHoldQueued' /\ ApprovedMeansCompleted'
    BY <2>1, <2>2, <2>3 DEF LifeInv, OneRun, OneTask, WorkersHoldQueued,
                            ApprovedMeansCompleted
  <2>5. QueuedRunsBare' /\ CasesHaveRows'
    BY <2>1, <2>2, <2>3 DEF LifeInv, QueuedRunsBare, CasesHaveRows
  <2>6. FinalizesCurrent' /\ DecisionsCurrent'
    BY <2>2 DEF FinalizesCurrent, DecisionsCurrent
  <2> QED  BY <2>4, <2>5, <2>6 DEF LifeInv
<1>3. CASE PrepareLocked(q)
  <2>1. Runs = {} /\ ActiveRuns = {}
    BY <1>3 DEF PrepareLocked, LifeInv, OneRun, ActiveRuns
  <2> DEFINE n == Max(Runs \cup {0}) + 1
  <2>2. n = 1
    <3>1. Runs \cup {0} \in SUBSET (0 .. 0) /\ Runs \cup {0} # {}
      BY <2>1
    <3>2. Max(Runs \cup {0}) \in Runs \cup {0}
      BY <3>1, MaxOfInterval
    <3> QED  BY <2>1, <3>2
  <2>3. /\ n \in RunId
        /\ run' = [run EXCEPT ![n] = "QUEUED"]
        /\ workflow_state' = "EVALUATING"
        /\ request' = [request EXCEPT ![q] = [op |-> "ENQUEUE", job |-> n]]
        /\ UNCHANGED <<ledger, tasks, cases, worker>>
    BY <1>3, <2>1 DEF PrepareLocked, ledgerVars, moderationVars
  <2> HIDE DEF n
  <2>4. /\ 1 \in RunId /\ run'[1] = "QUEUED"
        /\ \A m \in RunId : run[m] = "NONE" /\ (m # 1 => run'[m] = "NONE")
        /\ \A p \in Requests : request'[p].op = "ENQUEUE"
    BY <1>1, <2>1, <2>2, <2>3 DEF Runs, TypeInv, TypeOK
  <2>5. Runs' = {1}
    BY <2>4 DEF Runs
  <2>6. \A m \in RunId : ~HasRows(m) /\ ~HasRows(m)'
    BY <2>3, <2>4 DEF LifeInv, QueuedRunsBare, HasRows
  <2>7. \A m \in RunId : tasks[m] = 0
    BY <2>1 DEF LifeInv, OneRun
  <2>8. \A w \in Workers : worker[w] = Idle
    BY <2>1, HeldRun
  <2>9. OneRun' /\ OneTask' /\ WorkersHoldQueued' /\ ApprovedMeansCompleted'
    BY <2>3, <2>4, <2>5, <2>7, <2>8
    DEF OneRun, OneTask, WorkersHoldQueued, ApprovedMeansCompleted
  <2>10. QueuedRunsBare' /\ FinalizesCurrent' /\ DecisionsCurrent'
    BY <2>4, <2>6 DEF QueuedRunsBare, FinalizesCurrent, DecisionsCurrent
  <2>11. CasesHaveRows'
    BY <2>1, <2>3 DEF LifeInv, CasesHaveRows
  <2> QED  BY <2>9, <2>10, <2>11 DEF LifeInv
<1>4. CASE Enqueue(q)
  <2> DEFINE j == request[q].job
  <2>1. /\ request[q].op = "ENQUEUE" /\ tasks' = [tasks EXCEPT ![j] = @ + 1]
        /\ request' = [request EXCEPT ![q] = Idle]
        /\ UNCHANGED <<workflow_state, run, ledger, cases, worker>>
    BY <1>4 DEF Enqueue, ledgerVars, moderationVars
  <2>2. /\ Runs # {} /\ \A n \in RunId : tasks[n] = 0
        /\ \A w \in Workers : worker[w] = Idle
    BY <2>1 DEF LifeInv, OneTask
  <2>3. \A n \in RunId : tasks'[n] = IF n = j THEN 1 ELSE 0
    BY <2>1, <2>2 DEF TypeInv, TypeOK
  <2>4. \A p \in Requests : request'[p] = Idle
    BY <1>1, <2>1 DEF TypeInv, TypeOK
  <2>5. Runs' = Runs /\ \A n \in RunId : HasRows(n)' <=> HasRows(n)
    BY <2>1 DEF Runs, HasRows
  <2> HIDE DEF j
  <2>6. OneRun' /\ WorkersHoldQueued' /\ ApprovedMeansCompleted'
    <3>1. OneRun'
      <4>1. Runs' = Runs /\ workflow_state' = workflow_state
        BY <2>1, <2>5
      <4>2. \A p \in Requests : request'[p].op # "PREPARE"
        BY <2>4 DEF Idle
      <4> QED  BY <2>2, <4>1, <4>2 DEF LifeInv, OneRun
    <3>2. WorkersHoldQueued'
      BY <2>1, <2>2 DEF WorkersHoldQueued
    <3>3. ApprovedMeansCompleted'
      BY <2>1, <2>5 DEF LifeInv, ApprovedMeansCompleted
    <3> QED  BY <3>1, <3>2, <3>3
  <2>7. OneTask'
    BY <2>1, <2>2, <2>3, <2>4 DEF OneTask, Idle
  <2>8. QueuedRunsBare' /\ CasesHaveRows'
    BY <2>1, <2>5 DEF LifeInv, QueuedRunsBare, CasesHaveRows, Runs
  <2>9. FinalizesCurrent' /\ DecisionsCurrent'
    BY <2>4 DEF FinalizesCurrent, DecisionsCurrent, Idle
  <2> QED  BY <2>6, <2>7, <2>8, <2>9 DEF LifeInv
<1>5. CASE EnqueueLost(q)
  <2>1. /\ UNCHANGED <<workflow_state, run, ledger, tasks, cases, worker>>
        /\ \A p \in Requests : request'[p] = Idle
    BY <1>1, <1>5 DEF EnqueueLost, ledgerVars, queueVars, moderationVars,
                      TypeInv, TypeOK
  <2>2. \A n \in RunId : HasRows(n)' <=> HasRows(n)
    BY <2>1 DEF HasRows
  <2> QED  BY <2>1, <2>2, LifeFrame DEF Idle
<1> QED  BY <1>2, <1>3, <1>4, <1>5

\* Finalising reads what it is about to commit.
LEMMA LifeFinalizeRead ==
  ASSUME OneSession, TypeInv, LifeInv, NEW q \in Requests, FinalizeRead(q)
  PROVE  LifeInv'
<1>1. PICK n \in Runs, c \in CaseId \cup {0} :
        /\ AllReviewed(n) /\ c \in FoundCase(n)
        /\ request' = [request EXCEPT ![q] =
             [op |-> "FINALIZE", run |-> n, status |-> run[n],
              moderate |-> policy = "ACTIVE", case |-> c,
              loaded |-> IF c = 0 THEN NoCase ELSE cases[c]]]
  BY DEF FinalizeRead
<1>2. UNCHANGED <<workflow_state, run, ledger, tasks, cases, worker>>
  BY DEF FinalizeRead, ledgerVars, queueVars, moderationVars
<1>3. HasRows(n)
  BY <1>1, LeavesAssumption DEF AllReviewed, HasRows, Reviewed
<1>4. Runs' = Runs /\ \A m \in RunId : HasRows(m)' <=> HasRows(m)
  BY <1>2 DEF Runs, HasRows
<1>5. n \in RunId /\ HasRows(n)'
  BY <1>3, <1>4 DEF Runs
<1>6. c # 0 => /\ cases[c].run = n /\ cases[c].status \in Actionable
  BY <1>1 DEF FoundCase, OpenCases
<1>7. \A p \in Requests :
        /\ request'[p].op = "FINALIZE" /\ request'[p].run = n
        /\ request'[p].status = run[n] /\ request'[p].case = c
        /\ c # 0 => request'[p].loaded = cases[c]
  BY <1>1 DEF OneSession, TypeInv, TypeOK
<1>8. OneRun' /\ OneTask' /\ WorkersHoldQueued' /\ ApprovedMeansCompleted'
  BY <1>2, <1>4, <1>7 DEF LifeInv, OneRun, OneTask, WorkersHoldQueued,
                          ApprovedMeansCompleted
<1>9. QueuedRunsBare' /\ CasesHaveRows'
  BY <1>2, <1>4 DEF LifeInv, QueuedRunsBare, CasesHaveRows, Runs
<1>10. FinalizesCurrent'
  BY <1>2, <1>4, <1>5, <1>6, <1>7 DEF FinalizesCurrent
<1>11. DecisionsCurrent'
  BY <1>7 DEF DecisionsCurrent
<1> QED  BY <1>8, <1>9, <1>10, <1>11 DEF LifeInv

\* Finalising without moderation completes the run it read.
LEMMA LifeFinalizeApprove ==
  ASSUME OneSession, TypeInv, LifeInv, NEW q \in Requests, FinalizeApprove(q)
  PROVE  LifeInv'
<1> DEFINE rq == request[q]
<1>1. /\ rq.op = "FINALIZE" /\ workflow_state' = "APPROVED"
      /\ run' = [run EXCEPT ![rq.run] =
                   FlushColumn(rq.status, "COMPLETED", run[rq.run])]
      /\ request' = [request EXCEPT ![q] = Idle]
      /\ UNCHANGED <<ledger, tasks, cases, worker>>
  <2>1. rq.run \in RunId
    BY RequestKinds DEF FinalizeApprove, TypeInv, TypeOK, FinalizeRequest
  <2> QED  BY <2>1 DEF FinalizeApprove, ledgerVars, queueVars, moderationVars,
                       TypeInv, TypeOK
<1>2. rq.run \in Runs /\ HasRows(rq.run) /\ rq.status = run[rq.run]
  BY <1>1 DEF LifeInv, FinalizesCurrent
<1>3. rq.run = 1 /\ Runs = {1}
  BY <1>2, RunWithRows
<1>4. run' = [run EXCEPT ![1] = "COMPLETED"]
  BY <1>1, <1>2, <1>3, FlushOfCurrent
<1>5. \A c \in CaseId : cases'[c].status # "NONE" => cases'[c].run = 1
  BY <1>1, <1>3 DEF LifeInv, CasesHaveRows
<1> QED  BY <1>1, <1>2, <1>3, <1>4, <1>5, LifeDecided

\* Finalising into moderation leaves the run under review, with its case open.
LEMMA LifeFinalizeModerate ==
  ASSUME OneSession, TypeInv, LifeInv, NEW q \in Requests, FinalizeModerate(q)
  PROVE  LifeInv'
<1> DEFINE rq == request[q]
<1>1. /\ rq.op = "FINALIZE" /\ workflow_state' = "MODERATION_REVIEW"
      /\ run' = [run EXCEPT ![rq.run] =
                   FlushColumn(rq.status, "REVIEW_REQUIRED", run[rq.run])]
      /\ request' = [request EXCEPT ![q] = Idle]
      /\ UNCHANGED <<ledger, tasks, worker>>
  <2>1. rq.run \in RunId
    BY FinalizeModerateCase DEF FinalizeRequest
  <2> QED  BY <2>1 DEF FinalizeModerate, ledgerVars, queueVars, TypeInv, TypeOK
<1>2. rq.run \in Runs /\ HasRows(rq.run) /\ rq.status = run[rq.run]
  BY <1>1 DEF LifeInv, FinalizesCurrent
<1>3. rq.run = 1 /\ Runs = {1}
  BY <1>2, RunWithRows
<1>4. run' = [run EXCEPT ![1] = "REVIEW_REQUIRED"]
  BY <1>1, <1>2, <1>3, FlushOfCurrent
<1>5. PICK c \in CaseId, case \in Case :
        /\ cases' = [cases EXCEPT ![c] = case]
        /\ \/ cases[c].status = "NONE" /\ case.run = rq.run
           \/ cases[c].status # "NONE" /\ case.run = cases[c].run
  BY FinalizeModerateCase
<1>6. \A d \in CaseId : cases'[d].status # "NONE" => cases'[d].run = 1
  <2>1. \A d \in CaseId : cases[d].status # "NONE" => cases[d].run = 1
    BY <1>3 DEF LifeInv, CasesHaveRows
  <2>2. case.run = 1
    BY <1>3, <1>5, <2>1
  <2>3. \A d \in CaseId : cases'[d] = IF d = c THEN case ELSE cases[d]
    BY <1>5 DEF TypeInv, TypeOK
  <2> QED  BY <2>1, <2>2, <2>3
<1> QED  BY <1>1, <1>2, <1>3, <1>4, <1>6, LifeDecided

\* A decision reads what it is about to commit.
LEMMA LifeDecideRead ==
  ASSUME OneSession, TypeInv, LifeInv, NEW q \in Requests, DecideCall(q)
  PROVE  LifeInv'
<1>1. PICK u \in Users, c \in CaseId, decision \in Decision :
        DecideRead(q, u, c, decision)
  BY DEF DecideCall
<1>2. /\ cases[c].status \in Actionable
      /\ request' = [request EXCEPT ![q] =
           [op |-> "DECIDE", user |-> u, case |-> c, decision |-> decision,
            state |-> workflow_state, status |-> run[cases[c].run]]]
      /\ UNCHANGED <<workflow_state, run, ledger, tasks, cases, worker>>
  BY <1>1 DEF DecideRead, ledgerVars, queueVars, moderationVars
<1>3. \A p \in Requests :
        /\ request'[p].op = "DECIDE" /\ request'[p].case = c
        /\ request'[p].state = workflow_state
        /\ request'[p].status = run[cases[c].run]
  BY <1>2 DEF OneSession, TypeInv, TypeOK
<1>4. Runs' = Runs /\ \A m \in RunId : HasRows(m)' <=> HasRows(m)
  BY <1>2 DEF Runs, HasRows
<1>5. OneRun' /\ OneTask' /\ WorkersHoldQueued' /\ ApprovedMeansCompleted'
  BY <1>2, <1>3, <1>4 DEF LifeInv, OneRun, OneTask, WorkersHoldQueued,
                          ApprovedMeansCompleted
<1>6. QueuedRunsBare' /\ CasesHaveRows'
  BY <1>2, <1>4 DEF LifeInv, QueuedRunsBare, CasesHaveRows, Runs
<1>7. FinalizesCurrent' /\ DecisionsCurrent'
  BY <1>2, <1>3 DEF FinalizesCurrent, DecisionsCurrent
<1> QED  BY <1>5, <1>6, <1>7 DEF LifeInv

\* The four outcomes of a decision, with what each makes of the submission, the
\* run and the case.
LEMMA DecisionOutcome ==
  ASSUME TypeInv, NEW q \in Requests, DecisionStep(q)
  PROVE  LET rq == request[q] IN
         \E case, state, status :
           /\ Decide(q, case, state, status)
           /\ case.run = cases[rq.case].run
           /\ case.status \in Actionable =>
                \/ case.stage = cases[rq.case].stage
                \/ case.stage \in Stages
           /\ \/ state = "EVALUATION_REVIEW" /\ status = rq.status
              \/ state = "FAILED" /\ status = "FAILED"
              \/ /\ state = rq.state /\ status = rq.status
                 /\ case.status = "PENDING" /\ case.stage \in Stages
              \/ state = "APPROVED" /\ status = "COMPLETED"
<1> DEFINE rq == request[q]
           c == rq.case
<1>1. c \in CaseId /\ cases[c] \in Case
  BY DecisionCase DEF DecideRequest, TypeInv, TypeOK
<1>2. CASE DecideReturn(q)
  <2> DEFINE case == [cases[c] EXCEPT !.status = "RETURNED"]
  <2>1. Decide(q, case, "EVALUATION_REVIEW", rq.status)
    BY <1>2 DEF DecideReturn
  <2>2. case.run = cases[c].run /\ case.stage = cases[c].stage
    BY <1>1 DEF Case
  <2> HIDE DEF case
  <2> QED  BY <2>1, <2>2
<1>3. CASE DecideReject(q)
  <2> DEFINE case == [cases[c] EXCEPT !.status = "REJECTED"]
  <2>1. Decide(q, case, "FAILED", "FAILED")
    BY <1>3 DEF DecideReject
  <2>2. case.run = cases[c].run /\ case.stage = cases[c].stage
    BY <1>1 DEF Case
  <2> HIDE DEF case
  <2> QED  BY <2>1, <2>2
<1>4. CASE DecideApproveStage(q)
  <2> DEFINE case == [cases[c] EXCEPT !.status = "PENDING",
                                      !.stage = Min(LaterStages(cases[c]))]
  <2>1. Decide(q, case, rq.state, rq.status) /\ LaterStages(cases[c]) # {}
    BY <1>4 DEF DecideApproveStage
  <2>2. case.status = "PENDING" /\ case.run = cases[c].run
        /\ case.stage = Min(LaterStages(cases[c]))
    BY <1>1 DEF Case
  <2>3. case.stage \in Stages
    BY <2>1, <2>2, NextStage
  <2> HIDE DEF case
  <2> QED  BY <2>1, <2>2, <2>3
<1>5. CASE DecideApproveFinal(q)
  <2> DEFINE case == [cases[c] EXCEPT !.status = "APPROVED"]
  <2>1. Decide(q, case, "APPROVED", "COMPLETED")
    BY <1>5 DEF DecideApproveFinal
  <2>2. case.run = cases[c].run /\ case.stage = cases[c].stage
    BY <1>1 DEF Case
  <2> HIDE DEF case
  <2> QED  BY <2>1, <2>2
<1> QED  BY <1>2, <1>3, <1>4, <1>5 DEF DecisionStep

\* With nothing committed since it was read, a decision leaves the submission,
\* the run and the case exactly as its outcome says.
LEMMA DecisionLands ==
  ASSUME TypeInv, LifeInv, NEW q \in Requests, DecisionStep(q)
  PROVE  LET c == request[q].case IN
         /\ c \in CaseId /\ cases[c].status \in Actionable
         /\ cases[c].run = 1 /\ 1 \in Runs /\ HasRows(1)
         /\ request' = [request EXCEPT ![q] = Idle]
         /\ UNCHANGED <<ledger, tasks, policy, worker>>
         /\ \E case, status :
              /\ cases' = [cases EXCEPT ![c] = case] /\ case.run = 1
              /\ case.status \in Actionable =>
                   \/ case.stage = cases[c].stage
                   \/ case.stage \in Stages
              /\ run' = [run EXCEPT ![1] = status]
              /\ \/ workflow_state' = "EVALUATION_REVIEW" /\ status = run[1]
                 \/ workflow_state' = "FAILED" /\ status = "FAILED"
                 \/ /\ workflow_state' = workflow_state /\ status = run[1]
                    /\ case.status = "PENDING" /\ case.stage \in Stages
                 \/ workflow_state' = "APPROVED" /\ status = "COMPLETED"
<1> DEFINE rq == request[q]
           c == rq.case
<1>1. rq \in DecideRequest /\ c \in CaseId /\ rq.op = "DECIDE"
  BY DecisionCase DEF DecideRequest
<1>2. /\ rq.state = workflow_state /\ rq.status = run[cases[c].run]
      /\ cases[c].status \in Actionable
  BY <1>1 DEF LifeInv, DecisionsCurrent
<1>3. cases[c].run \in Runs /\ HasRows(cases[c].run)
  BY <1>1, <1>2 DEF LifeInv, CasesHaveRows, Actionable
<1>4. cases[c].run = 1 /\ 1 \in RunId
  BY <1>3, RunWithRows
<1>5. PICK case, state, status :
        /\ Decide(q, case, state, status)
        /\ case.run = cases[c].run
        /\ case.status \in Actionable =>
             case.stage = cases[c].stage \/ case.stage \in Stages
        /\ \/ state = "EVALUATION_REVIEW" /\ status = rq.status
           \/ state = "FAILED" /\ status = "FAILED"
           \/ /\ state = rq.state /\ status = rq.status
              /\ case.status = "PENDING" /\ case.stage \in Stages
           \/ state = "APPROVED" /\ status = "COMPLETED"
  BY DecisionOutcome
<1>6. /\ cases' = [cases EXCEPT ![c] = case]
      /\ workflow_state' = FlushColumn(rq.state, state, workflow_state)
      /\ run' = [run EXCEPT ![cases[c].run] =
                   FlushColumn(rq.status, status, run[cases[c].run])]
      /\ request' = [request EXCEPT ![q] = Idle]
      /\ UNCHANGED <<ledger, tasks, policy, worker>>
  BY <1>4, <1>5 DEF Decide, ledgerVars, queueVars, TypeInv, TypeOK
<1>7. workflow_state' = state /\ run' = [run EXCEPT ![1] = status]
  BY <1>2, <1>4, <1>6, FlushOfCurrent
<1> HIDE DEF c
<1> QED  BY <1>1, <1>2, <1>3, <1>4, <1>5, <1>6, <1>7 DEF c

\* A decision keeps the life invariant.
LEMMA LifeDecide ==
  ASSUME OneSession, TypeInv, LifeInv, NEW q \in Requests, DecisionStep(q)
  PROVE  LifeInv'
<1> DEFINE c == request[q].case
<1>1. /\ c \in CaseId /\ cases[c].run = 1 /\ 1 \in Runs /\ HasRows(1)
      /\ request' = [request EXCEPT ![q] = Idle]
      /\ UNCHANGED <<ledger, tasks, worker>>
  BY DecisionLands
<1>2. PICK case, status :
        /\ cases' = [cases EXCEPT ![c] = case] /\ case.run = 1
        /\ run' = [run EXCEPT ![1] = status]
        /\ \/ workflow_state' = "EVALUATION_REVIEW" /\ status = run[1]
           \/ workflow_state' = "FAILED" /\ status = "FAILED"
           \/ workflow_state' = workflow_state /\ status = run[1]
           \/ workflow_state' = "APPROVED" /\ status = "COMPLETED"
  BY DecisionLands
<1>3. Runs = {1} /\ run[1] \notin {"NONE", "QUEUED"}
  BY <1>1, RunWithRows
<1>4. \A d \in CaseId : cases'[d].status # "NONE" => cases'[d].run = 1
  <2>1. \A d \in CaseId : cases'[d] = IF d = c THEN case ELSE cases[d]
    BY <1>1, <1>2 DEF TypeInv, TypeOK
  <2> QED  BY <1>2, <1>3, <2>1 DEF LifeInv, CasesHaveRows
<1>5. status \notin {"NONE", "QUEUED"}
  BY <1>2, <1>3
<1>6. workflow_state' # "READY_FOR_EVALUATION"
  BY <1>1, <1>2 DEF LifeInv, OneRun
<1>7. workflow_state' = "APPROVED" => status = "COMPLETED"
  <2>1. Max(Runs) = 1
    BY <1>3, NewestOfOne
  <2> QED  BY <1>2, <2>1 DEF LifeInv, ApprovedMeansCompleted
<1> HIDE DEF c
<1> QED  BY <1>1, <1>2, <1>4, <1>5, <1>6, <1>7, LifeDecided

\* Every step keeps the life invariant.
LEMMA LifeNext ==
  ASSUME OneSession, TypeInv, RowInv, LifeInv, [Next]_vars
  PROVE  LifeInv'
<1>1. CASE UNCHANGED vars
  BY <1>1, LifeFrame DEF vars, ledgerVars, queueVars, moderationVars, HasRows
<1>2. ASSUME NEW q \in Requests, ReviewCall(q) \/ ReviewCommit(q)
      PROVE  LifeInv'
  <2>1. UNCHANGED <<workflow_state, run, tasks, cases, worker>>
    <3>1. CASE ReviewCall(q)
      BY <3>1, StagedType DEF queueVars, moderationVars
    <3>2. CASE ReviewCommit(q)
      BY <3>2 DEF ReviewCommit, queueVars, moderationVars
    <3> QED  BY <1>2, <3>1, <3>2
  <2>2. \A p \in Requests :
          \/ request'[p] = request[p]
          \/ request'[p].op
               \notin {"PREPARE", "ENQUEUE", "FINALIZE", "DECIDE"}
    <3>1. CASE ReviewCall(q)
      <4>1. PICK rq \in ReviewRequest :
              rq.op \in ReviewOp /\ request' = [request EXCEPT ![q] = rq]
        BY <3>1, StagedType
      <4> QED  BY <4>1 DEF ReviewOp, TypeInv, TypeOK
    <3>2. CASE ReviewCommit(q)
      BY <3>2 DEF ReviewCommit, Idle, TypeInv, TypeOK
    <3> QED  BY <1>2, <3>1, <3>2
  <2> QED  BY <1>2, <2>1, <2>2, ReviewsKeepRows, LifeFrame
<1>3. CASE ActivateModerationPolicy \/ RetireModerationPolicy
  BY <1>3, LifeFrame
  DEF ActivateModerationPolicy, RetireModerationPolicy, ledgerVars, queueVars,
      HasRows
<1> QED
  BY <1>1, <1>2, <1>3, NextCases, LifePrepare, LifeWorker, LifeFinalizeRead,
     LifeFinalizeApprove, LifeFinalizeModerate, LifeDecideRead, LifeDecide

\* With one session at a time an approved submission has a completed run, for
\* any number of workers, duplicate deliveries and crashes.
THEOREM SerialApprovedCompleted ==
  ASSUME OneSession
  PROVE  Spec => []ApprovedMeansCompleted
<1>1. LifeInv => ApprovedMeansCompleted
  BY DEF LifeInv
<1>2. TypeInv /\ RowInv /\ [Next]_vars => RowInv'
  BY RowNext
<1>3. TypeInv /\ RowInv /\ LifeInv /\ [Next]_vars => LifeInv'
  BY LifeNext
<1> QED
  BY TypeInit, TypeNext, RowInit, LifeInit, <1>1, <1>2, <1>3, PTL DEF Spec
---------------------------------------------------------------------------
(* The moderation case: ModerationInv is inductive relative to the others  *)

\* The initial state satisfies the moderation invariant.
LEMMA ModerationInit == Init => ModerationInv
  BY DEF Init, ModerationInv, OpenCasesHaveStage, ReturnsRecorded,
         ModerationHasCase, NoCase, Actionable

\* A step that leaves the cases, the decisions and the set of runs alone and
\* does not move the submission into moderation.
LEMMA ModerationFrame ==
  ASSUME ModerationInv, UNCHANGED <<cases, decisions, Runs>>,
         workflow_state' = workflow_state
           \/ workflow_state' # "MODERATION_REVIEW"
  PROVE  ModerationInv'
<1>1. \A c \in CaseId : ReturnedBefore(c)' <=> ReturnedBefore(c)
  BY DEF ReturnedBefore
<1> QED
  BY <1>1 DEF ModerationInv, OpenCasesHaveStage, StageReached, ReturnsRecorded,
              ModerationHasCase

\* A step that leaves the cases and the decisions alone and does not leave the
\* submission in moderation.
LEMMA ModerationLeft ==
  ASSUME ModerationInv, UNCHANGED <<cases, decisions>>,
         workflow_state' # "MODERATION_REVIEW"
  PROVE  ModerationInv'
<1>1. \A c \in CaseId : ReturnedBefore(c)' <=> ReturnedBefore(c)
  BY DEF ReturnedBefore
<1> QED
  BY <1>1 DEF ModerationInv, OpenCasesHaveStage, StageReached, ReturnsRecorded,
              ModerationHasCase

\* A decision keeps the returns on record and records one of its own.
LEMMA ReturnsKept ==
  ASSUME TypeInv, NEW q \in Requests, DecisionStep(q), NEW c \in CaseId
  PROVE  /\ ReturnedBefore(c) => ReturnedBefore(c)'
         /\ cases'[c].status = "RETURNED" =>
              cases[c].status = "RETURNED" \/ ReturnedBefore(c)'
<1> DEFINE d == request[q].case
           action == [stage |-> cases[d].stage, user |-> request[q].user,
                      decision |-> request[q].decision]
<1>1. decisions' = [decisions EXCEPT ![d] = Append(decisions[d], action)]
  BY DEF DecisionStep, DecideReturn, DecideReject, DecideApproveStage,
         DecideApproveFinal, Decide
<1>2. decisions[c] \in Seq(ModerationAction) /\ cases[c] \in Case
  BY DEF TypeInv, TypeOK
<1>3. /\ c # d => decisions'[c] = decisions[c] /\ cases'[c] = cases[c]
      /\ c = d => decisions'[c] = Append(decisions[c], action)
  <2>1. \E case : cases' = [cases EXCEPT ![d] = case]
    BY DEF DecisionStep, DecideReturn, DecideReject, DecideApproveStage,
           DecideApproveFinal, Decide
  <2> QED  BY <1>1, <2>1 DEF TypeInv, TypeOK
<1>4. ReturnedBefore(c) => ReturnedBefore(c)'
  <2>1. \A i \in DOMAIN decisions[c] :
          i \in DOMAIN decisions'[c] /\ decisions'[c][i] = decisions[c][i]
    <3> HIDE DEF action, d
    <3> QED  BY <1>2, <1>3
  <2> QED  BY <2>1 DEF ReturnedBefore
<1>5. CASE DecideReturn(q)
  <2>1. c = d => ReturnedBefore(c)'
    <3>1. action.decision = "RETURN"
      BY <1>5 DEF DecideReturn
    <3> HIDE DEF action, d
    <3>2. c = d => /\ Len(decisions[c]) + 1 \in DOMAIN decisions'[c]
                   /\ decisions'[c][Len(decisions[c]) + 1] = action
      BY <1>2, <1>3
    <3> QED  BY <3>1, <3>2 DEF ReturnedBefore
  <2> HIDE DEF d
  <2> QED  BY <1>3, <1>4, <2>1
<1>6. CASE ~DecideReturn(q)
  <2>0. cases[d] \in Case
    BY DecisionCase DEF DecideRequest, TypeInv, TypeOK
  <2>1. \E case : /\ cases' = [cases EXCEPT ![d] = case]
                  /\ case.status # "RETURNED"
    <3>1. CASE DecideReject(q)
      <4> DEFINE case == [cases[d] EXCEPT !.status = "REJECTED"]
      <4>1. cases' = [cases EXCEPT ![d] = case]
        BY <3>1 DEF DecideReject, Decide
      <4>2. case.status # "RETURNED"
        BY <2>0 DEF Case
      <4> QED  BY <4>1, <4>2
    <3>2. CASE DecideApproveStage(q)
      <4> DEFINE case == [cases[d] EXCEPT !.status = "PENDING",
                                          !.stage = Min(LaterStages(cases[d]))]
      <4>1. cases' = [cases EXCEPT ![d] = case]
        BY <3>2 DEF DecideApproveStage, Decide
      <4>2. case.status # "RETURNED"
        BY <2>0 DEF Case
      <4> QED  BY <4>1, <4>2
    <3>3. CASE DecideApproveFinal(q)
      <4> DEFINE case == [cases[d] EXCEPT !.status = "APPROVED"]
      <4>1. cases' = [cases EXCEPT ![d] = case]
        BY <3>3 DEF DecideApproveFinal, Decide
      <4>2. case.status # "RETURNED"
        BY <2>0 DEF Case
      <4> QED  BY <4>1, <4>2
    <3> QED  BY <1>6, <3>1, <3>2, <3>3 DEF DecisionStep
  <2>2. c = d => cases'[c].status # "RETURNED"
    BY <2>1 DEF TypeInv, TypeOK
  <2> HIDE DEF d
  <2> QED  BY <1>3, <1>4, <2>2
<1> QED  BY <1>5, <1>6

\* Finalising into moderation leaves a case open, at a stage of the policy or,
\* re-opened, at stage 1.
LEMMA ModerationFinalize ==
  ASSUME TypeInv, LifeInv, ModerationInv, NEW q \in Requests,
         FinalizeModerate(q)
  PROVE  ModerationInv'
<1> DEFINE rq == request[q]
           fresh == {c \in CaseId : cases[c].status = "NONE"}
<1>1. rq \in FinalizeRequest /\ rq.op = "FINALIZE"
  BY FinalizeModerateCase DEF FinalizeModerate
<1>2. /\ rq.run = 1 /\ Runs = {1} /\ rq.status = run[1] /\ 1 \in RunId
      /\ rq.case # 0 => /\ rq.loaded = cases[rq.case]
                        /\ cases[rq.case].run = 1
                        /\ cases[rq.case].status \in Actionable
  BY <1>1, RunWithRows DEF LifeInv, FinalizesCurrent
<1>3. Runs' = {1}
  <2>1. run' = [run EXCEPT ![1] = FlushColumn(rq.status, "REVIEW_REQUIRED",
                                              run[1])]
    BY <1>2 DEF FinalizeModerate, TypeInv, TypeOK
  <2>2. run' = [run EXCEPT ![1] = "REVIEW_REQUIRED"]
    BY <1>2, <2>1, FlushOfCurrent
  <2> QED  BY <1>2, <2>2 DEF Runs, TypeInv, TypeOK
<1>4. \E c \in CaseId : \E case :
        /\ cases' = [cases EXCEPT ![c] = case]
        /\ case.run = 1 /\ case.status = "PENDING" /\ StageReached(case, c)
  <2>1. CASE rq.case = 0
    <3> DEFINE case == [status |-> "PENDING", run |-> rq.run,
                        stage |-> Min(Stages)]
    <3>1. Min(fresh) \in CaseId
      <4>1. fresh # {} /\ fresh \in SUBSET Nat
        BY <2>1 DEF FinalizeModerate, CaseId
      <4>2. Min(fresh) \in fresh
        BY <4>1, MinOfNats
      <4> QED  BY <4>2
    <3>2. cases' = [cases EXCEPT ![Min(fresh)] = case]
      BY <2>1 DEF FinalizeModerate
    <3>3. /\ case.run = 1 /\ case.status = "PENDING"
          /\ StageReached(case, Min(fresh))
      BY <1>2, FirstStageType DEF StageReached
    <3> HIDE DEF case, fresh
    <3> QED  BY <3>1, <3>2, <3>3
  <2>2. CASE rq.case # 0
    <3> DEFINE c == rq.case
               case == ReopenedCase(cases[c], cases[c])
    <3>1. c \in CaseId /\ cases[c] \in Case
      BY <1>1, <2>2 DEF FinalizeRequest, TypeInv, TypeOK
    <3>2. cases' = [cases EXCEPT ![c] = case]
      BY <1>2, <2>2, <3>1 DEF FinalizeModerate, TypeInv, TypeOK
    <3>3. cases[c].status \in Actionable /\ StageReached(cases[c], c)
      BY <1>2, <2>2, <3>1 DEF ModerationInv, OpenCasesHaveStage
    <3>4. CASE cases[c].status = "RETURNED"
      <4>1. /\ case.status = "PENDING" /\ case.run = cases[c].run
            /\ case.stage = FlushColumn(cases[c].stage, 1, cases[c].stage)
        BY <3>1, <3>4 DEF ReopenedCase, Case
      <4>2. case.stage = 1 /\ ReturnedBefore(c)
        BY <3>1, <3>4, <4>1, FlushOfCurrent DEF ModerationInv, ReturnsRecorded
      <4> HIDE DEF c, case
      <4> QED  BY <1>2, <2>2, <3>1, <3>2, <4>1, <4>2 DEF StageReached, c
    <3>5. CASE cases[c].status # "RETURNED"
      <4>1. case = cases[c]
        BY <3>5 DEF ReopenedCase
      <4> HIDE DEF c, case
      <4> QED  BY <1>2, <2>2, <3>1, <3>2, <3>3, <3>5, <4>1 DEF Actionable, c
    <3> QED  BY <3>4, <3>5
  <2> QED  BY <2>1, <2>2
<1>5. PICK c, case :
        /\ c \in CaseId
        /\ cases' = [cases EXCEPT ![c] = case]
        /\ case.run = 1 /\ case.status = "PENDING" /\ StageReached(case, c)
  BY <1>4
<1>6. \A d \in CaseId : cases'[d] = IF d = c THEN case ELSE cases[d]
  BY <1>5 DEF TypeInv, TypeOK
<1>7. \A d \in CaseId : ReturnedBefore(d)' <=> ReturnedBefore(d)
  BY DEF FinalizeModerate, ReturnedBefore
<1>8. OpenCasesHaveStage' /\ ReturnsRecorded'
  BY <1>5, <1>6, <1>7
  DEF ModerationInv, OpenCasesHaveStage, ReturnsRecorded, StageReached
<1>9. ModerationHasCase'
  <2>1. Max(Runs') = 1
    BY <1>3, NewestOfOne
  <2> QED
    BY <1>5, <1>6, <1>7, <2>1
    DEF ModerationHasCase, StageReached, Actionable
<1> QED  BY <1>8, <1>9 DEF ModerationInv

\* A decision leaves its case open at a stage that exists, or moves the
\* submission on.
LEMMA ModerationDecide ==
  ASSUME TypeInv, LifeInv, ModerationInv, NEW q \in Requests, DecisionStep(q)
  PROVE  ModerationInv'
<1> DEFINE c == request[q].case
<1>1. /\ c \in CaseId /\ cases[c].status \in Actionable
      /\ cases[c].run = 1 /\ 1 \in Runs /\ HasRows(1)
  BY DecisionLands
<1>2. PICK case, status :
        /\ cases' = [cases EXCEPT ![c] = case] /\ case.run = 1
        /\ case.status \in Actionable =>
             \/ case.stage = cases[c].stage
             \/ case.stage \in Stages
        /\ run' = [run EXCEPT ![1] = status]
        /\ \/ workflow_state' = "EVALUATION_REVIEW" /\ status = run[1]
           \/ workflow_state' = "FAILED" /\ status = "FAILED"
           \/ /\ workflow_state' = workflow_state /\ status = run[1]
              /\ case.status = "PENDING" /\ case.stage \in Stages
           \/ workflow_state' = "APPROVED" /\ status = "COMPLETED"
  BY DecisionLands
<1>3. /\ Runs = {1} /\ 1 \in RunId /\ run[1] # "NONE" /\ Max(Runs) = 1
  BY <1>1, RunWithRows, NewestOfOne
<1>4. Runs' = {1}
  BY <1>2, <1>3 DEF Runs, TypeInv, TypeOK
<1> HIDE DEF c
<1>5. \A d \in CaseId : cases'[d] = IF d = c THEN case ELSE cases[d]
  BY <1>2 DEF TypeInv, TypeOK
<1>6. OpenCasesHaveStage' /\ ReturnsRecorded'
  <2>1. ASSUME NEW d \in CaseId, cases'[d].status \in Actionable
        PROVE  StageReached(cases[d], d)'
    <3>1. CASE d = c
      BY <1>1, <1>2, <1>5, <2>1, <3>1, ReturnsKept
      DEF ModerationInv, OpenCasesHaveStage, StageReached
    <3>2. CASE d # c
      BY <1>5, <2>1, <3>2, ReturnsKept
      DEF ModerationInv, OpenCasesHaveStage, StageReached
    <3> QED  BY <3>1, <3>2
  <2>2. ReturnsRecorded'
    BY ReturnsKept DEF ModerationInv, ReturnsRecorded
  <2> QED  BY <2>1, <2>2 DEF OpenCasesHaveStage, StageReached
<1>7. ModerationHasCase'
  <2>1. Max(Runs') = 1
    BY <1>4, NewestOfOne
  <2>2. SUFFICES ASSUME workflow_state' = "MODERATION_REVIEW"
                 PROVE  /\ case.run = 1 /\ case.status \in Actionable
                        /\ case.stage \in Stages
    BY <1>1, <1>5, <2>1 DEF ModerationHasCase
  <2> QED  BY <1>2, <2>2 DEF Actionable
<1> QED  BY <1>6, <1>7 DEF ModerationInv

\* Every step keeps the moderation invariant.
LEMMA ModerationNext ==
  ASSUME OneSession, TypeInv, RowInv, LifeInv, ModerationInv, [Next]_vars
  PROVE  ModerationInv'
<1>1. CASE UNCHANGED vars
  BY <1>1, ModerationFrame DEF vars, moderationVars, Runs
<1>2. ASSUME NEW q \in Requests, PrepareLocked(q)
      PROVE  ModerationInv'
  <2>1. Runs = {} /\ ActiveRuns = {}
    BY <1>2 DEF PrepareLocked, LifeInv, OneRun, ActiveRuns
  <2>2. workflow_state' = "EVALUATING" /\ UNCHANGED <<cases, decisions>>
    BY <1>2, <2>1 DEF PrepareLocked, moderationVars
  <2> QED  BY <2>2, ModerationLeft
<1>3. ASSUME NEW q \in Requests, FinalizeApprove(q)
      PROVE  ModerationInv'
  <2>1. workflow_state' = "APPROVED" /\ UNCHANGED <<cases, decisions>>
    BY <1>3 DEF FinalizeApprove, moderationVars
  <2> QED  BY <2>1, ModerationLeft
<1>4. ASSUME NEW q \in Requests,
             \/ PrepareRead(q) \/ Enqueue(q) \/ EnqueueLost(q)
             \/ ReviewCall(q) \/ ReviewCommit(q)
             \/ FinalizeRead(q) \/ DecideCall(q)
      PROVE  ModerationInv'
  <2>1. UNCHANGED <<workflow_state, run, cases, decisions>>
    <3>1. CASE ReviewCall(q)
      BY <3>1, StagedType DEF moderationVars
    <3>2. CASE ~ReviewCall(q)
      BY <1>4, <3>2
      DEF PrepareRead, Enqueue, EnqueueLost, ReviewCommit, FinalizeRead,
          DecideCall, DecideRead, moderationVars
    <3> QED  BY <3>1, <3>2
  <2> QED  BY <2>1, ModerationFrame DEF Runs
<1>5. ASSUME NEW w \in Workers,
             WorkerStep(w) \/ WorkerError(w) \/ WorkerCrash(w)
      PROVE  ModerationInv'
  <2>1. UNCHANGED <<cases, decisions>>
    BY <1>5 DEF WorkerStep, WorkerTake, WorkerClaim, WorkerFinish,
                WorkerDuplicate, WorkerFail, WorkerError, WorkerCrash,
                moderationVars
  <2>2. CASE WorkerFinish(w) \/ WorkerFail(w)
    <3>1. worker[w] # Idle
      BY <2>2 DEF WorkerFinish, WorkerFail, Idle
    <3>2. workflow_state # "MODERATION_REVIEW"
      BY <3>1, HeldRun DEF ModerationInv, ModerationHasCase, Actionable
    <3>3. workflow_state' # "MODERATION_REVIEW"
      <4>1. CASE WorkerFinish(w)
        BY <3>2, <4>1 DEF WorkerFinish, FlushColumn
      <4>2. CASE WorkerFail(w)
        BY <3>2, <4>2 DEF WorkerFail, AfterFailure
      <4> QED  BY <2>2, <4>1, <4>2
    <3> QED  BY <2>1, <3>3, ModerationLeft
  <2>3. CASE ~(WorkerFinish(w) \/ WorkerFail(w))
    <3>1. workflow_state' = workflow_state /\ run' = run
      BY <1>5, <2>3 DEF WorkerStep, WorkerTake, WorkerClaim, WorkerDuplicate,
                        WorkerError, WorkerCrash
    <3> QED  BY <2>1, <3>1, ModerationFrame DEF Runs
  <2> QED  BY <2>2, <2>3
<1>6. CASE ActivateModerationPolicy \/ RetireModerationPolicy
  BY <1>6, ModerationFrame
  DEF ActivateModerationPolicy, RetireModerationPolicy, Runs
<1> QED
  BY <1>1, <1>2, <1>3, <1>4, <1>5, <1>6, NextCases, ModerationFinalize,
     ModerationDecide

\* With one session at a time, whatever the stages of the policy, a submission in
\* moderation always has an actionable case, and only a case that was returned
\* can stand at a stage that nobody can decide.
THEOREM SerialModerationHasCase ==
  ASSUME OneSession
  PROVE  Spec => []ModerationHasCase
<1>1. ModerationInv => ModerationHasCase
  BY DEF ModerationInv
<1>2. TypeInv /\ RowInv /\ [Next]_vars => RowInv'
  BY RowNext
<1>3. TypeInv /\ RowInv /\ LifeInv /\ [Next]_vars => LifeInv'
  BY LifeNext
<1>4. TypeInv /\ RowInv /\ LifeInv /\ ModerationInv /\ [Next]_vars
        => ModerationInv'
  BY ModerationNext
<1> QED
  BY TypeInit, TypeNext, RowInit, LifeInit, ModerationInit, <1>1, <1>2, <1>3,
     <1>4, PTL DEF Spec
============================================================================
