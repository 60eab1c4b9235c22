------------------------------ MODULE Mastery ------------------------------
(***************************************************************************)
(* From published results to mastery (analytics.py, b12_materialization.py *)
(* and the second half of reassessment.py) for one student: evidence rows, *)
(* the current state and the history of every curriculum node, the mistake *)
(* notebook, and the outcome of a reassessment.  A result is one answer of *)
(* one submission; a row of evidence or state is known by the results it   *)
(* was computed from.                                                      *)
(***************************************************************************)
EXTENDS MasterySignals, Sequences, SequencesExt, TLC

CONSTANTS
  Results, Nodes,
  SubmissionOf,    \* the submission each result grades
  Attempts,        \* the submissions that answer the reassessment's assessment
  Materializers,   \* sessions of analytics tasks
  MasterySettings, \* what each behaviour of a model starts with
  MaxTasks, MaxRebuilds   \* bounds of this model

\* A setting publishes results of the model with finitely many sessions.
ASSUME MasteryAssumption ==
  /\ MaxTasks \in Nat \ {0} /\ MaxRebuilds \in Nat
  /\ "student" \notin Results /\ "none" \notin Attempts
  /\ \A s \in MasterySettings :
       /\ s.workers \subseteq Materializers /\ IsFiniteSet(s.workers)
       /\ s.results \subseteq Results /\ s.ledger \in [Results -> Entries(Nodes)]

JobStates == {"NONE", "QUEUED", "RUNNING", "SUCCEEDED", "FAILED"}
Idle == [phase |-> "idle"]
NoRow == {}       \* a state or snapshot row that does not exist

VARIABLES
  published,   \* the results published so far, in order
  status,      \* status[r]: NONE, PUBLISHED or SUPERSEDED
  job,         \* job[r]: the ANALYTICS job of the result
  tasks,       \* tasks[r]: deliveries of its task still to be made
  evidence,    \* the results whose evidence rows exist
  state,       \* state[n]: the results the mastery state of n was computed from
  snapshot,    \* snapshot[r][n]: the same for the history row of n at result r
  notebook,    \* the mistake notebook: a result and an error code
  reassessment,
  rebuilds,
  msession,
  msetting

tables == <<published, status, job, evidence, state, snapshot, notebook, reassessment>>
masteryVars == <<tables, tasks, rebuilds, msession, msetting>>

ledger == msetting.ledger
NoReassessment == [status |-> "NONE", submission |-> "none", result |-> "none", nodes |-> {},
                   baseline |-> [n \in Nodes |-> NoRow], post |-> [n \in Nodes |-> NoRow]]

MasteryTypeOK ==
  /\ published \in Seq(Results) /\ evidence \subseteq Results
  /\ status \in [Results -> {"NONE", "PUBLISHED", "SUPERSEDED"}]
  /\ job \in [Results -> JobStates] /\ tasks \in [Results -> 0 .. MaxTasks]
  /\ state \in [Nodes -> SUBSET Results]
  /\ snapshot \in [Results -> [Nodes -> SUBSET Results]]
  /\ notebook \subseteq Results \X Codes
  /\ reassessment.status \in {"NONE", "CREATED", "SUBMITTED", "PUBLISHED"}
  /\ DOMAIN msession = Materializers

MasteryInit ==
  /\ msetting \in MasterySettings
  /\ published = << >> /\ evidence = {} /\ notebook = {}
  /\ status = [r \in Results |-> "NONE"] /\ job = [r \in Results |-> "NONE"]
  /\ tasks = [r \in Results |-> 0] /\ rebuilds = 0
  /\ state = [n \in Nodes |-> NoRow]
  /\ snapshot = [r \in Results |-> [n \in Nodes |-> NoRow]]
  /\ reassessment = NoReassessment
  /\ msession = [w \in Materializers |-> Idle]

InForce == {r \in Results : status[r] = "PUBLISHED"}
\* Evidence of the results in force, as _states_from_evidence groups it by node.
OfNode(S, n) == {r \in S : ledger[r].node = n}
States(S) == [n \in Nodes |-> OfNode(S, n)]

-----------------------------------------------------------------------------
\* publish_result makes the ANALYTICS job of the result in its transaction
\* (ensure_analytics_job); the task is sent after it and may be lost.  What is
\* published has a confirmed identity, whose confirmation binds an attempt.  Its
\* result was prepared, not regenerated: the version it names is the PUBLISHED one
\* of the submission, and there is one (Publication has the other chains, and two
\* PUBLISHED versions).
Publish(r) ==
  /\ r \in msetting.results /\ status[r] = "NONE"
  /\ SubmissionOf[r] \in Attempts => reassessment.submission = SubmissionOf[r]
  /\ published' = Append(published, r)
  /\ status' = [x \in Results |->
                 IF x = r THEN "PUBLISHED"
                 ELSE IF status[x] = "PUBLISHED" /\ SubmissionOf[x] = SubmissionOf[r]
                      THEN "SUPERSEDED" ELSE status[x]]
  /\ job' = [job EXCEPT ![r] = "QUEUED"]
  /\ \E sent \in {1} \cup (IF "lost" \in msetting.faults THEN {0} ELSE {}) :
       tasks' = [tasks EXCEPT ![r] = sent]
  /\ UNCHANGED <<evidence, state, snapshot, notebook, reassessment, rebuilds, msession, msetting>>

\* prepare_analytics_materialization and its route: a failed job is queued
\* again, and unless it has succeeded its task is sent once more.
PrepareAnalytics(r) ==
  /\ "prepare" \in msetting.faults
  /\ status[r] = "PUBLISHED" /\ job[r] # "SUCCEEDED" /\ tasks[r] < MaxTasks
  /\ job' = [job EXCEPT ![r] = IF @ = "FAILED" THEN "QUEUED" ELSE @]
  /\ tasks' = [tasks EXCEPT ![r] = @ + 1]
  /\ UNCHANGED <<published, status, evidence, state, snapshot, notebook, reassessment,
                 rebuilds, msession, msetting>>

\* materialize_published_result up to its first commit.
TaskBegin(w, r) ==
  /\ w \in msetting.workers /\ msession[w] = Idle /\ tasks[r] > 0
  /\ tasks' = [tasks EXCEPT ![r] = @ - 1]
  /\ LET runs == status[r] = "PUBLISHED" /\ job[r] # "SUCCEEDED"
     IN  /\ job' = [job EXCEPT ![r] = IF status[r] # "PUBLISHED" THEN "FAILED"
                                      ELSE IF @ = "SUCCEEDED" THEN @ ELSE "RUNNING"]
         /\ msession' = [msession EXCEPT ![w] =
                           IF runs THEN [phase |-> "claimed", of |-> r] ELSE Idle]
  /\ UNCHANGED <<published, status, evidence, state, snapshot, notebook, reassessment,
                 rebuilds, msetting>>

\* rebuild_student_b12: the same materialisation without a job or new evidence.
RebuildBegin(w) ==
  /\ w \in msetting.workers /\ msession[w] = Idle
  /\ "rebuild" \in msetting.faults /\ rebuilds < MaxRebuilds /\ rebuilds' = rebuilds + 1
  /\ msession' = [msession EXCEPT ![w] = [phase |-> "claimed", of |-> "student"]]
  /\ UNCHANGED <<tables, tasks, msetting>>

\* Mutant: evidence of superseded results is read as well.
AllEvidence(own) == evidence \cup own
\* Mutant: the rows inserted in this transaction are not read.
WithoutOwn(own) == evidence \cap InForce

\* The evidence materialize_b12_for_student reads: rows of the results in
\* force, those this transaction has just inserted included.
EvidenceInForce(own) == (evidence \cup own) \cap InForce

Own(w) == msession[w].of
OwnRows(w) == IF Own(w) = "student" THEN {} ELSE {Own(w)}

MaterializeRead(w) ==
  /\ msession[w].phase = "claimed"
  /\ msession' = [msession EXCEPT ![w] =
                    [phase |-> "computed", of |-> Own(w), seen |-> EvidenceInForce(OwnRows(w))]]
  /\ UNCHANGED <<tables, tasks, rebuilds, msetting>>

\* Mutant: only the rows of the nodes seen are written, stale ones stay.
UpsertOnly(seen) == [n \in Nodes |-> IF OfNode(seen, n) # {} THEN OfNode(seen, n) ELSE state[n]]

\* The current state is that of the evidence read; a node without any loses
\* its row.
CurrentState(seen) == States(seen)

\* The history row of each result read is cumulative, in publication order;
\* a row it no longer computes keeps what it held.
Earlier(r, seen) == {x \in seen : \E i, j \in DOMAIN published :
                       published[i] = x /\ published[j] = r /\ i <= j}
Snapshots(seen) ==
  [r \in Results |-> [n \in Nodes |->
     IF r \in seen /\ OfNode(Earlier(r, seen), n) # {} THEN OfNode(Earlier(r, seen), n)
     ELSE snapshot[r][n]]]

\* The notebook has an entry per result, answer and academic error.
Mistakes(seen) == UNION {{r} \X Academic(ledger[r]) : r \in seen}

IsAttempt(r) == /\ r \in Results /\ reassessment.status # "NONE"
                /\ SubmissionOf[r] \in Attempts /\ reassessment.submission = SubmissionOf[r]

\* materialize_b14_for_published_result: the attempt's own history rows become
\* the outcome of the reassessment it is bound to.
Outcome(r, history) ==
  IF IsAttempt(r)
  THEN [reassessment EXCEPT !.status = "PUBLISHED", !.result = r,
          !.post = [n \in Nodes |-> IF n \in reassessment.nodes /\ history[r][n] # NoRow
                                    THEN history[r][n] ELSE @[n]]]
  ELSE reassessment

MaterializeCommit(w) ==
  /\ msession[w].phase = "computed"
  /\ LET seen == msession[w].seen
     IN  /\ evidence' = evidence \cup OwnRows(w)
         /\ state' = CurrentState(seen)
         /\ snapshot' = Snapshots(seen)
         /\ notebook' = notebook \cup Mistakes(seen)
         /\ reassessment' = Outcome(Own(w), Snapshots(seen))
  /\ job' = [r \in Results |-> IF r = Own(w) THEN "SUCCEEDED" ELSE job[r]]
  /\ msession' = [msession EXCEPT ![w] = Idle]
  /\ UNCHANGED <<published, status, tasks, rebuilds, msetting>>

FailureKept(w) == [r \in Results |-> IF r = Own(w) THEN "FAILED" ELSE job[r]]

\* An exception rolls the work back and records the failure.
MaterializeFail(w) ==
  /\ "error" \in msetting.faults /\ msession[w] # Idle
  /\ job' = FailureKept(w)
  /\ msession' = [msession EXCEPT ![w] = Idle]
  /\ UNCHANGED <<published, status, tasks, evidence, state, snapshot, notebook, reassessment,
                 rebuilds, msetting>>

\* The worker dies: a claimed job stays RUNNING.
WorkerCrash(w) ==
  /\ "crash" \in msetting.faults /\ msession[w] # Idle
  /\ msession' = [msession EXCEPT ![w] = Idle]
  /\ UNCHANGED <<tables, tasks, rebuilds, msetting>>

-----------------------------------------------------------------------------
\* reassessment.py: create a reassessment of some nodes over their baseline.
CreateReassessment(nodes) ==
  /\ reassessment = NoReassessment
  /\ reassessment' = [NoReassessment EXCEPT !.status = "CREATED", !.nodes = nodes,
                        !.baseline = [n \in Nodes |-> IF n \in nodes THEN state[n] ELSE NoRow]]
  /\ UNCHANGED <<published, status, job, evidence, state, snapshot, notebook>>

\* bind_submission_if_reassessment, called when an identity is confirmed.
BindSubmission(s) ==
  /\ s \in Attempts
  /\ reassessment.status = "CREATED" /\ reassessment.submission = "none"
  /\ reassessment' = [reassessment EXCEPT !.submission = s, !.status = "SUBMITTED"]
  /\ UNCHANGED <<published, status, job, tasks, evidence, state, snapshot, notebook,
                 rebuilds, msession, msetting>>

\* rebuild_b14: again from the rows of the result in force, if all are there.
RebuildOutcome(r) ==
  /\ "rebuild" \in msetting.faults /\ rebuilds < MaxRebuilds /\ rebuilds' = rebuilds + 1
  /\ r \in InForce /\ IsAttempt(r) /\ \A n \in reassessment.nodes : snapshot[r][n] # NoRow
  /\ reassessment' = Outcome(r, snapshot)
  /\ UNCHANGED <<published, status, job, tasks, evidence, state, snapshot, notebook,
                 msession, msetting>>

MasteryNext ==
  \/ \E r \in Results : Publish(r) \/ PrepareAnalytics(r) \/ RebuildOutcome(r)
  \/ \E w \in Materializers :
       \/ \E r \in Results : TaskBegin(w, r)
       \/ RebuildBegin(w) \/ MaterializeRead(w) \/ MaterializeCommit(w)
       \/ MaterializeFail(w) \/ WorkerCrash(w)
  \/ \E s \in {SubmissionOf[r] : r \in Results} : BindSubmission(s)

\* Tasks are delivered and a running one goes on.
MasteryFairness ==
  \A w \in Materializers :
    /\ WF_masteryVars(\E r \in Results : TaskBegin(w, r))
    /\ WF_masteryVars(MaterializeRead(w)) /\ WF_masteryVars(MaterializeCommit(w))

-----------------------------------------------------------------------------
\* materialization_status_for_student: READY when every job has succeeded.
Ready == InForce # {} /\ \A r \in InForce : job[r] = "SUCCEEDED"

\* One worker and no work under way: where the tables should agree.
Settled == Ready /\ Cardinality(msetting.workers) = 1
           /\ \A w \in Materializers : msession[w] = Idle

\* Once every result in force is materialised, the state of every node was
\* computed from the evidence of exactly those results: nothing of a superseded
\* result is left and nothing is missing, whatever failed or was sent twice.
StateFollowsResults == Settled => state = States(InForce)

\* The history of the newest result in force is the current state, so the trend
\* a teacher reads ends where the mastery table stands.
TrendEndsAtState ==
  Settled => LET newest == SelectLastInSubSeq(published, 1, Len(published),
                                              LAMBDA r : status[r] = "PUBLISHED")
             IN  \A n \in Nodes : state[n] # NoRow => snapshot[published[newest]][n] = state[n]

\* A node the student is shown as weak in a dimension has, among the results in
\* force, an answer that was neither blank nor in need of review and that
\* carries an error of that dimension (PEV-033: a slip is not a concept gap).
WeaknessIsEvidenced ==
  \A n \in Nodes, k \in Kinds : Count(ledger, state[n], n, k, "WEAK") > 0 =>
    \E r \in state[n] : /\ ~ledger[r].blank /\ "UNREADABLE" \notin ledger[r].codes
                        /\ \/ k = "CONCEPT" /\ "CONCEPT" \in ledger[r].codes
                           \/ k = "EXECUTION" /\ "SIGN" \in ledger[r].codes
                           \/ k = "PROCEDURE" /\ "METHOD" \in ledger[r].codes

\* The outcome of a reassessment is the history of its own attempt: it names a
\* result of the submission bound to it and, while that is in force, contains the
\* evidence of it.  An attempt that is published again while it is materialised
\* leaves an outcome of the superseded result; it is replaced by the time
\* everything in force is materialised.
OutcomeIsOfAttempt ==
  reassessment.status = "PUBLISHED" =>
    /\ SubmissionOf[reassessment.result] = reassessment.submission
    /\ LET n == ledger[reassessment.result].node
       IN  reassessment.result \in InForce /\ n \in reassessment.nodes
           => reassessment.result \in reassessment.post[n]
    /\ Settled => reassessment.result \in InForce

\* What is known of a student follows from the published results.
MasteryFollowsEvidence ==
  StateFollowsResults /\ TrendEndsAtState /\ WeaknessIsEvidenced /\ OutcomeIsOfAttempt

\* The baseline captured when a reassessment is created never changes after.
BaselineStays ==
  [][reassessment # NoReassessment => reassessment'.baseline = reassessment.baseline]_masteryVars

\* The job of a result in force whose task was delivered gets out of RUNNING,
\* where workers do not die.
MaterializationEnds ==
  \A r \in Results : []<>(job[r] # "RUNNING" \/ "crash" \in msetting.faults)
=============================================================================
