---------------------------- MODULE Publication ----------------------------
(***************************************************************************)
(* Publication of one submission whose evaluation has been approved: the   *)
(* versions of its PublishedResult, the worker that renders the reports    *)
(* and writes them to the object store, and the publish step that releases *)
(* a version and supersedes the previous one (services/publication.py,     *)
(* api/v1/publication.py, tasks/celery_app.py, services/storage.py).       *)
(*                                                                         *)
(* The ledger is seen through load_approved_ledger_snapshot: its newest    *)
(* run, its score - standing for the states, scores and criterion marks of *)
(* every row - and whether the snapshot can be taken at all.  Two          *)
(* snapshots have the same SHA-256 exactly when run and score agree.  The  *)
(* steps of evaluation.py and enterprise_ops.py that change the ledger are *)
(* taken whole, as one step each; EvaluationLedger has their insides.      *)
(*                                                                         *)
(* Sessions read and commit at different steps, as in EvaluationLedger.    *)
(* Artifact a of a version is written under a key that contains the        *)
(* version.  The bytes hold generated_at, so no two attempts write the     *)
(* same bytes: a stored object is identified with the attempt it is from.  *)
(***************************************************************************)
EXTENDS Integers, FiniteSets, FiniteSetsExt, UnitOfWork

CONSTANTS
  Requests,      \* concurrent HTTP requests
  Workers,       \* Celery worker processes
  Endpoints,     \* what clients call in this instance
  NArtifacts,    \* PDFs rendered for a version
  MaxScore,      \* bound: the contents of the reviewed ledger
  MaxVersions,   \* bound: versions of the result
  MaxRuns,       \* bound: evaluation runs
  MaxTasks,      \* bound: copies of one job's task in the broker
  MaxAttempts,   \* bound: pipeline attempts over the whole behaviour
  Faults,        \* the kinds of fault that may happen in this instance
  MaxFaults      \* bound: how many of them

Score == 0 .. MaxScore
Version == 1 .. MaxVersions
RunId == 1 .. MaxRuns
Attempt == 1 .. MaxAttempts
Artifact == 1 .. NArtifacts

WorkflowState == {"EVALUATION_REVIEW", "APPROVED", "PUBLISHED"}
ResultStatus == {"NONE", "READY", "GENERATING", "GENERATED", "PUBLISHED",
                 "SUPERSEDED", "FAILED"}
Reusable == {"READY", "GENERATING", "GENERATED", "PUBLISHED"}
Processable == {"READY", "GENERATING", "FAILED"}
JobStatus == {"NONE", "QUEUED", "RUNNING", "SUCCEEDED", "FAILED"}

ASSUME PublicationBounds ==
  /\ MaxScore \in Nat /\ MaxVersions \in Nat /\ MaxRuns \in Nat \ {0}
  /\ MaxTasks \in Nat /\ MaxAttempts \in Nat /\ MaxFaults \in Nat
  /\ NArtifacts \in Nat \ {0}

VARIABLES
  workflow_state, \* submissions.workflow_state
  ledger,         \* what load_approved_ledger_snapshot would read
  results,        \* results[v]: the published_results row of version_number v
  job,            \* job[v]: pipeline_jobs.status, key publication:{sub}:v{v}
  tasks,          \* tasks[v]: copies of the task of job[v] in the broker
  store,          \* store[v][a]: the attempt stored under a's key of v, or 0
  grievance,      \* grievance[v]: status of the grievance about version v
  request,        \* request[q]: what the session of an HTTP request holds
  worker,         \* worker[w]: what the session of a worker holds
  attempts,       \* pipeline attempts so far
  faults          \* faults so far

queueVars == <<job, tasks>>
vars == <<workflow_state, ledger, results, queueVars, store, grievance,
          request, worker, attempts, faults>>

Snapshot == [run : RunId, score : Score]
Ledger == [run : RunId, score : Score, ready : BOOLEAN]
\* `file` stands for the recorded artifact keys and SHA-256 values.
Result == [status : ResultStatus, snapshot : Snapshot,
           supersedes : Version \cup {0}, file : Attempt \cup {0}]
NoResult == [status |-> "NONE", snapshot |-> [run |-> 1, score |-> 0],
             supersedes |-> 0, file |-> 0]

Idle == [op |-> "IDLE"]
Request ==
  {Idle}
    \cup [op : {"CREATE"}, version : Version, snapshot : Snapshot,
          supersedes : Version \cup {0}]
    \cup [op : {"ENQUEUE"}, version : Version]
    \cup [op : {"PUBLISH"}, version : Version, prior : Version \cup {0}]
Worker ==
  {Idle}
    \cup [op : {"LOADED", "STARTED", "STORING", "CHECKED", "ROLLED_BACK"},
          job : Version, version : Version, status : ResultStatus,
          state : WorkflowState, attempt : Attempt \cup {0},
          stored : Artifact \cup {0}]

TypeOK ==
  /\ workflow_state \in WorkflowState
  /\ ledger \in Ledger
  /\ results \in [Version -> Result]
  /\ job \in [Version -> JobStatus]
  /\ tasks \in [Version -> Nat]
  /\ store \in [Version -> [Artifact -> Attempt \cup {0}]]
  /\ grievance \in [Version -> {"NONE", "SUBMITTED", "RE_EVALUATING"}]
  /\ request \in [Requests -> Request]
  /\ worker \in [Workers -> Worker]
  /\ attempts \in 0 .. MaxAttempts
  /\ faults \in Nat

\* A finalised submission: run 1 COMPLETED, every leaf reviewed.
Init ==
  /\ workflow_state = "APPROVED"
  /\ ledger \in [run : {1}, score : Score, ready : {TRUE}]
  /\ results = [v \in Version |-> NoResult]
  /\ job = [v \in Version |-> "NONE"]
  /\ tasks = [v \in Version |-> 0]
  /\ store = [v \in Version |-> [a \in Artifact |-> 0]]
  /\ grievance = [v \in Version |-> "NONE"]
  /\ request = [q \in Requests |-> Idle]
  /\ worker = [w \in Workers |-> Idle]
  /\ attempts = 0
  /\ faults = 0

Calls(q, endpoint) == endpoint \in Endpoints /\ request[q] = Idle

Faulty(kind) == /\ kind \in Faults
                /\ faults < MaxFaults
                /\ faults' = faults + 1

Issued == {v \in Version : results[v].status # "NONE"}
Published == {v \in Version : results[v].status = "PUBLISHED"}
Newest(S) == Max(S \cup {0})
CurrentSnapshot == [run |-> ledger.run, score |-> ledger.score]

---------------------------------------------------------------------------
(* Preparing and regenerating a version                                    *)

\* Versions prepare_publication may return instead of making one.
SameSnapshot ==
  {v \in Version : /\ results[v].status \in Reusable
                   /\ results[v].snapshot = CurrentSnapshot}

AfterExisting(v) ==
  IF job[v] = "QUEUED" THEN [op |-> "ENQUEUE", version |-> v] ELSE Idle

\* Mutant: the version number is the newest one, not the next.
PreparedSameVersion ==
  [op |-> "CREATE", version |-> Newest(Issued), snapshot |-> CurrentSnapshot,
   supersedes |-> Newest(Published)]

\* The row prepare_publication is about to insert.
Prepared ==
  [op |-> "CREATE", version |-> Newest(Issued) + 1,
   snapshot |-> CurrentSnapshot, supersedes |-> Newest(Published)]

PrepareRead(q) ==
  /\ Calls(q, "prepare")
  /\ workflow_state = "APPROVED" /\ ledger.ready
  /\ SameSnapshot = {} => Newest(Issued) < MaxVersions
  /\ request' = [request EXCEPT ![q] =
       IF SameSnapshot # {} THEN AfterExisting(Max(SameSnapshot))
       ELSE Prepared]
  /\ UNCHANGED <<workflow_state, ledger, results, queueVars, store,
                 grievance, worker, attempts, faults>>

\* The new version is the number after the regenerated one, and supersedes
\* that one, published or not.
RegenerateRead(q, v) ==
  /\ Calls(q, "regenerate")
  /\ results[v].status \notin {"NONE", "PUBLISHED"}
  /\ workflow_state = "APPROVED" /\ ledger.ready
  /\ v < MaxVersions
  /\ request' = [request EXCEPT ![q] =
       [op |-> "CREATE", version |-> v + 1, snapshot |-> CurrentSnapshot,
        supersedes |-> v]]
  /\ UNCHANGED <<workflow_state, ledger, results, queueVars, store,
                 grievance, worker, attempts, faults>>

\* Mutant: version_number is not unique.
VersionUnchecked(v) == TRUE

\* The unique constraint on (tenant, submission, version_number).
VersionFree(v) == results[v].status = "NONE"

\* INSERT of the row and its job, and commit.
CreateResult(q) ==
  LET rq == request[q]
      v == rq.version IN
  /\ rq.op = "CREATE"
  /\ IF VersionFree(v)
     THEN /\ results' = [results EXCEPT ![v] =
               [status |-> "READY", snapshot |-> rq.snapshot,
                supersedes |-> rq.supersedes, file |-> 0]]
          /\ job' = [job EXCEPT ![v] = "QUEUED"]
          /\ request' = [request EXCEPT ![q] =
               [op |-> "ENQUEUE", version |-> v]]
     ELSE \* IntegrityError: the request fails
          /\ request' = [request EXCEPT ![q] = Idle]
          /\ UNCHANGED <<results, job>>
  /\ UNCHANGED <<workflow_state, ledger, tasks, store, grievance, worker,
                 attempts, faults>>

Enqueue(q) ==
  /\ request[q].op = "ENQUEUE"
  /\ tasks[request[q].version] < MaxTasks
  /\ tasks' = [tasks EXCEPT ![request[q].version] = @ + 1]
  /\ request' = [request EXCEPT ![q] = Idle]
  /\ UNCHANGED <<workflow_state, ledger, results, job, store, grievance,
                 worker, attempts, faults>>

---------------------------------------------------------------------------
(* The worker: run_publication_pipeline                                    *)

Waiting == {v \in Version : results[v].status \in Processable}

\* The pipeline renders the newest version that is READY, GENERATING or
\* FAILED, whichever job it was started for.
WorkerTake(w, j) ==
  /\ worker[w] = Idle
  /\ tasks[j] > 0
  /\ Waiting # {}
  /\ tasks' = [tasks EXCEPT ![j] = @ - 1]
  /\ worker' = [worker EXCEPT ![w] =
       [op |-> "LOADED", job |-> j, version |-> Max(Waiting),
        status |-> results[Max(Waiting)].status, state |-> workflow_state,
        attempt |-> 0, stored |-> 0]]
  /\ UNCHANGED <<workflow_state, ledger, results, job, store, grievance,
                 request, attempts, faults>>

\* PUBLISHED_RESULT_MISSING.
WorkerNothing(w, j) ==
  /\ worker[w] = Idle
  /\ tasks[j] > 0
  /\ Waiting = {}
  /\ tasks' = [tasks EXCEPT ![j] = @ - 1]
  /\ job' = [job EXCEPT ![j] = "FAILED"]
  /\ UNCHANGED <<workflow_state, ledger, results, store, grievance, request,
                 worker, attempts, faults>>

\* The first commit: job RUNNING, result GENERATING.  (A job that was RUNNING when
\* read keeps what another worker made of it; nothing tells RUNNING from what
\* follows it, so job is simply RUNNING here.)
WorkerStart(w) ==
  LET v == worker[w].version IN
  /\ worker[w].op = "LOADED"
  /\ attempts < MaxAttempts
  /\ attempts' = attempts + 1
  /\ job' = [job EXCEPT ![worker[w].job] = "RUNNING"]
  /\ results' = [results EXCEPT ![v].status =
                   FlushColumn(worker[w].status, "GENERATING", @)]
  /\ worker' = [worker EXCEPT ![w].op = "STARTED", ![w].attempt = attempts']
  /\ UNCHANGED <<workflow_state, ledger, tasks, store, grievance, request,
                 faults>>

\* The submission was read before the first commit and is not read again; the
\* ledger is read now.
CanRender(w) ==
  /\ worker[w].state = "APPROVED"
  /\ ledger.ready
  /\ results[worker[w].version].snapshot = CurrentSnapshot

WorkerRender(w) ==
  /\ worker[w].op = "STARTED"
  /\ CanRender(w)
  /\ worker' = [worker EXCEPT ![w].op = "STORING"]
  /\ UNCHANGED <<workflow_state, ledger, results, queueVars, store, grievance,
                 request, attempts, faults>>

\* INVALID_WORKFLOW_STATE, SNAPSHOT_MISMATCH, ...
WorkerRefuse(w) ==
  /\ worker[w].op = "STARTED"
  /\ ~CanRender(w)
  /\ worker' = [worker EXCEPT ![w].op = "ROLLED_BACK"]
  /\ UNCHANGED <<workflow_state, ledger, results, queueVars, store, grievance,
                 request, attempts, faults>>

\* The object store under the key of the worker's next artifact.
Stored(w) == store[worker[w].version][worker[w].stored + 1]

\* put_export_bytes asks exists(key), and raises StorageImmutabilityError.
WorkerExists(w) ==
  /\ worker[w].op = "STORING"
  /\ worker[w].stored < NArtifacts
  /\ worker' = [worker EXCEPT ![w].op =
                  IF Stored(w) = 0 THEN "CHECKED" ELSE "ROLLED_BACK"]
  /\ UNCHANGED <<workflow_state, ledger, results, queueVars, store, grievance,
                 request, attempts, faults>>

\* put_object, which overwrites what has been stored since.
WorkerPut(w) ==
  /\ worker[w].op = "CHECKED"
  /\ store' = [store EXCEPT ![worker[w].version][worker[w].stored + 1] =
                 worker[w].attempt]
  /\ worker' = [worker EXCEPT ![w].op = "STORING", ![w].stored = @ + 1]
  /\ UNCHANGED <<workflow_state, ledger, results, queueVars, grievance, request,
                 attempts, faults>>

\* Every object under v's keys is the one of this attempt.
AllFrom(v, attempt) == \A a \in Artifact : store[v][a] = attempt

\* Mutant: the artifact columns are not recorded.
GeneratedUnrecorded(result, attempt) == [result EXCEPT !.status = "GENERATED"]

Generated(result, attempt) ==
  [result EXCEPT !.status = "GENERATED", !.file = attempt]

\* The re-read matches what was written: GENERATED, and the job SUCCEEDED.
WorkerFinish(w) ==
  LET v == worker[w].version IN
  /\ worker[w].op = "STORING" /\ worker[w].stored = NArtifacts
  /\ AllFrom(v, worker[w].attempt)
  /\ results' = [results EXCEPT ![v] = Generated(@, worker[w].attempt)]
  /\ job' = [job EXCEPT ![worker[w].job] = "SUCCEEDED"]
  /\ worker' = [worker EXCEPT ![w] = Idle]
  /\ UNCHANGED <<workflow_state, ledger, tasks, store, grievance, request,
                 attempts, faults>>

\* ARTIFACT_HASH_MISMATCH.
WorkerMismatch(w) ==
  /\ worker[w].op = "STORING" /\ worker[w].stored = NArtifacts
  /\ ~AllFrom(worker[w].version, worker[w].attempt)
  /\ worker' = [worker EXCEPT ![w].op = "ROLLED_BACK"]
  /\ UNCHANGED <<workflow_state, ledger, results, queueVars, store, grievance,
                 request, attempts, faults>>

\* Mutant: the except branch leaves the result as it is.
FailedUnmarked(result) == result

Failed(result) == [result EXCEPT !.status = "FAILED"]

\* The except branch: job and result FAILED whatever they are by now, and the
\* submission APPROVED whatever it is by now.
WorkerFail(w) ==
  /\ worker[w].op = "ROLLED_BACK"
  /\ job' = [job EXCEPT ![worker[w].job] = "FAILED"]
  /\ results' = [results EXCEPT ![worker[w].version] = Failed(@)]
  /\ workflow_state' = "APPROVED"
  /\ worker' = [worker EXCEPT ![w] = Idle]
  /\ UNCHANGED <<ledger, tasks, store, grievance, request, attempts, faults>>

\* An infrastructure error while rendering, storing or committing.
WorkerError(w) ==
  /\ worker[w].op \in {"STARTED", "STORING", "CHECKED"}
  /\ Faulty("error")
  /\ worker' = [worker EXCEPT ![w].op = "ROLLED_BACK"]
  /\ UNCHANGED <<workflow_state, ledger, results, queueVars, store,
                 grievance, request, attempts>>

\* The worker process dies; its task was acknowledged when it was taken.
WorkerCrash(w) ==
  /\ worker[w] # Idle
  /\ Faulty("crash")
  /\ worker' = [worker EXCEPT ![w] = Idle]
  /\ UNCHANGED <<workflow_state, ledger, results, queueVars, store,
                 grievance, request, attempts>>

---------------------------------------------------------------------------
(* Publishing                                                              *)

\* Mutant: publish_result does not compare the snapshot again.
StaleOrFreshSnapshot(v) == TRUE

\* STALE_SNAPSHOT is raised otherwise.
FreshSnapshot(v) == results[v].snapshot = CurrentSnapshot

\* Every artifact is recorded, and the stored bytes have the recorded SHA-256.
ArtifactsVerified(v) ==
  results[v].file # 0 /\ AllFrom(v, results[v].file)

\* The result this version replaces, when that one is still PUBLISHED.
PriorPublished(v) ==
  IF results[v].supersedes \in Published THEN results[v].supersedes ELSE 0

PublishRead(q, v) ==
  /\ Calls(q, "publish")
  /\ results[v].status = "GENERATED"
  /\ workflow_state = "APPROVED" /\ ledger.ready
  /\ FreshSnapshot(v)
  /\ ArtifactsVerified(v)
  /\ request' = [request EXCEPT ![q] =
       [op |-> "PUBLISH", version |-> v, prior |-> PriorPublished(v)]]
  /\ UNCHANGED <<workflow_state, ledger, results, queueVars, store,
                 grievance, worker, attempts, faults>>

\* One transaction: the prior SUPERSEDED, this one PUBLISHED, the submission
\* PUBLISHED; with it the analytics job and the outbound event of the version.
PublishCommit(q) ==
  LET rq == request[q] IN
  /\ rq.op = "PUBLISH"
  /\ results' = [v \in Version |->
       IF v = rq.version THEN [results[v] EXCEPT !.status = "PUBLISHED"]
       ELSE IF v = rq.prior THEN [results[v] EXCEPT !.status = "SUPERSEDED"]
       ELSE results[v]]
  /\ workflow_state' = "PUBLISHED"
  /\ request' = [request EXCEPT ![q] = Idle]
  /\ UNCHANGED <<ledger, queueVars, store, grievance, worker, attempts,
                 faults>>

---------------------------------------------------------------------------
(* The ledger's own steps, each taken whole                                *)

\* override_question_evaluation: no guard looks at the submission, so a row can
\* also be overridden after publication.
Override(q, score) ==
  /\ Calls(q, "override")
  /\ ledger' = [ledger EXCEPT !.score = score]
  /\ UNCHANGED <<workflow_state, results, queueVars, store, grievance,
                 request, worker, attempts, faults>>

\* create_grievance: about a PUBLISHED result, one active case each.  Only the
\* result of the newest run is complained about here.
CreateGrievance(q, v) ==
  /\ Calls(q, "grievance")
  /\ results[v].status = "PUBLISHED"
  /\ results[v].snapshot.run = ledger.run
  /\ grievance[v] = "NONE"
  /\ grievance' = [grievance EXCEPT ![v] = "SUBMITTED"]
  /\ UNCHANGED <<workflow_state, ledger, results, queueVars, store,
                 request, worker, attempts, faults>>

\* accept_grievance: a RE_EVALUATION run with every row REVIEW_REQUIRED; the
\* original run is SUPERSEDED, so no COMPLETED run is left to publish from.
AcceptGrievance(q, v) ==
  /\ Calls(q, "grievance")
  /\ grievance[v] = "SUBMITTED"
  /\ results[v].snapshot.run = ledger.run
  /\ ledger.run < MaxRuns
  /\ grievance' = [grievance EXCEPT ![v] = "RE_EVALUATING"]
  /\ ledger' = [ledger EXCEPT !.run = @ + 1, !.ready = FALSE]
  /\ workflow_state' = "EVALUATION_REVIEW"
  /\ UNCHANGED <<results, queueVars, store, request, worker,
                 attempts, faults>>

\* The rows of the new run are reviewed and finalize_evaluation completes it.
Finalize(q, score) ==
  /\ Calls(q, "grievance")
  /\ workflow_state = "EVALUATION_REVIEW"
  /\ ledger' = [ledger EXCEPT !.score = score, !.ready = TRUE]
  /\ workflow_state' = "APPROVED"
  /\ UNCHANGED <<results, queueVars, store, grievance, request, worker,
                 attempts, faults>>

---------------------------------------------------------------------------
RequestStep(q) == CreateResult(q) \/ Enqueue(q) \/ PublishCommit(q)

WorkerStep(w) ==
  \/ \E j \in Version : WorkerTake(w, j) \/ WorkerNothing(w, j)
  \/ WorkerStart(w) \/ WorkerRender(w) \/ WorkerRefuse(w)
  \/ WorkerExists(w) \/ WorkerPut(w)
  \/ WorkerFinish(w) \/ WorkerMismatch(w) \/ WorkerFail(w)

LedgerStep(q) ==
  \/ \E score \in Score : Override(q, score) \/ Finalize(q, score)
  \/ \E v \in Version : CreateGrievance(q, v) \/ AcceptGrievance(q, v)

Next ==
  \/ \E q \in Requests :
       \/ PrepareRead(q)
       \/ \E v \in Version : RegenerateRead(q, v) \/ PublishRead(q, v)
       \/ RequestStep(q)
       \/ LedgerStep(q)
  \/ \E w \in Workers : WorkerStep(w) \/ WorkerError(w) \/ WorkerCrash(w)

Spec == Init /\ [][Next]_vars

\* A worker that is up runs its pipeline to an end; nobody has to call.
FairSpec ==
  /\ Spec
  /\ \A q \in Requests : WF_vars(RequestStep(q))
  /\ \A w \in Workers : WF_vars(WorkerStep(w))

---------------------------------------------------------------------------
(* Properties                                                              *)

Released == {"GENERATED", "PUBLISHED", "SUPERSEDED"}

\* Nothing is generated, published or superseded without its artifacts having
\* been written and recorded, however workers and publishers interleave.
ReleasedHasArtifacts ==
  \A v \in Version : results[v].status \in Released => results[v].file # 0

\* A version number, once issued, keeps its snapshot and what it supersedes:
\* racing prepares and regenerates never reissue it.
VersionImmutable ==
  [][\A v \in Version : results[v].status # "NONE" =>
       /\ results'[v].snapshot = results[v].snapshot
       /\ results'[v].supersedes = results[v].supersedes]_vars

\* Publishing marks the prior result SUPERSEDED: analytics, which read every
\* PUBLISHED row, count the submission once.
OnePublished == Cardinality(Published) <= 1

\* A PUBLISHED version is of the ledger as it is now.
ShowsLedger == \E v \in Published : results[v].snapshot = CurrentSnapshot

\* A submission becomes PUBLISHED with a version of the approved ledger, whatever
\* was overridden, regenerated or regraded since the version was generated, and
\* while it is PUBLISHED no failure, retry or other version takes that version
\* away: only a step that changes the ledger itself (an override after
\* publication) leaves it showing something else.
PublicationShowsLedger ==
  [][workflow_state' = "PUBLISHED" /\ ~ShowsLedger' =>
       workflow_state = "PUBLISHED" /\ (ShowsLedger => ledger' # ledger)]_vars

\* While the submission is PUBLISHED, what it shows is the approved ledger.
\* False of the code: an override after publication changes the ledger.
PublishedMatchesLedger == workflow_state = "PUBLISHED" => ShowsLedger

\* A published submission leaves PUBLISHED only for a re-evaluation.
PublishedStays ==
  [][workflow_state = "PUBLISHED" => workflow_state' # "APPROVED"]_vars

\* Without crashes a generation ends, in GENERATED or in FAILED: no version is
\* GENERATING for ever.  ([]<>~G is the same as G ~> ~G.)
GeneratingEnds == \A v \in Version : []<>(results[v].status # "GENERATING")
===========================================================================
