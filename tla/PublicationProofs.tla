------------------------ MODULE PublicationProofs ------------------------
(***************************************************************************)
(* Proofs about Publication, for every number of requests, workers,        *)
(* versions, artifacts and scores, and for every set of faults.            *)
(*                                                                         *)
(* TypeInv types the state; FileInv follows the recorded artifacts from    *)
(* the worker's attempt to a publish that read them; SerialInv says what   *)
(* one request and one worker still know of the version they hold.         *)
(***************************************************************************)
EXTENDS Publication, ExtremaLemmas, TLAPS

---------------------------------------------------------------------------
(* The inductive invariants                                                *)

\* exists() is asked only about an artifact that is still to be written.
CheckedInRange ==
  \A w \in Workers : worker[w].op = "CHECKED" => worker[w].stored < NArtifacts

TypeInv == TypeOK /\ CheckedInRange

\* A worker past its first commit has the number of its attempt.
AttemptsNumbered ==
  \A w \in Workers :
    worker[w].op \in {"STARTED", "STORING", "CHECKED"} => worker[w].attempt # 0

FilesIssued ==
  \A v \in Version : results[v].file # 0 => results[v].status # "NONE"

\* What a publish is about to release or supersede has its artifacts.
PublishesHaveFiles ==
  \A q \in Requests : request[q].op = "PUBLISH" =>
    /\ results[request[q].version].file # 0
    /\ request[q].prior # 0 => results[request[q].prior].file # 0

FileInv ==
  AttemptsNumbered /\ FilesIssued /\ PublishesHaveFiles /\ ReleasedHasArtifacts

\* The version a worker holds is still one it may process.
HeldProcessable ==
  \A w \in Workers : worker[w] # Idle =>
    results[worker[w].version].status \in Processable

\* The version a publish read is still GENERATED from the current ledger.
PublishesFresh ==
  \A q \in Requests : request[q].op = "PUBLISH" =>
    /\ results[request[q].version].status = "GENERATED"
    /\ FreshSnapshot(request[q].version)
    /\ request[q].prior # 0 => request[q].prior \in Published

SerialInv == HeldProcessable /\ PublishesFresh

---------------------------------------------------------------------------
(* Types of what the sessions hold                                         *)

\* A request is the record of its operation.
LEMMA RequestFields ==
  ASSUME NEW rq \in Request
  PROVE  /\ rq.op = "CREATE" => /\ rq.version \in Version
                                /\ rq.snapshot \in Snapshot
                                /\ rq.supersedes \in Version \cup {0}
         /\ rq.op = "ENQUEUE" => rq.version \in Version
         /\ rq.op = "PUBLISH" => /\ rq.version \in Version
                                 /\ rq.prior \in Version \cup {0}
         /\ rq.op \in {"IDLE", "CREATE", "ENQUEUE", "PUBLISH"}
  BY DEF Request, Idle

Session ==
  [op : {"LOADED", "STARTED", "STORING", "CHECKED", "ROLLED_BACK"},
   job : Version, version : Version, status : ResultStatus,
   state : WorkflowState, attempt : Attempt \cup {0},
   stored : Artifact \cup {0}]

\* A worker that is not idle has a session.
LEMMA WorkerKinds ==
  ASSUME NEW wk \in Worker
  PROVE  /\ wk # Idle => wk \in Session
         /\ wk.op # "IDLE" => wk # Idle
         /\ wk = Idle => wk.op = "IDLE"
  BY DEF Worker, Session, Idle

\* Sessions and the idle record are what a worker or a request may hold.
LEMMA Held ==
  /\ Idle \in Request /\ Idle \in Worker
  /\ \A wk \in Session : wk \in Worker /\ wk # Idle /\ wk.op # "IDLE"
<1>1. Idle \in Request /\ Idle \in Worker
  BY DEF Request, Worker
<1>2. ASSUME NEW wk \in Session
      PROVE  wk \in Worker /\ wk # Idle /\ wk.op # "IDLE"
  BY DEF Session, Worker, Idle
<1> QED  BY <1>1, <1>2

\* MAX(version_number), 0 when there is no row.
LEMMA NewestType ==
  ASSUME NEW S \in SUBSET Version
  PROVE  /\ Newest(S) \in Version \cup {0}
         /\ S # {} => Max(S) \in S
<1>1. S \cup {0} \in SUBSET (0 .. MaxVersions) /\ S \in SUBSET (0 .. MaxVersions)
  BY PublicationBounds DEF Version
<1>2. Max(S \cup {0}) \in S \cup {0}
  BY <1>1, MaxOfInterval, PublicationBounds
<1>3. S # {} => Max(S) \in S
  BY <1>1, MaxOfInterval, PublicationBounds
<1> QED  BY <1>2, <1>3 DEF Newest

\* The merge of a flush takes one of the two values.
LEMMA FlushType ==
  ASSUME NEW T, NEW staged \in T, NEW current \in T, NEW loaded
  PROVE  FlushColumn(loaded, staged, current) \in T
  BY DEF FlushColumn

\* Changing the status of a row, or recording its artifacts, keeps it a row.
LEMMA RowType ==
  ASSUME NEW row \in Result
  PROVE  /\ \A s \in ResultStatus : [row EXCEPT !.status = s] \in Result
         /\ \A a \in Attempt \cup {0} : Generated(row, a) \in Result
         /\ Failed(row) \in Result
<1>1. "GENERATED" \in ResultStatus /\ "FAILED" \in ResultStatus
  BY DEF ResultStatus
<1>2. \A s \in ResultStatus : [row EXCEPT !.status = s] \in Result
  BY DEF Result
<1>3. \A a \in Attempt \cup {0} : Generated(row, a) \in Result
  BY <1>1 DEF Result, Generated
<1> QED  BY <1>1, <1>2, <1>3 DEF Failed

\* The snapshot taken of a typed ledger is typed.
LEMMA SnapshotType == TypeOK => CurrentSnapshot \in Snapshot
  BY DEF TypeOK, Ledger, Snapshot, CurrentSnapshot

---------------------------------------------------------------------------
(* TypeInv is inductive                                                    *)

\* The initial state is typed.
LEMMA TypeInit == Init => TypeInv
<1> SUFFICES ASSUME Init PROVE TypeInv
  OBVIOUS
<1>1. NoResult \in Result
  <2>1. 1 \in RunId /\ 0 \in Score
    BY PublicationBounds DEF RunId, Score
  <2> QED  BY <2>1 DEF NoResult, Result, Snapshot, ResultStatus
<1>2. ledger \in Ledger
  <2>1. 1 \in RunId
    BY PublicationBounds DEF RunId
  <2> QED  BY <2>1 DEF Init, Ledger
<1>3. TypeOK
  BY <1>1, <1>2, Held, PublicationBounds
  DEF Init, TypeOK, WorkflowState, JobStatus
<1>4. CheckedInRange
  BY DEF Init, CheckedInRange, Idle
<1> QED  BY <1>3, <1>4 DEF TypeInv

\* A request: its read, its insert, its enqueue, its publish.
LEMMA TypeRequest ==
  ASSUME TypeInv, NEW q \in Requests,
         \/ PrepareRead(q) \/ RequestStep(q)
         \/ \E v \in Version : RegenerateRead(q, v) \/ PublishRead(q, v)
  PROVE  TypeInv'
<1> USE DEF queueVars
<1>1. CASE PrepareRead(q)
  <2>1. AfterExisting(Max(SameSnapshot)) \in Request \/ SameSnapshot = {}
    <3>1. SameSnapshot \in SUBSET Version
      BY DEF SameSnapshot
    <3> QED  BY <3>1, NewestType, Held DEF AfterExisting, Request
  <2>2. SameSnapshot # {} \/ Prepared \in Request
    <3>1. SUFFICES ASSUME SameSnapshot = {} PROVE Prepared \in Request
      OBVIOUS
    <3>2. Newest(Issued) \in Version \cup {0} /\ Newest(Published) \in Version \cup {0}
      BY NewestType DEF Issued, Published
    <3>3. Newest(Issued) + 1 \in Version
      BY <1>1, <3>1, <3>2, PublicationBounds DEF PrepareRead, Version
    <3> QED  BY <3>2, <3>3, SnapshotType DEF Prepared, Request, TypeInv
  <2>3. PICK rq \in Request : request' = [request EXCEPT ![q] = rq]
    BY <1>1, <2>1, <2>2 DEF PrepareRead
  <2> QED
    BY <1>1, <2>3 DEF PrepareRead, TypeInv, TypeOK, CheckedInRange
<1>2. CASE \E v \in Version : RegenerateRead(q, v)
  <2>1. PICK v \in Version : RegenerateRead(q, v)
    BY <1>2
  <2> DEFINE rq == [op |-> "CREATE", version |-> v + 1,
                    snapshot |-> CurrentSnapshot, supersedes |-> v]
  <2>2. v + 1 \in Version
    BY <2>1, PublicationBounds DEF RegenerateRead, Version
  <2>3. rq \in Request
    BY <2>2, SnapshotType DEF Request, TypeInv
  <2>4. request' = [request EXCEPT ![q] = rq]
    BY <2>1 DEF RegenerateRead
  <2> HIDE DEF rq
  <2> QED
    BY <2>1, <2>3, <2>4 DEF RegenerateRead, TypeInv, TypeOK, CheckedInRange
<1>3. CASE CreateResult(q)
  <2> DEFINE rq == request[q]
  <2>1. /\ rq.version \in Version /\ rq.snapshot \in Snapshot
        /\ rq.supersedes \in Version \cup {0}
    BY <1>3, RequestFields DEF CreateResult, TypeInv, TypeOK
  <2>2. CASE VersionFree(rq.version)
    <3> DEFINE row == [status |-> "READY", snapshot |-> rq.snapshot,
                       supersedes |-> rq.supersedes, file |-> 0]
               next == [op |-> "ENQUEUE", version |-> rq.version]
    <3>1. row \in Result /\ next \in Request
      BY <2>1 DEF Result, ResultStatus, Request
    <3>2. /\ results' = [results EXCEPT ![rq.version] = row]
          /\ job' = [job EXCEPT ![rq.version] = "QUEUED"]
          /\ request' = [request EXCEPT ![q] = next]
      BY <1>3, <2>2 DEF CreateResult
    <3> HIDE DEF rq, row, next
    <3> QED
      BY <1>3, <2>1, <3>1, <3>2
      DEF CreateResult, TypeInv, TypeOK, CheckedInRange, JobStatus
  <2>3. CASE ~VersionFree(rq.version)
    BY <1>3, <2>3, Held DEF CreateResult, TypeInv, TypeOK, CheckedInRange
  <2> QED  BY <2>2, <2>3
<1>4. CASE Enqueue(q)
  <2>1. request[q].version \in Version
    BY <1>4, RequestFields DEF Enqueue, TypeInv, TypeOK
  <2> QED
    BY <1>4, <2>1, Held DEF Enqueue, TypeInv, TypeOK, CheckedInRange
<1>5. CASE \E v \in Version : PublishRead(q, v)
  <2>1. PICK v \in Version : PublishRead(q, v)
    BY <1>5
  <2> DEFINE rq == [op |-> "PUBLISH", version |-> v, prior |-> PriorPublished(v)]
  <2>2. rq \in Request
    BY DEF PriorPublished, Published, Request
  <2>3. request' = [request EXCEPT ![q] = rq]
    BY <2>1 DEF PublishRead
  <2> HIDE DEF rq
  <2> QED
    BY <2>1, <2>2, <2>3 DEF PublishRead, TypeInv, TypeOK, CheckedInRange
<1>6. CASE PublishCommit(q)
  <2>1. results' \in [Version -> Result]
    <3>1. "PUBLISHED" \in ResultStatus /\ "SUPERSEDED" \in ResultStatus
      BY DEF ResultStatus
    <3> QED  BY <1>6, <3>1, RowType DEF PublishCommit, TypeInv, TypeOK
  <2> QED
    BY <1>6, <2>1, Held
    DEF PublishCommit, TypeInv, TypeOK, CheckedInRange, WorkflowState
<1> QED  BY <1>1, <1>2, <1>3, <1>4, <1>5, <1>6 DEF RequestStep

\* The worker, from taking a task to its end, its failure or its death.
LEMMA TypeWorker ==
  ASSUME TypeInv, NEW w \in Workers,
         WorkerStep(w) \/ WorkerError(w) \/ WorkerCrash(w)
  PROVE  TypeInv'
<1> USE DEF queueVars
<1> DEFINE wk == worker[w]
<1>0. wk \in Worker /\ (wk.op # "IDLE" => wk \in Session)
  BY WorkerKinds DEF TypeInv, TypeOK
<1>1. CASE \E j \in Version : WorkerTake(w, j)
  <2>1. PICK j \in Version : WorkerTake(w, j)
    BY <1>1
  <2> DEFINE next == [op |-> "LOADED", job |-> j, version |-> Max(Waiting),
                      status |-> results[Max(Waiting)].status,
                      state |-> workflow_state, attempt |-> 0, stored |-> 0]
  <2>2. Max(Waiting) \in Version
    <3>1. Waiting \in SUBSET Version /\ Waiting # {}
      BY <2>1 DEF Waiting, WorkerTake
    <3> QED  BY <3>1, NewestType
  <2>3. next \in Session
    BY <2>2 DEF Session, TypeInv, TypeOK, Result
  <2>4. worker' = [worker EXCEPT ![w] = next] /\ next.op = "LOADED"
    BY <2>1 DEF WorkerTake
  <2>5. tasks' \in [Version -> Nat]
    BY <2>1 DEF WorkerTake, TypeInv, TypeOK
  <2> HIDE DEF next
  <2> QED
    BY <2>1, <2>3, <2>4, <2>5, Held
    DEF WorkerTake, TypeInv, TypeOK, CheckedInRange
<1>2. CASE \E j \in Version : WorkerNothing(w, j)
  BY <1>2 DEF WorkerNothing, TypeInv, TypeOK, CheckedInRange, JobStatus
<1>3. CASE WorkerStart(w)
  <2>1. wk \in Session /\ wk.op = "LOADED"
    BY <1>0, <1>3 DEF WorkerStart
  <2>2. attempts + 1 \in Attempt
    BY <1>3, PublicationBounds DEF WorkerStart, TypeInv, TypeOK, Attempt
  <2>3. attempts' \in 0 .. MaxAttempts
    BY <1>3, PublicationBounds DEF WorkerStart, TypeInv, TypeOK
  <2>4. PICK next \in Session : /\ worker' = [worker EXCEPT ![w] = next]
                                /\ next.op = "STARTED"
    <3> DEFINE next == [wk EXCEPT !.op = "STARTED", !.attempt = attempts + 1]
    <3>1. next \in Session /\ next.op = "STARTED"
      BY <2>1, <2>2 DEF Session
    <3>2. worker' = [worker EXCEPT ![w] = next]
      BY <1>3 DEF WorkerStart, TypeInv, TypeOK
    <3> HIDE DEF next
    <3> QED  BY <3>1, <3>2
  <2>5. results' \in [Version -> Result]
    <3> DEFINE s == FlushColumn(wk.status, "GENERATING",
                                results[wk.version].status)
    <3>1. wk.version \in Version /\ results[wk.version] \in Result
      BY <2>1 DEF Session, TypeInv, TypeOK
    <3>2. /\ results[wk.version].status \in ResultStatus
          /\ "GENERATING" \in ResultStatus
      BY <3>1 DEF Result, ResultStatus
    <3>3. s \in ResultStatus
      BY <3>2, FlushType
    <3>4. results' = [results EXCEPT ![wk.version] =
                        [results[wk.version] EXCEPT !.status = s]]
      BY <1>3, <3>1 DEF WorkerStart, TypeInv, TypeOK
    <3> HIDE DEF s
    <3> QED  BY <3>1, <3>3, <3>4, RowType DEF TypeInv, TypeOK
  <2> QED
    BY <1>3, <2>1, <2>3, <2>4, <2>5, Held
    DEF WorkerStart, TypeInv, TypeOK, CheckedInRange, JobStatus, Session
<1>4. CASE \/ WorkerRender(w) \/ WorkerRefuse(w) \/ WorkerExists(w)
           \/ WorkerMismatch(w) \/ WorkerError(w)
  <2>1. wk \in Session
    BY <1>0, <1>4
    DEF WorkerRender, WorkerRefuse, WorkerExists, WorkerMismatch, WorkerError
  <2>2. PICK next \in Session :
          /\ worker' = [worker EXCEPT ![w] = next]
          /\ next.op = "CHECKED" => next.stored < NArtifacts
    <3> DEFINE to(op) == [wk EXCEPT !.op = op]
    <3>1. \A op \in {"STORING", "CHECKED", "ROLLED_BACK"} :
            /\ to(op) \in Session /\ to(op).op = op
            /\ to(op).stored = wk.stored
      BY <2>1 DEF Session
    <3>2. \/ worker' = [worker EXCEPT ![w] = to("STORING")]
          \/ worker' = [worker EXCEPT ![w] = to("ROLLED_BACK")]
          \/ /\ worker' = [worker EXCEPT ![w] = to("CHECKED")]
             /\ wk.stored < NArtifacts
      BY <1>4
      DEF WorkerRender, WorkerRefuse, WorkerExists, WorkerMismatch,
          WorkerError
    <3> HIDE DEF to
    <3> QED  BY <3>1, <3>2
  <2>3. /\ UNCHANGED <<workflow_state, ledger, results, job, tasks, store,
                       grievance, request, attempts>>
        /\ faults' \in Nat
    BY <1>4
    DEF WorkerRender, WorkerRefuse, WorkerExists, WorkerMismatch, WorkerError,
        Faulty, TypeInv, TypeOK
  <2> QED
    BY <2>2, <2>3, Held DEF TypeInv, TypeOK, CheckedInRange
<1>5. CASE WorkerPut(w)
  <2>1. wk \in Session /\ wk.stored < NArtifacts
    BY <1>0, <1>5 DEF WorkerPut, TypeInv, CheckedInRange
  <2>2. wk.stored + 1 \in Artifact
    BY <2>1, PublicationBounds DEF Session, Artifact
  <2>3. PICK next \in Session : /\ worker' = [worker EXCEPT ![w] = next]
                                /\ next.op = "STORING"
    <3> DEFINE next == [wk EXCEPT !.op = "STORING", !.stored = wk.stored + 1]
    <3>1. next \in Session /\ next.op = "STORING"
      BY <2>1, <2>2 DEF Session
    <3>2. worker' = [worker EXCEPT ![w] = next]
      BY <1>5 DEF WorkerPut, TypeInv, TypeOK
    <3> HIDE DEF next
    <3> QED  BY <3>1, <3>2
  <2>4. store' \in [Version -> [Artifact -> Attempt \cup {0}]]
    BY <1>5, <2>1, <2>2 DEF WorkerPut, TypeInv, TypeOK, Session
  <2> QED
    BY <1>5, <2>3, <2>4, Held DEF WorkerPut, TypeInv, TypeOK, CheckedInRange
<1>6. CASE WorkerFinish(w)
  <2>1. wk \in Session
    BY <1>0, <1>6 DEF WorkerFinish
  <2>2. results' \in [Version -> Result]
    BY <1>6, <2>1, RowType DEF WorkerFinish, TypeInv, TypeOK, Session
  <2> QED
    BY <1>6, <2>1, <2>2, Held
    DEF WorkerFinish, TypeInv, TypeOK, CheckedInRange, JobStatus, Idle, Session
<1>7. CASE WorkerFail(w)
  <2>1. wk \in Session
    BY <1>0, <1>7 DEF WorkerFail
  <2>2. results' \in [Version -> Result]
    BY <1>7, <2>1, RowType DEF WorkerFail, TypeInv, TypeOK, Session
  <2> QED
    BY <1>7, <2>1, <2>2, Held
    DEF WorkerFail, TypeInv, TypeOK, CheckedInRange, JobStatus, WorkflowState,
        Idle, Session
<1>8. CASE WorkerCrash(w)
  BY <1>8, Held DEF WorkerCrash, Faulty, TypeInv, TypeOK, CheckedInRange, Idle
<1> QED
  BY <1>1, <1>2, <1>3, <1>4, <1>5, <1>6, <1>7, <1>8 DEF WorkerStep

\* The steps of the ledger, and of grievances.
LEMMA TypeLedger ==
  ASSUME TypeInv, NEW q \in Requests, LedgerStep(q)
  PROVE  TypeInv'
<1> USE DEF queueVars
<1>1. CASE \E score \in Score : Override(q, score) \/ Finalize(q, score)
  <2>1. ASSUME NEW score \in Score, Override(q, score)
        PROVE  TypeInv'
    <3>1. ledger' \in Ledger
      BY <2>1 DEF Override, TypeInv, TypeOK, Ledger
    <3> QED  BY <2>1, <3>1 DEF Override, TypeInv, TypeOK, CheckedInRange
  <2>2. ASSUME NEW score \in Score, Finalize(q, score)
        PROVE  TypeInv'
    <3>1. ledger' \in Ledger
      BY <2>2 DEF Finalize, TypeInv, TypeOK, Ledger
    <3>2. workflow_state' \in WorkflowState
      BY <2>2 DEF Finalize, WorkflowState
    <3> QED  BY <2>2, <3>1, <3>2 DEF Finalize, TypeInv, TypeOK, CheckedInRange
  <2> QED  BY <1>1, <2>1, <2>2
<1>2. CASE \E v \in Version : CreateGrievance(q, v)
  BY <1>2 DEF CreateGrievance, TypeInv, TypeOK, CheckedInRange
<1>3. CASE \E v \in Version : AcceptGrievance(q, v)
  <2>1. PICK v \in Version : AcceptGrievance(q, v)
    BY <1>3
  <2>2. ledger.run + 1 \in RunId
    BY <2>1, PublicationBounds DEF AcceptGrievance, TypeInv, TypeOK, Ledger, RunId
  <2> QED
    BY <2>1, <2>2
    DEF AcceptGrievance, TypeInv, TypeOK, CheckedInRange, Ledger, WorkflowState
<1> QED  BY <1>1, <1>2, <1>3 DEF LedgerStep

\* Every step keeps the types.
LEMMA TypeNext == TypeInv /\ [Next]_vars => TypeInv'
<1> SUFFICES ASSUME TypeInv, [Next]_vars PROVE TypeInv'
  OBVIOUS
<1>1. CASE UNCHANGED vars
  BY <1>1 DEF vars, queueVars, TypeInv, TypeOK, CheckedInRange
<1> QED  BY <1>1, TypeRequest, TypeWorker, TypeLedger DEF Next

\* The state of publication stays typed, for every instance: every version a
\* session names is one that may be issued, every attempt one that was started.
THEOREM PublicationTypeCorrect == Spec => []TypeOK
<1>1. TypeInv => TypeOK
  BY DEF TypeInv
<1> QED  BY TypeInit, TypeNext, <1>1, PTL DEF Spec

\* The invariant the other proofs start from.
LEMMA TypeInvariant == Spec => []TypeInv
  BY TypeInit, TypeNext, PTL DEF Spec

---------------------------------------------------------------------------
(* Versions are issued once                                                *)

\* The steps that write a row of published_results.
LEMMA ResultSteps ==
  ASSUME [Next]_vars
  PROVE  \/ UNCHANGED results
         \/ \E q \in Requests : CreateResult(q) \/ PublishCommit(q)
         \/ \E w \in Workers :
              WorkerStart(w) \/ WorkerFinish(w) \/ WorkerFail(w)
<1>1. ASSUME NEW q \in Requests, PrepareRead(q) \/ Enqueue(q) \/ LedgerStep(q)
      PROVE  UNCHANGED results
  BY <1>1
  DEF PrepareRead, Enqueue, LedgerStep, Override, Finalize, CreateGrievance,
      AcceptGrievance
<1>2. ASSUME NEW q \in Requests, NEW v \in Version,
             RegenerateRead(q, v) \/ PublishRead(q, v)
      PROVE  UNCHANGED results
  BY <1>2 DEF RegenerateRead, PublishRead
<1>3. ASSUME NEW w \in Workers, NEW j \in Version,
             WorkerTake(w, j) \/ WorkerNothing(w, j)
      PROVE  UNCHANGED results
  BY <1>3 DEF WorkerTake, WorkerNothing
<1>4. ASSUME NEW w \in Workers,
             \/ WorkerRender(w) \/ WorkerRefuse(w) \/ WorkerExists(w)
             \/ WorkerPut(w) \/ WorkerMismatch(w) \/ WorkerError(w)
             \/ WorkerCrash(w)
      PROVE  UNCHANGED results
  BY <1>4
  DEF WorkerRender, WorkerRefuse, WorkerExists, WorkerPut, WorkerMismatch,
      WorkerError, WorkerCrash
<1>5. UNCHANGED vars => UNCHANGED results
  BY DEF vars
<1> QED
  BY <1>1, <1>2, <1>3, <1>4, <1>5 DEF Next, RequestStep, WorkerStep

\* What a step does to one row: it is as it was, it is inserted with no
\* artifact under a free number, or its status moves and its artifacts, once
\* recorded, stay recorded.
LEMMA RowSteps ==
  ASSUME TypeInv, AttemptsNumbered, FilesIssued, PublishesHaveFiles,
         [Next]_vars, NEW v \in Version
  PROVE  \/ results'[v] = results[v]
         \/ results[v].status = "NONE" /\ results'[v].status = "READY"
         \/ /\ results'[v].snapshot = results[v].snapshot
            /\ results'[v].supersedes = results[v].supersedes
            /\ results[v].file # 0 => results'[v].file # 0
            /\ \/ results'[v].status \in {"GENERATING", "FAILED"}
               \/ UNCHANGED <<results[v].status, results[v].file>>
               \/ results'[v].file # 0 /\ results'[v].status \in Released
<1>0. results \in [Version -> Result] /\ results[v] \in Result
  BY DEF TypeInv, TypeOK
<1>1. CASE UNCHANGED results
  BY <1>1
<1>2. ASSUME NEW q \in Requests, CreateResult(q)
      PROVE  \/ results'[v] = results[v]
             \/ results[v].status = "NONE" /\ results'[v].status = "READY"
  BY <1>0, <1>2 DEF CreateResult, VersionFree
<1>3. ASSUME NEW q \in Requests, PublishCommit(q)
      PROVE  \/ results'[v] = results[v]
             \/ /\ results'[v].snapshot = results[v].snapshot
                /\ results'[v].supersedes = results[v].supersedes
                /\ results'[v].file # 0 /\ results'[v].status \in Released
  <2>1. \/ results'[v] = results[v]
        \/ /\ v = request[q].version \/ v = request[q].prior
           /\ \/ results'[v] = [results[v] EXCEPT !.status = "PUBLISHED"]
              \/ results'[v] = [results[v] EXCEPT !.status = "SUPERSEDED"]
    BY <1>3 DEF PublishCommit
  <2>2. v = request[q].version \/ v = request[q].prior => results[v].file # 0
    <3>1. v # 0
      BY DEF Version
    <3> QED  BY <1>3, <3>1 DEF PublishCommit, PublishesHaveFiles
  <2> QED  BY <1>0, <2>1, <2>2 DEF Result, Released
<1>4. ASSUME NEW w \in Workers, WorkerStart(w) \/ WorkerFinish(w) \/ WorkerFail(w)
      PROVE  \/ results'[v] = results[v]
             \/ /\ results'[v].snapshot = results[v].snapshot
                /\ results'[v].supersedes = results[v].supersedes
                /\ results[v].file # 0 => results'[v].file # 0
                /\ \/ results'[v].status \in {"GENERATING", "FAILED"}
                   \/ UNCHANGED <<results[v].status, results[v].file>>
                   \/ results'[v].file # 0 /\ results'[v].status \in Released
  <2>1. CASE WorkerStart(w)
    <3>1. \/ results'[v] = results[v]
          \/ results'[v] = [results[v] EXCEPT !.status =
               FlushColumn(worker[w].status, "GENERATING", results[v].status)]
      BY <1>0, <2>1 DEF WorkerStart
    <3>2. FlushColumn(worker[w].status, "GENERATING", results[v].status)
            \in {"GENERATING", results[v].status}
      BY DEF FlushColumn
    <3> QED  BY <1>0, <3>1, <3>2 DEF Result
  <2>2. CASE WorkerFinish(w)
    <3>1. worker[w].attempt # 0
      BY <2>2 DEF WorkerFinish, AttemptsNumbered
    <3>2. \/ results'[v] = results[v]
          \/ results'[v] = Generated(results[v], worker[w].attempt)
      BY <1>0, <2>2 DEF WorkerFinish
    <3> QED  BY <1>0, <3>1, <3>2 DEF Generated, Result, Released
  <2>3. CASE WorkerFail(w)
    <3>1. results'[v] = results[v] \/ results'[v] = Failed(results[v])
      BY <1>0, <2>3 DEF WorkerFail
    <3> QED  BY <1>0, <3>1 DEF Failed, Result
  <2> QED  BY <1>4, <2>1, <2>2, <2>3
<1> QED  BY <1>1, <1>2, <1>3, <1>4, ResultSteps

---------------------------------------------------------------------------
(* Nothing is released without its artifacts                               *)

\* Nothing is recorded at first.
LEMMA FileInit == Init => FileInv
  BY DEF Init, FileInv, AttemptsNumbered, FilesIssued, PublishesHaveFiles,
         ReleasedHasArtifacts, NoResult, Idle, Released

\* A worker's attempt is numbered by its first commit and by nothing else.
LEMMA AttemptsNext ==
  ASSUME TypeInv, AttemptsNumbered, [Next]_vars
  PROVE  AttemptsNumbered'
<1>1. CASE UNCHANGED worker
  BY <1>1 DEF AttemptsNumbered
<1>2. ASSUME NEW w \in Workers, WorkerStep(w) \/ WorkerError(w) \/ WorkerCrash(w)
      PROVE  AttemptsNumbered'
  <2>1. worker \in [Workers -> Worker]
    BY DEF TypeInv, TypeOK
  <2>2. \A x \in Workers \ {w} : worker'[x] = worker[x]
    BY <1>2, <2>1
    DEF WorkerStep, WorkerTake, WorkerNothing, WorkerStart, WorkerRender,
        WorkerRefuse, WorkerExists, WorkerPut, WorkerFinish, WorkerMismatch,
        WorkerFail, WorkerError, WorkerCrash
  <2>3. worker'[w].op \in {"STARTED", "STORING", "CHECKED"} =>
          worker'[w].attempt # 0
    <3>1. CASE \E j \in Version : WorkerTake(w, j) \/ WorkerNothing(w, j)
      BY <2>1, <3>1 DEF WorkerTake, WorkerNothing, AttemptsNumbered
    <3>2. CASE WorkerStart(w)
      <4>1. worker[w] \in Session
        BY <2>1, <3>2, WorkerKinds DEF WorkerStart
      <4>2. attempts' # 0
        BY <3>2, PublicationBounds DEF WorkerStart, TypeInv, TypeOK
      <4>3. worker'[w] = [worker[w] EXCEPT !.op = "STARTED", !.attempt = attempts']
        BY <2>1, <3>2 DEF WorkerStart
      <4> QED  BY <4>1, <4>2, <4>3 DEF Session
    <3>3. CASE \/ WorkerRender(w) \/ WorkerRefuse(w) \/ WorkerExists(w)
               \/ WorkerPut(w) \/ WorkerMismatch(w) \/ WorkerError(w)
      <4>1. worker[w] \in Session
               /\ (worker[w].op \in {"STARTED", "STORING", "CHECKED"})
        BY <2>1, <3>3, WorkerKinds
        DEF WorkerRender, WorkerRefuse, WorkerExists, WorkerPut,
            WorkerMismatch, WorkerError
      <4>2. worker'[w].attempt = worker[w].attempt
        BY <2>1, <3>3, <4>1
        DEF WorkerRender, WorkerRefuse, WorkerExists, WorkerPut,
            WorkerMismatch, WorkerError, Session
      <4> QED  BY <4>1, <4>2 DEF AttemptsNumbered
    <3>4. CASE WorkerFinish(w) \/ WorkerFail(w) \/ WorkerCrash(w)
      <4>1. worker'[w] = Idle
        BY <2>1, <3>4 DEF WorkerFinish, WorkerFail, WorkerCrash
      <4> QED  BY <4>1 DEF Idle
    <3> QED  BY <1>2, <3>1, <3>2, <3>3, <3>4 DEF WorkerStep
  <2> QED  BY <2>2, <2>3 DEF AttemptsNumbered
<1>3. ASSUME NEW q \in Requests,
             \/ PrepareRead(q) \/ RequestStep(q) \/ LedgerStep(q)
             \/ \E v \in Version : RegenerateRead(q, v) \/ PublishRead(q, v)
      PROVE  UNCHANGED worker
  BY <1>3
  DEF PrepareRead, RequestStep, CreateResult, Enqueue, PublishCommit,
      LedgerStep, Override, Finalize, CreateGrievance, AcceptGrievance,
      RegenerateRead, PublishRead
<1>4. UNCHANGED vars => UNCHANGED worker
  BY DEF vars
<1> QED  BY <1>1, <1>2, <1>3, <1>4 DEF Next

\* A publish that reads a version, and the one it replaces, found their
\* artifacts; from then on they stay recorded.
LEMMA PublishesNext ==
  ASSUME TypeInv, FileInv, [Next]_vars,
         \A v \in Version : results[v].file # 0 => results'[v].file # 0
  PROVE  PublishesHaveFiles'
<1>0. request \in [Requests -> Request]
  BY DEF TypeInv, TypeOK
<1> SUFFICES ASSUME NEW q \in Requests, request'[q].op = "PUBLISH"
             PROVE  /\ results'[request'[q].version].file # 0
                    /\ request'[q].prior # 0 =>
                         results'[request'[q].prior].file # 0
  BY DEF PublishesHaveFiles
<1>1. CASE request'[q] = request[q]
  BY <1>0, <1>1, RequestFields DEF FileInv, PublishesHaveFiles
<1>2. CASE \E v \in Version : PublishRead(q, v)
  <2>1. PICK v \in Version : PublishRead(q, v)
    BY <1>2
  <2>2. /\ request'[q].version = v /\ request'[q].prior = PriorPublished(v)
        /\ results[v].file # 0
    BY <1>0, <2>1 DEF PublishRead, ArtifactsVerified
  <2>3. PriorPublished(v) # 0 =>
          /\ PriorPublished(v) \in Version
          /\ results[PriorPublished(v)].file # 0
    BY DEF PriorPublished, Published, FileInv, ReleasedHasArtifacts, Released
  <2> QED  BY <2>2, <2>3
<1>3. ASSUME NEW p \in Requests,
             \/ PrepareRead(p) \/ RequestStep(p) \/ LedgerStep(p)
             \/ \E v \in Version : RegenerateRead(p, v)
      PROVE  request'[q] = request[q]
  <2>1. CASE p # q
    BY <1>0, <1>3, <2>1
    DEF PrepareRead, RequestStep, CreateResult, Enqueue, PublishCommit,
        LedgerStep, Override, Finalize, CreateGrievance, AcceptGrievance,
        RegenerateRead
  <2>2. CASE p = q
    <3>1. CASE LedgerStep(q)
      BY <3>1
      DEF LedgerStep, Override, Finalize, CreateGrievance, AcceptGrievance
    <3>2. CASE PrepareRead(q)
      <4>1. \/ request'[q] = Prepared
            \/ request'[q] = AfterExisting(Max(SameSnapshot))
        BY <1>0, <3>2 DEF PrepareRead
      <4> QED  BY <4>1 DEF Prepared, AfterExisting, Idle
    <3>3. CASE \E v \in Version : RegenerateRead(q, v)
      BY <1>0, <3>3 DEF RegenerateRead
    <3>4. CASE RequestStep(q)
      BY <1>0, <3>4 DEF RequestStep, CreateResult, Enqueue, PublishCommit, Idle
    <3> QED  BY <1>3, <2>2, <3>1, <3>2, <3>3, <3>4
  <2> QED  BY <2>1, <2>2
<1>4. ASSUME NEW p \in Requests, NEW v \in Version, PublishRead(p, v), p # q
      PROVE  request'[q] = request[q]
  BY <1>0, <1>4 DEF PublishRead
<1>5. ASSUME NEW w \in Workers, WorkerStep(w) \/ WorkerError(w) \/ WorkerCrash(w)
      PROVE  UNCHANGED request
  BY <1>5
  DEF WorkerStep, WorkerTake, WorkerNothing, WorkerStart, WorkerRender,
      WorkerRefuse, WorkerExists, WorkerPut, WorkerFinish, WorkerMismatch,
      WorkerFail, WorkerError, WorkerCrash
<1>6. UNCHANGED vars => UNCHANGED request
  BY DEF vars
<1> QED  BY <1>1, <1>2, <1>3, <1>4, <1>5, <1>6 DEF Next

\* Every step keeps FileInv.
LEMMA FileNext == TypeInv /\ FileInv /\ [Next]_vars => FileInv'
<1> SUFFICES ASSUME TypeInv, FileInv, [Next]_vars PROVE FileInv'
  OBVIOUS
<1>1. AttemptsNumbered'
  BY AttemptsNext DEF FileInv
<1>2. ASSUME NEW v \in Version
      PROVE  /\ results[v].file # 0 => results'[v].file # 0
             /\ results'[v].file # 0 => results'[v].status # "NONE"
             /\ results'[v].status \in Released => results'[v].file # 0
  <2>1. results[v].file # 0 => results[v].status # "NONE"
    BY DEF FileInv, FilesIssued
  <2>2. results[v].status \in Released => results[v].file # 0
    BY DEF FileInv, ReleasedHasArtifacts
  <2>3. \/ results'[v] = results[v]
        \/ results[v].status = "NONE" /\ results'[v].status = "READY"
        \/ /\ results[v].file # 0 => results'[v].file # 0
           /\ \/ results'[v].status \in {"GENERATING", "FAILED"}
              \/ UNCHANGED <<results[v].status, results[v].file>>
              \/ results'[v].file # 0 /\ results'[v].status \in Released
    BY RowSteps DEF FileInv
  <2> QED  BY <2>1, <2>2, <2>3 DEF Released
<1>3. FilesIssued' /\ ReleasedHasArtifacts'
  BY <1>2 DEF FilesIssued, ReleasedHasArtifacts
<1>4. PublishesHaveFiles'
  BY <1>2, PublishesNext
<1> QED  BY <1>1, <1>3, <1>4 DEF FileInv

\* No interleaving of workers, publishes, crashes and retries generates,
\* publishes or supersedes a version whose artifacts were not recorded.
THEOREM ReleasedAreRendered == Spec => []ReleasedHasArtifacts
<1>1. FileInv => ReleasedHasArtifacts
  BY DEF FileInv
<1> QED
  BY TypeInit, TypeNext, FileInit, FileNext, <1>1, PTL DEF Spec

\* Racing prepares and regenerates never reissue a version number: the row keeps
\* its snapshot and what it supersedes from the insert on.
THEOREM VersionsIssuedOnce == Spec => VersionImmutable
<1>1. ASSUME TypeInv, FileInv, [Next]_vars
      PROVE  \A v \in Version : results[v].status # "NONE" =>
               /\ results'[v].snapshot = results[v].snapshot
               /\ results'[v].supersedes = results[v].supersedes
  BY <1>1, RowSteps DEF FileInv
<1>2. TypeInv /\ FileInv /\ [Next]_vars =>
        [\A v \in Version : results[v].status # "NONE" =>
           /\ results'[v].snapshot = results[v].snapshot
           /\ results'[v].supersedes = results[v].supersedes]_vars
  BY <1>1
<1> QED
  BY TypeInit, TypeNext, FileInit, FileNext, <1>2, PTL
  DEF Spec, VersionImmutable

---------------------------------------------------------------------------
(* One session of each kind                                                *)

\* One request and one worker at a time.
Serial ==
  /\ \A p, q \in Requests : p = q
  /\ \A u, w \in Workers : u = w

\* What a step may do to a submission that is PUBLISHED after it.
KeepsShowing ==
  workflow_state' = "PUBLISHED" /\ ~ShowsLedger' =>
    workflow_state = "PUBLISHED" /\ (ShowsLedger => ledger' # ledger)

\* Nothing is held at first.
LEMMA SerialInit == Init => SerialInv
  BY DEF Init, SerialInv, HeldProcessable, PublishesFresh, Idle

\* A step that publishes nothing and leaves the ledger and every PUBLISHED row
\* alone leaves what is shown as it was.
LEMMA ShownKept ==
  ASSUME UNCHANGED ledger, workflow_state' # "PUBLISHED" \/ UNCHANGED workflow_state,
         \A v \in Version :
           results[v].status = "PUBLISHED" => results'[v] = results[v]
  PROVE  KeepsShowing
<1>1. ShowsLedger => ShowsLedger'
  BY DEF ShowsLedger, Published, CurrentSnapshot
<1> QED  BY <1>1 DEF KeepsShowing

\* A step that leaves the GENERATED and PUBLISHED rows and the ledger alone
\* leaves what a publish read as it was.
LEMMA Untouched ==
  ASSUME TypeInv, SerialInv, UNCHANGED <<request, ledger>>,
         \A v \in Version :
           results[v].status \in {"GENERATED", "PUBLISHED"} =>
             results'[v] = results[v]
  PROVE  PublishesFresh'
<1> SUFFICES ASSUME NEW q \in Requests, request[q].op = "PUBLISH"
             PROVE  /\ results'[request[q].version].status = "GENERATED"
                    /\ FreshSnapshot(request[q].version)'
                    /\ request[q].prior # 0 => request[q].prior \in Published'
  BY DEF PublishesFresh
<1>1. request[q].version \in Version
  BY RequestFields DEF TypeInv, TypeOK
<1>2. /\ results[request[q].version].status = "GENERATED"
      /\ results[request[q].version].snapshot = CurrentSnapshot
      /\ request[q].prior # 0 => request[q].prior \in Published
  BY DEF SerialInv, PublishesFresh, FreshSnapshot
<1> QED  BY <1>1, <1>2 DEF FreshSnapshot, CurrentSnapshot, Published

\* The request: nobody else moves what it read before it commits.
LEMMA SerialRequest ==
  ASSUME Serial, TypeInv, SerialInv, NEW q \in Requests,
         \/ PrepareRead(q) \/ RequestStep(q) \/ LedgerStep(q)
         \/ \E v \in Version : RegenerateRead(q, v) \/ PublishRead(q, v)
  PROVE  SerialInv' /\ KeepsShowing
<1> USE DEF queueVars
<1>0. /\ request \in [Requests -> Request] /\ worker \in [Workers -> Worker]
      /\ results \in [Version -> Result]
      /\ \A p \in Requests : p = q
  BY DEF TypeInv, TypeOK, Serial
<1>a. ASSUME NEW w \in Workers, worker[w] # Idle
      PROVE  /\ worker[w].version \in Version
             /\ results[worker[w].version].status \in Processable
  BY <1>0, <1>a, WorkerKinds DEF Session, SerialInv, HeldProcessable
<1>1. CASE PrepareRead(q) \/ Enqueue(q) \/ \E v \in Version : RegenerateRead(q, v)
  <2>1. UNCHANGED <<results, ledger, worker, workflow_state>>
    BY <1>1 DEF PrepareRead, Enqueue, RegenerateRead
  <2>2. request'[q].op # "PUBLISH"
    <3>1. CASE PrepareRead(q)
      <4>1. \/ request'[q] = Prepared
            \/ request'[q] = AfterExisting(Max(SameSnapshot))
        BY <1>0, <3>1 DEF PrepareRead
      <4> QED  BY <4>1 DEF Prepared, AfterExisting, Idle
    <3>2. CASE Enqueue(q)
      BY <1>0, <3>2 DEF Enqueue, Idle
    <3>3. CASE \E v \in Version : RegenerateRead(q, v)
      BY <1>0, <3>3 DEF RegenerateRead
    <3> QED  BY <1>1, <3>1, <3>2, <3>3
  <2>3. PublishesFresh'
    BY <1>0, <2>2 DEF PublishesFresh
  <2> QED  BY <2>1, <2>3, ShownKept DEF SerialInv, HeldProcessable
<1>2. CASE CreateResult(q)
  <2>1. UNCHANGED <<ledger, worker, workflow_state>>
    BY <1>2 DEF CreateResult
  <2>2. request'[q].op # "PUBLISH"
    BY <1>0, <1>2 DEF CreateResult, Idle
  <2>3. PublishesFresh'
    BY <1>0, <2>2 DEF PublishesFresh
  <2>4. \A v \in Version : results[v].status # "NONE" => results'[v] = results[v]
    BY <1>0, <1>2 DEF CreateResult, VersionFree
  <2>5. HeldProcessable'
    <3> SUFFICES ASSUME NEW w \in Workers, worker[w] # Idle
                 PROVE  results'[worker[w].version].status \in Processable
      BY <2>1 DEF HeldProcessable
    <3> QED  BY <1>a, <2>4 DEF Processable
  <2>6. KeepsShowing
    BY <2>1, <2>4, ShownKept
  <2> QED  BY <2>3, <2>5, <2>6 DEF SerialInv
<1>3. CASE \E v \in Version : PublishRead(q, v)
  <2>1. PICK v \in Version : PublishRead(q, v)
    BY <1>3
  <2>2. UNCHANGED <<results, ledger, worker, workflow_state>>
    BY <2>1 DEF PublishRead
  <2>3. /\ request'[q].version = v /\ request'[q].prior = PriorPublished(v)
        /\ results[v].status = "GENERATED" /\ FreshSnapshot(v)
    BY <1>0, <2>1 DEF PublishRead
  <2>4. PriorPublished(v) # 0 => PriorPublished(v) \in Published
    BY DEF PriorPublished
  <2>5. PublishesFresh'
    BY <1>0, <2>2, <2>3, <2>4
    DEF PublishesFresh, FreshSnapshot, CurrentSnapshot, Published
  <2> QED  BY <2>2, <2>5, ShownKept DEF SerialInv, HeldProcessable
<1>4. CASE PublishCommit(q)
  <2> DEFINE v == request[q].version
             prior == request[q].prior
  <2>1. /\ UNCHANGED <<ledger, worker>>
        /\ request'[q].op # "PUBLISH"
    BY <1>0, <1>4 DEF PublishCommit, Idle
  <2>2. /\ v \in Version /\ results[v].status = "GENERATED"
        /\ results[v].snapshot = CurrentSnapshot
        /\ prior # 0 => results[prior].status = "PUBLISHED"
    BY <1>0, <1>4, RequestFields
    DEF PublishCommit, SerialInv, PublishesFresh, FreshSnapshot, Published
  <2>3. results' = [x \in Version |->
          IF x = v THEN [results[x] EXCEPT !.status = "PUBLISHED"]
          ELSE IF x = prior THEN [results[x] EXCEPT !.status = "SUPERSEDED"]
          ELSE results[x]]
    BY <1>4 DEF PublishCommit
  <2> HIDE DEF v, prior
  <2>4. HeldProcessable'
    <3> SUFFICES ASSUME NEW w \in Workers, worker[w] # Idle
                 PROVE  results'[worker[w].version].status \in Processable
      BY <2>1 DEF HeldProcessable
    <3>1. worker[w].version # 0
      BY <1>a DEF Version
    <3>2. worker[w].version # v /\ worker[w].version # prior
      BY <1>a, <2>2, <3>1 DEF Processable
    <3> QED  BY <1>a, <2>3, <3>2
  <2>5. PublishesFresh'
    BY <1>0, <2>1 DEF PublishesFresh
  <2>6. results'[v].status = "PUBLISHED" /\ results'[v].snapshot = CurrentSnapshot'
    BY <1>0, <2>1, <2>2, <2>3 DEF Result, CurrentSnapshot
  <2>7. KeepsShowing
    BY <2>2, <2>6 DEF KeepsShowing, ShowsLedger, Published
  <2> QED  BY <2>4, <2>5, <2>7 DEF SerialInv
<1>5. CASE LedgerStep(q)
  <2>1. UNCHANGED <<results, worker, request>> /\ request[q] = Idle
    BY <1>5
    DEF LedgerStep, Override, Finalize, CreateGrievance, AcceptGrievance, Calls
  <2>2. PublishesFresh'
    BY <1>0, <2>1 DEF PublishesFresh, Idle
  <2>3. workflow_state' # "PUBLISHED" \/ UNCHANGED workflow_state
    BY <1>5
    DEF LedgerStep, Override, Finalize, CreateGrievance, AcceptGrievance
  <2>4. KeepsShowing
    <3>1. CASE ledger' = ledger
      BY <2>1, <2>3, <3>1, ShownKept
    <3>2. CASE ledger' # ledger
      BY <2>3, <3>2 DEF KeepsShowing
    <3> QED  BY <3>1, <3>2
  <2> QED  BY <2>1, <2>2, <2>4 DEF SerialInv, HeldProcessable
<1> QED  BY <1>1, <1>2, <1>3, <1>4, <1>5 DEF RequestStep

\* The worker: it writes only the version it holds, which nobody has released.
LEMMA SerialWorker ==
  ASSUME Serial, TypeInv, SerialInv, NEW w \in Workers,
         WorkerStep(w) \/ WorkerError(w) \/ WorkerCrash(w)
  PROVE  SerialInv' /\ KeepsShowing
<1> USE DEF queueVars
<1>0. /\ worker \in [Workers -> Worker] /\ results \in [Version -> Result]
      /\ \A u \in Workers : u = w
  BY DEF TypeInv, TypeOK, Serial
<1>1. /\ UNCHANGED <<request, ledger>>
      /\ workflow_state' # "PUBLISHED" \/ UNCHANGED workflow_state
  <2>1. CASE WorkerFail(w)
    BY <2>1 DEF WorkerFail
  <2>2. CASE ~WorkerFail(w)
    BY <2>2
    DEF WorkerStep, WorkerTake, WorkerNothing, WorkerStart, WorkerRender,
        WorkerRefuse, WorkerExists, WorkerPut, WorkerFinish, WorkerMismatch,
        WorkerError, WorkerCrash
  <2> QED  BY <2>1, <2>2
<1>2. PublishesFresh' /\ KeepsShowing
  <2>1. ASSUME NEW v \in Version,
               results[v].status \in {"GENERATED", "PUBLISHED"}
        PROVE  results'[v] = results[v]
    <3>1. CASE WorkerStart(w) \/ WorkerFinish(w) \/ WorkerFail(w)
      <4>1. worker[w] \in Session
        BY <1>0, <3>1, WorkerKinds DEF WorkerStart, WorkerFinish, WorkerFail
      <4>2. results[worker[w].version].status \in Processable
        BY <4>1, Held DEF SerialInv, HeldProcessable
      <4>3. v # worker[w].version
        BY <2>1, <4>2 DEF Processable
      <4> QED  BY <1>0, <3>1, <4>3 DEF WorkerStart, WorkerFinish, WorkerFail
    <3>2. CASE ~(WorkerStart(w) \/ WorkerFinish(w) \/ WorkerFail(w))
      BY <3>2
      DEF WorkerStep, WorkerTake, WorkerNothing, WorkerRender, WorkerRefuse,
          WorkerExists, WorkerPut, WorkerMismatch, WorkerError, WorkerCrash
    <3> QED  BY <3>1, <3>2
  <2> QED  BY <1>1, <2>1, Untouched, ShownKept
<1>3. HeldProcessable'
  <2>1. SUFFICES ASSUME worker'[w] # Idle
                 PROVE  results'[worker'[w].version].status \in Processable
    BY <1>0 DEF HeldProcessable
  <2>2. CASE \E j \in Version : WorkerTake(w, j)
    <3>1. /\ worker'[w].version = Max(Waiting) /\ UNCHANGED results
          /\ Waiting # {}
      BY <1>0, <2>2 DEF WorkerTake
    <3>2. Max(Waiting) \in Waiting
      BY <3>1, NewestType DEF Waiting
    <3> QED  BY <3>1, <3>2 DEF Waiting
  <2>3. CASE \E j \in Version : WorkerNothing(w, j)
    BY <2>1, <2>3 DEF WorkerNothing
  <2>4. CASE WorkerStart(w)
    <3>1. worker[w] \in Session
      BY <1>0, <2>4, WorkerKinds DEF WorkerStart
    <3>2. worker'[w].version = worker[w].version
      BY <1>0, <2>4, <3>1 DEF WorkerStart, Session
    <3>3. results[worker[w].version].status \in Processable
             /\ worker[w].version \in Version
      BY <3>1, Held DEF SerialInv, HeldProcessable, Session
    <3>4. results'[worker[w].version].status =
            FlushColumn(worker[w].status, "GENERATING",
                        results[worker[w].version].status)
      BY <1>0, <2>4, <3>3 DEF WorkerStart, Result
    <3> QED  BY <3>2, <3>3, <3>4 DEF FlushColumn, Processable
  <2>5. CASE \/ WorkerRender(w) \/ WorkerRefuse(w) \/ WorkerExists(w)
             \/ WorkerPut(w) \/ WorkerMismatch(w) \/ WorkerError(w)
    <3>1. worker[w] \in Session /\ UNCHANGED results
      BY <1>0, <2>5, WorkerKinds
      DEF WorkerRender, WorkerRefuse, WorkerExists, WorkerPut,
          WorkerMismatch, WorkerError
    <3>2. worker'[w].version = worker[w].version
      BY <1>0, <2>5, <3>1
      DEF WorkerRender, WorkerRefuse, WorkerExists, WorkerPut,
          WorkerMismatch, WorkerError, Session
    <3> QED  BY <3>1, <3>2, Held DEF SerialInv, HeldProcessable
  <2>6. CASE WorkerFinish(w) \/ WorkerFail(w) \/ WorkerCrash(w)
    BY <1>0, <2>1, <2>6 DEF WorkerFinish, WorkerFail, WorkerCrash
  <2> QED  BY <2>2, <2>3, <2>4, <2>5, <2>6 DEF WorkerStep
<1> QED  BY <1>2, <1>3 DEF SerialInv

\* Every step of the serial system keeps SerialInv, and what is shown.
LEMMA SerialNext ==
  ASSUME Serial
  PROVE  TypeInv /\ SerialInv /\ [Next]_vars => SerialInv' /\ KeepsShowing
<1> SUFFICES ASSUME TypeInv, SerialInv, [Next]_vars
             PROVE  SerialInv' /\ KeepsShowing
  OBVIOUS
<1>1. CASE UNCHANGED vars
  <2>1. UNCHANGED <<workflow_state, ledger, results, request, worker>>
    BY <1>1 DEF vars
  <2>2. KeepsShowing
    BY <2>1, ShownKept
  <2> QED
    BY <2>1, <2>2
    DEF SerialInv, HeldProcessable, PublishesFresh, FreshSnapshot,
        Published, CurrentSnapshot
<1> QED  BY <1>1, SerialRequest, SerialWorker DEF Next

\* With one request and one worker at a time, a submission becomes PUBLISHED
\* only with a version of the ledger as it is, and only a change of the ledger
\* (an override after publication) makes what it shows something else, whatever
\* errors and crashes happen on the way and whatever the requests ask for.
THEOREM SerialPublicationShowsLedger ==
  ASSUME Serial
  PROVE  Spec => PublicationShowsLedger
<1> DEFINE Show ==
      workflow_state' = "PUBLISHED" /\ ~ShowsLedger' =>
        workflow_state = "PUBLISHED" /\ (ShowsLedger => ledger' # ledger)
<1>1. TypeInv /\ SerialInv /\ [Next]_vars => SerialInv'
  BY SerialNext
<1>2. TypeInv /\ SerialInv /\ [Next]_vars => [Show]_vars
  BY SerialNext DEF KeepsShowing
<1>3. PublicationShowsLedger <=> [][Show]_vars
  BY DEF PublicationShowsLedger
<1> HIDE DEF Show
<1> QED
  BY TypeInit, TypeNext, SerialInit, <1>1, <1>2, <1>3, PTL DEF Spec

============================================================================
