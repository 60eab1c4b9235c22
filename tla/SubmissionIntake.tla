-------------------------- MODULE SubmissionIntake --------------------------
(***************************************************************************)
(* From the upload of one answer paper to its evaluation: the source in    *)
(* the object store, page normalisation, identity, the regions drawn on    *)
(* the pages and their mapping to the leaf questions (api/v1/submissions.  *)
(* py, services/page_normalization.py, identity_ai.py, mapping_prepare.py, *)
(* mapping_ai.py).  AnswerEvidence adds the handlers of the two review     *)
(* screens and the transcription worker.                                   *)
(*                                                                         *)
(* `db` is the committed database, one row of each table.  A handler or a  *)
(* task reads it in one step, which puts the rows it read and the rows as  *)
(* it changed them into its session, and commits in a later step: Commit   *)
(* writes the columns that differ (UnitOfWork) and fails when a constraint *)
(* of the schema is broken by then.  A task commits twice and keeps the    *)
(* submission it read before the first commit until its end.               *)
(***************************************************************************)
EXTENDS Integers, Sequences, FiniteSets, UnitOfWork

CONSTANTS
  Requests,   \* sessions of HTTP requests
  Workers,    \* sessions of Celery workers
  Students, Regions, Questions,
  Pairs,      \* the languages that clients name in this instance
  Settings,   \* what Init chooses from, see `setting`
  MaxTasks,   \* bound: copies of one job's task in the broker
  MaxVersions,\* bound: transcriptions of a region
  MaxFaults   \* bound: faults over the whole behaviour

\* A paper has questions, regions and a student; the questions that a region may
\* be linked to are not the absence of one.
ASSUME RowsAssumption ==
  /\ Students # {} /\ Regions # {} /\ Questions # {} /\ "NONE" \notin Questions
  /\ Pairs \subseteq {"NONE", "FIRST", "SECOND", "UNSUPPORTED"}
  /\ MaxTasks \in Nat \ {0} /\ MaxVersions \in Nat /\ MaxFaults \in Nat
\* A worker's session is no request's, and the clients of a setting are requests.
ASSUME SessionsAssumption ==
  /\ Requests \cap Workers = {}
  /\ \A x \in Settings : /\ x.from \in {"upload", "identity", "mapping"}
                         /\ x.clients \subseteq Requests /\ IsFiniteSet(x.clients)

None == "NONE"
Stage == {"NORM", "IDENTITY", "MAPPING", "TRANSCRIPTION"}
JobStatus == {None, "QUEUED", "RUNNING", "SUCCEEDED", "FAILED"}
WorkflowState == {None, "UPLOADED", "PROCESSING", "IDENTITY_REVIEW",
                  "MAPPING_REVIEW", "READY_FOR_EVALUATION", "EVALUATING",
                  "FAILED"}
TranscriptionState == {"NOT_STARTED", "QUEUED", "RUNNING", "REVIEW_REQUIRED",
                       "READY", "FAILED"}
Box == {"FIRST", "MOVED"}
\* A language and script: not given, two supported ones, one that is not.
Pair == {None, "FIRST", "SECOND", "UNSUPPORTED"}

Submission ==
  [workflow : WorkflowState, match : {"REVIEW_REQUIRED", "CONFIRMED", "UNMATCHED"},
   student : Students \cup {None}, transcription : TranscriptionState,
   pair : Pair,
   language_state : {"UNKNOWN", "CONFIRMED", "REVIEW_REQUIRED", "UNSUPPORTED"}]
\* `source` is NONE before the row exists; `box` stands for the geometry and
\* `crop` for the geometry the stored crop was cut with.
Region == [source : {None, "AI", "HUMAN", "DELETED"},
           type : {"ANSWER", "DIAGRAM", "SCRATCH"}, ignored : BOOLEAN,
           box : Box, crop : Box \cup {None}]
Mapping == [by : {None, "AI", "HUMAN"}, state : {"REVIEW_REQUIRED", "CONFIRMED"},
            disposition : {"ANSWERED", "BLANK"}]
Transcription == [source : {"AI", "HUMAN"}, outcome : BOOLEAN, pair : Pair,
                  status : {"REVIEW_REQUIRED", "CONFIRMED", "SUPERSEDED"}]

NoRegion == [source |-> None, type |-> "ANSWER", ignored |-> FALSE,
             box |-> "FIRST", crop |-> None]
NoMapping == [by |-> None, state |-> "REVIEW_REQUIRED", disposition |-> "BLANK"]
NoSubmission == [workflow |-> None, match |-> "REVIEW_REQUIRED",
                 student |-> None, transcription |-> "NOT_STARTED",
                 pair |-> None, language_state |-> "UNKNOWN"]

\* analysed: a submission_page_analyses row; link[r]: the question region r is
\* linked to; text[r][n]: version_number n of the transcriptions of r.
EmptyDb ==
  [sub |-> NoSubmission, job |-> [s \in Stage |-> None], pages |-> FALSE,
   analysed |-> FALSE, region |-> [r \in Regions |-> NoRegion],
   mapping |-> [u \in Questions |-> NoMapping],
   link |-> [r \in Regions |-> None], text |-> [r \in Regions |-> <<>>]]

VARIABLES
  db,       \* the committed rows
  raw,      \* is the source in the object store
  tasks,    \* tasks[s]: copies of the task of the stage's job in the broker
  session,  \* session[s]: what a request or a worker is doing
  setting,  \* the deployment: provider active, endpoints called, faults, clients
  faults    \* faults so far

vars == <<db, raw, tasks, session, setting, faults>>
Sessions == Requests \cup Workers
Idle == [op |-> "IDLE"]

DbType(d) ==
  /\ d.sub \in Submission /\ d.job \in [Stage -> JobStatus]
  /\ d.pages \in BOOLEAN /\ d.analysed \in BOOLEAN
  /\ d.region \in [Regions -> Region] /\ d.mapping \in [Questions -> Mapping]
  /\ d.link \in [Regions -> Questions \cup {None}]
  /\ d.text \in [Regions -> Seq(Transcription)]

TypeOK ==
  /\ DbType(db) /\ raw \in BOOLEAN /\ tasks \in [Stage -> 0 .. MaxTasks]
  /\ setting \in Settings
  /\ faults \in 0 .. MaxFaults /\ DOMAIN session = Sessions
  /\ \A s \in Sessions :
       /\ session[s].op \in {"IDLE", "INSERT", "STORE", "COMMIT", "ENQUEUE", "RUN"}
       /\ session[s].op = "COMMIT" =>
            DbType(session[s].loaded) /\ DbType(session[s].staged)

\* Where a behaviour begins: before the upload; with the identity confirmed and
\* the mapping task enqueued; or with every mapping confirmed.
InitialDb(from) ==
  LET confirmed == [EmptyDb EXCEPT !.sub.workflow = "PROCESSING",
        !.sub.match = "CONFIRMED", !.sub.student = CHOOSE s \in Students : TRUE,
        !.pages = TRUE, !.job["NORM"] = "SUCCEEDED", !.job["MAPPING"] = "QUEUED"]
      region == CHOOSE r \in Regions : TRUE
      question == CHOOSE u \in Questions : TRUE IN
  CASE from = "upload" -> EmptyDb
    [] from = "identity" -> confirmed
    [] from = "mapping" ->
         [confirmed EXCEPT !.sub.workflow = "MAPPING_REVIEW",
            !.job["MAPPING"] = "SUCCEEDED", !.analysed = TRUE,
            !.region[region].source = "AI", !.link[region] = question,
            !.mapping = [u \in Questions |->
               [by |-> "HUMAN", state |-> "CONFIRMED",
                disposition |-> IF u = question THEN "ANSWERED" ELSE "BLANK"]]]

Init ==
  /\ setting \in Settings
  /\ db = InitialDb(setting.from)
  /\ raw = (setting.from # "upload")
  /\ tasks = [s \in Stage |->
       IF s = "MAPPING" /\ setting.from = "identity" THEN 1 ELSE 0]
  /\ session = [s \in Sessions |-> Idle]
  /\ faults = 0

Calls(q, endpoint) ==
  /\ endpoint \in setting.calls /\ q \in setting.clients
  /\ session[q] = Idle

Faulty(kind) == /\ kind \in setting.faults
                /\ faults < MaxFaults
                /\ faults' = faults + 1

---------------------------------------------------------------------------
(* Sessions                                                                *)

NoRelink == [question |-> None, regions |-> {}]
Pending(loaded, staged) ==
  [op |-> "COMMIT", loaded |-> loaded, staged |-> staged, enqueue |-> {},
   relink |-> NoRelink, stage |-> None, starts |-> FALSE]

\* What a request read and what it is about to commit.
Stages(q, staged, enqueue) ==
  /\ session' = [session EXCEPT ![q] =
       [Pending(db, staged) EXCEPT !.enqueue = enqueue]]
  /\ UNCHANGED <<db, raw, tasks, setting, faults>>

FlushRow(loaded, staged, current) ==
  [c \in DOMAIN current |-> FlushColumn(loaded[c], staged[c], current[c])]
FlushTable(loaded, staged, current) ==
  [k \in DOMAIN current |-> FlushRow(loaded[k], staged[k], current[k])]

\* DELETE of the links of a mapping and of the links of its new regions,
\* whoever they belong to, and INSERT of the new ones.
Relinked(link, relink) ==
  [r \in Regions |-> IF r \in relink.regions THEN relink.question
                     ELSE IF link[r] = relink.question THEN None ELSE link[r]]

\* A deleted region's transcriptions go with it.
FlushText(r, loaded, staged, current) ==
  IF staged.region[r].source = "DELETED" THEN <<>>
  ELSE [n \in 1 .. IF Len(staged.text[r]) > Len(loaded.text[r])
                   THEN Len(staged.text[r]) ELSE Len(current.text[r]) |->
          IF n > Len(staged.text[r]) THEN current.text[r][n]
          ELSE IF n > Len(loaded.text[r]) THEN staged.text[r][n]
          ELSE FlushRow(loaded.text[r][n], staged.text[r][n], current.text[r][n])]

Flushed(c) ==
  [sub |-> FlushRow(c.loaded.sub, c.staged.sub, db.sub),
   job |-> FlushRow(c.loaded.job, c.staged.job, db.job),
   pages |-> FlushColumn(c.loaded.pages, c.staged.pages, db.pages),
   analysed |-> FlushColumn(c.loaded.analysed, c.staged.analysed, db.analysed),
   region |-> FlushTable(c.loaded.region, c.staged.region, db.region),
   mapping |-> FlushTable(c.loaded.mapping, c.staged.mapping, db.mapping),
   link |-> IF c.relink # NoRelink THEN Relinked(db.link, c.relink)
            ELSE FlushRow(c.loaded.link, c.staged.link, db.link),
   text |-> [r \in Regions |-> FlushText(r, c.loaded, c.staged, db)]]

\* uq_qamr_tenant_region: a region is in one mapping.
LinkTaken(c) ==
  \E r \in Regions : /\ c.loaded.link[r] = None /\ c.staged.link[r] # None
                     /\ db.link[r] # None

\* uq_region_transcriptions_tenant_region_version.
VersionTaken(c) ==
  \E r \in Regions : /\ Len(c.staged.text[r]) > Len(c.loaded.text[r])
                     /\ Len(db.text[r]) >= Len(c.staged.text[r])

\* An UPDATE of a deleted region, a link or a transcription of one, or the
\* deletion of a region that has been linked (ON DELETE RESTRICT).
RowGone(c) ==
  \E r \in Regions :
    IF c.staged.region[r].source = "DELETED" /\ c.loaded.region[r].source # "DELETED"
    THEN db.link[r] # None
    ELSE /\ db.region[r].source = "DELETED" /\ c.loaded.region[r].source # "DELETED"
         /\ \/ c.staged.region[r] # c.loaded.region[r]
            \/ r \in c.relink.regions
            \/ c.staged.link[r] # c.loaded.link[r]
            \/ c.staged.text[r] # c.loaded.text[r]

\* uq_qam_tenant_submission_qv.
MappingTaken(c) ==
  \E u \in Questions : /\ c.loaded.mapping[u].by = None
                       /\ c.staged.mapping[u].by # None
                       /\ db.mapping[u].by # None

\* The unique keys of jobs (idempotency_key), pages and page analyses.
KeyTaken(c) ==
  \/ \E s \in Stage : /\ c.loaded.job[s] = None /\ c.staged.job[s] # None
                      /\ db.job[s] # None
  \/ ~c.loaded.pages /\ c.staged.pages /\ db.pages
  \/ ~c.loaded.analysed /\ c.staged.analysed /\ db.analysed

Conflict(c) == LinkTaken(c) \/ VersionTaken(c) \/ RowGone(c)
                 \/ MappingTaken(c) \/ KeyTaken(c)

\* A task goes on with the objects it has, a request with its enqueues.
AfterCommit(c) ==
  IF c.starts THEN [op |-> "RUN", stage |-> c.stage, sub |-> c.staged.sub,
                    job |-> c.staged.job[c.stage]]
  ELSE IF c.enqueue # {} THEN [op |-> "ENQUEUE", stages |-> c.enqueue]
  ELSE Idle

Commit(s) ==
  LET c == session[s] IN
  /\ c.op = "COMMIT" /\ ~Conflict(c)
  /\ db' = Flushed(c)
  /\ session' = [session EXCEPT ![s] = AfterCommit(c)]
  /\ UNCHANGED <<raw, tasks, setting, faults>>

Enqueue(s) ==
  /\ session[s].op = "ENQUEUE"
  /\ \A t \in session[s].stages : tasks[t] < MaxTasks
  /\ tasks' = [t \in Stage |-> tasks[t] + IF t \in session[s].stages THEN 1 ELSE 0]
  /\ session' = [session EXCEPT ![s] = Idle]
  /\ UNCHANGED <<db, raw, setting, faults>>

\* The except branch of a task: rollback, fresh reads, FAILED whatever the
\* submission is by now.  The mapping task has none for unexpected errors: its
\* job stays RUNNING.
Failing(stage) ==
  LET d == [db EXCEPT !.job[stage] = "FAILED"] IN
  CASE stage = "NORM" -> Pending(db, [d EXCEPT !.sub.workflow = "FAILED"])
    [] stage = "IDENTITY" ->
         Pending(db, [d EXCEPT !.sub.workflow = "IDENTITY_REVIEW",
                               !.sub.match = "REVIEW_REQUIRED"])
    [] stage = "TRANSCRIPTION" ->
         Pending(db, [d EXCEPT !.sub.transcription = "FAILED"])
    [] stage \in {"MAPPING", None} -> Idle

CommitFails(s) ==
  /\ session[s].op = "COMMIT" /\ Conflict(session[s])
  /\ session' = [session EXCEPT ![s] = Failing(session[s].stage)]
  /\ UNCHANGED <<db, raw, tasks, setting, faults>>

\* The process dies; what it has not committed is lost, and a task with it.
Crash(s) ==
  /\ session[s] # Idle
  /\ Faulty("crash")
  /\ session' = [session EXCEPT ![s] = Idle]
  /\ UNCHANGED <<db, raw, tasks, setting>>

---------------------------------------------------------------------------
(* Upload                                                                  *)

\* decide_provided_language and decide_detected_language.
ProvidedLanguage(pair, confirm) ==
  IF pair = None THEN "UNKNOWN"
  ELSE IF pair = "UNSUPPORTED" THEN "UNSUPPORTED"
  ELSE IF confirm THEN "CONFIRMED" ELSE "REVIEW_REQUIRED"
DetectedLanguage(pair) ==
  IF pair = "UNSUPPORTED" THEN "UNSUPPORTED" ELSE "REVIEW_REQUIRED"

\* The duplicate check.
UploadRead(q) ==
  /\ Calls(q, "upload")
  /\ db.sub.workflow = None
  /\ session' = [session EXCEPT ![q] = [op |-> "INSERT"]]
  /\ UNCHANGED <<db, raw, tasks, setting, faults>>

\* flush() inserts the row; another insert of the same source waits for this
\* transaction, and fails if it commits.
UploadInsert(q) ==
  /\ session[q].op = "INSERT"
  /\ \A p \in Requests \ {q} : session[p].op \notin {"STORE", "COMMIT"}
  /\ session' = [session EXCEPT ![q] =
       IF db.sub.workflow = None THEN [op |-> "STORE"] ELSE Idle]
  /\ UNCHANGED <<db, raw, tasks, setting, faults>>

\* The row as the upload commits it.
Uploaded(stored) ==
  IF stored
  THEN [EmptyDb EXCEPT !.sub.workflow = "UPLOADED", !.job["NORM"] = "QUEUED"]
  ELSE [EmptyDb EXCEPT !.sub.workflow = "FAILED"]

UploadCommits(q, stored) ==
  session' = [session EXCEPT ![q] =
    [Pending(EmptyDb, Uploaded(stored)) EXCEPT
       !.enqueue = IF stored THEN {"NORM"} ELSE {}]]

\* put_raw_bytes returns, or raises.
Put(stored) == stored

\* The put, which never overwrites an object: one that a crashed upload left
\* fails the upload.
UploadStore(q) ==
  /\ session[q].op = "STORE"
  /\ raw' = TRUE
  /\ UploadCommits(q, Put(~raw))
  /\ UNCHANGED <<db, tasks, setting, faults>>

UploadStoreFails(q) ==
  /\ session[q].op = "STORE"
  /\ Faulty("storage")
  /\ UploadCommits(q, Put(FALSE))
  /\ UNCHANGED <<db, raw, tasks, setting>>

---------------------------------------------------------------------------
(* Identity and language                                                   *)

\* Mutant: a job gets the submission's state.
EnsuredMappingProcessing(status) ==
  IF status \in {None, "FAILED"} THEN "PROCESSING" ELSE status
\* ensure_mapping_job_and_enqueue.
EnsuredMapping(status) == IF status \in {None, "FAILED"} THEN "QUEUED" ELSE status

ConfirmIdentity(q, student) ==
  /\ Calls(q, "confirm_identity")
  /\ db.sub.workflow # None
  /\ Stages(q, [db EXCEPT !.sub.student = student, !.sub.match = "CONFIRMED",
                          !.sub.workflow = "PROCESSING",
                          !.job["MAPPING"] = EnsuredMapping(@)],
            {"MAPPING"})

Unmatched(sub) ==
  [sub EXCEPT !.student = None, !.match = "UNMATCHED",
              !.workflow = "IDENTITY_REVIEW"]

MarkUnmatched(q) ==
  /\ Calls(q, "unmatched")
  /\ db.sub.workflow # None
  /\ Stages(q, [db EXCEPT !.sub = Unmatched(@)], {})

LanguageLocked(d) ==
  d.sub.workflow = "EVALUATING" \/ \E r \in Regions : d.text[r] # <<>>

PutLanguage(q, pair, state) ==
  /\ Calls(q, "language")
  /\ db.sub.workflow # None
  /\ state \in {ProvidedLanguage(pair, TRUE), ProvidedLanguage(pair, FALSE),
                DetectedLanguage(pair)}
  /\ pair # db.sub.pair => ~LanguageLocked(db)
  /\ Stages(q, [db EXCEPT !.sub.pair = pair, !.sub.language_state = state], {})

---------------------------------------------------------------------------
(* The workers                                                             *)

\* The states in which a finished job's task does nothing.
AlreadyDone(stage) ==
  /\ db.job[stage] = "SUCCEEDED"
  /\ CASE stage = "NORM" -> FALSE
       [] stage = "IDENTITY" -> db.sub.workflow = "IDENTITY_REVIEW"
       [] stage = "MAPPING" ->
            db.sub.workflow \in {"MAPPING_REVIEW", "READY_FOR_EVALUATION"}
       [] stage = "TRANSCRIPTION" ->
            db.sub.transcription \in {"REVIEW_REQUIRED", "READY"}

Started(stage) ==
  LET d == [db EXCEPT !.job[stage] = "RUNNING"] IN
  CASE stage \in {"NORM", "IDENTITY"} -> [d EXCEPT !.sub.workflow = "PROCESSING"]
    [] stage = "MAPPING" -> d
    [] stage = "TRANSCRIPTION" -> [d EXCEPT !.sub.transcription = "RUNNING"]

Take(w, stage) ==
  /\ session[w] = Idle
  /\ tasks[stage] > 0
  /\ tasks' = [tasks EXCEPT ![stage] = @ - 1]
  /\ session' = [session EXCEPT ![w] =
       IF AlreadyDone(stage) THEN Idle
       ELSE [Pending(db, Started(stage)) EXCEPT !.stage = stage, !.starts = TRUE]]
  /\ UNCHANGED <<db, raw, setting, faults>>

Running(w, stage) == session[w].op = "RUN" /\ session[w].stage = stage

\* The rows as the task sees them in its second transaction.
Seen(w) == [db EXCEPT !.sub = session[w].sub,
                      !.job[session[w].stage] = session[w].job]

Finishes(w, staged, enqueue) ==
  /\ session' = [session EXCEPT ![w] =
       [Pending(Seen(w), staged) EXCEPT !.enqueue = enqueue,
                                        !.stage = session[w].stage]]
  /\ UNCHANGED <<db, raw, tasks, setting, faults>>

\* A storage or a provider error outside the guarded provider calls.
TaskFails(w) ==
  /\ session[w].op = "RUN"
  /\ Faulty("error")
  /\ session' = [session EXCEPT ![w] = Failing(session[w].stage)]
  /\ UNCHANGED <<db, raw, tasks, setting>>

Normalized(d) ==
  IF setting.provider
  THEN [d EXCEPT !.job["NORM"] = "SUCCEEDED", !.pages = TRUE,
                 !.sub.match = "REVIEW_REQUIRED",
                 !.job["IDENTITY"] = IF @ = "RUNNING" THEN @ ELSE "QUEUED"]
  ELSE [d EXCEPT !.job["NORM"] = "SUCCEEDED", !.pages = TRUE,
                 !.sub.match = "REVIEW_REQUIRED",
                 !.sub.workflow = "IDENTITY_REVIEW"]

NormalizePages(w) ==
  /\ Running(w, "NORM") /\ raw
  /\ Finishes(w, Normalized(Seen(w)),
              IF setting.provider THEN {"IDENTITY"} ELSE {})

\* Without a first page the task fails; an unavailable provider is a success.
ExtractIdentity(w, answered) ==
  /\ Running(w, "IDENTITY") /\ (setting.provider => db.pages)
  /\ answered \in IF setting.provider THEN BOOLEAN ELSE {TRUE}
  /\ Finishes(w, [Seen(w) EXCEPT
       !.job["IDENTITY"] = IF answered THEN "SUCCEEDED" ELSE "FAILED",
       !.sub.match = "REVIEW_REQUIRED", !.sub.workflow = "IDENTITY_REVIEW"], {})

MappingRefused(sub) ==
  \/ sub.match # "CONFIRMED" \/ ~db.pages
  \/ sub.workflow \notin {"PROCESSING", "MAPPING_REVIEW", "READY_FOR_EVALUATION"}

PrepareMappingFails(w) ==
  /\ Running(w, "MAPPING") /\ MappingRefused(session[w].sub)
  /\ Finishes(w, [Seen(w) EXCEPT !.job["MAPPING"] = "FAILED"], {})

HasRegions(d) == \E r \in Regions : d.region[r].source \in {"AI", "HUMAN"}

\* The regions the provider may map: none once a mapping exists.
Mappable(d) ==
  IF \E u \in Questions : d.mapping[u].by # None THEN {}
  ELSE {r \in Regions : /\ d.region[r].source \in {"AI", "HUMAN"}
                        /\ d.region[r].type = "ANSWER" /\ ~d.region[r].ignored}

\* What the provider may take a zone for.
ZoneType == {"ANSWER", "DIAGRAM", "SCRATCH"}

\* Regions are proposed only where the paper has none, each of the type the
\* provider takes it for.
WithRegions(d, zones, types) ==
  [d EXCEPT !.analysed = @ \/ (setting.provider /\ ~HasRegions(d)),
            !.region = [r \in Regions |->
              IF r \in zones
              THEN [NoRegion EXCEPT !.source = "AI", !.type = types[r]]
              ELSE @[r]]]

WithMappings(d, proposal) ==
  [d EXCEPT
     !.mapping = [u \in Questions |->
        IF \E r \in DOMAIN proposal : proposal[r] = u
        THEN [by |-> "AI", state |-> "REVIEW_REQUIRED", disposition |-> "ANSWERED"]
        ELSE @[u]],
     !.link = [r \in Regions |->
        IF r \in DOMAIN proposal THEN proposal[r] ELSE @[r]]]

Unreserved(r) ==
  /\ db.region[r].source = None
  /\ \A s \in Sessions : session[s].op = "COMMIT" =>
       session[s].staged.region[r].source = None

\* run_mapping_preparation with apply_ai_mapping_proposals.
PrepareMappings(w, zones, types, mapped) ==
  LET prepared == [Seen(w) EXCEPT !.job["MAPPING"] = "SUCCEEDED",
         !.sub.workflow = IF @ = "PROCESSING" THEN "MAPPING_REVIEW" ELSE @]
      drawn == WithRegions(prepared, zones, types) IN
  /\ Running(w, "MAPPING") /\ ~MappingRefused(session[w].sub)
  /\ zones # {} => setting.provider /\ ~HasRegions(db)
  /\ \A r \in zones : Unreserved(r)
  /\ mapped \subseteq Mappable(drawn)
  /\ mapped # {} => setting.provider
  /\ \E proposal \in [mapped -> Questions] :
       Finishes(w, WithMappings(drawn, proposal), {})

=============================================================================
