--------------------------- MODULE AnswerEvidence ---------------------------
(***************************************************************************)
(* The review of one paper's evidence, on top of SubmissionIntake: regions *)
(* drawn, edited and deleted, mappings of the leaf questions, and the      *)
(* transcriptions of the mapped regions (api/v1/mapping.py, transcription. *)
(* py, services/transcription.py, crop_generation.py), until evaluation    *)
(* starts.                                                                 *)
(***************************************************************************)
EXTENDS SubmissionIntake

Drawn(r) == db.region[r].source \in {"AI", "HUMAN"}

---------------------------------------------------------------------------
(* Regions and mappings                                                    *)

CreateRegion(q, r, type) ==
  /\ Calls(q, "create_region")
  /\ db.pages /\ Unreserved(r)
  /\ Stages(q, [db EXCEPT !.region[r] =
                  [NoRegion EXCEPT !.source = "HUMAN", !.type = type]], {})

\* _reopen_mappings_for_region.
Reopened(d, r) ==
  IF d.link[r] = None THEN d.mapping
  ELSE [d.mapping EXCEPT ![d.link[r]].state = "REVIEW_REQUIRED"]

\* A region a reviewer touched is HUMAN.  A request here changes one field.
Patched(region, field) ==
  CASE field = "patch_type" -> [region EXCEPT !.source = "HUMAN",
          !.type = IF @ = "ANSWER" THEN "SCRATCH" ELSE "ANSWER"]
    [] field = "patch_ignored" -> [region EXCEPT !.source = "HUMAN", !.ignored = ~@]
    [] field = "patch_box" -> [region EXCEPT !.source = "HUMAN", !.box = "MOVED"]

PatchRegion(q, r, field) ==
  /\ Calls(q, field)
  /\ Drawn(r)
  /\ Stages(q, [db EXCEPT !.region[r] = Patched(@, field),
                          !.mapping = Reopened(db, r)], {})

DeleteRegion(q, r) ==
  /\ Calls(q, "delete_region")
  /\ Drawn(r) /\ db.link[r] = None
  /\ Stages(q, [db EXCEPT !.region[r] = [NoRegion EXCEPT !.source = "DELETED"],
                          !.text[r] = <<>>], {})

\* A region can answer question u.
Assignable(r, u) == /\ Drawn(r) /\ ~db.region[r].ignored
                    /\ db.region[r].type # "SCRATCH"
                    /\ db.link[r] \in {None, u}

UpsertMapping(q, u, regions) ==
  /\ Calls(q, "upsert_mapping")
  /\ db.pages
  /\ \A r \in regions : Assignable(r, u)
  /\ session' = [session EXCEPT ![q] =
       [Pending(db, [db EXCEPT !.mapping[u] =
          [by |-> "HUMAN", state |-> "REVIEW_REQUIRED",
           disposition |-> IF regions = {} THEN "BLANK" ELSE "ANSWERED"]])
        EXCEPT !.relink = [question |-> u, regions |-> regions]]]
  /\ UNCHANGED <<db, raw, tasks, setting, faults>>

LinkedTo(d, u) == {r \in Regions : d.link[r] = u}
\* The mapping's regions fit its disposition.
Shaped(d, u) == (d.mapping[u].disposition = "ANSWERED") <=> LinkedTo(d, u) # {}

Confirmable(d, u) == d.mapping[u].by # None /\ Shaped(d, u)

ConfirmMapping(q, u) ==
  /\ Calls(q, "confirm_mapping")
  /\ Confirmable(db, u)
  /\ Stages(q, [db EXCEPT !.mapping[u].state = "CONFIRMED",
                          !.mapping[u].by = "HUMAN"], {})

\* The mapping screen's retry: the task is enqueued whatever the job's status.
PrepareMapping(q) ==
  /\ Calls(q, "prepare_mapping")
  /\ db.sub.match = "CONFIRMED"
  /\ Stages(q, [db EXCEPT !.job["MAPPING"] = EnsuredMapping(@)], {"MAPPING"})

---------------------------------------------------------------------------
(* ensure_transcription_job_and_state, of a submission READY_FOR_EVALUATION *)

\* automation_block_code, for an assessment of a supported subject.
Gated(sub) == sub.language_state \in {"REVIEW_REQUIRED", "UNSUPPORTED"}

InQueue == {"QUEUED", "RUNNING"}

\* A job that ensure starts over.
Requeued(d) ==
  \/ d.job["TRANSCRIPTION"] \in {None, "FAILED"}
  \/ /\ d.job["TRANSCRIPTION"] = "SUCCEEDED"
     /\ d.sub.transcription \in {"FAILED", "NOT_STARTED"}

EnsuredTranscription(d) ==
  IF Gated(d.sub) THEN [d EXCEPT !.sub.transcription = "REVIEW_REQUIRED"]
  ELSE IF d.sub.transcription \in InQueue \cup {"READY"} THEN d
  ELSE IF ~setting.provider THEN [d EXCEPT !.sub.transcription = "REVIEW_REQUIRED"]
  ELSE IF Requeued(d) THEN [d EXCEPT !.job["TRANSCRIPTION"] = "QUEUED",
                                     !.sub.transcription = "QUEUED"]
  ELSE IF d.job["TRANSCRIPTION"] \in InQueue
  THEN [d EXCEPT !.sub.transcription = "QUEUED"]
  ELSE d

\* ensure returns a job.
ReturnsJob(d) == /\ ~Gated(d.sub) /\ d.sub.transcription # "READY"
                 /\ IF d.sub.transcription \in InQueue
                    THEN d.job["TRANSCRIPTION"] # None ELSE setting.provider

\* A leaf question that does not block finalisation.
Resolved(d, u) == /\ d.mapping[u].by # None /\ d.mapping[u].state = "CONFIRMED"
                  /\ Shaped(d, u)

FinalizeMapping(q) ==
  LET d == [db EXCEPT !.sub.workflow = "READY_FOR_EVALUATION"] IN
  /\ Calls(q, "finalize_mapping")
  /\ db.sub.workflow \in {"MAPPING_REVIEW", "READY_FOR_EVALUATION"}
  /\ \A u \in Questions : Resolved(db, u)
  /\ Stages(q, EnsuredTranscription(d),
            IF ReturnsJob(d) THEN {"TRANSCRIPTION"} ELSE {})

PrepareTranscription(q) ==
  LET d == EnsuredTranscription(db) IN
  /\ Calls(q, "prepare_transcription")
  /\ db.sub.workflow = "READY_FOR_EVALUATION"
  /\ Stages(q, d, IF ReturnsJob(db) /\ d.job["TRANSCRIPTION"] = "QUEUED"
                  THEN {"TRANSCRIPTION"} ELSE {})

---------------------------------------------------------------------------
(* Transcriptions                                                          *)

Active(d, r) == {n \in DOMAIN d.text[r] : d.text[r][n].status # "SUPERSEDED"}
\* _latest_active_transcription; 0 if there is none.
Latest(d, r) == IF Active(d, r) = {} THEN 0
                ELSE CHOOSE n \in Active(d, r) : \A m \in Active(d, r) : m <= n

\* Mutant: the earlier transcriptions stay active.
NothingSuperseded(versions) == versions
Superseded(versions) ==
  [n \in DOMAIN versions |-> [versions[n] EXCEPT !.status = "SUPERSEDED"]]

PutTranscription(q, r, outcome) ==
  /\ Calls(q, "put_transcription")
  /\ Drawn(r) /\ Len(db.text[r]) < MaxVersions
  /\ Stages(q, [db EXCEPT !.text[r] =
       Append(Superseded(@), [source |-> "HUMAN", outcome |-> outcome,
                              pair |-> db.sub.pair,
                              status |-> "REVIEW_REQUIRED"])], {})

ConfirmTranscription(q, r, n) ==
  /\ Calls(q, "confirm_transcription")
  /\ n \in Active(db, r)
  /\ Stages(q, [db EXCEPT !.text[r][n].status = "CONFIRMED"], {})

\* The linked regions whose transcription finalisation asks for.
Evidence(d) == {r \in Regions : /\ d.link[r] # None
                                /\ d.mapping[d.link[r]].disposition = "ANSWERED"
                                /\ ~d.region[r].ignored
                                /\ d.region[r].type # "SCRATCH"}

\* Mutant: a transcription will do, confirmed or not.
ReviewedUnconfirmed(d, r) == Latest(d, r) # 0
\* The latest active version is confirmed and has an outcome, and the crop is
\* the one of the region's geometry.
Reviewed(d, r) ==
  /\ Latest(d, r) # 0
  /\ d.text[r][Latest(d, r)].status = "CONFIRMED"
  /\ d.text[r][Latest(d, r)].outcome
  /\ d.region[r].crop \in {None, d.region[r].box}

FinalizeTranscription(q) ==
  /\ Calls(q, "finalize_transcription")
  /\ db.sub.workflow = "READY_FOR_EVALUATION"
  /\ db.sub.transcription \notin InQueue /\ ~Gated(db.sub)
  /\ \A u \in Questions : db.mapping[u].by # None => db.mapping[u].state = "CONFIRMED"
  /\ \A r \in Evidence(db) : Reviewed(db, r)
  /\ Stages(q, [db EXCEPT !.sub.transcription = "READY"], {})

\* The crop endpoint cuts a crop only where there is none.
GetCrop(q, r) ==
  /\ Calls(q, "get_crop")
  /\ Drawn(r) /\ db.region[r].crop = None
  /\ Stages(q, [db EXCEPT !.region[r].crop = db.region[r].box], {})

\* The regions run_transcription_pipeline sends to the provider.
ToTranscribe(d) ==
  {r \in Evidence(d) : /\ d.mapping[d.link[r]].state = "CONFIRMED"
                       /\ d.region[r].type = "ANSWER"
                       /\ \A n \in Active(d, r) : d.text[r][n].source = "HUMAN"}

\* Mutant: a task the provider answered nothing leaves RUNNING.
ProposedStaysRunning(d, asked, answered) ==
  [d EXCEPT !.job["TRANSCRIPTION"] = "SUCCEEDED",
     !.sub.transcription = IF answered = {} THEN @ ELSE "REVIEW_REQUIRED"]

\* The crops that were cut and the provider's new versions.  (The text of the
\* newest version is also copied into the region, as it is in put_transcription,
\* for old clients: no handler reads that copy.)
Proposed(d, asked, answered) ==
  [d EXCEPT !.job["TRANSCRIPTION"] = "SUCCEEDED",
     !.sub.transcription = "REVIEW_REQUIRED",
     !.region = [r \in Regions |-> IF r \in asked
                                   THEN [@[r] EXCEPT !.crop = d.region[r].box]
                                   ELSE @[r]],
     !.text = [r \in Regions |-> IF r \in answered
        THEN Append(@[r], [source |-> "AI", outcome |-> TRUE,
                           pair |-> d.sub.pair, status |-> "REVIEW_REQUIRED"])
        ELSE @[r]]]

\* A region the provider fails on is skipped.
Transcribe(w, answered) ==
  LET asked == IF setting.provider /\ ~Gated(session[w].sub)
               THEN ToTranscribe(db) ELSE {} IN
  /\ Running(w, "TRANSCRIPTION")
  /\ answered \subseteq {r \in asked : Len(db.text[r]) < MaxVersions}
  /\ Finishes(w, Proposed(Seen(w), asked, answered), {})

\* prepare_evaluation, taken whole (EvaluationLedger has its insides).
StartEvaluation(q) ==
  /\ Calls(q, "evaluate")
  /\ db.sub.workflow = "READY_FOR_EVALUATION" /\ db.sub.match = "CONFIRMED"
  /\ ~Gated(db.sub) /\ db.sub.transcription = "READY"
  /\ \A u \in Questions : db.mapping[u].by # None /\ db.mapping[u].state = "CONFIRMED"
  /\ db' = [db EXCEPT !.sub.workflow = "EVALUATING"]
  /\ UNCHANGED <<raw, tasks, session, setting, faults>>

---------------------------------------------------------------------------
RequestStep(q) ==
  \/ UploadRead(q) \/ MarkUnmatched(q)
  \/ \E s \in Students : ConfirmIdentity(q, s)
  \/ \E pair \in Pairs, state \in {"UNKNOWN", "CONFIRMED", "REVIEW_REQUIRED",
                                  "UNSUPPORTED"} : PutLanguage(q, pair, state)
  \/ \E r \in Regions, t \in {"ANSWER", "DIAGRAM"} : CreateRegion(q, r, t)
  \/ \E r \in Regions, f \in {"patch_type", "patch_ignored", "patch_box"} :
       PatchRegion(q, r, f)
  \/ \E r \in Regions : DeleteRegion(q, r) \/ GetCrop(q, r)
  \/ \E u \in Questions : ConfirmMapping(q, u)
  \/ \E u \in Questions, R \in SUBSET Regions : UpsertMapping(q, u, R)
  \/ PrepareMapping(q) \/ FinalizeMapping(q)
  \/ PrepareTranscription(q) \/ FinalizeTranscription(q) \/ StartEvaluation(q)
  \/ \E r \in Regions, o \in BOOLEAN : PutTranscription(q, r, o)
  \/ \E r \in Regions : \E n \in DOMAIN db.text[r] : ConfirmTranscription(q, r, n)

WorkerRuns(w) ==
  \/ NormalizePages(w) \/ PrepareMappingFails(w)
  \/ \E answered \in BOOLEAN : ExtractIdentity(w, answered)
  \/ \E zones, mapped \in SUBSET Regions : \E types \in [zones -> ZoneType] :
       PrepareMappings(w, zones, types, mapped)
  \/ \E answered \in SUBSET Regions : Transcribe(w, answered)

Committing(s) == Commit(s) \/ CommitFails(s) \/ Enqueue(s)
Uploading(q) == UploadInsert(q) \/ UploadStore(q)

Next ==
  \/ \E q \in Requests : RequestStep(q) \/ Uploading(q) \/ UploadStoreFails(q)
  \/ \E w \in Workers : (\E s \in Stage : Take(w, s)) \/ WorkerRuns(w) \/ TaskFails(w)
  \/ \E s \in Sessions : Committing(s) \/ Crash(s)

\* A handler or a task that has begun goes on, and the broker's queue is first
\* in, first out: a task is not passed over for ever.
Fairness ==
  /\ \A s \in Sessions : WF_vars(Committing(s))
  /\ \A q \in Requests : WF_vars(Uploading(q))
  /\ \A w \in Workers : WF_vars(WorkerRuns(w))
  /\ \A w \in Workers, s \in Stage : SF_vars(Take(w, s))

Spec == Init /\ [][Next]_vars
FairSpec == Spec /\ Fairness

---------------------------------------------------------------------------
Serial == Cardinality(setting.clients) = 1

\* A submission with a normalisation job has its source in the object store: the
\* object is put before the row and the job are committed, and a put that fails
\* or finds another object leaves a FAILED row without a job.
SourceIsStored == db.job["NORM"] # None => raw

\* No mapping is linked to a deleted region, whoever maps and deletes at once: the
\* handlers check it on what they read, the foreign key when they commit.
LinkedRegionsExist ==
  \A r \in Regions : db.link[r] # None => db.region[r].source # "DELETED"

\* Mapping is finalised over mappings that a reviewer has confirmed, as they
\* are when the handler commits and not only when it read them.
FinalizedMappingComplete ==
  [][Serial /\ db.sub.workflow # "READY_FOR_EVALUATION"
       /\ db'.sub.workflow = "READY_FOR_EVALUATION"
     => \A u \in Questions : Resolved(db', u) /\ db'.mapping[u].by = "HUMAN"]_vars

\* No worker's step changes a region that a reviewer drew or edited, a mapping a
\* reviewer made, its links, or a transcription a reviewer wrote or confirmed.
HumanEvidenceKept ==
  [][(\E w \in Workers : session'[w] # session[w]) =>
       /\ \A r \in Regions : db.region[r].source = "HUMAN" =>
            db'.region[r] = [db.region[r] EXCEPT !.crop = db'.region[r].crop]
       /\ \A u \in Questions : db.mapping[u].by = "HUMAN" =>
            db'.mapping[u] = db.mapping[u] /\ LinkedTo(db', u) = LinkedTo(db, u)
       /\ \A r \in Regions : \A n \in DOMAIN db.text[r] :
            db'.text[r][n] = db.text[r][n]]_vars

\* A region has at most one active transcription of each source: a reviewer's
\* replaces what is there, and the worker adds none beside its own.
OneActiveOfEachSource ==
  Serial => \A r \in Regions : \A m, n \in Active(db, r) :
    db.text[r][m].source = db.text[r][n].source => m = n

\* Where reviewers transcribe, every transcription is in the language and script
\* of the submission: neither can change once there is one.
TranscribedInItsLanguage ==
  Serial /\ ~setting.provider =>
    \A r \in Regions : \A n \in DOMAIN db.text[r] : db.text[r][n].pair = db.sub.pair

\* When a transcription becomes READY every region of evidence has a confirmed
\* transcription, as it is when the handler commits, whatever a transcription
\* task did since it was read.
ReadyHasConfirmed ==
  [][Serial /\ db.sub.transcription # "READY" /\ db'.sub.transcription = "READY"
     => \A r \in Evidence(db') : \E n \in DOMAIN db'.text[r] :
          db'.text[r][n].status = "CONFIRMED"]_vars

\* Without faults, with one reviewer at a time and no identity worker to commit
\* over a confirmation, the pipeline leaves PROCESSING: every handler and task
\* that enters it enqueues the next one.
ProcessingEnds ==
  []<>~(Serial /\ ~setting.provider /\ setting.faults = {} /\ db.sub.workflow = "PROCESSING")

\* Without faults a transcription that is queued or running ends.
TranscriptionEnds ==
  []<>~(setting.faults = {} /\ db.sub.transcription \in InQueue)

\* The rows of the evidence agree with each other and with the object store.
EvidenceAgrees ==
  /\ SourceIsStored /\ LinkedRegionsExist
  /\ OneActiveOfEachSource /\ TranscribedInItsLanguage

\* Nothing passes a gate unconfirmed, and no task undoes what a reviewer did.
ReviewCounts == FinalizedMappingComplete /\ ReadyHasConfirmed /\ HumanEvidenceKept

\* Every stage that starts ends.
IntakeEnds == ProcessingEnds /\ TranscriptionEnds
=============================================================================
