------------------------ MODULE AnswerEvidenceProofs ------------------------
(***************************************************************************)
(* Proofs about intake, for every set of requests, workers, regions,       *)
(* questions and students: the rows of the evidence agree, and nothing     *)
(* passes a gate unconfirmed, however handlers and tasks interleave.       *)
(*                                                                         *)
(* Every handler and every task is a transaction that reads in one step    *)
(* and commits in another.  The proof says once what a transaction may     *)
(* have staged (Change), proves it of each handler when it reads, and what *)
(* the database may have done to the rows it read until it commits         *)
(* (Since).  What one commit does then follows from these two, whoever's   *)
(* it is.                                                                  *)
(***************************************************************************)
EXTENDS AnswerEvidence, ExtremaLemmas, SequenceTheorems, FiniteSetTheorems, TLAPS

---------------------------------------------------------------------------
(* The states                                                              *)

Dbs == [sub : Submission, job : [Stage -> JobStatus], pages : BOOLEAN,
        analysed : BOOLEAN, region : [Regions -> Region],
        mapping : [Questions -> Mapping], link : [Regions -> Questions \cup {None}],
        text : [Regions -> Seq(Transcription)]]
Waiting == {Idle, [op |-> "INSERT"], [op |-> "STORE"]}
Enqueues == [op : {"ENQUEUE"}, stages : SUBSET Stage]
Runs == [op : {"RUN"}, stage : Stage, sub : Submission, job : JobStatus]
Transactions ==
  [op : {"COMMIT"}, loaded : Dbs, staged : Dbs, enqueue : SUBSET Stage,
   relink : [question : Questions \cup {None}, regions : SUBSET Regions],
   stage : Stage \cup {None}, starts : BOOLEAN]

Transacts(s) == session[s].op = "COMMIT"
Client(s) == s \in setting.clients

States == Waiting \cup Enqueues \cup Runs \cup Transactions
\* A task starts as a stage, and only clients make requests.
SessionOK(s) ==
  /\ Transacts(s) /\ session[s].starts => session[s].stage \in Stage
  /\ session[s] # Idle /\ s \in Requests => Client(s)

TypeInv ==
  /\ db \in Dbs /\ raw \in BOOLEAN /\ tasks \in [Stage -> 0 .. MaxTasks]
  /\ setting \in Settings /\ faults \in 0 .. MaxFaults
  /\ session \in [Sessions -> States] /\ \A s \in Sessions : SessionOK(s)

---------------------------------------------------------------------------
(* What a transaction changes                                              *)

Deleted(d, r) == d.region[r].source = "DELETED"

\* The transcriptions of a region: as they were, one a client put, one a client
\* confirmed, one the provider answered, or none of a deleted region.
Kept(c, r) == c.staged.text[r] = c.loaded.text[r]
PutText(s, c, r) ==
  /\ Client(s) /\ c.staged.sub = c.loaded.sub
  /\ \E x \in Transcription :
       /\ x.source = "HUMAN" /\ x.pair = c.loaded.sub.pair
       /\ c.staged.text[r] = Append(Superseded(c.loaded.text[r]), x)
ConfirmedText(s, c, r) ==
  /\ Client(s)
  /\ \E n \in Active(c.loaded, r) :
       c.staged.text[r] = [c.loaded.text[r] EXCEPT ![n].status = "CONFIRMED"]
AnsweredText(s, c, r) ==
  /\ s \in Workers /\ setting.provider
  /\ \A n \in Active(c.loaded, r) : c.loaded.text[r][n].source = "HUMAN"
  /\ \E x \in Transcription : /\ x.source = "AI"
                              /\ c.staged.text[r] = Append(c.loaded.text[r], x)
Erased(s, c, r) ==
  /\ Client(s) /\ Deleted(c.staged, r) /\ ~Deleted(c.loaded, r)
  /\ c.staged.text[r] = << >> /\ c.staged.link = c.loaded.link /\ c.relink = NoRelink
Texts(s, c) == \A r \in Regions :
  \/ Deleted(c.staged, r) = Deleted(c.loaded, r) /\ Kept(c, r)
  \/ Deleted(c.staged, r) = Deleted(c.loaded, r) /\ PutText(s, c, r)
  \/ Deleted(c.staged, r) = Deleted(c.loaded, r) /\ ConfirmedText(s, c, r)
  \/ Deleted(c.staged, r) = Deleted(c.loaded, r) /\ AnsweredText(s, c, r)
  \/ Erased(s, c, r)

\* A region that was deleted is left alone; a worker draws regions and cuts crops.
Touches(c, r) == \/ c.staged.region[r] # c.loaded.region[r]
                 \/ c.staged.link[r] # c.loaded.link[r]
                 \/ r \in c.relink.regions
                 \/ c.staged.text[r] # c.loaded.text[r]
Creates(c, r) == c.loaded.region[r].source = None /\ c.staged.region[r].source # None
Cropped(old, new) == new = [old EXCEPT !.crop = new.crop]
Draws(s, c) == \A r \in Regions :
  /\ Touches(c, r) => ~Deleted(c.loaded, r)
  /\ c.staged.region[r].source = None => c.loaded.region[r].source = None
  /\ s \in Workers => Creates(c, r) \/ Cropped(c.loaded.region[r], c.staged.region[r])

\* The language changes only where nothing is transcribed.
Speaks(s, c) == c.staged.sub.pair # c.loaded.sub.pair =>
  /\ Client(s) /\ c.staged.text = c.loaded.text
  /\ \A r \in Regions : c.loaded.text[r] = << >>

\* A worker maps questions that have no mapping, a client confirms as a person;
\* regions are linked to mappings of the same transaction.
Maps(s, c) == \A u \in Questions :
  LET old == c.loaded.mapping[u] new == c.staged.mapping[u] IN
  \/ new = old
  \/ /\ Client(s) /\ new.by \in {old.by, "HUMAN"}
     /\ new.state = "CONFIRMED" => new.by = "HUMAN"
  \/ s \in Workers /\ old.by = None /\ new.by = "AI" /\ new.state # "CONFIRMED"
Links(s, c) ==
  /\ \A r \in Regions : c.staged.link[r] # c.loaded.link[r] =>
       /\ s \in Workers /\ c.loaded.link[r] = None
       /\ c.staged.link[r] \in Questions /\ c.staged.region[r].source # None
       /\ c.loaded.mapping[c.staged.link[r]].by = None
       /\ c.staged.mapping[c.staged.link[r]].by # None
  /\ c.relink # NoRelink =>
       /\ Client(s) /\ c.relink.question \in Questions
       /\ c.staged.mapping[c.relink.question].by = "HUMAN"
       /\ \A r \in c.relink.regions : c.loaded.region[r].source # None

\* The gates: the mapping and the transcription are finalised as they were read.
Untouched(c) ==
  /\ c.staged.region = c.loaded.region /\ c.staged.mapping = c.loaded.mapping
  /\ c.staged.link = c.loaded.link /\ c.staged.text = c.loaded.text /\ c.relink = NoRelink
Gates(s, c) ==
  /\ c.staged.sub.workflow # None
  /\ c.staged.sub.workflow = "READY_FOR_EVALUATION" =>
       \/ c.loaded.sub.workflow = "READY_FOR_EVALUATION"
       \/ Client(s) /\ Untouched(c) /\ \A u \in Questions : Resolved(c.loaded, u)
  /\ c.staged.sub.transcription = "READY" =>
       \/ c.loaded.sub.transcription = "READY"
       \/ /\ Client(s) /\ Untouched(c) /\ \A u \in Questions : c.loaded.mapping[u].by # None
          /\ \A r \in Evidence(c.loaded) : Reviewed(c.loaded, r)

Change(s, c) == /\ Texts(s, c) /\ Draws(s, c) /\ Speaks(s, c)
                /\ Maps(s, c) /\ Links(s, c) /\ Gates(s, c)

---------------------------------------------------------------------------
(* The inductive invariants                                                *)

\* What becomes of the rows that a transaction read, until it commits.
Since(c) ==
  /\ \A r \in Regions :
       /\ c.loaded.link[r] # None => c.loaded.region[r].source # None
       /\ Deleted(c.loaded, r) => Deleted(db, r)
       /\ c.loaded.region[r].source # None => db.region[r].source # None
       /\ Creates(c, r) => db.region[r].source = None
       /\ Deleted(db, r) \/ Len(c.loaded.text[r]) <= Len(db.text[r])
  /\ \A u \in Questions :
       /\ c.loaded.mapping[u].by # None => db.mapping[u].by # None
       /\ c.loaded.mapping[u].by = "HUMAN" => db.mapping[u].by = "HUMAN"

\* No region is drawn twice.
DrawnOnce == \A s, t \in Sessions : \A r \in Regions :
  Transacts(s) /\ Transacts(t) /\ Creates(session[s], r) /\ Creates(session[t], r) => s = t

\* The committed rows.
RowsOK ==
  /\ \A r \in Regions :
       /\ Deleted(db, r) => db.text[r] = << >>
       /\ db.link[r] # None => /\ db.region[r].source \in {"AI", "HUMAN"}
                               /\ db.mapping[db.link[r]].by # None
  /\ \A u \in Questions : db.mapping[u].state = "CONFIRMED" => db.mapping[u].by = "HUMAN"
  /\ db.sub.workflow = "READY_FOR_EVALUATION" =>
       \A u \in Questions : db.mapping[u].by # None

EvidenceInv ==
  /\ RowsOK /\ DrawnOnce
  /\ \A s \in Sessions : \A c \in {session[s]} : Transacts(s) => Change(s, c) /\ Since(c)

\* Before the upload there is nothing, and one upload at a time inserts.
Uploads(s) == \/ session[s].op = "STORE"
              \/ Transacts(s) /\ session[s].loaded.sub.workflow = None
UploadInv ==
  /\ db.sub.workflow = None =>
       /\ db = EmptyDb /\ \A t \in Stage : tasks[t] = 0
       /\ \A s \in Sessions : session[s].op \in {"IDLE", "INSERT"} \/ Uploads(s)
  /\ \A s \in Sessions : Uploads(s) => db.sub.workflow = None /\ s \in Requests
  /\ \A s \in Sessions : Uploads(s) /\ Transacts(s) =>
       session[s].loaded = EmptyDb /\ session[s].stage = None
  /\ \A s, t \in Sessions : Uploads(s) /\ Uploads(t) => s = t
  /\ \A s \in Sessions : session[s].op = "RUN" => session[s].sub.workflow # None

\* Whoever knows of a normalisation job knows that the source is stored.
Knows(S) ==
  \/ /\ S.op = "COMMIT"
     /\ \/ S.loaded.job["NORM"] # None \/ S.staged.job["NORM"] # None
        \/ "NORM" \in S.enqueue \/ S.stage = "NORM"
  \/ S.op = "ENQUEUE" /\ "NORM" \in S.stages
  \/ S.op = "RUN" /\ S.stage = "NORM"
SourceInv ==
  /\ SourceIsStored
  /\ tasks["NORM"] # 0 => raw
  /\ \A s \in Sessions : Knows(session[s]) => raw

\* With one client: what the client read only gains what workers add, and a
\* worker finds, where nothing was added, what it read up to confirmations.
ClientSees(c) ==
  /\ c.loaded.sub.pair = db.sub.pair
  /\ ~setting.provider => db.text = c.loaded.text
  /\ \A r \in Regions :
       /\ c.loaded.region[r].source # None => Cropped(c.loaded.region[r], db.region[r])
       /\ \A n \in DOMAIN c.loaded.text[r] :
            n \in DOMAIN db.text[r] /\ db.text[r][n] = c.loaded.text[r][n]
       /\ db.link[r] # c.loaded.link[r] =>
            /\ c.loaded.link[r] = None
            /\ c.loaded.mapping[db.link[r]].by = None
  /\ \A u \in Questions :
       c.loaded.mapping[u].by # None => db.mapping[u] = c.loaded.mapping[u]
WorkerSees(c) == \A r \in Regions : Len(db.text[r]) = Len(c.loaded.text[r]) =>
  \A n \in DOMAIN db.text[r] :
    /\ db.text[r][n].source = c.loaded.text[r][n].source
    /\ db.text[r][n].status = "SUPERSEDED" <=> c.loaded.text[r][n].status = "SUPERSEDED"
SerialInv == Serial =>
  /\ \A s \in Sessions : \A c \in {session[s]} : Transacts(s) =>
       /\ s \in Requests => ClientSees(c)
       /\ s \in Workers => WorkerSees(c)
  /\ OneActiveOfEachSource /\ TranscribedInItsLanguage

---------------------------------------------------------------------------
(* What the handlers and the tasks stage                                   *)

Inv == TypeInv /\ EvidenceInv /\ UploadInv /\ SourceInv

\* Session s has read the evidence and holds transaction c.
Begins(s, c) ==
  /\ c \in Transactions /\ session' = [session EXCEPT ![s] = c]
  /\ UNCHANGED <<db, raw, setting>>
  /\ c.loaded.region = db.region /\ c.loaded.mapping = db.mapping
  /\ c.loaded.link = db.link /\ c.loaded.text = db.text
  /\ s \in Requests => Client(s) /\ c.loaded.sub = db.sub
  /\ c.starts => c.stage \in Stage
  /\ db.sub.workflow # None /\ c.loaded.sub.workflow # None
  /\ Knows(c) => raw
  /\ Change(s, c)
  /\ \A r \in Regions : Creates(c, r) => Unreserved(r)
Reads(s) == (\E c \in Transactions : Begins(s, c)) /\ UNCHANGED <<tasks, faults>>

LEMMA StagedTransaction ==
  ASSUME TypeInv, NEW q \in Requests, NEW staged \in Dbs, NEW enqueue \in SUBSET Stage,
         Stages(q, staged, enqueue)
  PROVE  \E c \in Transactions :
           /\ session' = [session EXCEPT ![q] = c]
           /\ UNCHANGED <<db, raw, tasks, setting, faults>>
           /\ c.loaded = db /\ c.staged = staged /\ c.enqueue = enqueue
           /\ c.relink = NoRelink /\ c.stage = None /\ ~c.starts
<1>1. PICK c : c = [Pending(db, staged) EXCEPT !.enqueue = enqueue]
  OBVIOUS
<1>2. c = [op |-> "COMMIT", loaded |-> db, staged |-> staged, enqueue |-> enqueue,
           relink |-> NoRelink, stage |-> None, starts |-> FALSE]
  BY <1>1 DEF Pending
<1>3. c \in Transactions
  BY <1>2 DEF TypeInv, Transactions, NoRelink
<1>4. session' = [session EXCEPT ![q] = c] /\ UNCHANGED <<db, raw, tasks, setting, faults>>
  BY <1>1 DEF Stages
<1>5. /\ c.loaded = db /\ c.staged = staged /\ c.enqueue = enqueue
      /\ c.relink = NoRelink /\ c.stage = None /\ ~c.starts
  BY <1>2
<1> QED  BY <1>3, <1>4, <1>5

\* A transaction that leaves the evidence as it was.
LEMMA UntouchedChange ==
  ASSUME NEW s \in Sessions, NEW c \in Transactions, Untouched(c), Gates(s, c),
         \/ c.staged.sub.pair = c.loaded.sub.pair
         \/ Client(s) /\ \A r \in Regions : c.loaded.text[r] = << >>
  PROVE  Change(s, c)
<1>1. c.loaded \in Dbs /\ c.staged \in Dbs
  BY DEF Transactions
<1>2. Texts(s, c)
  BY DEF Texts, Untouched, Kept, Deleted
<1>3. ASSUME NEW r \in Regions
      PROVE  ~Touches(c, r) /\ Cropped(c.loaded.region[r], c.staged.region[r])
  <2>1. ~Touches(c, r)
    BY DEF Touches, Untouched, NoRelink
  <2>2. c.loaded.region[r] \in Region /\ c.staged.region[r] = c.loaded.region[r]
    BY <1>1 DEF Untouched, Dbs
  <2> QED  BY <2>1, <2>2 DEF Cropped, Region
<1>4. Draws(s, c)
  BY <1>3 DEF Draws, Untouched
<1>5. Speaks(s, c) /\ Maps(s, c) /\ Links(s, c)
  BY DEF Speaks, Maps, Links, Untouched
<1> QED  BY <1>2, <1>4, <1>5 DEF Change

\* A handler that stages `staged` without touching the evidence.
LEMMA StagesReads ==
  ASSUME Inv, NEW q \in Requests, NEW staged \in Dbs, NEW enqueue \in SUBSET Stage,
         Stages(q, staged, enqueue), Client(q), db.sub.workflow # None, "NORM" \notin enqueue,
         staged.region = db.region, staged.mapping = db.mapping, staged.link = db.link,
         staged.text = db.text, staged.job["NORM"] = db.job["NORM"],
         staged.sub.workflow # None,
         staged.sub.pair = db.sub.pair \/ \A r \in Regions : db.text[r] = << >>,
         staged.sub.workflow = "READY_FOR_EVALUATION" =>
           db.sub.workflow = "READY_FOR_EVALUATION" \/ \A u \in Questions : Resolved(db, u),
         staged.sub.transcription = "READY" =>
           \/ db.sub.transcription = "READY"
           \/ /\ db.sub.workflow = "READY_FOR_EVALUATION"
              /\ \A r \in Evidence(db) : Reviewed(db, r)
  PROVE  Reads(q)
<1>1. PICK c \in Transactions :
        /\ session' = [session EXCEPT ![q] = c]
        /\ UNCHANGED <<db, raw, tasks, setting, faults>>
        /\ c.loaded = db /\ c.staged = staged /\ c.enqueue = enqueue
        /\ c.relink = NoRelink /\ c.stage = None /\ ~c.starts
  BY StagedTransaction DEF Inv
<1>2. Untouched(c) /\ Gates(q, c)
  BY <1>1 DEF Untouched, Gates, Inv, EvidenceInv, RowsOK
<1>3. \/ c.staged.sub.pair = c.loaded.sub.pair
      \/ Client(q) /\ \A r \in Regions : c.loaded.text[r] = << >>
  BY <1>1
<1>6. c \in Transactions
  BY <1>1
<1>5. Change(q, c)
  BY <1>2, <1>3, <1>6, UntouchedChange DEF Sessions
<1>4. \A r \in Regions : ~Creates(c, r)
  BY <1>1 DEF Creates
<1>7. Knows(c) => raw
  BY <1>1 DEF Inv, SourceInv, SourceIsStored, Knows, Transactions, None
<1>8. Begins(q, c)
  BY <1>1, <1>4, <1>5, <1>6, <1>7 DEF Begins
<1> QED  BY <1>1, <1>6, <1>8 DEF Reads

\* Something has been uploaded.
LEMMA Received ==
  ASSUME Inv, db # EmptyDb
  PROVE  db.sub.workflow # None
BY DEF Inv, UploadInv

LEMMA CallsClient ==
  ASSUME NEW q, NEW e, Calls(q, e)
  PROVE  Client(q) /\ session[q] = Idle
BY DEF Calls, Client

LEMMA ConfirmIdentityReads ==
  ASSUME Inv, NEW q \in Requests, NEW x \in Students, ConfirmIdentity(q, x)
  PROVE  Reads(q)
<1>1. PICK S : S = [db EXCEPT !.sub.student = x, !.sub.match = "CONFIRMED",
                          !.sub.workflow = "PROCESSING",
                          !.job["MAPPING"] = EnsuredMapping(@)]
  OBVIOUS
<1>2. /\ S \in Dbs /\ S.region = db.region /\ S.mapping = db.mapping /\ S.link = db.link
      /\ S.text = db.text /\ S.job["NORM"] = db.job["NORM"] /\ S.sub.workflow = "PROCESSING"
      /\ S.sub.pair = db.sub.pair /\ S.sub.transcription = db.sub.transcription
  BY <1>1 DEF Inv, TypeInv, Dbs, Submission, JobStatus, Stage, EnsuredMapping, WorkflowState, None
<1>3. Stages(q, S, {"MAPPING"}) /\ Client(q) /\ db.sub.workflow # None
  BY <1>1, CallsClient DEF ConfirmIdentity
<1> QED  BY <1>2, <1>3, StagesReads DEF Stage, None

LEMMA MarkUnmatchedReads ==
  ASSUME Inv, NEW q \in Requests, MarkUnmatched(q)
  PROVE  Reads(q)
<1>1. PICK S : S = [db EXCEPT !.sub = Unmatched(@)]
  OBVIOUS
<1>2. /\ S \in Dbs /\ S.region = db.region /\ S.mapping = db.mapping /\ S.link = db.link
      /\ S.text = db.text /\ S.job["NORM"] = db.job["NORM"]
      /\ S.sub.workflow = "IDENTITY_REVIEW"
      /\ S.sub.pair = db.sub.pair /\ S.sub.transcription = db.sub.transcription
  BY <1>1 DEF Inv, TypeInv, Dbs, Submission, Unmatched, WorkflowState, None
<1>3. Stages(q, S, {}) /\ Client(q) /\ db.sub.workflow # None
  BY <1>1, CallsClient DEF MarkUnmatched
<1> QED  BY <1>2, <1>3, StagesReads DEF None

LEMMA PutLanguageReads ==
  ASSUME Inv, NEW q \in Requests, NEW pair \in Pairs,
         NEW state \in {"UNKNOWN", "CONFIRMED", "REVIEW_REQUIRED", "UNSUPPORTED"},
         PutLanguage(q, pair, state)
  PROVE  Reads(q)
<1>1. PICK S : S = [db EXCEPT !.sub.pair = pair, !.sub.language_state = state]
  OBVIOUS
<1>2. /\ S \in Dbs /\ S.region = db.region /\ S.mapping = db.mapping /\ S.link = db.link
      /\ S.text = db.text /\ S.job["NORM"] = db.job["NORM"]
      /\ S.sub.workflow = db.sub.workflow
      /\ S.sub.pair = pair /\ S.sub.transcription = db.sub.transcription
  BY <1>1, RowsAssumption DEF Inv, TypeInv, Dbs, Submission, Pair, None
<1>3. /\ Stages(q, S, {}) /\ Client(q) /\ db.sub.workflow # None
      /\ pair # db.sub.pair => \A r \in Regions : db.text[r] = << >>
  BY <1>1, CallsClient DEF PutLanguage, LanguageLocked
<1> QED  BY <1>2, <1>3, StagesReads

LEMMA PrepareMappingReads ==
  ASSUME Inv, NEW q \in Requests, PrepareMapping(q)
  PROVE  Reads(q)
<1>1. PICK S : S = [db EXCEPT !.job["MAPPING"] = EnsuredMapping(@)]
  OBVIOUS
<1>2. /\ S \in Dbs /\ S.region = db.region /\ S.mapping = db.mapping /\ S.link = db.link
      /\ S.text = db.text /\ S.job["NORM"] = db.job["NORM"] /\ S.sub = db.sub
  BY <1>1 DEF Inv, TypeInv, Dbs, JobStatus, Stage, EnsuredMapping, None
<1>3. Stages(q, S, {"MAPPING"}) /\ Client(q) /\ db.sub.match = "CONFIRMED"
  BY <1>1, CallsClient DEF PrepareMapping
<1>4. db # EmptyDb
  BY <1>3 DEF EmptyDb, NoSubmission
<1> QED  BY <1>2, <1>3, <1>4, Received, StagesReads DEF Stage

\* ensure_transcription_job_and_state works on the job and two columns.
LEMMA EnsuredOK ==
  ASSUME NEW d \in Dbs
  PROVE  LET S == EnsuredTranscription(d) IN
         /\ S \in Dbs /\ S.region = d.region /\ S.mapping = d.mapping /\ S.link = d.link
         /\ S.text = d.text /\ S.job["NORM"] = d.job["NORM"]
         /\ S.sub.workflow = d.sub.workflow /\ S.sub.pair = d.sub.pair
         /\ S.sub.transcription = "READY" => d.sub.transcription = "READY"
<1>1. CASE Gated(d.sub)
  BY <1>1 DEF EnsuredTranscription, Dbs, Submission, TranscriptionState
<1>2. ASSUME NEW t \in {"REVIEW_REQUIRED", "QUEUED"}
      PROVE  LET S == [d EXCEPT !.sub.transcription = t] IN
             /\ S \in Dbs /\ S.region = d.region /\ S.mapping = d.mapping /\ S.link = d.link
             /\ S.text = d.text /\ S.job = d.job
             /\ S.sub.workflow = d.sub.workflow /\ S.sub.pair = d.sub.pair
             /\ S.sub.transcription = t
  BY <1>2 DEF Dbs, Submission, TranscriptionState
<1>3. CASE ~Gated(d.sub) /\ d.sub.transcription \in InQueue \cup {"READY"}
  BY <1>3 DEF EnsuredTranscription
<1>4. CASE /\ ~Gated(d.sub) /\ d.sub.transcription \notin InQueue \cup {"READY"}
           /\ ~setting.provider
  <2>1. EnsuredTranscription(d) = [d EXCEPT !.sub.transcription = "REVIEW_REQUIRED"]
    BY <1>4 DEF EnsuredTranscription
  <2> QED  BY <1>2, <2>1
<1>5. CASE /\ ~Gated(d.sub) /\ d.sub.transcription \notin InQueue \cup {"READY"}
           /\ setting.provider /\ Requeued(d)
  <2>1. PICK S : S = [d EXCEPT !.sub.transcription = "QUEUED"]
    OBVIOUS
  <2>2. /\ S \in Dbs /\ S.region = d.region /\ S.mapping = d.mapping /\ S.link = d.link
        /\ S.text = d.text /\ S.job = d.job
        /\ S.sub.workflow = d.sub.workflow /\ S.sub.pair = d.sub.pair
        /\ S.sub.transcription = "QUEUED"
    BY <1>2, <2>1
  <2>3. EnsuredTranscription(d) = [S EXCEPT !.job["TRANSCRIPTION"] = "QUEUED"]
    BY <1>5, <2>1 DEF EnsuredTranscription, Dbs
  <2>4. [S.job EXCEPT !["TRANSCRIPTION"] = "QUEUED"] \in [Stage -> JobStatus]
    BY <2>2 DEF Dbs, JobStatus, Stage
  <2>5. EnsuredTranscription(d) = [S EXCEPT !.job = [@ EXCEPT !["TRANSCRIPTION"] = "QUEUED"]]
    BY <2>3
  <2>6. EnsuredTranscription(d).job["NORM"] = d.job["NORM"]
    BY <2>2, <2>3 DEF Dbs, Stage
  <2> QED  BY <2>2, <2>4, <2>5, <2>6 DEF Dbs
<1>6. CASE /\ ~Gated(d.sub) /\ d.sub.transcription \notin InQueue \cup {"READY"}
           /\ setting.provider /\ ~Requeued(d)
  <2>1. EnsuredTranscription(d) \in {[d EXCEPT !.sub.transcription = "QUEUED"], d}
    BY <1>6 DEF EnsuredTranscription
  <2> QED  BY <1>2, <2>1
<1> QED  BY <1>1, <1>3, <1>4, <1>5, <1>6

LEMMA FinalizeMappingReads ==
  ASSUME Inv, NEW q \in Requests, FinalizeMapping(q)
  PROVE  Reads(q)
<1>1. PICK D : D = [db EXCEPT !.sub.workflow = "READY_FOR_EVALUATION"]
  OBVIOUS
<1>2. /\ D \in Dbs /\ D.region = db.region /\ D.mapping = db.mapping /\ D.link = db.link
      /\ D.text = db.text /\ D.job = db.job /\ D.sub.workflow = "READY_FOR_EVALUATION"
      /\ D.sub.pair = db.sub.pair /\ D.sub.transcription = db.sub.transcription
  BY <1>1 DEF Inv, TypeInv, Dbs, Submission, WorkflowState
<1>3. /\ Client(q) /\ db.sub.workflow # None /\ \A u \in Questions : Resolved(db, u)
      /\ Stages(q, EnsuredTranscription(D),
                IF ReturnsJob(D) THEN {"TRANSCRIPTION"} ELSE {})
  BY <1>1, CallsClient DEF FinalizeMapping, None
<1>4. PICK E : E = IF ReturnsJob(D) THEN {"TRANSCRIPTION"} ELSE {}
  OBVIOUS
<1>5. PICK S : S = EnsuredTranscription(D)
  OBVIOUS
<1>6. /\ S \in Dbs /\ S.region = db.region /\ S.mapping = db.mapping /\ S.link = db.link
      /\ S.text = db.text /\ S.job["NORM"] = db.job["NORM"]
      /\ S.sub.workflow # None /\ S.sub.pair = db.sub.pair
      /\ S.sub.transcription = "READY" => db.sub.transcription = "READY"
  BY <1>2, <1>5, EnsuredOK DEF None
<1>7. Stages(q, S, E) /\ E \in SUBSET Stage /\ "NORM" \notin E
  BY <1>3, <1>4, <1>5 DEF Stage
<1> QED  BY <1>3, <1>6, <1>7, StagesReads

LEMMA PrepareTranscriptionReads ==
  ASSUME Inv, NEW q \in Requests, PrepareTranscription(q)
  PROVE  Reads(q)
<1>1. PICK S : S = EnsuredTranscription(db)
  OBVIOUS
<1>2. PICK E : E = IF ReturnsJob(db) /\ S.job["TRANSCRIPTION"] = "QUEUED"
                   THEN {"TRANSCRIPTION"} ELSE {}
  OBVIOUS
<1>3. /\ Client(q) /\ db.sub.workflow = "READY_FOR_EVALUATION"
      /\ Stages(q, S, E)
  BY <1>1, <1>2, CallsClient DEF PrepareTranscription
<1>4. /\ S \in Dbs /\ S.region = db.region /\ S.mapping = db.mapping /\ S.link = db.link
      /\ S.text = db.text /\ S.job["NORM"] = db.job["NORM"]
      /\ S.sub.workflow = db.sub.workflow /\ S.sub.pair = db.sub.pair
      /\ S.sub.transcription = "READY" => db.sub.transcription = "READY"
  BY <1>1, EnsuredOK DEF Inv, TypeInv
<1>5. E \in SUBSET Stage /\ "NORM" \notin E
  BY <1>2 DEF Stage
<1> QED  BY <1>3, <1>4, <1>5, StagesReads DEF None

LEMMA FinalizeTranscriptionReads ==
  ASSUME Inv, NEW q \in Requests, FinalizeTranscription(q)
  PROVE  Reads(q)
<1>1. PICK S : S = [db EXCEPT !.sub.transcription = "READY"]
  OBVIOUS
<1>2. /\ S \in Dbs /\ S.region = db.region /\ S.mapping = db.mapping /\ S.link = db.link
      /\ S.text = db.text /\ S.job["NORM"] = db.job["NORM"]
      /\ S.sub.workflow = db.sub.workflow /\ S.sub.pair = db.sub.pair
  BY <1>1 DEF Inv, TypeInv, Dbs, Submission, TranscriptionState
<1>3. /\ Stages(q, S, {}) /\ Client(q) /\ db.sub.workflow = "READY_FOR_EVALUATION"
      /\ \A r \in Evidence(db) : Reviewed(db, r)
  BY <1>1, CallsClient DEF FinalizeTranscription
<1> QED  BY <1>2, <1>3, StagesReads DEF None

\* A handler that edits the evidence and leaves the submission as it was.
LEMMA EditReads ==
  ASSUME Inv, NEW q \in Requests, NEW c \in Transactions,
         session' = [session EXCEPT ![q] = c], UNCHANGED <<db, raw, tasks, setting, faults>>,
         Client(q), db.sub.workflow # None, "NORM" \notin c.enqueue,
         c.loaded = db, c.stage = None, ~c.starts,
         c.staged.sub = db.sub, c.staged.job = db.job,
         Texts(q, c), Draws(q, c), Maps(q, c), Links(q, c),
         \A r \in Regions : Creates(c, r) => Unreserved(r)
  PROVE  Reads(q)
<1>1. Speaks(q, c) /\ Gates(q, c)
  BY DEF Speaks, Gates
<1>2. Knows(c) => raw
  BY DEF Inv, SourceInv, SourceIsStored, Knows, Transactions, None
<1>3. Begins(q, c)
  BY <1>1, <1>2 DEF Begins, Change
<1> QED  BY <1>3 DEF Reads

\* A handler that edits rows of regions, and of the mappings they are linked to.
LEMMA StagesEdit ==
  ASSUME Inv, NEW q \in Requests, NEW staged \in Dbs, Stages(q, staged, {}),
         Client(q), db.sub.workflow # None,
         staged.sub = db.sub, staged.job = db.job, staged.link = db.link,
         \A r \in Regions :
           /\ staged.region[r] # db.region[r] \/ staged.text[r] # db.text[r] =>
                db.region[r].source # "DELETED"
           /\ staged.region[r].source = None => db.region[r].source = None
           /\ db.region[r].source = None /\ staged.region[r].source # None => Unreserved(r),
         \A u \in Questions :
           LET old == db.mapping[u] new == staged.mapping[u] IN
           new = old \/ /\ new.by \in {old.by, "HUMAN"}
                        /\ new.state = "CONFIRMED" => new.by = "HUMAN",
         \A c \in Transactions :
           c.loaded = db /\ c.staged = staged /\ c.relink = NoRelink => Texts(q, c)
  PROVE  Reads(q)
<1>1. {} \in SUBSET Stage
  OBVIOUS
<1>2. PICK c \in Transactions :
        /\ session' = [session EXCEPT ![q] = c]
        /\ UNCHANGED <<db, raw, tasks, setting, faults>>
        /\ c.loaded = db /\ c.staged = staged /\ c.enqueue = {}
        /\ c.relink = NoRelink /\ c.stage = None /\ ~c.starts
  BY <1>1, StagedTransaction DEF Inv
<1>3. q \notin Workers
  BY SessionsAssumption
<1>4. Draws(q, c)
  BY <1>2, <1>3 DEF Draws, Touches, Deleted, NoRelink
<1>5. Maps(q, c)
  BY <1>2 DEF Maps
<1>6. Links(q, c)
  BY <1>2 DEF Links
<1>7. Texts(q, c)
  BY <1>2
<1>8. \A r \in Regions : Creates(c, r) => Unreserved(r)
  BY <1>2 DEF Creates
<1>9. c \in Transactions
  BY <1>2
<1> QED  BY <1>2, <1>4, <1>5, <1>6, <1>7, <1>8, <1>9, EditReads

\* The regions stay what they were, deleted or not, and so do the texts.
LEMMA SameTexts ==
  ASSUME NEW s \in Sessions, NEW c \in Transactions, c.staged.text = c.loaded.text,
         \A r \in Regions : Deleted(c.staged, r) = Deleted(c.loaded, r)
  PROVE  Texts(s, c)
BY DEF Texts, Kept

LEMMA DrawnUploaded ==
  ASSUME Inv, NEW r \in Regions, db.region[r].source # None \/ db.pages
  PROVE  db.sub.workflow # None
<1>1. db # EmptyDb
  BY DEF EmptyDb, NoRegion
<1> QED  BY <1>1, Received

LEMMA CreateRegionReads ==
  ASSUME Inv, NEW q \in Requests, NEW r \in Regions, NEW type \in {"ANSWER", "DIAGRAM"},
         CreateRegion(q, r, type)
  PROVE  Reads(q)
<1>1. PICK S : S = [db EXCEPT !.region[r] =
                  [NoRegion EXCEPT !.source = "HUMAN", !.type = type]]
  OBVIOUS
<1>2. Stages(q, S, {}) /\ Client(q) /\ db.pages /\ Unreserved(r)
  BY <1>1, CallsClient DEF CreateRegion
<1>3. db \in Dbs /\ q \in Sessions
  BY DEF Inv, TypeInv, Sessions
<1>4. /\ S \in Dbs /\ S.sub = db.sub /\ S.job = db.job /\ S.link = db.link
      /\ S.mapping = db.mapping /\ S.text = db.text
  BY <1>1, <1>3 DEF Dbs, Region, NoRegion, Box
<1>5. \A x \in Regions : S.region[x] = IF x = r
        THEN [NoRegion EXCEPT !.source = "HUMAN", !.type = type] ELSE db.region[x]
  BY <1>1, <1>3 DEF Dbs
<1>6. /\ db.region[r].source = None /\ S.region[r].source = "HUMAN"
  BY <1>2, <1>5 DEF Unreserved, NoRegion
<1>7. \A x \in Regions : Deleted(S, x) = Deleted(db, x)
  BY <1>5, <1>6 DEF Deleted, None
<1>8. \A c \in Transactions :
           c.loaded = db /\ c.staged = S /\ c.relink = NoRelink => Texts(q, c)
  BY <1>3, <1>4, <1>7, SameTexts
<1>9. \A x \in Regions :
           /\ S.region[x] # db.region[x] \/ S.text[x] # db.text[x] =>
                db.region[x].source # "DELETED"
           /\ S.region[x].source = None => db.region[x].source = None
           /\ db.region[x].source = None /\ S.region[x].source # None => Unreserved(x)
  BY <1>2, <1>4, <1>5, <1>6 DEF None
<1>10. db.sub.workflow # None
  BY <1>2, DrawnUploaded
<1> QED  BY <1>2, <1>4, <1>8, <1>9, <1>10, StagesEdit

\* Only the state of a mapping is reopened, and no mapping is confirmed by it.
LEMMA ReopenedMappings ==
  ASSUME NEW d \in Dbs, NEW r \in Regions
  PROVE  /\ Reopened(d, r) \in [Questions -> Mapping]
         /\ \A u \in Questions : \/ Reopened(d, r)[u] = d.mapping[u]
                                 \/ /\ Reopened(d, r)[u].by = d.mapping[u].by
                                    /\ Reopened(d, r)[u].state # "CONFIRMED"
<1>1. d.mapping \in [Questions -> Mapping] /\ d.link[r] \in Questions \cup {None}
  BY DEF Dbs
<1> QED  BY <1>1 DEF Reopened, Mapping

LEMMA PatchedRegion ==
  ASSUME NEW region \in Region, NEW f \in {"patch_type", "patch_ignored", "patch_box"}
  PROVE  Patched(region, f) \in Region /\ Patched(region, f).source = "HUMAN"
<1>1. CASE f = "patch_type"
  BY <1>1 DEF Patched, Region
<1>2. CASE f = "patch_ignored"
  BY <1>2 DEF Patched, Region
<1>3. CASE f = "patch_box"
  BY <1>3 DEF Patched, Region, Box
<1> QED  BY <1>1, <1>2, <1>3

LEMMA PatchRegionReads ==
  ASSUME Inv, NEW q \in Requests, NEW r \in Regions,
         NEW f \in {"patch_type", "patch_ignored", "patch_box"}, PatchRegion(q, r, f)
  PROVE  Reads(q)
<1>1. PICK S : S = [db EXCEPT !.region[r] = Patched(@, f), !.mapping = Reopened(db, r)]
  OBVIOUS
<1>2. Stages(q, S, {}) /\ Client(q) /\ db.region[r].source \in {"AI", "HUMAN"}
  BY <1>1, CallsClient DEF PatchRegion, Drawn
<1>3. db \in Dbs /\ q \in Sessions /\ db.region[r] \in Region
  BY DEF Inv, TypeInv, Sessions, Dbs
<1>4. PICK P : P = Patched(db.region[r], f)
  OBVIOUS
<1>5. PICK M : M = Reopened(db, r)
  OBVIOUS
<1>6. /\ P \in Region /\ P.source = "HUMAN" /\ M \in [Questions -> Mapping]
      /\ \A u \in Questions : \/ M[u] = db.mapping[u]
                              \/ M[u].by = db.mapping[u].by /\ M[u].state # "CONFIRMED"
  BY <1>3, <1>4, <1>5, PatchedRegion, ReopenedMappings
<1>7. S = [db EXCEPT !.region[r] = P, !.mapping = M]
  BY <1>1, <1>4, <1>5
<1>8. /\ S \in Dbs /\ S.sub = db.sub /\ S.job = db.job /\ S.link = db.link
      /\ S.mapping = M /\ S.text = db.text
  BY <1>7, <1>6, <1>3 DEF Dbs
<1>9. \A x \in Regions : S.region[x] = IF x = r THEN P ELSE db.region[x]
  BY <1>7, <1>3 DEF Dbs
<1>10. \A x \in Regions : Deleted(S, x) = Deleted(db, x)
  BY <1>2, <1>9, <1>6 DEF Deleted
<1>11. \A c \in Transactions :
           c.loaded = db /\ c.staged = S /\ c.relink = NoRelink => Texts(q, c)
  BY <1>3, <1>8, <1>10, SameTexts
<1>12. \A x \in Regions :
           /\ S.region[x] # db.region[x] \/ S.text[x] # db.text[x] =>
                db.region[x].source # "DELETED"
           /\ S.region[x].source = None => db.region[x].source = None
           /\ db.region[x].source = None /\ S.region[x].source # None => Unreserved(x)
  BY <1>2, <1>8, <1>9, <1>6 DEF None
<1>13. db.sub.workflow # None
  BY <1>2, DrawnUploaded DEF None
<1>14. \A u \in Questions :
           LET old == db.mapping[u] new == S.mapping[u] IN
           new = old \/ /\ new.by \in {old.by, "HUMAN"}
                        /\ new.state = "CONFIRMED" => new.by = "HUMAN"
  BY <1>8, <1>6
<1> QED  BY <1>2, <1>8, <1>11, <1>12, <1>13, <1>14, StagesEdit

LEMMA DeleteRegionReads ==
  ASSUME Inv, NEW q \in Requests, NEW r \in Regions, DeleteRegion(q, r)
  PROVE  Reads(q)
<1>1. PICK S : S = [db EXCEPT !.region[r] = [NoRegion EXCEPT !.source = "DELETED"],
                              !.text[r] = << >>]
  OBVIOUS
<1>2. Stages(q, S, {}) /\ Client(q) /\ db.region[r].source \in {"AI", "HUMAN"}
  BY <1>1, CallsClient DEF DeleteRegion, Drawn
<1>3. db \in Dbs /\ q \in Sessions
  BY DEF Inv, TypeInv, Sessions
<1>4. /\ S \in Dbs /\ S.sub = db.sub /\ S.job = db.job /\ S.link = db.link
      /\ S.mapping = db.mapping
  <2>1. << >> \in Seq(Transcription)
    OBVIOUS
  <2>2. PICK R : R = [NoRegion EXCEPT !.source = "DELETED"]
    OBVIOUS
  <2>3. R \in Region
    BY <2>2 DEF Region, NoRegion, Box
  <2>4. S = [db EXCEPT !.region[r] = R, !.text[r] = << >>]
    BY <1>1, <2>2
  <2> QED  BY <1>3, <2>1, <2>3, <2>4 DEF Dbs
<1>5. \A x \in Regions :
        /\ S.region[x] = IF x = r THEN [NoRegion EXCEPT !.source = "DELETED"]
                         ELSE db.region[x]
        /\ S.text[x] = IF x = r THEN << >> ELSE db.text[x]
  BY <1>1, <1>3 DEF Dbs
<1>6. S.region[r].source = "DELETED"
  BY <1>5 DEF NoRegion
<1>8. ASSUME NEW c \in Transactions, c.loaded = db, c.staged = S, c.relink = NoRelink
      PROVE  Texts(q, c)
  <2>1. Erased(q, c, r)
    BY <1>2, <1>4, <1>5, <1>6, <1>8 DEF Erased, Deleted
  <2>2. ASSUME NEW x \in Regions, x # r
        PROVE  Deleted(c.staged, x) = Deleted(c.loaded, x) /\ Kept(c, x)
    BY <1>5, <1>8, <2>2 DEF Deleted, Kept
  <2> QED  BY <2>1, <2>2 DEF Texts
<1>9. \A x \in Regions :
           /\ S.region[x] # db.region[x] \/ S.text[x] # db.text[x] =>
                db.region[x].source # "DELETED"
           /\ S.region[x].source = None => db.region[x].source = None
           /\ db.region[x].source = None /\ S.region[x].source # None => Unreserved(x)
  BY <1>2, <1>5, <1>6 DEF None
<1>10. db.sub.workflow # None
  BY <1>2, DrawnUploaded DEF None
<1> QED  BY <1>2, <1>4, <1>8, <1>9, <1>10, StagesEdit

LEMMA ConfirmMappingReads ==
  ASSUME Inv, NEW q \in Requests, NEW u \in Questions, ConfirmMapping(q, u)
  PROVE  Reads(q)
<1>1. PICK S : S = [db EXCEPT !.mapping[u].state = "CONFIRMED", !.mapping[u].by = "HUMAN"]
  OBVIOUS
<1>2. Stages(q, S, {}) /\ Client(q) /\ db.mapping[u].by # None
  BY <1>1, CallsClient DEF ConfirmMapping, Confirmable
<1>3. db \in Dbs /\ q \in Sessions
  BY DEF Inv, TypeInv, Sessions
<1>4. PICK M : M = [db.mapping[u] EXCEPT !.state = "CONFIRMED", !.by = "HUMAN"]
  OBVIOUS
<1>5. S = [db EXCEPT !.mapping[u] = M]
  BY <1>1, <1>3, <1>4 DEF Dbs
<1>6. M \in Mapping /\ M.by = "HUMAN"
  BY <1>3, <1>4 DEF Dbs, Mapping
<1>7. /\ S \in Dbs /\ S.sub = db.sub /\ S.job = db.job /\ S.link = db.link
      /\ S.region = db.region /\ S.text = db.text
  BY <1>3, <1>5, <1>6 DEF Dbs
<1>8. \A v \in Questions : S.mapping[v] = db.mapping[v] \/ S.mapping[v].by = "HUMAN"
  BY <1>3, <1>5, <1>6 DEF Dbs
<1>9. \A x \in Regions : Deleted(S, x) = Deleted(db, x)
  BY <1>7 DEF Deleted
<1>10. \A c \in Transactions :
           c.loaded = db /\ c.staged = S /\ c.relink = NoRelink => Texts(q, c)
  BY <1>3, <1>7, <1>9, SameTexts
<1>11. db.sub.workflow # None
  <2>1. db # EmptyDb
    BY <1>2 DEF EmptyDb, NoMapping
  <2> QED  BY <2>1, Received
<1> QED  BY <1>2, <1>7, <1>8, <1>10, <1>11, StagesEdit

LEMMA GetCropReads ==
  ASSUME Inv, NEW q \in Requests, NEW r \in Regions, GetCrop(q, r)
  PROVE  Reads(q)
<1>1. PICK S : S = [db EXCEPT !.region[r].crop = db.region[r].box]
  OBVIOUS
<1>2. Stages(q, S, {}) /\ Client(q) /\ db.region[r].source \in {"AI", "HUMAN"}
  BY <1>1, CallsClient DEF GetCrop, Drawn
<1>3. db \in Dbs /\ q \in Sessions
  BY DEF Inv, TypeInv, Sessions
<1>4. PICK R : R = [db.region[r] EXCEPT !.crop = db.region[r].box]
  OBVIOUS
<1>5. S = [db EXCEPT !.region[r] = R]
  BY <1>1, <1>4
<1>6. R \in Region /\ R.source = db.region[r].source
  <2>1. PICK x \in Region : x = db.region[r]
    BY <1>3 DEF Dbs
  <2>2. R = [x EXCEPT !.crop = x.box]
    BY <1>4, <2>1
  <2> QED  BY <2>1, <2>2 DEF Region
<1>7. /\ S \in Dbs /\ S.sub = db.sub /\ S.job = db.job /\ S.link = db.link
      /\ S.mapping = db.mapping /\ S.text = db.text
  <2>1. PICK N : N = [db.region EXCEPT ![r] = R]
    OBVIOUS
  <2>2. N \in [Regions -> Region]
    BY <1>3, <1>6, <2>1 DEF Dbs
  <2>3. S = [db EXCEPT !.region = N]
    BY <1>5, <2>1
  <2> QED  BY <1>3, <2>2, <2>3 DEF Dbs
<1>8. \A x \in Regions : /\ S.region[x].source = db.region[x].source
                         /\ x # r => S.region[x] = db.region[x]
  BY <1>3, <1>5, <1>6 DEF Dbs
<1>9. \A x \in Regions : Deleted(S, x) = Deleted(db, x)
  BY <1>8 DEF Deleted
<1>10. \A c \in Transactions :
           c.loaded = db /\ c.staged = S /\ c.relink = NoRelink => Texts(q, c)
  BY <1>3, <1>7, <1>9, SameTexts
<1>11. db.sub.workflow # None
  BY <1>2, DrawnUploaded DEF None
<1>12. \A x \in Regions :
           /\ S.region[x] # db.region[x] \/ S.text[x] # db.text[x] =>
                db.region[x].source # "DELETED"
           /\ S.region[x].source = None => db.region[x].source = None
           /\ db.region[x].source = None /\ S.region[x].source # None => Unreserved(x)
  BY <1>2, <1>7, <1>8
<1> QED  BY <1>2, <1>7, <1>10, <1>11, <1>12, StagesEdit

\* A function on 1 .. n is a sequence of length n.
LEMMA MakeSeq ==
  ASSUME NEW T, NEW n \in Nat, NEW f \in [1 .. n -> T]
  PROVE  f \in Seq(T) /\ Len(f) = n /\ DOMAIN f = 1 .. n
<1>1. f \in Seq(T)
  BY SeqDef
<1>2. Len(f) \in Nat /\ DOMAIN f = 1 .. Len(f) /\ DOMAIN f = 1 .. n
  BY <1>1, LenProperties
<1> QED  BY <1>1, <1>2

LEMMA SupersededSeq ==
  ASSUME NEW v \in Seq(Transcription)
  PROVE  /\ Superseded(v) \in Seq(Transcription) /\ Len(Superseded(v)) = Len(v)
         /\ \A n \in DOMAIN v : /\ Superseded(v)[n].status = "SUPERSEDED"
                                /\ Superseded(v)[n].source = v[n].source
                                /\ Superseded(v)[n].pair = v[n].pair
<1>1. Len(v) \in Nat /\ DOMAIN v = 1 .. Len(v) /\ v \in [1 .. Len(v) -> Transcription]
  BY LenProperties
<1>2. Superseded(v) \in [1 .. Len(v) -> Transcription]
  BY <1>1 DEF Superseded, Transcription
<1> QED  BY <1>1, <1>2, MakeSeq DEF Superseded, Transcription

LEMMA PutTranscriptionReads ==
  ASSUME Inv, NEW q \in Requests, NEW r \in Regions, NEW o \in BOOLEAN,
         PutTranscription(q, r, o)
  PROVE  Reads(q)
<1> DEFINE x == [source |-> "HUMAN", outcome |-> o, pair |-> db.sub.pair,
                 status |-> "REVIEW_REQUIRED"]
<1>1. PICK S : S = [db EXCEPT !.text[r] =  Append(Superseded(@), x)]
  OBVIOUS
<1>2. Stages(q, S, {}) /\ Client(q) /\ db.region[r].source \in {"AI", "HUMAN"}
  BY <1>1, CallsClient DEF PutTranscription, Drawn
<1>3. db \in Dbs /\ q \in Sessions
  BY DEF Inv, TypeInv, Sessions
<1>4. x \in Transcription
  BY <1>3 DEF Transcription, Dbs, Submission
<1>5. PICK T : T = Append(Superseded(db.text[r]), x)
  OBVIOUS
<1>6. T \in Seq(Transcription)
  BY <1>3, <1>4, <1>5, SupersededSeq DEF Dbs
<1>7. S = [db EXCEPT !.text[r] = T]
  BY <1>1, <1>5
<1>8. /\ S \in Dbs /\ S.sub = db.sub /\ S.job = db.job /\ S.link = db.link
      /\ S.mapping = db.mapping /\ S.region = db.region
  BY <1>3, <1>6, <1>7 DEF Dbs
<1>9. \A y \in Regions : S.text[y] = IF y = r THEN T ELSE db.text[y]
  BY <1>3, <1>7 DEF Dbs
<1>10. ASSUME NEW c \in Transactions, c.loaded = db, c.staged = S, c.relink = NoRelink
       PROVE  Texts(q, c)
  <2>1. PutText(q, c, r)
    <3>1. c.staged.text[r] = Append(Superseded(c.loaded.text[r]), x)
      BY <1>5, <1>9, <1>10
    <3>2. x.source = "HUMAN" /\ x.pair = c.loaded.sub.pair
      BY <1>10
    <3>3. Client(q) /\ c.staged.sub = c.loaded.sub
      BY <1>2, <1>8, <1>10
    <3> QED  BY <1>4, <3>1, <3>2, <3>3 DEF PutText
  <2>2. \A y \in Regions : /\ Deleted(c.staged, y) = Deleted(c.loaded, y)
                           /\ y # r => Kept(c, y)
    BY <1>8, <1>9, <1>10 DEF Deleted, Kept
  <2> QED  BY <2>1, <2>2 DEF Texts
<1>11. db.sub.workflow # None
  BY <1>2, DrawnUploaded DEF None
<1>12. \A y \in Regions :
           /\ S.region[y] # db.region[y] \/ S.text[y] # db.text[y] =>
                db.region[y].source # "DELETED"
           /\ S.region[y].source = None => db.region[y].source = None
           /\ db.region[y].source = None /\ S.region[y].source # None => Unreserved(y)
  BY <1>2, <1>8, <1>9
<1> QED  BY <1>2, <1>8, <1>10, <1>11, <1>12, StagesEdit

LEMMA ConfirmTranscriptionReads ==
  ASSUME Inv, NEW q \in Requests, NEW r \in Regions, NEW n \in DOMAIN db.text[r],
         ConfirmTranscription(q, r, n)
  PROVE  Reads(q)
<1>1. PICK S : S = [db EXCEPT !.text[r][n].status = "CONFIRMED"]
  OBVIOUS
<1>2. Stages(q, S, {}) /\ Client(q) /\ n \in Active(db, r)
  BY <1>1, CallsClient DEF ConfirmTranscription
<1>3. /\ db \in Dbs /\ q \in Sessions /\ db.text[r] \in Seq(Transcription)
      /\ n \in 1 .. Len(db.text[r])
  BY DEF Inv, TypeInv, Sessions, Dbs
<1>4. PICK T : T = [db.text[r] EXCEPT ![n].status = "CONFIRMED"]
  OBVIOUS
<1>5. T \in Seq(Transcription)
  <2>1. PICK e : e = [db.text[r][n] EXCEPT !.status = "CONFIRMED"]
    OBVIOUS
  <2>4. db.text[r][n] \in Transcription
    BY <1>3, ElementOfSeq
  <2>2. e \in Transcription
    BY <2>1, <2>4 DEF Transcription
  <2>3. T = [db.text[r] EXCEPT ![n] = e]
    BY <1>3, <1>4, <2>1, LenProperties
  <2> QED  BY <1>3, <2>2, <2>3, ExceptSeq
<1>6. S = [db EXCEPT !.text[r] = T]
  BY <1>1, <1>3, <1>4 DEF Dbs
<1>8. /\ S \in Dbs /\ S.sub = db.sub /\ S.job = db.job /\ S.link = db.link
      /\ S.mapping = db.mapping /\ S.region = db.region
  BY <1>3, <1>5, <1>6 DEF Dbs
<1>9. \A y \in Regions : S.text[y] = IF y = r THEN T ELSE db.text[y]
  BY <1>3, <1>6 DEF Dbs
<1>10. ASSUME NEW c \in Transactions, c.loaded = db, c.staged = S, c.relink = NoRelink
       PROVE  Texts(q, c)
  <2>1. ConfirmedText(q, c, r)
    <3>1. c.staged.text[r] = [c.loaded.text[r] EXCEPT ![n].status = "CONFIRMED"]
      BY <1>4, <1>9, <1>10
    <3> QED  BY <1>2, <1>10, <3>1 DEF ConfirmedText
  <2>2. \A y \in Regions : /\ Deleted(c.staged, y) = Deleted(c.loaded, y)
                           /\ y # r => Kept(c, y)
    BY <1>8, <1>9, <1>10 DEF Deleted, Kept
  <2> QED  BY <2>1, <2>2 DEF Texts
<1>11. db.text[r] # << >>
  BY <1>3
<1>12. db.sub.workflow # None
  <2>1. db # EmptyDb
    BY <1>11 DEF EmptyDb
  <2> QED  BY <2>1, Received
<1>13. db.region[r].source # "DELETED"
  BY <1>11 DEF Inv, EvidenceInv, RowsOK, Deleted
<1>14. \A y \in Regions :
           /\ S.region[y] # db.region[y] \/ S.text[y] # db.text[y] =>
                db.region[y].source # "DELETED"
           /\ S.region[y].source = None => db.region[y].source = None
           /\ db.region[y].source = None /\ S.region[y].source # None => Unreserved(y)
  BY <1>8, <1>9, <1>13
<1> QED  BY <1>2, <1>8, <1>10, <1>12, <1>14, StagesEdit

LEMMA UpsertMappingReads ==
  ASSUME Inv, NEW q \in Requests, NEW u \in Questions, NEW R \in SUBSET Regions,
         UpsertMapping(q, u, R)
  PROVE  Reads(q)
<1>1. PICK M : M = [by |-> "HUMAN", state |-> "REVIEW_REQUIRED",
                    disposition |-> IF R = {} THEN "BLANK" ELSE "ANSWERED"]
  OBVIOUS
<1>2. PICK S : S = [db EXCEPT !.mapping[u] = M]
  OBVIOUS
<1>4. PICK c : c = [Pending(db, S) EXCEPT !.relink = [question |-> u, regions |-> R]]
  OBVIOUS
<1>3. c = [op |-> "COMMIT", loaded |-> db, staged |-> S, enqueue |-> {},
           relink |-> [question |-> u, regions |-> R], stage |-> None, starts |-> FALSE]
  BY <1>4 DEF Pending
<1>5. /\ session' = [session EXCEPT ![q] = c] /\ UNCHANGED <<db, raw, tasks, setting, faults>>
      /\ Client(q) /\ db.pages /\ \A r \in R : Assignable(r, u)
  BY <1>1, <1>2, <1>4, CallsClient DEF UpsertMapping
<1>6. db \in Dbs /\ M \in Mapping /\ M.by = "HUMAN"
  BY <1>1 DEF Inv, TypeInv, Mapping
<1>7. /\ S \in Dbs /\ S.sub = db.sub /\ S.job = db.job /\ S.link = db.link
      /\ S.region = db.region /\ S.text = db.text
      /\ \A v \in Questions : S.mapping[v] = IF v = u THEN M ELSE db.mapping[v]
  BY <1>2, <1>6 DEF Dbs
<1>8. /\ c \in Transactions /\ c.loaded = db /\ c.staged = S /\ c.enqueue = {}
      /\ c.relink = [question |-> u, regions |-> R] /\ c.stage = None /\ ~c.starts
  BY <1>3, <1>6, <1>7 DEF Transactions
<1>9. q \in Sessions /\ q \notin Workers
  BY SessionsAssumption DEF Sessions
<1>10. Texts(q, c)
  BY <1>7, <1>8 DEF Texts, Kept, Deleted
<1>11. \A r \in R : db.region[r].source \in {"AI", "HUMAN"}
  BY <1>5 DEF Assignable, Drawn
<1>12. Draws(q, c)
  BY <1>7, <1>8, <1>9, <1>11 DEF Draws, Touches, Deleted
<1>13. Maps(q, c)
  BY <1>5, <1>6, <1>7, <1>8 DEF Maps
<1>14. Links(q, c)
  BY <1>5, <1>6, <1>7, <1>8, <1>11 DEF Links, None
<1>15. db.sub.workflow # None
  BY <1>5, DrawnUploaded, RowsAssumption
<1>16. \A r \in Regions : Creates(c, r) => Unreserved(r)
  BY <1>7, <1>8 DEF Creates
<1> QED  BY <1>5, <1>7, <1>8, <1>10, <1>12, <1>13, <1>14, <1>15, <1>16, EditReads

\* Whatever a request reads, it stages a change.
LEMMA RequestReads ==
  ASSUME Inv, NEW q \in Requests, RequestStep(q), ~StartEvaluation(q), ~UploadRead(q)
  PROVE  Reads(q)
BY ConfirmIdentityReads, MarkUnmatchedReads, PutLanguageReads, PrepareMappingReads,
   FinalizeMappingReads, PrepareTranscriptionReads, FinalizeTranscriptionReads,
   CreateRegionReads, PatchRegionReads, DeleteRegionReads, GetCropReads,
   ConfirmMappingReads, UpsertMappingReads, PutTranscriptionReads,
   ConfirmTranscriptionReads DEF RequestStep

---------------------------------------------------------------------------
(* The tasks                                                               *)

\* What a worker holds between its transactions.
LEMMA SeenRows ==
  ASSUME Inv, NEW w \in Workers, session[w].op = "RUN"
  PROVE  /\ session[w].stage \in Stage /\ session[w].sub \in Submission
         /\ session[w].job \in JobStatus /\ session[w].sub.workflow # None
         /\ Seen(w) \in Dbs /\ Seen(w).region = db.region /\ Seen(w).mapping = db.mapping
         /\ Seen(w).link = db.link /\ Seen(w).text = db.text
         /\ Seen(w).sub = session[w].sub /\ Seen(w).pages = db.pages
         /\ \A t \in Stage : t # session[w].stage => Seen(w).job[t] = db.job[t]
<1>1. session[w] \in Runs
  BY DEF Inv, TypeInv, Sessions, States, Waiting, Idle, Enqueues, Transactions
<1>2. session[w].sub.workflow # None
  BY DEF Inv, UploadInv, Sessions
<1>3. db \in Dbs
  BY DEF Inv, TypeInv
<1> QED  BY <1>1, <1>2, <1>3 DEF Seen, Runs, Dbs

\* The end of a task.
LEMMA FinishReads ==
  ASSUME Inv, NEW w \in Workers, session[w].op = "RUN", db.sub.workflow # None,
         NEW staged \in Dbs, NEW enqueue \in SUBSET Stage, Finishes(w, staged, enqueue),
         "NORM" \notin enqueue,
         session[w].stage # "NORM" => staged.job["NORM"] = db.job["NORM"],
         \A r \in Regions : db.region[r].source = None /\ staged.region[r].source # None
                              => Unreserved(r),
         \A c \in Transactions :
           c.loaded = Seen(w) /\ c.staged = staged /\ c.relink = NoRelink => Change(w, c)
  PROVE  Reads(w)
<1>1. PICK c : c = [Pending(Seen(w), staged) EXCEPT !.enqueue = enqueue,
                                                   !.stage = session[w].stage]
  OBVIOUS
<1>2. c = [op |-> "COMMIT", loaded |-> Seen(w), staged |-> staged, enqueue |-> enqueue,
           relink |-> NoRelink, stage |-> session[w].stage, starts |-> FALSE]
  BY <1>1 DEF Pending
<1>3. /\ session' = [session EXCEPT ![w] = c]
      /\ UNCHANGED <<db, raw, tasks, setting, faults>>
  BY <1>1 DEF Finishes
<1>4. c \in Transactions
  BY <1>2, SeenRows DEF Transactions, NoRelink
<1>5. /\ c.loaded = Seen(w) /\ c.staged = staged /\ c.enqueue = enqueue
      /\ c.relink = NoRelink /\ c.stage = session[w].stage /\ ~c.starts
  BY <1>2
<1>6. w \notin Requests /\ w \in Sessions
  BY SessionsAssumption DEF Sessions
<1>7. Knows(c) => raw
  <2>1. session[w].stage = "NORM" => raw
    BY <1>6 DEF Inv, SourceInv, Knows
  <2>2. Knows(c) => session[w].stage = "NORM" \/ db.job["NORM"] # None
    BY <1>2, <1>5, SeenRows DEF Knows, Stage
  <2> QED  BY <2>1, <2>2 DEF Inv, SourceInv, SourceIsStored
<1>8. Change(w, c)
  BY <1>4, <1>5
<1>9. \A r \in Regions : Creates(c, r) => Unreserved(r)
  BY <1>5, SeenRows DEF Creates
<1>10. Begins(w, c)
  BY <1>3, <1>4, <1>5, <1>6, <1>7, <1>8, <1>9, SeenRows DEF Begins
<1> QED  BY <1>3, <1>4, <1>10 DEF Reads

\* A running task's submission has been uploaded.
LEMMA RunUploaded ==
  ASSUME Inv, NEW w \in Sessions, session[w].op = "RUN"
  PROVE  db.sub.workflow # None
BY DEF Inv, UploadInv, Uploads, Transacts

\* The end of a task that leaves the evidence as it was.
LEMMA UntouchedReads ==
  ASSUME Inv, NEW w \in Workers, session[w].op = "RUN",
         NEW staged \in Dbs, NEW enqueue \in SUBSET Stage, Finishes(w, staged, enqueue),
         "NORM" \notin enqueue,
         session[w].stage # "NORM" => staged.job["NORM"] = db.job["NORM"],
         staged.region = db.region, staged.mapping = db.mapping, staged.link = db.link,
         staged.text = db.text, staged.sub.pair = session[w].sub.pair,
         staged.sub.transcription = session[w].sub.transcription,
         staged.sub.workflow \in {session[w].sub.workflow, "IDENTITY_REVIEW"}
  PROVE  Reads(w)
<1>1. ASSUME NEW c \in Transactions, c.loaded = Seen(w), c.staged = staged, c.relink = NoRelink
      PROVE  Change(w, c)
  <2>1. Untouched(c) /\ c.staged.sub.pair = c.loaded.sub.pair
    BY <1>1, SeenRows DEF Untouched
  <2>2. Gates(w, c)
    BY <1>1, SeenRows DEF Gates, None
  <2> QED  BY <1>1, <2>1, <2>2, UntouchedChange DEF Sessions
<1>2. w \in Sessions
  BY DEF Sessions
<1> QED  BY <1>1, <1>2, FinishReads, RunUploaded

LEMMA NormalizePagesReads ==
  ASSUME Inv, NEW w \in Workers, NormalizePages(w)
  PROVE  Reads(w)
<1>1. PICK D : D = Seen(w)
  OBVIOUS
<1>2. PICK S : S = Normalized(D)
  OBVIOUS
<1>3. PICK E : E = IF setting.provider THEN {"IDENTITY"} ELSE {}
  OBVIOUS
<1>4. session[w].op = "RUN" /\ session[w].stage = "NORM" /\ Finishes(w, S, E)
  BY <1>1, <1>2, <1>3 DEF NormalizePages, Running
<1>5. E \in SUBSET Stage /\ "NORM" \notin E
  BY <1>3 DEF Stage
<1>6. D \in Dbs
  BY <1>1, <1>4, SeenRows
<1>7. /\ S \in Dbs /\ S.region = D.region /\ S.mapping = D.mapping /\ S.link = D.link
      /\ S.text = D.text /\ S.sub.pair = D.sub.pair
      /\ S.sub.transcription = D.sub.transcription
      /\ S.sub.workflow \in {D.sub.workflow, "IDENTITY_REVIEW"}
  <2>1. CASE setting.provider
    BY <1>2, <1>6, <2>1 DEF Normalized, Dbs, Submission, JobStatus, Stage
  <2>2. CASE ~setting.provider
    BY <1>2, <1>6, <2>2 DEF Normalized, Dbs, Submission, JobStatus, Stage, WorkflowState
  <2> QED  BY <2>1, <2>2
<1> QED  BY <1>1, <1>4, <1>5, <1>7, SeenRows, UntouchedReads

LEMMA ExtractIdentityReads ==
  ASSUME Inv, NEW w \in Workers, NEW answered \in BOOLEAN, ExtractIdentity(w, answered)
  PROVE  Reads(w)
<1>1. PICK D : D = Seen(w)
  OBVIOUS
<1>2. PICK S : S = [D EXCEPT
       !.job["IDENTITY"] = IF answered THEN "SUCCEEDED" ELSE "FAILED",
       !.sub.match = "REVIEW_REQUIRED", !.sub.workflow = "IDENTITY_REVIEW"]
  OBVIOUS
<1>4. session[w].op = "RUN" /\ session[w].stage = "IDENTITY" /\ Finishes(w, S, {})
  BY <1>1, <1>2 DEF ExtractIdentity, Running
<1>6. D \in Dbs
  BY <1>1, <1>4, SeenRows
<1>7. /\ S \in Dbs /\ S.region = D.region /\ S.mapping = D.mapping /\ S.link = D.link
      /\ S.text = D.text /\ S.sub.pair = D.sub.pair
      /\ S.sub.transcription = D.sub.transcription
      /\ S.sub.workflow = "IDENTITY_REVIEW" /\ S.job["NORM"] = D.job["NORM"]
  BY <1>2, <1>6 DEF Dbs, Submission, JobStatus, Stage, WorkflowState
<1> QED  BY <1>1, <1>4, <1>7, SeenRows, UntouchedReads DEF Stage

LEMMA PrepareMappingFailsReads ==
  ASSUME Inv, NEW w \in Workers, PrepareMappingFails(w)
  PROVE  Reads(w)
<1>1. PICK D : D = Seen(w)
  OBVIOUS
<1>2. PICK S : S = [D EXCEPT !.job["MAPPING"] = "FAILED"]
  OBVIOUS
<1>4. session[w].op = "RUN" /\ session[w].stage = "MAPPING" /\ Finishes(w, S, {})
  BY <1>1, <1>2 DEF PrepareMappingFails, Running
<1>6. D \in Dbs
  BY <1>1, <1>4, SeenRows
<1>7. /\ S \in Dbs /\ S.region = D.region /\ S.mapping = D.mapping /\ S.link = D.link
      /\ S.text = D.text /\ S.sub = D.sub /\ S.job["NORM"] = D.job["NORM"]
  BY <1>2, <1>6 DEF Dbs, JobStatus, Stage
<1> QED  BY <1>1, <1>4, <1>7, SeenRows, UntouchedReads DEF Stage

\* A transaction on what is committed now, that leaves the evidence as it was:
\* a task that starts or fails.
Pends(c) ==
  /\ c.loaded = db /\ c.relink = NoRelink /\ "NORM" \notin c.enqueue
  /\ c.starts => c.stage \in Stage
  /\ c.stage = "NORM" \/ c.staged.job["NORM"] # db.job["NORM"] => raw
  /\ c.staged.region = db.region /\ c.staged.mapping = db.mapping
  /\ c.staged.link = db.link /\ c.staged.text = db.text
  /\ c.staged.sub.pair = db.sub.pair /\ c.staged.sub.workflow # None
  /\ c.staged.sub.workflow \in {db.sub.workflow, "PROCESSING", "IDENTITY_REVIEW", "FAILED"}
  /\ c.staged.sub.transcription \in {db.sub.transcription, "RUNNING", "FAILED"}

LEMMA PendingBegins ==
  ASSUME Inv, NEW s \in Sessions, s \in Requests => Client(s), db.sub.workflow # None,
         NEW c \in Transactions, session' = [session EXCEPT ![s] = c],
         UNCHANGED <<db, raw, setting>>, Pends(c)
  PROVE  Begins(s, c)
<1> USE DEF Pends
<1>1. Untouched(c) /\ Gates(s, c)
  BY DEF Untouched, Gates
<1>2. c.staged.sub.pair = c.loaded.sub.pair
  OBVIOUS
<1>3. Change(s, c)
  BY <1>1, <1>2, UntouchedChange
<1>4. Knows(c) => raw
  BY DEF Inv, SourceInv, SourceIsStored, Knows, Transactions
<1>5. \A r \in Regions : ~Creates(c, r)
  BY DEF Creates
<1> QED  BY <1>3, <1>4, <1>5 DEF Begins

LEMMA StartedRows ==
  ASSUME NEW d \in Dbs, d = db, NEW stage \in Stage
  PROVE  LET S == Started(stage) IN
         /\ S \in Dbs /\ S.region = d.region /\ S.mapping = d.mapping /\ S.link = d.link
         /\ S.text = d.text /\ S.sub.pair = d.sub.pair
         /\ stage # "NORM" => S.job["NORM"] = d.job["NORM"]
         /\ S.sub.workflow \in {d.sub.workflow, "PROCESSING"}
         /\ S.sub.transcription \in {d.sub.transcription, "RUNNING"}
<1>1. CASE stage \in {"NORM", "IDENTITY"}
  BY <1>1 DEF Started, Dbs, Submission, JobStatus, Stage, WorkflowState
<1>2. CASE stage = "MAPPING"
  BY <1>2 DEF Started, Dbs, Submission, JobStatus, Stage
<1>3. CASE stage = "TRANSCRIPTION"
  BY <1>3 DEF Started, Dbs, Submission, JobStatus, Stage, TranscriptionState
<1> QED  BY <1>1, <1>2, <1>3 DEF Stage

\* A task in the broker is of an uploaded submission.
LEMMA TakeBegins ==
  ASSUME Inv, NEW w \in Workers, NEW stage \in Stage, Take(w, stage)
  PROVE  /\ UNCHANGED faults /\ tasks[stage] > 0 /\ tasks' = [tasks EXCEPT ![stage] = @ - 1]
         /\ \/ UNCHANGED <<db, raw, session, setting>>
            \/ \E c \in Transactions : Begins(w, c)
<1>1. /\ session[w] = Idle /\ tasks[stage] > 0
      /\ tasks' = [tasks EXCEPT ![stage] = @ - 1] /\ UNCHANGED <<db, raw, setting, faults>>
  BY DEF Take
<1>2. w \in Sessions /\ w \notin Requests /\ db \in Dbs
  BY SessionsAssumption DEF Sessions, Inv, TypeInv
<1>3. CASE AlreadyDone(stage)
  <2>1. session' = [session EXCEPT ![w] = Idle]
    BY <1>3 DEF Take
  <2>2. session' = session
    BY <1>1, <1>2, <2>1 DEF Inv, TypeInv
  <2> QED  BY <1>1, <2>2
<1>4. CASE ~AlreadyDone(stage)
  <2>1. PICK c : c = [Pending(db, Started(stage)) EXCEPT !.stage = stage, !.starts = TRUE]
    OBVIOUS
  <2>2. c = [op |-> "COMMIT", loaded |-> db, staged |-> Started(stage), enqueue |-> {},
             relink |-> NoRelink, stage |-> stage, starts |-> TRUE]
    BY <2>1 DEF Pending
  <2>3. session' = [session EXCEPT ![w] = c]
    BY <1>4, <2>1 DEF Take
  <2>4. c \in Transactions
    BY <1>2, <2>2, StartedRows DEF Transactions, NoRelink
  <2>5. /\ c.loaded = db /\ c.staged = Started(stage) /\ c.enqueue = {}
        /\ c.relink = NoRelink /\ c.stage = stage /\ c.starts
    BY <2>2
  <2>6. db.sub.workflow # None
    BY <1>1 DEF Inv, UploadInv
  <2>7. stage = "NORM" => raw
    BY <1>1 DEF Inv, SourceInv
  <2>8. /\ c.staged.region = db.region /\ c.staged.mapping = db.mapping
        /\ c.staged.link = db.link /\ c.staged.text = db.text
        /\ c.staged.sub.pair = db.sub.pair
        /\ stage # "NORM" => c.staged.job["NORM"] = db.job["NORM"]
        /\ c.staged.sub.workflow \in {db.sub.workflow, "PROCESSING"}
        /\ c.staged.sub.transcription \in {db.sub.transcription, "RUNNING"}
    BY <1>2, <2>5, StartedRows
  <2>9. Pends(c)
    BY <1>2, <2>5, <2>6, <2>7, <2>8 DEF Pends, None
  <2>10. w \in Requests => Client(w)
    BY <1>2
  <2>11. Begins(w, c)
    BY <1>1, <1>2, <2>3, <2>4, <2>6, <2>9, <2>10, PendingBegins
  <2> QED  BY <1>1, <2>4, <2>11
<1> QED  BY <1>3, <1>4

LEMMA FailingBegins ==
  ASSUME Inv, NEW s \in Sessions, s \in Requests => Client(s), db.sub.workflow # None,
         NEW stage \in Stage \cup {None}, stage = "NORM" => raw,
         session' = [session EXCEPT ![s] = Failing(stage)], UNCHANGED <<db, raw, setting>>
  PROVE  \/ session' = [session EXCEPT ![s] = Idle]
         \/ \E c \in Transactions : Begins(s, c)
<1>1. CASE stage \in {"MAPPING", None}
  BY <1>1 DEF Failing, None
<1>2. CASE stage \in {"NORM", "IDENTITY", "TRANSCRIPTION"}
  <2>1. PICK D : D = [db EXCEPT !.job[stage] = "FAILED"]
    OBVIOUS
  <2>2. PICK S : S = CASE stage = "NORM" -> [D EXCEPT !.sub.workflow = "FAILED"]
               [] stage = "IDENTITY" -> [D EXCEPT !.sub.workflow = "IDENTITY_REVIEW",
                                                  !.sub.match = "REVIEW_REQUIRED"]
               [] stage = "TRANSCRIPTION" -> [D EXCEPT !.sub.transcription = "FAILED"]
    OBVIOUS
  <2>3. db \in Dbs
    BY DEF Inv, TypeInv
  <2>4. /\ D \in Dbs /\ D.region = db.region /\ D.mapping = db.mapping
        /\ D.link = db.link /\ D.text = db.text /\ D.sub = db.sub
        /\ D.job["NORM"] # db.job["NORM"] => stage = "NORM"
    BY <1>2, <2>1, <2>3 DEF Dbs, JobStatus, Stage
  <2>5. Failing(stage) = Pending(db, S)
    <3>1. CASE stage = "NORM"
      BY <2>2, <2>1, <3>1 DEF Failing, None
    <3>2. CASE stage = "IDENTITY"
      BY <2>2, <2>1, <3>2 DEF Failing, None
    <3>3. CASE stage = "TRANSCRIPTION"
      BY <2>2, <2>1, <3>3 DEF Failing, None
    <3> QED  BY <1>2, <3>1, <3>2, <3>3
  <2>6. /\ S \in Dbs /\ S.region = db.region /\ S.mapping = db.mapping /\ S.link = db.link
        /\ S.text = db.text /\ S.sub.pair = db.sub.pair
        /\ S.sub.workflow \in {db.sub.workflow, "IDENTITY_REVIEW", "FAILED"}
        /\ S.sub.transcription \in {db.sub.transcription, "FAILED"}
        /\ S.job["NORM"] # db.job["NORM"] => stage = "NORM"
    <3>1. CASE stage = "NORM"
      BY <2>2, <2>4, <3>1 DEF Dbs, Submission, JobStatus, Stage, WorkflowState
    <3>2. CASE stage = "IDENTITY"
      BY <2>2, <2>4, <3>2 DEF Dbs, Submission, JobStatus, Stage, WorkflowState
    <3>3. CASE stage = "TRANSCRIPTION"
      BY <2>2, <2>4, <3>3 DEF Dbs, Submission, JobStatus, Stage, TranscriptionState
    <3> QED  BY <1>2, <3>1, <3>2, <3>3
  <2>7. PICK c : c = Pending(db, S)
    OBVIOUS
  <2>8. c \in Transactions
    BY <2>3, <2>6, <2>7 DEF Pending, Transactions, NoRelink
  <2>9. /\ c.loaded = db /\ c.staged = S /\ c.enqueue = {} /\ c.relink = NoRelink
        /\ c.stage = None /\ ~c.starts
    BY <2>7 DEF Pending
  <2>10. session' = [session EXCEPT ![s] = c]
    BY <2>5, <2>7
  <2>11. Pends(c)
    BY <2>6, <2>9 DEF Pends, None
  <2>12. Begins(s, c)
    BY <2>8, <2>10, <2>11, PendingBegins
  <2> QED  BY <2>8, <2>12
<1> QED  BY <1>1, <1>2 DEF Stage

\* What the mapping task adds: regions where there are none, mappings and links.
LEMMA WithRegionsRows ==
  ASSUME NEW d \in Dbs, NEW zones \in SUBSET Regions, NEW types \in [zones -> ZoneType]
  PROVE  LET W == WithRegions(d, zones, types) IN
         /\ W \in Dbs /\ W.sub = d.sub /\ W.job = d.job /\ W.mapping = d.mapping
         /\ W.link = d.link /\ W.text = d.text
         /\ \A r \in Regions : /\ r \notin zones => W.region[r] = d.region[r]
                               /\ r \in zones => W.region[r].source = "AI"
<1>1. PICK N : N = [r \in zones |-> [NoRegion EXCEPT !.source = "AI", !.type = types[r]]]
  OBVIOUS
<1>2. \A r \in zones : N[r] \in Region /\ N[r].source = "AI"
  BY <1>1 DEF NoRegion, Region, Box, ZoneType
<1>3. PICK b : b = (d.analysed \/ (setting.provider /\ ~HasRegions(d)))
  OBVIOUS
<1>4. PICK f : f = [r \in Regions |-> IF r \in zones THEN N[r] ELSE d.region[r]]
  OBVIOUS
<1>5. f \in [Regions -> Region] /\ b \in BOOLEAN
  BY <1>2, <1>3, <1>4 DEF Dbs
<1>6. WithRegions(d, zones, types) = [d EXCEPT !.analysed = b, !.region = f]
  BY <1>1, <1>3, <1>4 DEF WithRegions
<1>7. LET W == WithRegions(d, zones, types) IN
      /\ W \in Dbs /\ W.sub = d.sub /\ W.job = d.job /\ W.mapping = d.mapping
      /\ W.link = d.link /\ W.text = d.text /\ W.region = f
  BY <1>5, <1>6 DEF Dbs
<1>8. \A r \in Regions : /\ r \notin zones => f[r] = d.region[r]
                         /\ r \in zones => f[r].source = "AI"
  BY <1>2, <1>4
<1> QED  BY <1>7, <1>8

LEMMA WithMappingsRows ==
  ASSUME NEW d \in Dbs, NEW mapped \in SUBSET Regions, NEW p \in [mapped -> Questions]
  PROVE  LET W == WithMappings(d, p) IN
         /\ W \in Dbs /\ W.sub = d.sub /\ W.job = d.job /\ W.region = d.region
         /\ W.text = d.text
         /\ \A u \in Questions :
              \/ W.mapping[u] = d.mapping[u]
              \/ mapped # {} /\ W.mapping[u].by = "AI" /\ W.mapping[u].state = "REVIEW_REQUIRED"
         /\ \A r \in Regions : \/ W.link[r] = d.link[r]
                               \/ /\ r \in mapped /\ W.link[r] \in Questions
                                  /\ W.mapping[W.link[r]].by = "AI"
<1>1. PICK m : m = [by |-> "AI", state |-> "REVIEW_REQUIRED", disposition |-> "ANSWERED"]
  OBVIOUS
<1>2. m \in Mapping /\ m.by = "AI" /\ m.state = "REVIEW_REQUIRED"
  BY <1>1 DEF Mapping
<1>3. PICK f : f = [u \in Questions |-> IF \E r \in DOMAIN p : p[r] = u THEN m
                                        ELSE d.mapping[u]]
  OBVIOUS
<1>4. PICK g : g = [r \in Regions |-> IF r \in DOMAIN p THEN p[r] ELSE d.link[r]]
  OBVIOUS
<1>5. f \in [Questions -> Mapping] /\ g \in [Regions -> Questions \cup {None}]
  BY <1>2, <1>3, <1>4 DEF Dbs
<1>6. WithMappings(d, p) = [d EXCEPT !.mapping = f, !.link = g]
  BY <1>1, <1>3, <1>4 DEF WithMappings
<1>7. ASSUME NEW u \in Questions
      PROVE  f[u] = d.mapping[u] \/ (mapped # {} /\ f[u] = m)
  BY <1>3
<1>8. \A r \in Regions : g[r] = d.link[r] \/ (r \in mapped /\ g[r] \in Questions /\ f[g[r]] = m)
  BY <1>3, <1>4
<1>9. LET W == WithMappings(d, p) IN
      /\ W \in Dbs /\ W.sub = d.sub /\ W.job = d.job /\ W.region = d.region
      /\ W.text = d.text /\ W.mapping = f /\ W.link = g
  BY <1>5, <1>6 DEF Dbs
<1> QED  BY <1>2, <1>7, <1>8, <1>9

LEMMA PrepareMappingsReads ==
  ASSUME Inv, NEW w \in Workers, NEW zones \in SUBSET Regions, NEW mapped \in SUBSET Regions,
         NEW types \in [zones -> ZoneType], PrepareMappings(w, zones, types, mapped)
  PROVE  Reads(w)
<1>1. PICK D : D = Seen(w)
  OBVIOUS
<1>2. PICK P : P = [D EXCEPT !.job["MAPPING"] = "SUCCEEDED",
         !.sub.workflow = IF @ = "PROCESSING" THEN "MAPPING_REVIEW" ELSE @]
  OBVIOUS
<1>3. PICK W : W = WithRegions(P, zones, types)
  OBVIOUS
<1>4. /\ session[w].op = "RUN" /\ session[w].stage = "MAPPING"
      /\ \A r \in zones : Unreserved(r)
      /\ mapped \subseteq Mappable(W)
      /\ \E p \in [mapped -> Questions] : Finishes(w, WithMappings(W, p), {})
  BY <1>1, <1>2, <1>3 DEF PrepareMappings, Running
<1>5. PICK p \in [mapped -> Questions] : Finishes(w, WithMappings(W, p), {})
  BY <1>4
<1>6. PICK S : S = WithMappings(W, p)
  OBVIOUS
<1>7. D \in Dbs
  BY <1>1, <1>4, SeenRows
<1>8. /\ P \in Dbs /\ P.region = D.region /\ P.mapping = D.mapping /\ P.link = D.link
      /\ P.text = D.text /\ P.sub.pair = D.sub.pair
      /\ P.sub.transcription = D.sub.transcription /\ P.job["NORM"] = D.job["NORM"]
      /\ P.sub.workflow \in {D.sub.workflow, "MAPPING_REVIEW"}
  BY <1>2, <1>7 DEF Dbs, Submission, JobStatus, Stage, WorkflowState
<1>9. /\ W \in Dbs /\ W.sub = P.sub /\ W.job = P.job /\ W.mapping = D.mapping
      /\ W.link = D.link /\ W.text = D.text
      /\ \A r \in Regions : /\ r \notin zones => W.region[r] = D.region[r]
                            /\ r \in zones => W.region[r].source = "AI"
  BY <1>3, <1>8, WithRegionsRows
<1>10. /\ S \in Dbs /\ S.sub = P.sub /\ S.job = P.job /\ S.region = W.region
       /\ S.text = D.text
       /\ \A u \in Questions :
            \/ S.mapping[u] = D.mapping[u]
            \/ mapped # {} /\ S.mapping[u].by = "AI" /\ S.mapping[u].state = "REVIEW_REQUIRED"
       /\ \A r \in Regions : \/ S.link[r] = D.link[r]
                             \/ /\ r \in mapped /\ S.link[r] \in Questions
                                /\ S.mapping[S.link[r]].by = "AI"
  <2>1. W \in Dbs
    BY <1>9
  <2>2. /\ S \in Dbs /\ S.sub = W.sub /\ S.job = W.job /\ S.region = W.region
        /\ S.text = W.text
        /\ \A u \in Questions :
             \/ S.mapping[u] = W.mapping[u]
             \/ mapped # {} /\ S.mapping[u].by = "AI" /\ S.mapping[u].state = "REVIEW_REQUIRED"
        /\ \A r \in Regions : \/ S.link[r] = W.link[r]
                              \/ /\ r \in mapped /\ S.link[r] \in Questions
                                 /\ S.mapping[S.link[r]].by = "AI"
    BY <1>6, <2>1, WithMappingsRows
  <2> QED  BY <1>9, <2>2
<1>11. /\ D.region = db.region /\ D.mapping = db.mapping /\ D.link = db.link
       /\ D.text = db.text /\ D.sub = session[w].sub /\ D.sub.workflow # None
       /\ D.job["NORM"] = db.job["NORM"]
  BY <1>1, <1>4, SeenRows DEF Stage
\* Who maps finds no mapping, and so no link.
<1>12. mapped # {} => \A u \in Questions : db.mapping[u].by = None
  BY <1>4, <1>9, <1>11 DEF Mappable
<1>13. mapped # {} => \A r \in Regions : db.link[r] = None
  <2>1. \A r \in Regions : db.link[r] \in Questions \cup {None}
    BY DEF Inv, TypeInv, Dbs
  <2> QED  BY <1>12, <2>1 DEF Inv, EvidenceInv, RowsOK
<1>14. \A r \in mapped : W.region[r].source \in {"AI", "HUMAN"}
  BY <1>4 DEF Mappable
<1>15. \A r \in zones : db.region[r].source = None
  BY <1>4 DEF Unreserved
<1>16. \A r \in Regions : Deleted(S, r) = Deleted(D, r)
  BY <1>9, <1>10, <1>11, <1>15 DEF Deleted, None
<1>17. ASSUME NEW c \in Transactions, c.loaded = D, c.staged = S, c.relink = NoRelink
       PROVE  Change(w, c)
  <2>1. Texts(w, c)
    BY <1>10, <1>16, <1>17, SameTexts DEF Sessions
  <2>2. Draws(w, c)
    <3> SUFFICES ASSUME NEW r \in Regions
                 PROVE  /\ Touches(c, r) => ~Deleted(c.loaded, r)
                        /\ c.staged.region[r].source = None => c.loaded.region[r].source = None
                        /\ w \in Workers => Creates(c, r)
                                \/ Cropped(c.loaded.region[r], c.staged.region[r])
      BY DEF Draws
    <3>1. CASE r \in zones
      BY <1>9, <1>10, <1>11, <1>15, <1>17, <3>1 DEF Creates, Deleted, None
    <3>2. CASE r \notin zones
      <4>1. c.staged.region[r] = c.loaded.region[r] /\ c.loaded.region[r] \in Region
        BY <1>7, <1>9, <1>10, <1>17, <3>2 DEF Dbs
      <4>2. Cropped(c.loaded.region[r], c.staged.region[r])
        BY <4>1 DEF Cropped, Region
      <4>3. Touches(c, r) => r \in mapped
        BY <1>10, <1>17, <4>1 DEF Touches, NoRelink
      <4>4. r \in mapped => ~Deleted(c.loaded, r)
        BY <1>9, <1>14, <1>17, <3>2 DEF Deleted
      <4> QED  BY <4>1, <4>2, <4>3, <4>4
    <3> QED  BY <3>1, <3>2
  <2>3. Speaks(w, c)
    BY <1>8, <1>10, <1>17 DEF Speaks
  <2>4. Maps(w, c)
    BY <1>10, <1>11, <1>12, <1>17 DEF Maps
  <2>5. Links(w, c)
    <3>1. \A r \in mapped : S.region[r].source # None
      BY <1>10, <1>14 DEF None
    <3> QED  BY <1>10, <1>11, <1>12, <1>13, <1>17, <3>1 DEF Links, None
  <2>6. Gates(w, c)
    BY <1>8, <1>10, <1>11, <1>17 DEF Gates, None
  <2> QED  BY <2>1, <2>2, <2>3, <2>4, <2>5, <2>6 DEF Change
<1>18. \A r \in Regions : db.region[r].source = None /\ S.region[r].source # None
                            => Unreserved(r)
  BY <1>4, <1>9, <1>10, <1>11
<1>19. w \in Sessions /\ {} \in SUBSET Stage
  BY DEF Sessions
<1>20. Finishes(w, S, {}) /\ S.job["NORM"] = db.job["NORM"]
  BY <1>5, <1>6, <1>8, <1>10, <1>11
<1> QED  BY <1>1, <1>4, <1>10, <1>17, <1>18, <1>19, <1>20, RunUploaded, FinishReads

\* What the transcription task adds: crops and the provider's transcriptions.
LEMMA ProposedRows ==
  ASSUME NEW d \in Dbs, NEW asked \in SUBSET Regions, NEW answered \in SUBSET asked,
         NEW W \in {Proposed(d, asked, answered)}
  PROVE  /\ W \in Dbs /\ W.mapping = d.mapping /\ W.link = d.link
         /\ W.job["NORM"] = d.job["NORM"] /\ W.sub.pair = d.sub.pair
         /\ W.sub.workflow = d.sub.workflow /\ W.sub.transcription = "REVIEW_REQUIRED"
         /\ \A r \in Regions :
              /\ r \notin asked => W.region[r] = d.region[r]
              /\ Cropped(d.region[r], W.region[r])
              /\ W.region[r].source = d.region[r].source
         /\ \A r \in Regions :
              \/ r \notin answered /\ W.text[r] = d.text[r]
              \/ /\ r \in answered
                 /\ \E x \in Transcription : x.source = "AI" /\ W.text[r] = Append(d.text[r], x)
<1>1. PICK x : x = [source |-> "AI", outcome |-> TRUE, pair |-> d.sub.pair,
                    status |-> "REVIEW_REQUIRED"]
  OBVIOUS
<1>2. x \in Transcription /\ x.source = "AI"
  BY <1>1 DEF Transcription, Dbs, Submission
<1>3. PICK f : f = [r \in Regions |-> IF r \in asked
                      THEN [d.region[r] EXCEPT !.crop = d.region[r].box] ELSE d.region[r]]
  OBVIOUS
<1>4. PICK g : g = [r \in Regions |-> IF r \in answered THEN Append(d.text[r], x)
                                      ELSE d.text[r]]
  OBVIOUS
<1>5. f \in [Regions -> Region]
  <2>1. ASSUME NEW R \in Region
        PROVE  [R EXCEPT !.crop = R.box] \in Region
    BY DEF Region
  <2>2. \A r \in Regions : d.region[r] \in Region
    BY DEF Dbs
  <2> QED  BY <1>3, <2>1, <2>2
<1>6. g \in [Regions -> Seq(Transcription)]
  <2>1. \A r \in Regions : /\ d.text[r] \in Seq(Transcription)
                           /\ Append(d.text[r], x) \in Seq(Transcription)
    BY <1>2 DEF Dbs
  <2> QED  BY <1>4, <2>1
<1>7. Proposed(d, asked, answered) =
        [d EXCEPT !.job["TRANSCRIPTION"] = "SUCCEEDED",
                  !.sub.transcription = "REVIEW_REQUIRED", !.region = f, !.text = g]
  BY <1>1, <1>3, <1>4 DEF Proposed
<1>8. /\ W \in Dbs /\ W.mapping = d.mapping /\ W.link = d.link
      /\ W.job["NORM"] = d.job["NORM"] /\ W.sub.pair = d.sub.pair
      /\ W.sub.workflow = d.sub.workflow /\ W.sub.transcription = "REVIEW_REQUIRED"
      /\ W.region = f /\ W.text = g
  <2>1. PICK j : j = [d.job EXCEPT !["TRANSCRIPTION"] = "SUCCEEDED"]
    OBVIOUS
  <2>2. PICK s : s = [d.sub EXCEPT !.transcription = "REVIEW_REQUIRED"]
    OBVIOUS
  <2>3. j \in [Stage -> JobStatus] /\ j["NORM"] = d.job["NORM"]
    BY <2>1 DEF Dbs, JobStatus, Stage
  <2>4. /\ s \in Submission /\ s.pair = d.sub.pair /\ s.workflow = d.sub.workflow
        /\ s.transcription = "REVIEW_REQUIRED"
    BY <2>2 DEF Dbs, Submission, TranscriptionState
  <2>5. W = [d EXCEPT !.job = j, !.sub = s, !.region = f, !.text = g]
    BY <1>7, <2>1, <2>2 DEF Dbs
  <2> QED  BY <1>5, <1>6, <2>3, <2>4, <2>5 DEF Dbs
<1>9. \A r \in Regions : /\ r \notin asked => f[r] = d.region[r]
                         /\ Cropped(d.region[r], f[r])
                         /\ f[r].source = d.region[r].source
  BY <1>3 DEF Dbs, Cropped, Region
<1>10. \A r \in Regions : \/ r \notin answered /\ g[r] = d.text[r]
                          \/ r \in answered /\ g[r] = Append(d.text[r], x)
  BY <1>4
<1> QED  BY <1>2, <1>8, <1>9, <1>10

LEMMA TranscribeReads ==
  ASSUME Inv, NEW w \in Workers, NEW answered \in SUBSET Regions, Transcribe(w, answered)
  PROVE  Reads(w)
<1>1. PICK D : D = Seen(w)
  OBVIOUS
<1>2. PICK asked : asked = IF setting.provider /\ ~Gated(session[w].sub)
                           THEN ToTranscribe(db) ELSE {}
  OBVIOUS
<1>3. PICK S : S = Proposed(D, asked, answered)
  OBVIOUS
<1>4. /\ session[w].op = "RUN" /\ session[w].stage = "TRANSCRIPTION"
      /\ answered \subseteq asked /\ Finishes(w, S, {})
  BY <1>1, <1>2, <1>3 DEF Transcribe, Running
<1>5. D \in Dbs /\ asked \in SUBSET Regions
  BY <1>1, <1>2, <1>4, SeenRows DEF ToTranscribe, Evidence
<1>6. /\ S \in Dbs /\ S.mapping = D.mapping /\ S.link = D.link
      /\ S.job["NORM"] = D.job["NORM"] /\ S.sub.pair = D.sub.pair
      /\ S.sub.workflow = D.sub.workflow /\ S.sub.transcription = "REVIEW_REQUIRED"
      /\ \A r \in Regions :
           /\ r \notin asked => S.region[r] = D.region[r]
           /\ Cropped(D.region[r], S.region[r])
           /\ S.region[r].source = D.region[r].source
      /\ \A r \in Regions :
           \/ r \notin answered /\ S.text[r] = D.text[r]
           \/ /\ r \in answered
              /\ \E x \in Transcription : x.source = "AI" /\ S.text[r] = Append(D.text[r], x)
  <2>1. answered \in SUBSET asked
    BY <1>4
  <2>2. S \in {Proposed(D, asked, answered)}
    BY <1>3
  <2> QED  BY <1>5, <2>1, <2>2, ProposedRows
<1>7. /\ D.region = db.region /\ D.mapping = db.mapping /\ D.link = db.link
      /\ D.text = db.text /\ D.sub = session[w].sub /\ D.sub.workflow # None
      /\ D.job["NORM"] = db.job["NORM"]
  BY <1>1, <1>4, SeenRows DEF Stage
<1>8. asked # {} => setting.provider
  BY <1>2
<1>9. ASSUME NEW r \in asked
      PROVE  /\ r \in Regions /\ db.region[r].source \in {"AI", "HUMAN"}
             /\ \A n \in Active(db, r) : db.text[r][n].source = "HUMAN"
  BY <1>2, <1>9 DEF ToTranscribe, Evidence, Inv, EvidenceInv, RowsOK
<1>10. \A r \in Regions : Active(D, r) = Active(db, r)
  BY <1>7 DEF Active
<1>11. ASSUME NEW c \in Transactions, c.loaded = D, c.staged = S, c.relink = NoRelink
       PROVE  Change(w, c)
  <2>1. Texts(w, c)
    <3> SUFFICES ASSUME NEW r \in Regions
                 PROVE  /\ Deleted(c.staged, r) = Deleted(c.loaded, r)
                        /\ Kept(c, r) \/ AnsweredText(w, c, r)
      BY DEF Texts
    <3>1. Deleted(c.staged, r) = Deleted(c.loaded, r)
      BY <1>6, <1>11 DEF Deleted
    <3>2. CASE r \notin answered
      BY <1>6, <1>11, <3>1, <3>2 DEF Kept
    <3>3. CASE r \in answered
      <4>1. \A n \in Active(c.loaded, r) : c.loaded.text[r][n].source = "HUMAN"
        BY <1>4, <1>7, <1>9, <1>10, <1>11, <3>3
      <4>2. \E x \in Transcription : /\ x.source = "AI"
                                     /\ c.staged.text[r] = Append(c.loaded.text[r], x)
        BY <1>6, <1>11, <3>3
      <4>3. setting.provider
        BY <1>4, <1>8, <3>3
      <4> QED  BY <3>1, <4>1, <4>2, <4>3 DEF AnsweredText
    <3> QED  BY <3>2, <3>3
  <2>2. Draws(w, c)
    <3> SUFFICES ASSUME NEW r \in Regions
                 PROVE  /\ Touches(c, r) => ~Deleted(c.loaded, r)
                        /\ c.staged.region[r].source = None => c.loaded.region[r].source = None
                        /\ Cropped(c.loaded.region[r], c.staged.region[r])
      BY DEF Draws
    <3>1. Touches(c, r) => r \in asked
      BY <1>4, <1>6, <1>11 DEF Touches, NoRelink
    <3>2. r \in asked => ~Deleted(c.loaded, r)
      BY <1>7, <1>9, <1>11 DEF Deleted
    <3> QED  BY <1>6, <1>11, <3>1, <3>2
  <2>3. Speaks(w, c) /\ Maps(w, c) /\ Links(w, c)
    BY <1>6, <1>11 DEF Speaks, Maps, Links
  <2>4. Gates(w, c)
    BY <1>6, <1>7, <1>11 DEF Gates
  <2> QED  BY <2>1, <2>2, <2>3, <2>4 DEF Change
<1>12. \A r \in Regions : db.region[r].source = None => S.region[r].source = None
  BY <1>6, <1>7
<1>13. w \in Sessions /\ {} \in SUBSET Stage
  BY DEF Sessions
<1>14. S.job["NORM"] = db.job["NORM"]
  BY <1>6, <1>7
<1> QED  BY <1>1, <1>4, <1>6, <1>11, <1>12, <1>13, <1>14, RunUploaded, FinishReads

LEMMA WorkerReads ==
  ASSUME Inv, NEW w \in Workers, WorkerRuns(w)
  PROVE  Reads(w)
BY NormalizePagesReads, ExtractIdentityReads, PrepareMappingFailsReads,
   PrepareMappingsReads, TranscribeReads DEF WorkerRuns

---------------------------------------------------------------------------
(* What a commit does                                                      *)

\* A flushed row has, column by column, what FlushColumn says.
LEMMA FlushedRegion ==
  ASSUME NEW l \in Region, NEW s \in Region, NEW c \in Region, NEW x \in {FlushRow(l, s, c)}
  PROVE  /\ x \in Region
         /\ x.source = FlushColumn(l.source, s.source, c.source)
         /\ x.type = FlushColumn(l.type, s.type, c.type)
         /\ x.ignored = FlushColumn(l.ignored, s.ignored, c.ignored)
         /\ x.box = FlushColumn(l.box, s.box, c.box)
         /\ x.crop = FlushColumn(l.crop, s.crop, c.crop)
BY DEF FlushRow, FlushColumn, Region

LEMMA FlushedMapping ==
  ASSUME NEW l \in Mapping, NEW s \in Mapping, NEW c \in Mapping, NEW x \in {FlushRow(l, s, c)}
  PROVE  /\ x \in Mapping
         /\ x.by = FlushColumn(l.by, s.by, c.by)
         /\ x.state = FlushColumn(l.state, s.state, c.state)
         /\ x.disposition = FlushColumn(l.disposition, s.disposition, c.disposition)
BY DEF FlushRow, FlushColumn, Mapping

LEMMA FlushedSubmission ==
  ASSUME NEW l \in Submission, NEW s \in Submission, NEW c \in Submission,
         NEW x \in {FlushRow(l, s, c)}
  PROVE  /\ x \in Submission
         /\ x.workflow = FlushColumn(l.workflow, s.workflow, c.workflow)
         /\ x.transcription = FlushColumn(l.transcription, s.transcription, c.transcription)
         /\ x.pair = FlushColumn(l.pair, s.pair, c.pair)
BY DEF FlushRow, FlushColumn, Submission

LEMMA FlushedTranscription ==
  ASSUME NEW l \in Transcription, NEW s \in Transcription, NEW c \in Transcription,
         NEW x \in {FlushRow(l, s, c)}
  PROVE  /\ x \in Transcription
         /\ x.source = FlushColumn(l.source, s.source, c.source)
         /\ x.outcome = FlushColumn(l.outcome, s.outcome, c.outcome)
         /\ x.pair = FlushColumn(l.pair, s.pair, c.pair)
         /\ x.status = FlushColumn(l.status, s.status, c.status)
BY DEF FlushRow, FlushColumn, Transcription

\* A row that was not changed stays what it is by now.
LEMMA UnchangedTranscription ==
  ASSUME NEW l \in Transcription, NEW c \in Transcription
  PROVE  FlushRow(l, l, c) = c
<1>1. PICK x : x = FlushRow(l, l, c)
  OBVIOUS
<1>2. x \in Transcription /\ x.source = c.source /\ x.outcome = c.outcome
      /\ x.pair = c.pair /\ x.status = c.status
  BY <1>1, FlushedTranscription DEF FlushColumn
<1> QED  BY <1>1, <1>2 DEF Transcription

\* The transcriptions T that a commit leaves of those of region r: a client's new
\* one supersedes those it read, a confirmation is of one it read, the provider's
\* is added where nothing was added since, and a deleted region has none.
PutCommits(s, c, r, T) ==
  /\ Client(s) /\ ~Deleted(db, r) /\ c.staged.sub = c.loaded.sub
  /\ Len(db.text[r]) = Len(c.loaded.text[r]) /\ Len(T) = Len(db.text[r]) + 1
  /\ \A n \in 1 .. Len(db.text[r]) :
       /\ T[n].source = db.text[r][n].source /\ T[n].pair = db.text[r][n].pair
       /\ T[n].status = IF c.loaded.text[r][n].status = "SUPERSEDED"
                        THEN db.text[r][n].status ELSE "SUPERSEDED"
  /\ T[Len(T)].source = "HUMAN" /\ T[Len(T)].pair = c.loaded.sub.pair
ConfirmCommits(s, c, r, T) ==
  /\ Client(s) /\ Len(T) = Len(db.text[r])
  /\ \E n \in Active(c.loaded, r) : \A m \in 1 .. Len(db.text[r]) :
       /\ m # n => T[m] = db.text[r][m]
       /\ T[m].source = db.text[r][m].source /\ T[m].pair = db.text[r][m].pair
       /\ T[m].status \in {db.text[r][m].status, "CONFIRMED"}
AnswerCommits(s, c, r, T) ==
  /\ s \in Workers /\ setting.provider /\ ~Deleted(db, r)
  /\ Len(db.text[r]) = Len(c.loaded.text[r])
  /\ \A n \in Active(c.loaded, r) : c.loaded.text[r][n].source = "HUMAN"
  /\ \E x \in Transcription : x.source = "AI" /\ T = Append(db.text[r], x)
TextCommits(s, c, r, T) ==
  \/ T = db.text[r] /\ ~Deleted(c.staged, r)
  \/ T = << >> /\ Deleted(c.staged, r)
  \/ PutCommits(s, c, r, T) /\ ~Deleted(c.staged, r)
  \/ ConfirmCommits(s, c, r, T) /\ ~Deleted(c.staged, r)
  \/ AnswerCommits(s, c, r, T) /\ ~Deleted(c.staged, r)

\* FlushText by its length and its elements.
LEMMA FlushTextRows ==
  ASSUME NEW r \in Regions, NEW l \in Dbs, NEW s \in Dbs, db \in Dbs,
         s.region[r].source # "DELETED",
         \/ Len(s.text[r]) = Len(l.text[r])
         \/ Len(s.text[r]) = Len(l.text[r]) + 1 /\ Len(db.text[r]) = Len(l.text[r]),
         NEW T \in {FlushText(r, l, s, db)}
  PROVE  /\ T \in Seq(Transcription)
         /\ Len(T) = IF Len(s.text[r]) > Len(l.text[r]) THEN Len(db.text[r]) + 1
                     ELSE Len(db.text[r])
         /\ \A n \in 1 .. Len(db.text[r]) :
              T[n] = IF n > Len(l.text[r]) THEN db.text[r][n]
                     ELSE FlushRow(l.text[r][n], s.text[r][n], db.text[r][n])
         /\ Len(s.text[r]) > Len(l.text[r]) => T[Len(T)] = s.text[r][Len(s.text[r])]
<1>1. /\ s.text[r] \in Seq(Transcription) /\ l.text[r] \in Seq(Transcription)
      /\ db.text[r] \in Seq(Transcription)
  BY DEF Dbs
<1> DEFINE N == IF Len(s.text[r]) > Len(l.text[r]) THEN Len(s.text[r]) ELSE Len(db.text[r])
<1>2. N \in Nat /\ N = IF Len(s.text[r]) > Len(l.text[r]) THEN Len(db.text[r]) + 1
                       ELSE Len(db.text[r])
  BY <1>1, LenProperties
<1>3. T = [n \in 1 .. N |-> IF n > Len(s.text[r]) THEN db.text[r][n]
             ELSE IF n > Len(l.text[r]) THEN s.text[r][n]
             ELSE FlushRow(l.text[r][n], s.text[r][n], db.text[r][n])]
  BY DEF FlushText
<1>4. ASSUME NEW n \in 1 .. N
      PROVE  T[n] \in Transcription
  <2>1. CASE n > Len(s.text[r])
    <3>1. n \in 1 .. Len(db.text[r])
      BY <1>1, <1>2, <2>1, LenProperties
    <3> QED  BY <1>1, <1>3, <2>1, <3>1, ElementOfSeq
  <2>2. CASE n <= Len(s.text[r]) /\ n > Len(l.text[r])
    <3>1. n \in 1 .. Len(s.text[r]) /\ ~(n > Len(s.text[r]))
      BY <1>1, <2>2, LenProperties
    <3> QED  BY <1>1, <1>3, <2>2, <3>1, ElementOfSeq
  <2>3. CASE n <= Len(s.text[r]) /\ n <= Len(l.text[r])
    <3>1. /\ n \in 1 .. Len(s.text[r]) /\ n \in 1 .. Len(l.text[r])
          /\ n \in 1 .. Len(db.text[r])
          /\ ~(n > Len(s.text[r])) /\ ~(n > Len(l.text[r]))
      BY <1>1, <1>2, <2>3, LenProperties
    <3>2. /\ l.text[r][n] \in Transcription /\ s.text[r][n] \in Transcription
          /\ db.text[r][n] \in Transcription
      BY <1>1, <3>1, ElementOfSeq
    <3>3. T[n] = FlushRow(l.text[r][n], s.text[r][n], db.text[r][n])
      BY <1>3, <3>1
    <3> QED  BY <3>2, <3>3, FlushedTranscription
  <2> QED  BY <1>1, <1>2, <2>1, <2>2, <2>3, LenProperties
<1>5. T \in [1 .. N -> Transcription]
  <2> HIDE DEF N
  <2> QED  BY <1>3, <1>4
<1>6. T \in Seq(Transcription) /\ Len(T) = N
  <2>1. N \in Nat
    BY <1>2
  <2> HIDE DEF N
  <2>2. PICK f \in [1 .. N -> Transcription] : f = T
    BY <1>5
  <2>3. f \in Seq(Transcription) /\ Len(f) = N
    BY <2>1, MakeSeq
  <2> QED  BY <2>2, <2>3
<1>7. ASSUME NEW n \in 1 .. Len(db.text[r])
      PROVE  T[n] = IF n > Len(l.text[r]) THEN db.text[r][n]
                    ELSE FlushRow(l.text[r][n], s.text[r][n], db.text[r][n])
  <2>1. n \in 1 .. N
    BY <1>1, <1>2, LenProperties
  <2>2. n > Len(l.text[r]) => n > Len(s.text[r])
    BY <1>1, <1>2, LenProperties
  <2>4. Len(s.text[r]) \in Nat /\ Len(l.text[r]) \in Nat /\ Len(db.text[r]) \in Nat
    BY <1>1, LenProperties
  <2>3. n > Len(s.text[r]) => n > Len(l.text[r])
    BY <2>4
  <2> HIDE DEF N
  <2> QED  BY <1>3, <2>1, <2>2, <2>3
<1>8. ASSUME Len(s.text[r]) > Len(l.text[r])
      PROVE  T[Len(T)] = s.text[r][Len(s.text[r])]
  <2>1. Len(T) = Len(s.text[r]) /\ Len(T) \in 1 .. N /\ ~(Len(T) > Len(s.text[r]))
    BY <1>1, <1>2, <1>6, <1>8, LenProperties
  <2> HIDE DEF N
  <2> QED  BY <1>3, <1>8, <2>1
<1> QED  BY <1>2, <1>6, <1>7, <1>8

\* No transcription was added, or the next one.
LEMMA FlushTextSame ==
  ASSUME NEW r \in Regions, NEW l \in Dbs, NEW s \in Dbs, db \in Dbs,
         s.region[r].source # "DELETED", Len(s.text[r]) = Len(l.text[r]),
         NEW T \in {FlushText(r, l, s, db)}
  PROVE  /\ T \in Seq(Transcription) /\ Len(T) = Len(db.text[r])
         /\ \A n \in 1 .. Len(db.text[r]) :
              T[n] = IF n > Len(l.text[r]) THEN db.text[r][n]
                     ELSE FlushRow(l.text[r][n], s.text[r][n], db.text[r][n])
<1>1. Len(l.text[r]) \in Nat
  BY LenProperties DEF Dbs
<1>2. ~(Len(s.text[r]) > Len(l.text[r]))
  BY <1>1
<1> QED  BY <1>2, FlushTextRows

LEMMA FlushTextNext ==
  ASSUME NEW r \in Regions, NEW l \in Dbs, NEW s \in Dbs, db \in Dbs,
         s.region[r].source # "DELETED", Len(s.text[r]) = Len(l.text[r]) + 1,
         Len(db.text[r]) = Len(l.text[r]),
         NEW T \in {FlushText(r, l, s, db)}
  PROVE  /\ T \in Seq(Transcription) /\ Len(T) = Len(db.text[r]) + 1
         /\ \A n \in 1 .. Len(db.text[r]) :
              T[n] = IF n > Len(l.text[r]) THEN db.text[r][n]
                     ELSE FlushRow(l.text[r][n], s.text[r][n], db.text[r][n])
         /\ T[Len(T)] = s.text[r][Len(s.text[r])]
<1>1. Len(l.text[r]) \in Nat
  BY LenProperties DEF Dbs
<1>2. Len(s.text[r]) > Len(l.text[r])
  BY <1>1
<1> QED  BY <1>2, FlushTextRows

\* A transaction that is about to commit, and no constraint is in its way.
Ready(s) == Transacts(s) /\ ~Conflict(session[s])

LEMMA ReadyChange ==
  ASSUME TypeInv, EvidenceInv, NEW s \in Sessions, Ready(s)
  PROVE  /\ session[s] \in Transactions /\ session[s].loaded \in Dbs
         /\ session[s].staged \in Dbs /\ db \in Dbs
         /\ Change(s, session[s]) /\ Since(session[s])
<1>1. session[s] \in Transactions
  BY DEF TypeInv, Ready, Transacts, States, Waiting, Idle, Enqueues, Runs
<1>2. PICK c \in {session[s]} : TRUE
  OBVIOUS
<1>3. Change(s, c) /\ Since(c)
  BY <1>2 DEF EvidenceInv, Ready
<1>4. c = session[s]
  BY <1>2
<1> QED  BY <1>1, <1>3, <1>4 DEF Transactions, TypeInv

\* A row that the transaction changed has not been deleted meanwhile.
LEMMA TouchedExists ==
  ASSUME TypeInv, EvidenceInv, NEW s \in Sessions, Ready(s), NEW r \in Regions,
         Touches(session[s], r), ~Deleted(session[s].staged, r)
  PROVE  ~Deleted(db, r) /\ ~Deleted(session[s].loaded, r)
<1>1. ~Deleted(session[s].loaded, r)
  BY ReadyChange DEF Change, Draws
<1> QED  BY <1>1 DEF Ready, Conflict, RowGone, Touches, Deleted

\* The transcription that a client put or the provider answered is the next of
\* those that were read, and of those there are.
LEMMA AppendsNext ==
  ASSUME TypeInv, EvidenceInv, NEW s \in Sessions, Ready(s), NEW r \in Regions,
         ~Deleted(session[s].staged, r),
         Len(session[s].staged.text[r]) = Len(session[s].loaded.text[r]) + 1
  PROVE  ~Deleted(db, r) /\ Len(db.text[r]) = Len(session[s].loaded.text[r])
<1> DEFINE c == session[s]
<1>1. /\ c.loaded.text[r] \in Seq(Transcription) /\ c.staged.text[r] \in Seq(Transcription)
      /\ db.text[r] \in Seq(Transcription)
  BY ReadyChange DEF Dbs
<1>2. /\ Len(c.loaded.text[r]) \in Nat /\ Len(c.staged.text[r]) \in Nat
      /\ Len(db.text[r]) \in Nat
  BY <1>1, LenProperties
<1>3. c.staged.text[r] # c.loaded.text[r]
  BY <1>2
<1>4. ~Deleted(db, r)
  BY <1>3, TouchedExists DEF Touches
<1>5. Len(c.loaded.text[r]) <= Len(db.text[r])
  BY <1>4, ReadyChange DEF Since
<1>6. ~(Len(db.text[r]) >= Len(c.staged.text[r]))
  <2>1. ~VersionTaken(c)
    BY DEF Ready, Conflict
  <2>2. Len(c.staged.text[r]) > Len(c.loaded.text[r]) =>
          ~(Len(db.text[r]) >= Len(c.staged.text[r]))
    BY <2>1 DEF VersionTaken
  <2>3. ASSUME NEW a \in Nat, NEW b \in Nat, a = b + 1
        PROVE  a > b
    BY <2>3
  <2>4. Len(c.staged.text[r]) > Len(c.loaded.text[r])
    BY <1>2, <2>3
  <2> QED  BY <2>2, <2>4
<1>7. ASSUME NEW a \in Nat, NEW b \in Nat, a <= b, ~(b >= a + 1)
      PROVE  a = b
  BY <1>7
<1>8. Len(c.staged.text[r]) = Len(c.loaded.text[r]) + 1
  OBVIOUS
<1> QED  BY <1>2, <1>4, <1>5, <1>6, <1>7, <1>8

\* Transcriptions that a transaction left alone are left alone by its flush.
LEMMA FlushTextKept ==
  ASSUME NEW r \in Regions, NEW l \in Dbs, NEW s \in Dbs, db \in Dbs,
         s.region[r].source # "DELETED", s.text[r] = l.text[r],
         NEW T \in {FlushText(r, l, s, db)}
  PROVE  T \in Seq(Transcription) /\ T = db.text[r]
<1> DEFINE old == l.text[r]
           cur == db.text[r]
<1>1. old \in Seq(Transcription) /\ cur \in Seq(Transcription)
  BY DEF Dbs
<1>2. /\ Len(old) \in Nat /\ Len(cur) \in Nat
      /\ DOMAIN old = 1 .. Len(old) /\ DOMAIN cur = 1 .. Len(cur)
  BY <1>1, LenProperties
<1>3. /\ T \in Seq(Transcription) /\ Len(T) = Len(cur)
      /\ \A n \in 1 .. Len(cur) :
           T[n] = IF n > Len(old) THEN cur[n] ELSE FlushRow(old[n], old[n], cur[n])
  <2>1. Len(s.text[r]) = Len(l.text[r])
    OBVIOUS
  <2> QED  BY <2>1, FlushTextSame
<1>4. ASSUME NEW n \in 1 .. Len(cur)
      PROVE  T[n] = cur[n]
  <2>1. CASE n > Len(old)
    BY <1>3, <2>1
  <2>2. CASE ~(n > Len(old))
    <3>1. n \in 1 .. Len(old)
      BY <1>2, <2>2
    <3>2. old[n] \in Transcription /\ cur[n] \in Transcription
      BY <1>1, <3>1, ElementOfSeq
    <3>3. T[n] = FlushRow(old[n], old[n], cur[n])
      BY <1>3, <2>2
    <3> QED  BY <3>2, <3>3, UnchangedTranscription
  <2> QED  BY <2>1, <2>2
<1> QED  BY <1>1, <1>3, <1>4, SeqEqual

\* What a committed transaction leaves of a region's transcriptions: its own
\* write of them, or what the database held.
LEMMA FlushTexts ==
  ASSUME TypeInv, EvidenceInv, NEW s \in Sessions, Ready(s), NEW r \in Regions,
         NEW T \in {FlushText(r, session[s].loaded, session[s].staged, db)}
  PROVE  T \in Seq(Transcription) /\ TextCommits(s, session[s], r, T)
<1> DEFINE c == session[s]
           l == c.loaded.text[r]
           st == c.staged.text[r]
           cur == db.text[r]
<1>1. /\ c \in Transactions /\ c.loaded \in Dbs /\ c.staged \in Dbs /\ db \in Dbs
      /\ Texts(s, c)
  BY ReadyChange DEF Change
<1>2. l \in Seq(Transcription) /\ st \in Seq(Transcription) /\ cur \in Seq(Transcription)
  BY <1>1 DEF Dbs
<1>3. /\ Len(l) \in Nat /\ Len(st) \in Nat /\ Len(cur) \in Nat
      /\ DOMAIN l = 1 .. Len(l) /\ DOMAIN cur = 1 .. Len(cur)
  BY <1>2, LenProperties
<1>4. CASE Deleted(c.staged, r)
  BY <1>4 DEF FlushText, Deleted, TextCommits
<1>5. CASE ~Deleted(c.staged, r)
  <2>1. Kept(c, r) \/ PutText(s, c, r) \/ ConfirmedText(s, c, r) \/ AnsweredText(s, c, r)
    BY <1>1, <1>5 DEF Texts, Erased
  <2>2. c.staged.region[r].source # "DELETED"
    BY <1>5 DEF Deleted
  <2>3. CASE Kept(c, r)
    <3>1. c.staged.text[r] = c.loaded.text[r]
      BY <2>3 DEF Kept
    <3>2. T \in Seq(Transcription) /\ T = db.text[r]
      BY <1>1, <2>2, <3>1, FlushTextKept
    <3> QED  BY <1>5, <3>2 DEF TextCommits
  <2>4. CASE PutText(s, c, r)
    <3>1. PICK x \in Transcription :
            /\ x.source = "HUMAN" /\ x.pair = c.loaded.sub.pair
            /\ st = Append(Superseded(l), x)
      BY <2>4 DEF PutText
    <3>2. Client(s) /\ c.staged.sub = c.loaded.sub
      BY <2>4 DEF PutText
    <3>3. /\ Superseded(l) \in Seq(Transcription) /\ Len(Superseded(l)) = Len(l)
          /\ \A n \in DOMAIN l : /\ Superseded(l)[n].status = "SUPERSEDED"
                                 /\ Superseded(l)[n].source = l[n].source
                                 /\ Superseded(l)[n].pair = l[n].pair
      BY <1>2, SupersededSeq
    <3>4. /\ Len(st) = Len(l) + 1 /\ st[Len(st)] = x
          /\ \A n \in 1 .. Len(l) : st[n] = Superseded(l)[n]
      <4>1. PICK v \in Seq(Transcription) : v = Superseded(l)
        BY <3>3
      <4>2. Len(v) = Len(l) /\ st = Append(v, x)
        BY <3>1, <3>3, <4>1
      <4> HIDE DEF st, l
      <4>3. Len(Append(v, x)) = Len(v) + 1
        BY <4>1
      <4>4. Append(v, x)[Len(v) + 1] = x
        BY <4>1
      <4>5. \A n \in 1 .. Len(v) : Append(v, x)[n] = v[n]
        BY <4>1
      <4> QED  BY <4>1, <4>2, <4>3, <4>4, <4>5
    <3>5. ~Deleted(db, r) /\ Len(cur) = Len(l)
      BY <1>5, <3>4, AppendsNext
    <3>6. /\ T \in Seq(Transcription) /\ Len(T) = Len(cur) + 1
          /\ \A n \in 1 .. Len(cur) :
               T[n] = IF n > Len(l) THEN cur[n] ELSE FlushRow(l[n], st[n], cur[n])
          /\ T[Len(T)] = x
      <4>1. /\ Len(c.staged.text[r]) = Len(c.loaded.text[r]) + 1
            /\ Len(db.text[r]) = Len(c.loaded.text[r])
            /\ c.staged.text[r][Len(c.staged.text[r])] = x
        BY <3>4, <3>5
      <4>2. /\ T \in Seq(Transcription) /\ Len(T) = Len(db.text[r]) + 1
            /\ \A n \in 1 .. Len(db.text[r]) :
                 T[n] = IF n > Len(c.loaded.text[r]) THEN db.text[r][n]
                        ELSE FlushRow(c.loaded.text[r][n], c.staged.text[r][n], db.text[r][n])
            /\ T[Len(T)] = c.staged.text[r][Len(c.staged.text[r])]
        <5>1. T \in {FlushText(r, c.loaded, c.staged, db)}
          OBVIOUS
        <5> HIDE DEF c
        <5> QED  BY <1>1, <2>2, <4>1, <5>1, FlushTextNext
      <4> QED  BY <4>1, <4>2
    <3>7. ASSUME NEW n \in 1 .. Len(cur)
          PROVE  /\ T[n].source = cur[n].source /\ T[n].pair = cur[n].pair
                 /\ T[n].status = IF l[n].status = "SUPERSEDED" THEN cur[n].status
                                  ELSE "SUPERSEDED"
      <4>1. n \in 1 .. Len(l) /\ ~(n > Len(l)) /\ n \in 1 .. Len(st)
        BY <1>3, <3>4, <3>5
      <4>2. l[n] \in Transcription /\ st[n] \in Transcription /\ cur[n] \in Transcription
        BY <1>2, <4>1, ElementOfSeq
      <4>3. T[n] = FlushRow(l[n], st[n], cur[n])
        BY <3>6, <4>1
      <4>4. /\ st[n].status = "SUPERSEDED" /\ st[n].source = l[n].source
            /\ st[n].pair = l[n].pair
        BY <1>3, <3>3, <3>4, <4>1
      <4> HIDE DEF l, st, cur
      <4> QED  BY <4>2, <4>3, <4>4, FlushedTranscription DEF FlushColumn
    <3>8. PutCommits(s, c, r, T)
      BY <3>1, <3>2, <3>5, <3>6, <3>7 DEF PutCommits
    <3> QED  BY <1>5, <3>6, <3>8 DEF TextCommits
  <2>5. CASE ConfirmedText(s, c, r)
    <3>1. PICK n \in Active(c.loaded, r) : st = [l EXCEPT ![n].status = "CONFIRMED"]
      BY <2>5 DEF ConfirmedText
    <3>2. n \in DOMAIN l
      BY <3>1 DEF Active
    <3>3. Client(s)
      BY <2>5 DEF ConfirmedText
    <3>4. Len(st) = Len(l)
      <4>1. DOMAIN st = DOMAIN l
        BY <3>1
      <4>2. DOMAIN st = 1 .. Len(st)
        BY <1>2, LenProperties
      <4> QED  BY <1>3, <4>1, <4>2
    <3>5. /\ T \in Seq(Transcription) /\ Len(T) = Len(cur)
          /\ \A m \in 1 .. Len(cur) :
               T[m] = IF m > Len(l) THEN cur[m] ELSE FlushRow(l[m], st[m], cur[m])
      <4>1. Len(c.staged.text[r]) = Len(c.loaded.text[r])
        BY <3>4
      <4> QED  BY <1>1, <2>2, <4>1, FlushTextSame
    <3>6. ASSUME NEW m \in 1 .. Len(cur)
          PROVE  /\ m # n => T[m] = cur[m]
                 /\ T[m].source = cur[m].source /\ T[m].pair = cur[m].pair
                 /\ T[m].status \in {cur[m].status, "CONFIRMED"}
      <4>1. CASE m > Len(l)
        BY <3>5, <4>1
      <4>2. CASE ~(m > Len(l))
        <5>1. m \in 1 .. Len(l) /\ m \in 1 .. Len(st)
          BY <1>3, <3>4, <4>2
        <5>2. l[m] \in Transcription /\ st[m] \in Transcription /\ cur[m] \in Transcription
          BY <1>2, <5>1, ElementOfSeq
        <5>3. T[m] = FlushRow(l[m], st[m], cur[m])
          BY <3>5, <4>2
        <5>4. CASE m # n
          <6>1. st[m] = l[m]
            BY <1>3, <3>1, <5>1, <5>4
          <6> QED  BY <5>2, <5>3, <6>1, UnchangedTranscription
        <5>5. CASE m = n
          <6>1. st[m] = [l[m] EXCEPT !.status = "CONFIRMED"]
            BY <1>3, <3>1, <5>1, <5>5
          <6>2. /\ st[m].source = l[m].source /\ st[m].pair = l[m].pair
                /\ st[m].status = "CONFIRMED"
            <7> HIDE DEF l, st, cur
            <7> QED  BY <5>2, <6>1 DEF Transcription
          <6> HIDE DEF l, st, cur
          <6> QED  BY <5>2, <5>3, <5>5, <6>2, FlushedTranscription DEF FlushColumn
        <5> QED  BY <5>4, <5>5
      <4> QED  BY <4>1, <4>2
    <3>7. ConfirmCommits(s, c, r, T)
      BY <3>1, <3>3, <3>5, <3>6 DEF ConfirmCommits
    <3> QED  BY <1>5, <3>5, <3>7 DEF TextCommits
  <2>6. CASE AnsweredText(s, c, r)
    <3>1. PICK x \in Transcription : x.source = "AI" /\ st = Append(l, x)
      BY <2>6 DEF AnsweredText
    <3>2. /\ s \in Workers /\ setting.provider
          /\ \A n \in Active(c.loaded, r) : l[n].source = "HUMAN"
      BY <2>6 DEF AnsweredText
    <3>4. /\ Len(st) = Len(l) + 1 /\ st[Len(st)] = x
          /\ \A n \in 1 .. Len(l) : st[n] = l[n]
      <4> HIDE DEF l, st, cur
      <4> QED  BY <1>2, <1>3, <3>1
    <3>5. ~Deleted(db, r) /\ Len(cur) = Len(l)
      BY <1>5, <3>4, AppendsNext
    <3>6. /\ T \in Seq(Transcription) /\ Len(T) = Len(cur) + 1
          /\ \A n \in 1 .. Len(cur) :
               T[n] = IF n > Len(l) THEN cur[n] ELSE FlushRow(l[n], st[n], cur[n])
          /\ T[Len(T)] = x
      <4>1. /\ Len(c.staged.text[r]) = Len(c.loaded.text[r]) + 1
            /\ Len(db.text[r]) = Len(c.loaded.text[r])
            /\ c.staged.text[r][Len(c.staged.text[r])] = x
        BY <3>4, <3>5
      <4>2. /\ T \in Seq(Transcription) /\ Len(T) = Len(db.text[r]) + 1
            /\ \A n \in 1 .. Len(db.text[r]) :
                 T[n] = IF n > Len(c.loaded.text[r]) THEN db.text[r][n]
                        ELSE FlushRow(c.loaded.text[r][n], c.staged.text[r][n], db.text[r][n])
            /\ T[Len(T)] = c.staged.text[r][Len(c.staged.text[r])]
        <5>1. T \in {FlushText(r, c.loaded, c.staged, db)}
          OBVIOUS
        <5> HIDE DEF c
        <5> QED  BY <1>1, <2>2, <4>1, <5>1, FlushTextNext
      <4> QED  BY <4>1, <4>2
    <3>7. ASSUME NEW n \in 1 .. Len(cur)
          PROVE  T[n] = cur[n]
      <4>1. n \in 1 .. Len(l) /\ ~(n > Len(l))
        BY <1>3, <3>5
      <4>2. l[n] \in Transcription /\ cur[n] \in Transcription
        BY <1>2, <4>1, ElementOfSeq
      <4>3. T[n] = FlushRow(l[n], l[n], cur[n])
        BY <3>4, <3>6, <4>1
      <4> QED  BY <4>2, <4>3, UnchangedTranscription
    <3>8. Append(cur, x) \in Seq(Transcription) /\ Len(Append(cur, x)) = Len(cur) + 1
          /\ Append(cur, x)[Len(cur) + 1] = x
          /\ \A n \in 1 .. Len(cur) : Append(cur, x)[n] = cur[n]
      BY <1>2, <1>3
    <3>9. \A n \in 1 .. Len(T) : T[n] = Append(cur, x)[n]
      BY <1>3, <3>6, <3>7, <3>8
    <3>10. T = Append(cur, x)
      BY <3>6, <3>8, <3>9, SeqEqual
    <3>11. AnswerCommits(s, c, r, T)
      BY <3>1, <3>2, <3>5, <3>10 DEF AnswerCommits
    <3> QED  BY <1>5, <3>6, <3>11 DEF TextCommits
  <2> QED  BY <2>1, <2>3, <2>4, <2>5, <2>6
<1> QED
  <2>1. << >> \in Seq(Transcription)
    OBVIOUS
  <2>2. Deleted(c.staged, r) => T = << >>
    BY DEF FlushText, Deleted
  <2> QED  BY <1>4, <1>5, <2>1, <2>2

\* The rows after a commit.
LEMMA CommitRows ==
  ASSUME TypeInv, EvidenceInv, NEW s \in Sessions, Commit(s)
  PROVE  LET c == session[s] IN
         /\ Ready(s) /\ db' \in Dbs
         /\ session' = [session EXCEPT ![s] = AfterCommit(c)]
         /\ UNCHANGED <<raw, tasks, setting, faults>>
         /\ db'.sub.workflow
              = FlushColumn(c.loaded.sub.workflow, c.staged.sub.workflow, db.sub.workflow)
         /\ db'.sub.transcription
              = FlushColumn(c.loaded.sub.transcription, c.staged.sub.transcription,
                            db.sub.transcription)
         /\ db'.sub.pair = FlushColumn(c.loaded.sub.pair, c.staged.sub.pair, db.sub.pair)
         /\ db'.job["NORM"]
              = FlushColumn(c.loaded.job["NORM"], c.staged.job["NORM"], db.job["NORM"])
         /\ \A r \in Regions : db'.region[r]
              = FlushRow(c.loaded.region[r], c.staged.region[r], db.region[r])
         /\ \A u \in Questions : db'.mapping[u]
              = FlushRow(c.loaded.mapping[u], c.staged.mapping[u], db.mapping[u])
         /\ \A r \in Regions : db'.link[r]
              = IF c.relink # NoRelink THEN Relinked(db.link, c.relink)[r]
                ELSE FlushColumn(c.loaded.link[r], c.staged.link[r], db.link[r])
         /\ \A r \in Regions : TextCommits(s, c, r, db'.text[r])
<1>1. PICK c : c = session[s]
  OBVIOUS
<1>2. Ready(s) /\ db' = Flushed(c)
  BY <1>1 DEF Commit, Ready, Transacts
<1>3. /\ c \in Transactions /\ c.loaded \in Dbs /\ c.staged \in Dbs /\ db \in Dbs
      /\ Links(s, c)
  BY <1>1, <1>2, ReadyChange DEF Change
<1>4. PICK sub : sub = FlushRow(c.loaded.sub, c.staged.sub, db.sub)
  OBVIOUS
<1>5. /\ sub \in Submission
      /\ sub.workflow = FlushColumn(c.loaded.sub.workflow, c.staged.sub.workflow, db.sub.workflow)
      /\ sub.transcription = FlushColumn(c.loaded.sub.transcription,
                               c.staged.sub.transcription, db.sub.transcription)
      /\ sub.pair = FlushColumn(c.loaded.sub.pair, c.staged.sub.pair, db.sub.pair)
  <2>1. c.loaded.sub \in Submission /\ c.staged.sub \in Submission /\ db.sub \in Submission
    BY <1>3 DEF Dbs
  <2> QED  BY <1>4, <2>1, FlushedSubmission
<1>6. PICK job : job = FlushRow(c.loaded.job, c.staged.job, db.job)
  OBVIOUS
<1>7. /\ job \in [Stage -> JobStatus]
      /\ job["NORM"] = FlushColumn(c.loaded.job["NORM"], c.staged.job["NORM"], db.job["NORM"])
  <2>1. /\ c.loaded.job \in [Stage -> JobStatus] /\ c.staged.job \in [Stage -> JobStatus]
        /\ db.job \in [Stage -> JobStatus]
    BY <1>3 DEF Dbs
  <2> QED  BY <1>6, <2>1 DEF FlushRow, FlushColumn, Stage
<1>8. PICK region : region = FlushTable(c.loaded.region, c.staged.region, db.region)
  OBVIOUS
<1>9. /\ region \in [Regions -> Region]
      /\ \A r \in Regions :
           region[r] = FlushRow(c.loaded.region[r], c.staged.region[r], db.region[r])
  <2>1. /\ c.loaded.region \in [Regions -> Region] /\ c.staged.region \in [Regions -> Region]
        /\ db.region \in [Regions -> Region]
    BY <1>3 DEF Dbs
  <2>2. region = [r \in Regions |->
                    FlushRow(c.loaded.region[r], c.staged.region[r], db.region[r])]
    BY <1>8, <2>1 DEF FlushTable
  <2>3. \A r \in Regions :
          FlushRow(c.loaded.region[r], c.staged.region[r], db.region[r]) \in Region
    BY <2>1, FlushedRegion
  <2> QED  BY <2>2, <2>3
<1>10. PICK mapping : mapping = FlushTable(c.loaded.mapping, c.staged.mapping, db.mapping)
  OBVIOUS
<1>11. /\ mapping \in [Questions -> Mapping]
       /\ \A u \in Questions :
            mapping[u] = FlushRow(c.loaded.mapping[u], c.staged.mapping[u], db.mapping[u])
  <2>1. /\ c.loaded.mapping \in [Questions -> Mapping]
        /\ c.staged.mapping \in [Questions -> Mapping] /\ db.mapping \in [Questions -> Mapping]
    BY <1>3 DEF Dbs
  <2>2. mapping = [u \in Questions |->
                    FlushRow(c.loaded.mapping[u], c.staged.mapping[u], db.mapping[u])]
    BY <1>10, <2>1 DEF FlushTable
  <2>3. \A u \in Questions :
          FlushRow(c.loaded.mapping[u], c.staged.mapping[u], db.mapping[u]) \in Mapping
    BY <2>1, FlushedMapping
  <2> QED  BY <2>2, <2>3
<1>12. PICK link : link = IF c.relink # NoRelink THEN Relinked(db.link, c.relink)
                          ELSE FlushRow(c.loaded.link, c.staged.link, db.link)
  OBVIOUS
<1>13. /\ link \in [Regions -> Questions \cup {None}]
       /\ \A r \in Regions : link[r]
            = IF c.relink # NoRelink THEN Relinked(db.link, c.relink)[r]
              ELSE FlushColumn(c.loaded.link[r], c.staged.link[r], db.link[r])
  <2>1. /\ c.loaded.link \in [Regions -> Questions \cup {None}]
        /\ c.staged.link \in [Regions -> Questions \cup {None}]
        /\ db.link \in [Regions -> Questions \cup {None}]
    BY <1>3 DEF Dbs
  <2>2. CASE c.relink # NoRelink
    <3>1. c.relink.question \in Questions
      BY <1>3, <2>2 DEF Links
    <3> QED  BY <1>12, <2>1, <2>2, <3>1 DEF Relinked
  <2>3. CASE c.relink = NoRelink
    <3>1. link = [r \in Regions |-> FlushColumn(c.loaded.link[r], c.staged.link[r], db.link[r])]
      BY <1>12, <2>1, <2>3 DEF FlushRow
    <3> QED  BY <2>1, <2>3, <3>1 DEF FlushColumn
  <2> QED  BY <2>2, <2>3
<1>14. PICK text : text = [r \in Regions |-> FlushText(r, c.loaded, c.staged, db)]
  OBVIOUS
<1>15. /\ text \in [Regions -> Seq(Transcription)]
       /\ \A r \in Regions : TextCommits(s, c, r, text[r])
  <2>1. ASSUME NEW r \in Regions
        PROVE  text[r] \in Seq(Transcription) /\ TextCommits(s, c, r, text[r])
    <3>1. text[r] \in {FlushText(r, session[s].loaded, session[s].staged, db)}
      BY <1>1, <1>14
    <3> QED  BY <1>1, <1>2, <3>1, FlushTexts
  <2> QED  BY <1>14, <2>1
<1>16. PICK pages : pages = FlushColumn(c.loaded.pages, c.staged.pages, db.pages)
  OBVIOUS
<1>17. PICK analysed : analysed = FlushColumn(c.loaded.analysed, c.staged.analysed, db.analysed)
  OBVIOUS
<1>18. pages \in BOOLEAN /\ analysed \in BOOLEAN
  BY <1>3, <1>16, <1>17 DEF FlushColumn, Dbs
<1>19. db' = [sub |-> sub, job |-> job, pages |-> pages, analysed |-> analysed,
              region |-> region, mapping |-> mapping, link |-> link, text |-> text]
  BY <1>2, <1>4, <1>6, <1>8, <1>10, <1>12, <1>14, <1>16, <1>17 DEF Flushed
<1>20. /\ db'.sub = sub /\ db'.job = job /\ db'.region = region /\ db'.mapping = mapping
       /\ db'.link = link /\ db'.text = text
  BY <1>19
<1>21. db' \in Dbs
  BY <1>5, <1>7, <1>9, <1>11, <1>13, <1>15, <1>18, <1>19 DEF Dbs
<1>22. /\ session' = [session EXCEPT ![s] = AfterCommit(c)]
       /\ UNCHANGED <<raw, tasks, setting, faults>>
  BY <1>1 DEF Commit
<1> QED  BY <1>1, <1>2, <1>5, <1>7, <1>9, <1>11, <1>13, <1>15, <1>20, <1>21, <1>22

\* A region stays drawn, and deleted; it is deleted only while nothing is linked
\* to it, and a worker draws it or cuts its crop.
LEMMA CommitRegions ==
  ASSUME TypeInv, EvidenceInv, NEW s \in Sessions, Commit(s), NEW r \in Regions
  PROVE  LET c == session[s] IN
         /\ Deleted(db, r) => Deleted(db', r)
         /\ db.region[r].source # None => db'.region[r].source # None
         /\ db'.region[r].source # None /\ db.region[r].source = None => Creates(c, r)
         /\ Deleted(db', r) /\ ~Deleted(db, r) => db.link[r] = None /\ Deleted(c.staged, r)
         /\ s \in Workers => \/ Creates(c, r) /\ db.region[r].source = None
                             \/ Cropped(db.region[r], db'.region[r])
<1> DEFINE c == session[s]
           l == c.loaded.region[r]
           st == c.staged.region[r]
           cur == db.region[r]
           new == db'.region[r]
<1>1. Ready(s) /\ new = FlushRow(l, st, cur)
  BY CommitRows
<1>2. /\ c.loaded \in Dbs /\ c.staged \in Dbs /\ db \in Dbs /\ Draws(s, c) /\ Since(c)
  BY <1>1, ReadyChange DEF Change
<1>3. l \in Region /\ st \in Region /\ cur \in Region
  BY <1>2 DEF Dbs
<1>4. /\ new \in Region
      /\ new.source = FlushColumn(l.source, st.source, cur.source)
      /\ new.type = FlushColumn(l.type, st.type, cur.type)
      /\ new.ignored = FlushColumn(l.ignored, st.ignored, cur.ignored)
      /\ new.box = FlushColumn(l.box, st.box, cur.box)
  <2> HIDE DEF l, st, cur, new
  <2> QED  BY <1>1, <1>3, FlushedRegion
<1>5. /\ st.source = None => l.source = None
      /\ l.source # None => cur.source # None
      /\ l.source = "DELETED" => cur.source = "DELETED"
      /\ l.source = "DELETED" => st = l
      /\ l.source = None /\ st.source # None => cur.source = None
  BY <1>2 DEF Draws, Since, Touches, Deleted, Creates
<1>6. st.source = "DELETED" /\ l.source # "DELETED" => db.link[r] = None
  BY <1>1 DEF Ready, Conflict, RowGone
<1>7. st.source # "DELETED" /\ cur.source = "DELETED" /\ l.source # "DELETED" => st = l
  BY <1>1 DEF Ready, Conflict, RowGone
<1>8. cur.source = "DELETED" => new.source = "DELETED"
  BY <1>4, <1>5, <1>7 DEF FlushColumn
<1>9. cur.source # None => new.source # None
  BY <1>4, <1>5 DEF FlushColumn
<1>10. new.source # None /\ cur.source = None => l.source = None /\ st.source # None
  BY <1>4, <1>5 DEF FlushColumn
<1>11. new.source = "DELETED" /\ cur.source # "DELETED" =>
         db.link[r] = None /\ st.source = "DELETED"
  BY <1>4, <1>5, <1>6 DEF FlushColumn
<1>12. ASSUME s \in Workers, Cropped(l, st)
       PROVE  Cropped(cur, new)
  <2>1. /\ st.source = l.source /\ st.type = l.type /\ st.ignored = l.ignored
        /\ st.box = l.box
    <3> HIDE DEF l, st
    <3> QED  BY <1>3, <1>12 DEF Cropped, Region
  <2>2. /\ new.source = cur.source /\ new.type = cur.type /\ new.ignored = cur.ignored
        /\ new.box = cur.box
    BY <1>4, <2>1 DEF FlushColumn
  <2> HIDE DEF l, st, cur, new
  <2> QED  BY <1>3, <1>4, <2>2 DEF Cropped, Region
<1>13. s \in Workers => (l.source = None /\ st.source # None) \/ Cropped(l, st)
  BY <1>2 DEF Draws, Creates
<1> QED  BY <1>5, <1>8, <1>9, <1>10, <1>11, <1>12, <1>13 DEF Deleted, Creates

\* A mapping stays made, and a reviewer's; a worker changes no mapping.
LEMMA CommitMappings ==
  ASSUME TypeInv, EvidenceInv, NEW s \in Sessions, Commit(s), NEW u \in Questions
  PROVE  LET c == session[s] IN
         /\ db.mapping[u].by # None => db'.mapping[u].by # None
         /\ db.mapping[u].by = "HUMAN" => db'.mapping[u].by = "HUMAN"
         /\ db'.mapping[u].state = "CONFIRMED" => db'.mapping[u].by = "HUMAN"
         /\ c.loaded.mapping[u].by = None /\ c.staged.mapping[u].by # None =>
              db.mapping[u].by = None
         /\ c.staged.mapping[u].by # None => db'.mapping[u].by # None
         /\ s \in Workers /\ db.mapping[u].by # None => db'.mapping[u] = db.mapping[u]
<1> DEFINE c == session[s]
           l == c.loaded.mapping[u]
           st == c.staged.mapping[u]
           cur == db.mapping[u]
           new == db'.mapping[u]
<1>1. Ready(s) /\ new = FlushRow(l, st, cur)
  BY CommitRows
<1>2. /\ c.loaded \in Dbs /\ c.staged \in Dbs /\ db \in Dbs /\ Maps(s, c) /\ Since(c)
  BY <1>1, ReadyChange DEF Change
<1>3. l \in Mapping /\ st \in Mapping /\ cur \in Mapping
  BY <1>2 DEF Dbs
<1>4. /\ new \in Mapping /\ new.by = FlushColumn(l.by, st.by, cur.by)
      /\ new.state = FlushColumn(l.state, st.state, cur.state)
      /\ new.disposition = FlushColumn(l.disposition, st.disposition, cur.disposition)
  <2> HIDE DEF l, st, cur, new
  <2> QED  BY <1>1, <1>3, FlushedMapping
<1>5. /\ l.by # None => cur.by # None
      /\ l.by = "HUMAN" => cur.by = "HUMAN"
  BY <1>2 DEF Since
<1>6. \/ st = l
      \/ /\ Client(s) /\ st.by \in {l.by, "HUMAN"}
         /\ st.state = "CONFIRMED" => st.by = "HUMAN"
      \/ s \in Workers /\ l.by = None /\ st.by = "AI" /\ st.state # "CONFIRMED"
  BY <1>2 DEF Maps
<1>7. l.by = None /\ st.by # None => cur.by = None
  BY <1>1 DEF Ready, Conflict, MappingTaken
<1>8. cur.state = "CONFIRMED" => cur.by = "HUMAN"
  BY DEF EvidenceInv, RowsOK
<1>9. ~(s \in Workers /\ Client(s))
  BY SessionsAssumption DEF Client, TypeInv
<1>10. cur.by # None => new.by # None
  BY <1>4, <1>6, <1>7 DEF FlushColumn, None
<1>11. cur.by = "HUMAN" => new.by = "HUMAN"
  BY <1>4, <1>6, <1>7 DEF FlushColumn, None
<1>12. new.state = "CONFIRMED" => new.by = "HUMAN"
  BY <1>4, <1>5, <1>6, <1>8, <1>11 DEF FlushColumn, None
<1>13. st.by # None => new.by # None
  BY <1>4, <1>5 DEF FlushColumn
<1>14. ASSUME s \in Workers, cur.by # None
       PROVE  new = cur
  <2>1. st = l
    BY <1>6, <1>7, <1>9, <1>14 DEF None
  <2>2. new.by = cur.by /\ new.state = cur.state /\ new.disposition = cur.disposition
    BY <1>4, <2>1 DEF FlushColumn
  <2> HIDE DEF l, st, cur, new
  <2> QED  BY <1>3, <1>4, <2>2 DEF Mapping
<1> QED  BY <1>7, <1>10, <1>11, <1>12, <1>13, <1>14

\* A new link is of a region that exists to a mapping that exists; a worker
\* links what is not linked to questions that have no mapping.
LEMMA CommitLinks ==
  ASSUME TypeInv, EvidenceInv, NEW s \in Sessions, Commit(s), NEW r \in Regions,
         db'.link[r] # db.link[r]
  PROVE  LET c == session[s] IN
         /\ db'.link[r] # None =>
              /\ db'.link[r] \in Questions
              /\ db'.region[r].source \in {"AI", "HUMAN"}
              /\ db'.mapping[db'.link[r]].by # None
         /\ s \in Workers => /\ db.link[r] = None /\ db'.link[r] \in Questions
                             /\ db.mapping[db'.link[r]].by = None
<1> DEFINE c == session[s]
<1>1. Ready(s) /\ db' \in Dbs
  BY CommitRows
<1>2. db'.link[r] = IF c.relink # NoRelink THEN Relinked(db.link, c.relink)[r]
                    ELSE FlushColumn(c.loaded.link[r], c.staged.link[r], db.link[r])
  BY CommitRows
<1>3. /\ c \in Transactions /\ c.loaded \in Dbs /\ c.staged \in Dbs /\ db \in Dbs
      /\ Links(s, c) /\ Since(c) /\ Draws(s, c) /\ Texts(s, c)
  BY <1>1, ReadyChange DEF Change
<1>4. db'.region[r] = FlushRow(c.loaded.region[r], c.staged.region[r], db.region[r])
  BY CommitRows
<1>5. /\ c.loaded.region[r] \in Region /\ c.staged.region[r] \in Region
      /\ db.region[r] \in Region
  BY <1>3 DEF Dbs
<1>6. /\ db'.region[r].source
           = FlushColumn(c.loaded.region[r].source, c.staged.region[r].source,
                         db.region[r].source)
      /\ db'.region[r] \in Region
  BY <1>4, <1>5, FlushedRegion
<1>7. ~(s \in Workers /\ Client(s))
  BY SessionsAssumption DEF Client, TypeInv
\* The region exists when it is linked.
<1>8. ASSUME Touches(c, r), ~Deleted(c.staged, r),
             \/ db.region[r].source # None
             \/ Creates(c, r)
      PROVE  db'.region[r].source \in {"AI", "HUMAN"}
  <2>1. ~Deleted(db, r)
    BY <1>1, <1>8, TouchedExists
  <2>2. db'.region[r].source # "DELETED"
    BY <1>6, <1>8, <2>1 DEF FlushColumn, Deleted
  <2>3. c.staged.region[r].source = None => c.loaded.region[r].source = None
    BY <1>3 DEF Draws
  <2>4. db'.region[r].source # None
    BY <1>6, <1>8, <2>3 DEF FlushColumn, Creates
  <2>5. db'.region[r].source \in {None, "AI", "HUMAN", "DELETED"}
    BY <1>6 DEF Region
  <2> QED  BY <2>2, <2>4, <2>5
<1>9. CASE c.relink # NoRelink
  <2>1. /\ Client(s) /\ c.relink.question \in Questions
        /\ c.staged.mapping[c.relink.question].by = "HUMAN"
        /\ \A x \in c.relink.regions : c.loaded.region[x].source # None
    BY <1>3, <1>9 DEF Links
  <2>2. db'.link[r] = IF r \in c.relink.regions THEN c.relink.question
                      ELSE IF db.link[r] = c.relink.question THEN None ELSE db.link[r]
    BY <1>2, <1>9 DEF Relinked
  <2>3. CASE r \in c.relink.regions
    <3>1. Touches(c, r)
      BY <2>3 DEF Touches
    <3>2. ~Deleted(c.staged, r)
      <4>1. ~Deleted(c.loaded, r)
        BY <1>3, <3>1 DEF Draws
      <4> QED  BY <1>3, <1>9, <4>1 DEF Texts, Erased
    <3>3. db.region[r].source # None
      BY <1>3, <2>1, <2>3 DEF Since
    <3>4. db'.mapping[c.relink.question].by # None
      BY <2>1, CommitMappings DEF None
    <3>5. db'.region[r].source \in {"AI", "HUMAN"}
      BY <1>8, <3>1, <3>2, <3>3
    <3>6. db'.link[r] = c.relink.question /\ s \notin Workers
      BY <1>7, <2>1, <2>2, <2>3
    <3> QED  BY <2>1, <3>4, <3>5, <3>6
  <2>4. CASE r \notin c.relink.regions
    BY <1>7, <2>1, <2>2, <2>4
  <2> QED  BY <2>3, <2>4
<1>10. CASE c.relink = NoRelink
  <2>1. /\ c.staged.link[r] # c.loaded.link[r] /\ db'.link[r] = c.staged.link[r]
    BY <1>2, <1>10 DEF FlushColumn
  <2>2. /\ s \in Workers /\ c.loaded.link[r] = None
        /\ c.staged.link[r] \in Questions /\ c.staged.region[r].source # None
        /\ c.loaded.mapping[c.staged.link[r]].by = None
        /\ c.staged.mapping[c.staged.link[r]].by # None
    BY <1>3, <2>1 DEF Links
  <2>3. c.staged.link[r] # None
    BY <2>2, RowsAssumption DEF None
  <2>4. db.link[r] = None
    BY <1>1, <2>2, <2>3 DEF Ready, Conflict, LinkTaken
  <2>5. Touches(c, r)
    BY <2>1 DEF Touches
  <2>6. ~Deleted(c.staged, r)
    <3>1. ~Deleted(c.loaded, r)
      BY <1>3, <2>5 DEF Draws
    <3> QED  BY <1>3, <2>1, <3>1 DEF Texts, Erased
  <2>7. db.region[r].source # None \/ Creates(c, r)
    BY <1>3, <2>2 DEF Since, Creates
  <2>8. db'.region[r].source \in {"AI", "HUMAN"}
    BY <1>8, <2>5, <2>6, <2>7
  <2>9. /\ db'.mapping[c.staged.link[r]].by # None
        /\ db.mapping[c.staged.link[r]].by = None
    BY <2>2, CommitMappings
  <2> QED  BY <2>1, <2>2, <2>4, <2>8, <2>9
<1> QED  BY <1>9, <1>10

---------------------------------------------------------------------------
(* The steps                                                               *)

\* A session that lets go, with or without a task of the broker.
Lets(s) == /\ session' = [session EXCEPT ![s] = Idle]
           /\ UNCHANGED <<db, raw, setting>>
FewerTasks == /\ tasks' \in [Stage -> 0 .. MaxTasks]
              /\ \A t \in Stage : tasks'[t] # 0 => tasks[t] # 0

Begin(s) == (\E c \in Transactions : Begins(s, c)) /\ FewerTasks
Quiet(s) == Lets(s) /\ FewerTasks

LEMMA SameTasks ==
  ASSUME TypeInv, UNCHANGED tasks
  PROVE  FewerTasks
BY DEF TypeInv, FewerTasks

\* Every step is one of these.
Step ==
  \/ UNCHANGED <<db, raw, session, setting>> /\ FewerTasks
  \/ \E s \in Sessions : Begin(s) \/ Quiet(s) \/ Commit(s) \/ Enqueue(s)
  \/ \E q \in Requests : \/ UploadRead(q) \/ UploadInsert(q) \/ UploadStore(q)
                         \/ UploadStoreFails(q) \/ StartEvaluation(q)

LEMMA CommittingUploaded ==
  ASSUME Inv, NEW s \in Sessions, Transacts(s), session[s].stage # None
  PROVE  db.sub.workflow # None
BY DEF Inv, UploadInv, Uploads, Transacts

LEMMA HoldsClient ==
  ASSUME Inv, NEW s \in Sessions, session[s] # Idle
  PROVE  s \in Requests => Client(s)
BY DEF Inv, TypeInv, SessionOK

LEMMA Faults ==
  ASSUME Inv, NEW kind, Faulty(kind)
  PROVE  faults' \in 0 .. MaxFaults
BY RowsAssumption DEF Inv, TypeInv, Faulty

LEMMA NextSteps ==
  ASSUME Inv, Next
  PROVE  Step /\ faults' \in 0 .. MaxFaults
<1>1. ASSUME NEW q \in Requests, RequestStep(q)
      PROVE  Step /\ faults' \in 0 .. MaxFaults
  <2>1. CASE StartEvaluation(q)
    BY <2>1 DEF Step, StartEvaluation, Inv, TypeInv
  <2>2. CASE UploadRead(q)
    BY <2>2 DEF Step, UploadRead, Inv, TypeInv
  <2>3. CASE ~StartEvaluation(q) /\ ~UploadRead(q)
    <3>1. Reads(q)
      BY <1>1, <2>3, RequestReads
    <3> QED  BY <3>1, SameTasks DEF Reads, Step, Begin, Sessions, Inv, TypeInv
  <2> QED  BY <2>1, <2>2, <2>3
<1>2. ASSUME NEW q \in Requests, Uploading(q)
      PROVE  Step /\ faults' \in 0 .. MaxFaults
  BY <1>2 DEF Step, Uploading, UploadInsert, UploadStore, Inv, TypeInv
<1>3. ASSUME NEW q \in Requests, UploadStoreFails(q)
      PROVE  Step /\ faults' \in 0 .. MaxFaults
  BY <1>3, Faults DEF Step, UploadStoreFails
<1>4. ASSUME NEW w \in Workers, NEW stage \in Stage, Take(w, stage)
      PROVE  Step /\ faults' \in 0 .. MaxFaults
  <2>1. /\ UNCHANGED faults /\ tasks[stage] > 0 /\ tasks' = [tasks EXCEPT ![stage] = @ - 1]
        /\ \/ UNCHANGED <<db, raw, session, setting>>
           \/ \E c \in Transactions : Begins(w, c)
    BY <1>4, TakeBegins
  <2>2. tasks \in [Stage -> 0 .. MaxTasks] /\ MaxTasks \in Nat /\ faults \in 0 .. MaxFaults
    BY RowsAssumption DEF Inv, TypeInv
  <2>3. FewerTasks
    BY <2>1, <2>2 DEF FewerTasks
  <2> QED  BY <2>1, <2>2, <2>3 DEF Step, Begin, Sessions
<1>5. ASSUME NEW w \in Workers, WorkerRuns(w)
      PROVE  Step /\ faults' \in 0 .. MaxFaults
  <2>1. Reads(w)
    BY <1>5, WorkerReads
  <2> QED  BY <2>1, SameTasks DEF Reads, Step, Begin, Sessions, Inv, TypeInv
<1>6. ASSUME NEW w \in Workers, TaskFails(w)
      PROVE  Step /\ faults' \in 0 .. MaxFaults
  <2>1. /\ session[w].op = "RUN" /\ Faulty("error")
        /\ session' = [session EXCEPT ![w] = Failing(session[w].stage)]
        /\ UNCHANGED <<db, raw, tasks, setting>>
    BY <1>6 DEF TaskFails
  <2>2. w \in Sessions /\ w \notin Requests
    BY SessionsAssumption DEF Sessions
  <2>3. session[w].stage \in Stage /\ db.sub.workflow # None
    BY <2>1, <2>2, SeenRows, RunUploaded
  <2>4. session[w].stage = "NORM" => raw
    BY <2>1, <2>2 DEF Inv, SourceInv, Knows
  <2>5. Lets(w) \/ \E c \in Transactions : Begins(w, c)
    BY <2>1, <2>2, <2>3, <2>4, FailingBegins DEF Lets
  <2>6. FewerTasks /\ faults' \in 0 .. MaxFaults
    BY <2>1, SameTasks, Faults DEF Inv
  <2> QED  BY <2>2, <2>5, <2>6 DEF Step, Begin, Quiet
<1>7. ASSUME NEW s \in Sessions, CommitFails(s)
      PROVE  Step /\ faults' \in 0 .. MaxFaults
  <2>1. /\ Transacts(s) /\ session' = [session EXCEPT ![s] = Failing(session[s].stage)]
        /\ UNCHANGED <<db, raw, tasks, setting, faults>>
    BY <1>7 DEF CommitFails, Transacts
  <2>2. session[s] \in Transactions
    BY <2>1 DEF Inv, TypeInv, Transacts, States, Waiting, Idle, Enqueues, Runs
  <2>3. session[s].stage \in Stage \cup {None} /\ (s \in Requests => Client(s))
    <3>1. session[s] # Idle
      BY <2>1 DEF Transacts, Idle
    <3> QED  BY <2>2, <3>1, HoldsClient DEF Transactions
  <2>4. session[s].stage = "NORM" => raw
    BY <2>1 DEF Inv, SourceInv, Knows, Transacts
  <2>5. Lets(s) \/ \E c \in Transactions : Begins(s, c)
    <3>1. CASE session[s].stage = None
      BY <2>1, <3>1 DEF Failing, Lets, None
    <3>2. CASE session[s].stage # None
      <4>1. db.sub.workflow # None
        BY <2>1, <3>2, CommittingUploaded
      <4> QED  BY <2>1, <2>3, <2>4, <4>1, FailingBegins DEF Lets
    <3> QED  BY <3>1, <3>2
  <2>6. FewerTasks /\ faults' \in 0 .. MaxFaults
    BY <2>1, SameTasks DEF Inv, TypeInv
  <2> QED  BY <2>5, <2>6 DEF Step, Begin, Quiet
<1>8. ASSUME NEW s \in Sessions, Crash(s)
      PROVE  Step /\ faults' \in 0 .. MaxFaults
  <2>1. Quiet(s) /\ Faulty("crash")
    BY <1>8, SameTasks DEF Crash, Quiet, Lets, Inv
  <2> QED  BY <2>1, Faults DEF Step
<1>9. ASSUME NEW s \in Sessions, Commit(s) \/ Enqueue(s)
      PROVE  Step /\ faults' \in 0 .. MaxFaults
  BY <1>9 DEF Step, Commit, Enqueue, Inv, TypeInv
<1> QED  BY <1>1, <1>2, <1>3, <1>4, <1>5, <1>6, <1>7, <1>8, <1>9 DEF Next, Committing

---------------------------------------------------------------------------
(* Types                                                                   *)

LEMMA SessionsType ==
  ASSUME TypeInv, NEW s \in Sessions, NEW x \in States,
         session' = [session EXCEPT ![s] = x], UNCHANGED setting,
         x.op = "COMMIT" /\ x.starts => x.stage \in Stage,
         x # Idle /\ s \in Requests => Client(s)
  PROVE  session' \in [Sessions -> States] /\ \A t \in Sessions : SessionOK(t)'
BY DEF TypeInv, SessionOK, Transacts, Client

LEMMA EmptyDbType == EmptyDb \in Dbs
<1>1. /\ NoSubmission \in Submission /\ NoRegion \in Region /\ NoMapping \in Mapping
      /\ None \in JobStatus
  BY DEF NoSubmission, Submission, NoRegion, Region, NoMapping, Mapping, None, JobStatus,
         WorkflowState, TranscriptionState, Pair, Box
<1>2. << >> \in Seq(Transcription)
  OBVIOUS
<1> QED  BY <1>1, <1>2 DEF EmptyDb, Dbs

\* An upload that has put the source, or could not.
Stores(q, c) ==
  /\ c \in Transactions /\ session' = [session EXCEPT ![q] = c]
  /\ UNCHANGED <<db, tasks, setting>> /\ session[q].op = "STORE"
  /\ raw' \in BOOLEAN /\ (raw => raw') /\ (Knows(c) => raw')
  /\ c.loaded = EmptyDb /\ c.stage = None /\ ~c.starts
  /\ c.staged.sub.workflow # None /\ Untouched(c) /\ Gates(q, c)
  /\ c.staged.sub.pair = c.loaded.sub.pair

LEMMA UploadStores ==
  ASSUME Inv, NEW q \in Requests, UploadStore(q) \/ UploadStoreFails(q)
  PROVE  \E c \in Transactions : Stores(q, c)
<1>1. PICK b \in BOOLEAN :
        /\ UploadCommits(q, b) /\ session[q].op = "STORE" /\ UNCHANGED <<db, tasks, setting>>
        /\ raw' \in BOOLEAN /\ (raw => raw') /\ (b => raw')
  BY DEF UploadStore, UploadStoreFails, Put, Inv, TypeInv
<1>2. PICK c : c = [Pending(EmptyDb, Uploaded(b)) EXCEPT
                      !.enqueue = IF b THEN {"NORM"} ELSE {}]
  OBVIOUS
<1>3. c = [op |-> "COMMIT", loaded |-> EmptyDb, staged |-> Uploaded(b),
           enqueue |-> IF b THEN {"NORM"} ELSE {}, relink |-> NoRelink, stage |-> None,
           starts |-> FALSE]
  BY <1>2 DEF Pending
<1>4. session' = [session EXCEPT ![q] = c]
  BY <1>1, <1>2 DEF UploadCommits
<1>5. PICK S : S = Uploaded(b)
  OBVIOUS
<1>6. PICK E : E = EmptyDb
  OBVIOUS
<1>7. E \in Dbs /\ E.job["NORM"] = None
  BY <1>6, EmptyDbType DEF EmptyDb, Stage
<1>8. S = IF b THEN [E EXCEPT !.sub.workflow = "UPLOADED", !.job["NORM"] = "QUEUED"]
          ELSE [E EXCEPT !.sub.workflow = "FAILED"]
  BY <1>5, <1>6 DEF Uploaded
<1>9. /\ S \in Dbs /\ S.region = E.region /\ S.mapping = E.mapping /\ S.link = E.link
      /\ S.text = E.text /\ S.sub.pair = E.sub.pair
      /\ S.sub.workflow \in {"UPLOADED", "FAILED"}
      /\ S.sub.transcription = E.sub.transcription
      /\ ~b => S.job["NORM"] = None
  <2>1. PICK z : z = [E.sub EXCEPT !.workflow = IF b THEN "UPLOADED" ELSE "FAILED"]
    OBVIOUS
  <2>2. /\ z \in Submission /\ z.pair = E.sub.pair /\ z.transcription = E.sub.transcription
        /\ z.workflow \in {"UPLOADED", "FAILED"}
    BY <1>7, <2>1 DEF Dbs, Submission, WorkflowState
  <2>3. CASE b
    <3>1. PICK j : j = [E.job EXCEPT !["NORM"] = "QUEUED"]
      OBVIOUS
    <3>2. j \in [Stage -> JobStatus]
      BY <1>7, <3>1 DEF Dbs, JobStatus, Stage
    <3>3. S = [E EXCEPT !.sub = z, !.job = j]
      BY <1>7, <1>8, <2>1, <2>3, <3>1 DEF Dbs
    <3> QED  BY <1>7, <2>2, <2>3, <3>2, <3>3 DEF Dbs
  <2>4. CASE ~b
    <3>1. S = [E EXCEPT !.sub = z]
      BY <1>7, <1>8, <2>1, <2>4 DEF Dbs
    <3>2. S.job = E.job
      BY <1>7, <3>1 DEF Dbs
    <3> QED  BY <1>7, <2>2, <3>1, <3>2 DEF Dbs
  <2> QED  BY <2>3, <2>4
<1>10. E.sub.transcription = "NOT_STARTED"
  BY <1>6 DEF EmptyDb, NoSubmission
<1>11. /\ c \in Transactions /\ c.loaded = E /\ c.staged = S
       /\ c.enqueue = (IF b THEN {"NORM"} ELSE {}) /\ c.relink = NoRelink
       /\ c.stage = None /\ ~c.starts
  BY <1>3, <1>5, <1>6, <1>7, <1>9 DEF Transactions, NoRelink, Stage
<1>12. Knows(c) => raw'
  BY <1>1, <1>3, <1>7, <1>9, <1>11 DEF Knows, None
<1>13. Untouched(c)
  BY <1>9, <1>11 DEF Untouched
<1>14. Gates(q, c)
  BY <1>9, <1>10, <1>11 DEF Gates, None
<1>15. /\ c.loaded = EmptyDb /\ c.staged.sub.workflow # None
       /\ c.staged.sub.pair = c.loaded.sub.pair
  BY <1>6, <1>9, <1>11 DEF None
<1> QED  BY <1>1, <1>4, <1>11, <1>12, <1>13, <1>14, <1>15 DEF Stores

\* What a session goes on with after its commit.
LEMMA AfterCommitType ==
  ASSUME TypeInv, NEW s \in Sessions, NEW c \in Transactions, c.starts => c.stage \in Stage,
         NEW x \in {AfterCommit(c)}
  PROVE  /\ x \in States /\ x.op \in {"IDLE", "ENQUEUE", "RUN"}
         /\ x.op = "RUN" => x.sub = c.staged.sub /\ x.stage = c.stage
         /\ x.op = "ENQUEUE" => x.stages = c.enqueue
<1>1. CASE c.starts
  <2>1. x = [op |-> "RUN", stage |-> c.stage, sub |-> c.staged.sub,
             job |-> c.staged.job[c.stage]]
    BY <1>1 DEF AfterCommit
  <2>2. c.stage \in Stage /\ c.staged.sub \in Submission /\ c.staged.job[c.stage] \in JobStatus
    BY <1>1 DEF Transactions, Dbs
  <2>3. x \in Runs
    BY <2>1, <2>2 DEF Runs
  <2> QED  BY <2>1, <2>3 DEF States
<1>2. CASE ~c.starts /\ c.enqueue # {}
  BY <1>2 DEF AfterCommit, Transactions, States, Enqueues
<1>3. CASE ~c.starts /\ c.enqueue = {}
  BY <1>3 DEF AfterCommit, States, Waiting, Idle
<1> QED  BY <1>1, <1>2, <1>3

LEMMA EnqueueRows ==
  ASSUME Inv, NEW s \in Sessions, Enqueue(s)
  PROVE  /\ session[s] \in Enqueues /\ session[s].op = "ENQUEUE"
         /\ session' = [session EXCEPT ![s] = Idle] /\ UNCHANGED <<db, raw, setting, faults>>
         /\ tasks' \in [Stage -> 0 .. MaxTasks]
         /\ tasks'["NORM"] # 0 => tasks["NORM"] # 0 \/ "NORM" \in session[s].stages
<1>1. /\ session[s].op = "ENQUEUE"
      /\ \A t \in session[s].stages : tasks[t] < MaxTasks
      /\ tasks' = [t \in Stage |-> tasks[t] + IF t \in session[s].stages THEN 1 ELSE 0]
      /\ session' = [session EXCEPT ![s] = Idle] /\ UNCHANGED <<db, raw, setting, faults>>
  BY DEF Enqueue
<1>2. session[s] \in Enqueues
  BY <1>1 DEF Inv, TypeInv, States, Waiting, Idle, Runs, Transactions
<1>3. tasks \in [Stage -> 0 .. MaxTasks] /\ MaxTasks \in Nat
  BY RowsAssumption DEF Inv, TypeInv
<1>4. tasks' \in [Stage -> 0 .. MaxTasks]
  BY <1>1, <1>3
<1>5. tasks'["NORM"] # 0 => tasks["NORM"] # 0 \/ "NORM" \in session[s].stages
  BY <1>1, <1>3 DEF Stage
<1> QED  BY <1>1, <1>2, <1>4, <1>5

LEMMA TypeStep ==
  ASSUME Inv, Step, faults' \in 0 .. MaxFaults
  PROVE  TypeInv'
<1> USE DEF Inv
<1>1. CASE UNCHANGED <<db, raw, session, setting>> /\ FewerTasks
  BY <1>1 DEF TypeInv, SessionOK, Transacts, Client, FewerTasks
<1>2. ASSUME NEW s \in Sessions, Begin(s)
      PROVE  TypeInv'
  <2>1. PICK c \in Transactions : Begins(s, c)
    BY <1>2 DEF Begin
  <2>2. session' \in [Sessions -> States] /\ \A t \in Sessions : SessionOK(t)'
    BY <2>1, SessionsType DEF Begins, States
  <2> QED  BY <1>2, <2>1, <2>2 DEF TypeInv, Begin, Begins, FewerTasks
<1>3. ASSUME NEW s \in Sessions, Quiet(s)
      PROVE  TypeInv'
  <2>1. session' \in [Sessions -> States] /\ \A t \in Sessions : SessionOK(t)'
    BY <1>3, SessionsType DEF Quiet, Lets, States, Waiting, Idle
  <2> QED  BY <1>3, <2>1 DEF TypeInv, Quiet, Lets, FewerTasks
<1>4. ASSUME NEW s \in Sessions, Commit(s)
      PROVE  TypeInv'
  <2>1. /\ Ready(s) /\ db' \in Dbs /\ UNCHANGED <<raw, tasks, setting, faults>>
        /\ session' = [session EXCEPT ![s] = AfterCommit(session[s])]
    BY <1>4, CommitRows
  <2>2. session[s] \in Transactions
    BY <2>1, ReadyChange
  <2>3. session[s].starts => session[s].stage \in Stage
    BY <2>1 DEF TypeInv, SessionOK, Ready
  <2>4. PICK x : x = AfterCommit(session[s])
    OBVIOUS
  <2>5. x \in States /\ x.op # "COMMIT"
    BY <2>2, <2>3, <2>4, AfterCommitType
  <2>6. s \in Requests => Client(s)
    <3>1. session[s] # Idle
      BY <2>1 DEF Ready, Transacts, Idle
    <3> QED  BY <3>1, HoldsClient
  <2>7. session' \in [Sessions -> States] /\ \A t \in Sessions : SessionOK(t)'
    BY <2>1, <2>4, <2>5, <2>6, SessionsType
  <2> QED  BY <2>1, <2>7 DEF TypeInv
<1>5. ASSUME NEW s \in Sessions, Enqueue(s)
      PROVE  TypeInv'
  <2>1. session' \in [Sessions -> States] /\ \A t \in Sessions : SessionOK(t)'
    BY <1>5, EnqueueRows, SessionsType DEF States, Waiting, Idle
  <2> QED  BY <1>5, <2>1, EnqueueRows DEF TypeInv
<1>6. ASSUME NEW q \in Requests, UploadRead(q)
      PROVE  TypeInv'
  <2>1. /\ session' = [session EXCEPT ![q] = [op |-> "INSERT"]] /\ Client(q)
        /\ UNCHANGED <<db, raw, tasks, setting, faults>>
    BY <1>6, CallsClient DEF UploadRead
  <2>2. session' \in [Sessions -> States] /\ \A t \in Sessions : SessionOK(t)'
    BY <2>1, SessionsType DEF States, Waiting, Sessions
  <2> QED  BY <2>1, <2>2 DEF TypeInv
<1>7. ASSUME NEW q \in Requests, UploadInsert(q)
      PROVE  TypeInv'
  <2>1. PICK x : x = IF db.sub.workflow = None THEN [op |-> "STORE"] ELSE Idle
    OBVIOUS
  <2>2. /\ session' = [session EXCEPT ![q] = x] /\ session[q] # Idle
        /\ UNCHANGED <<db, raw, tasks, setting, faults>>
    BY <1>7, <2>1 DEF UploadInsert, Idle
  <2>3. q \in Sessions /\ x \in States /\ x.op # "COMMIT"
    BY <2>1 DEF States, Waiting, Sessions, Idle
  <2>4. session' \in [Sessions -> States] /\ \A t \in Sessions : SessionOK(t)'
    BY <2>2, <2>3, HoldsClient, SessionsType
  <2> QED  BY <2>2, <2>4 DEF TypeInv
<1>8. ASSUME NEW q \in Requests, UploadStore(q) \/ UploadStoreFails(q)
      PROVE  TypeInv'
  <2>1. PICK c \in Transactions : Stores(q, c)
    BY <1>8, UploadStores
  <2>2. q \in Sessions /\ session[q] # Idle
    BY <2>1 DEF Sessions, Stores, Idle
  <2>3. session' \in [Sessions -> States] /\ \A t \in Sessions : SessionOK(t)'
    BY <2>1, <2>2, HoldsClient, SessionsType DEF Stores, States
  <2> QED  BY <2>1, <2>3 DEF TypeInv, Stores
<1>9. ASSUME NEW q \in Requests, StartEvaluation(q)
      PROVE  TypeInv'
  <2>1. db' = [db EXCEPT !.sub.workflow = "EVALUATING"]
        /\ UNCHANGED <<raw, tasks, session, setting, faults>>
    BY <1>9 DEF StartEvaluation
  <2>2. db' \in Dbs
    BY <2>1 DEF TypeInv, Dbs, Submission, WorkflowState
  <2> QED  BY <2>1, <2>2 DEF TypeInv, SessionOK, Transacts, Client
<1> QED  BY <1>1, <1>2, <1>3, <1>4, <1>5, <1>6, <1>7, <1>8, <1>9 DEF Step

---------------------------------------------------------------------------
(* The evidence                                                            *)

\* What a transaction may do is a matter of the transaction and of the setting.
LEMMA ChangeKept ==
  ASSUME NEW s \in Sessions, NEW c \in Transactions, Change(s, c), UNCHANGED setting
  PROVE  Change(s, c)'
<1>1. Texts(s, c)'
  BY DEF Change, Texts, PutText, ConfirmedText, AnsweredText, Erased, Kept, Client, Deleted
<1>2. Draws(s, c)' /\ Speaks(s, c)'
  BY DEF Change, Draws, Speaks, Client, Touches, Creates, Cropped, Deleted
<1>3. Maps(s, c)' /\ Links(s, c)'
  BY DEF Change, Maps, Links, Client
<1>4. Gates(s, c)'
  BY DEF Change, Gates, Client, Untouched
<1> QED  BY <1>1, <1>2, <1>3, <1>4 DEF Change

SameEvidence == /\ db'.region = db.region /\ db'.mapping = db.mapping
                /\ db'.link = db.link /\ db'.text = db.text

LEMMA SinceKept ==
  ASSUME NEW c \in Transactions, Since(c), SameEvidence
  PROVE  Since(c)'
BY DEF Since, SameEvidence, Deleted, Creates

LEMMA RowsKept ==
  ASSUME EvidenceInv, SameEvidence,
         db'.sub.workflow = "READY_FOR_EVALUATION" => db.sub.workflow = "READY_FOR_EVALUATION"
  PROVE  RowsOK'
BY DEF EvidenceInv, RowsOK, SameEvidence, Deleted

LEMMA HeldTransaction ==
  ASSUME TypeInv, NEW s \in Sessions, Transacts(s)
  PROVE  session[s] \in Transactions
BY DEF TypeInv, Transacts, States, Waiting, Idle, Enqueues, Runs

\* One session moves on, and the evidence stays what it was.
LEMMA EvidenceKept ==
  ASSUME TypeInv, EvidenceInv, NEW s \in Sessions,
         \A t \in Sessions : t # s => session'[t] = session[t],
         UNCHANGED setting, SameEvidence,
         db'.sub.workflow = "READY_FOR_EVALUATION" => db.sub.workflow = "READY_FOR_EVALUATION",
         \/ session'[s] = session[s]
         \/ session'[s].op # "COMMIT"
         \/ \E c \in Transactions : /\ session'[s] = c /\ Change(s, c) /\ Since(c)
                                    /\ \A r \in Regions : Creates(c, r) => Unreserved(r)
  PROVE  EvidenceInv'
<1>1. RowsOK'
  BY RowsKept
<1>2. ASSUME NEW t \in Sessions, NEW c \in {session'[t]}, c.op = "COMMIT"
      PROVE  /\ Change(t, c)' /\ Since(c)' /\ c \in Transactions
             /\ \/ session[t] = c
                \/ t = s /\ \A r \in Regions : Creates(c, r) => Unreserved(r)
  <2>1. CASE session'[t] = session[t]
    <3>1. Transacts(t) /\ c \in {session[t]}
      BY <1>2, <2>1 DEF Transacts
    <3>2. Change(t, c) /\ Since(c) /\ c \in Transactions
      BY <3>1, HeldTransaction DEF EvidenceInv
    <3> QED  BY <3>1, <3>2, ChangeKept, SinceKept
  <2>2. CASE session'[t] # session[t]
    <3>1. t = s
      BY <2>2
    <3>2. PICK d \in Transactions :
            /\ session'[s] = d /\ Change(s, d) /\ Since(d)
            /\ \A r \in Regions : Creates(d, r) => Unreserved(r)
      BY <1>2, <2>2, <3>1
    <3>3. c = d /\ d \in Transactions
      BY <3>1, <3>2
    <3> QED  BY <3>1, <3>2, <3>3, ChangeKept, SinceKept
  <2> QED  BY <2>1, <2>2
<1>3. ASSUME NEW t \in Sessions, NEW v \in Sessions, NEW r \in Regions,
             NEW c \in {session'[t]}, NEW d \in {session'[v]},
             c.op = "COMMIT", d.op = "COMMIT", Creates(c, r), Creates(d, r)
      PROVE  t = v
  <2>1. /\ session[t] = c \/ (t = s /\ Unreserved(r))
        /\ session[v] = d \/ (v = s /\ Unreserved(r))
    BY <1>2, <1>3
  <2>2. CASE session[t] = c /\ session[v] = d
    BY <1>3, <2>2 DEF EvidenceInv, DrawnOnce, Transacts
  <2>3. CASE t = s /\ v = s
    BY <2>3
  <2>4. CASE session[t] = c /\ v = s /\ Unreserved(r)
    BY <1>3, <2>4 DEF Unreserved, Creates
  <2>5. CASE session[v] = d /\ t = s /\ Unreserved(r)
    BY <1>3, <2>5 DEF Unreserved, Creates
  <2> QED  BY <2>1, <2>2, <2>3, <2>4, <2>5
<1>4. DrawnOnce'
  BY <1>3 DEF DrawnOnce, Transacts, Creates
<1> QED  BY <1>1, <1>2, <1>4 DEF EvidenceInv, Transacts

\* Nothing moves but the broker.
LEMMA EvidenceStays ==
  ASSUME TypeInv, EvidenceInv, UNCHANGED <<db, session, setting>>
  PROVE  EvidenceInv'
<1>1. SameEvidence
  BY DEF SameEvidence
<1>2. RowsOK'
  BY <1>1, RowsKept
<1>3. DrawnOnce'
  BY DEF EvidenceInv, DrawnOnce, Transacts
<1>4. ASSUME NEW t \in Sessions, NEW c \in {session'[t]}, c.op = "COMMIT"
      PROVE  Change(t, c)' /\ Since(c)'
  <2>1. Transacts(t) /\ c \in {session[t]}
    BY <1>4 DEF Transacts
  <2>2. Change(t, c) /\ Since(c) /\ c \in Transactions
    BY <2>1, HeldTransaction DEF EvidenceInv
  <2> QED  BY <1>1, <2>2, ChangeKept, SinceKept
<1> QED  BY <1>2, <1>3, <1>4 DEF EvidenceInv, Transacts

\* The length of a region's transcriptions after a commit.
LEMMA CommitLengths ==
  ASSUME TypeInv, EvidenceInv, NEW s \in Sessions, Commit(s), NEW r \in Regions
  PROVE  /\ db.text[r] \in Seq(Transcription) /\ db'.text[r] \in Seq(Transcription)
         /\ Len(db.text[r]) \in Nat /\ Len(db'.text[r]) \in Nat
         /\ Deleted(db', r) \/ Len(db.text[r]) <= Len(db'.text[r])
         /\ Deleted(db', r) => db'.text[r] = << >>
<1> DEFINE c == session[s]
           cur == db.text[r]
           T == db'.text[r]
<1>1. TextCommits(s, c, r, T) /\ db' \in Dbs /\ db \in Dbs
  BY CommitRows DEF TypeInv
<1>2. cur \in Seq(Transcription) /\ T \in Seq(Transcription)
  BY <1>1 DEF Dbs
<1>3. Len(cur) \in Nat /\ Len(T) \in Nat
  BY <1>2, LenProperties
<1>4. Deleted(db, r) => cur = << >>
  BY DEF EvidenceInv, RowsOK
<1>5. Deleted(db', r) /\ ~Deleted(db, r) => Deleted(c.staged, r)
  BY CommitRegions
<1>6. \/ T = cur /\ ~Deleted(c.staged, r)
      \/ T = << >> /\ Deleted(c.staged, r)
      \/ Len(T) = Len(cur) + 1 /\ ~Deleted(db, r) /\ ~Deleted(c.staged, r)
      \/ Len(T) = Len(cur) /\ ~Deleted(c.staged, r)
  <2>1. ASSUME NEW x \in Transcription, T = Append(cur, x)
        PROVE  Len(T) = Len(cur) + 1
    <3> HIDE DEF T, cur
    <3> QED  BY <1>2, <2>1
  <2>2. AnswerCommits(s, c, r, T) => Len(T) = Len(cur) + 1 /\ ~Deleted(db, r)
    BY <2>1 DEF AnswerCommits
  <2>3. PutCommits(s, c, r, T) => Len(T) = Len(cur) + 1 /\ ~Deleted(db, r)
    BY DEF PutCommits
  <2>4. ConfirmCommits(s, c, r, T) => Len(T) = Len(cur)
    BY DEF ConfirmCommits
  <2> QED  BY <1>1, <2>2, <2>3, <2>4 DEF TextCommits
<1>7. Deleted(db', r) => T = << >>
  <2>1. CASE Deleted(db, r)
    <3>1. T = << >> \/ (T = cur) \/ Len(T) = Len(cur)
      BY <1>6, <2>1
    <3> QED  BY <1>2, <1>4, <2>1, <3>1, EmptySeq
  <2>2. CASE ~Deleted(db, r)
    BY <1>5, <1>6, <2>2
  <2> QED  BY <2>1, <2>2
<1>8. ASSUME ~Deleted(db', r)
      PROVE  Len(cur) <= Len(T)
  <2>1. Deleted(c.staged, r) => T = << >>
    BY <1>6
  <2>2. Deleted(c.staged, r) => Deleted(db', r)
    <3>1. /\ c.loaded \in Dbs /\ c.staged \in Dbs /\ Since(c)
      BY CommitRows, ReadyChange
    <3>2. c.loaded.region[r] \in Region /\ c.staged.region[r] \in Region /\ db.region[r] \in Region
      BY <1>1, <3>1 DEF Dbs
    <3>3. db'.region[r].source = FlushColumn(c.loaded.region[r].source,
                                   c.staged.region[r].source, db.region[r].source)
      BY <3>2, CommitRows, FlushedRegion
    <3>4. c.loaded.region[r].source = "DELETED" => db.region[r].source = "DELETED"
      BY <3>1 DEF Since, Deleted
    <3> QED  BY <3>3, <3>4 DEF FlushColumn, Deleted
  <2> QED  BY <1>3, <1>6, <1>8, <2>2
<1> QED  BY <1>2, <1>3, <1>7, <1>8

\* What the others have read, when a transaction commits.
LEMMA SinceCommits ==
  ASSUME TypeInv, EvidenceInv, NEW s \in Sessions, Commit(s),
         NEW t \in Sessions, t # s, Transacts(t), NEW d \in {session[t]}
  PROVE  Since(d)'
<1>1. Since(d) /\ Ready(s) /\ d \in Transactions
  BY CommitRows, HeldTransaction DEF EvidenceInv
<1>2. ASSUME NEW r \in Regions
      PROVE  /\ d.loaded.link[r] # None => d.loaded.region[r].source # None
             /\ Deleted(d.loaded, r) => Deleted(db', r)
             /\ d.loaded.region[r].source # None => db'.region[r].source # None
             /\ Creates(d, r) => db'.region[r].source = None
             /\ Deleted(db', r) \/ Len(d.loaded.text[r]) <= Len(db'.text[r])
  <2>1. /\ d.loaded.link[r] # None => d.loaded.region[r].source # None
        /\ Deleted(d.loaded, r) => Deleted(db, r)
        /\ d.loaded.region[r].source # None => db.region[r].source # None
        /\ Creates(d, r) => db.region[r].source = None
        /\ Deleted(db, r) \/ Len(d.loaded.text[r]) <= Len(db.text[r])
    BY <1>1 DEF Since
  <2>2. /\ Deleted(db, r) => Deleted(db', r)
        /\ db.region[r].source # None => db'.region[r].source # None
        /\ db'.region[r].source # None /\ db.region[r].source = None => Creates(session[s], r)
    BY CommitRegions
  <2>3. ~(Creates(d, r) /\ Creates(session[s], r))
    BY <1>1 DEF EvidenceInv, DrawnOnce, Ready
  <2>4. Len(d.loaded.text[r]) \in Nat
    BY <1>1, LenProperties DEF Transactions, Dbs
  <2>5. Deleted(db', r) \/ Len(d.loaded.text[r]) <= Len(db'.text[r])
    <3>1. /\ Len(db.text[r]) \in Nat /\ Len(db'.text[r]) \in Nat
          /\ Deleted(db', r) \/ Len(db.text[r]) <= Len(db'.text[r])
      BY CommitLengths
    <3>2. CASE Deleted(db', r)
      BY <3>2
    <3>3. CASE ~Deleted(db', r)
      <4>1. Len(d.loaded.text[r]) <= Len(db.text[r])
        BY <2>1, <2>2, <3>3
      <4> QED  BY <2>4, <3>1, <3>3, <4>1
    <3> QED  BY <3>2, <3>3
  <2>6. Creates(d, r) => db'.region[r].source = None
    BY <2>1, <2>2, <2>3
  <2>7. d.loaded.region[r].source # None => db'.region[r].source # None
    BY <2>1, <2>2
  <2>8. Deleted(d.loaded, r) => Deleted(db', r)
    BY <2>1, <2>2
  <2> QED  BY <2>1, <2>5, <2>6, <2>7, <2>8
<1>3. ASSUME NEW u \in Questions
      PROVE  /\ d.loaded.mapping[u].by # None => db'.mapping[u].by # None
             /\ d.loaded.mapping[u].by = "HUMAN" => db'.mapping[u].by = "HUMAN"
  BY <1>1, CommitMappings DEF Since
<1> QED  BY <1>2, <1>3 DEF Since, Deleted, Creates

LEMMA RowsCommit ==
  ASSUME TypeInv, EvidenceInv, NEW s \in Sessions, Commit(s)
  PROVE  RowsOK'
<1> DEFINE c == session[s]
<1>1. Ready(s) /\ db' \in Dbs /\ db \in Dbs
  BY CommitRows DEF TypeInv
<1>2. ASSUME NEW r \in Regions
      PROVE  /\ Deleted(db', r) => db'.text[r] = << >>
             /\ db'.link[r] # None => /\ db'.region[r].source \in {"AI", "HUMAN"}
                                      /\ db'.mapping[db'.link[r]].by # None
  <2>1. Deleted(db', r) => db'.text[r] = << >>
    BY CommitLengths
  <2>2. CASE db'.link[r] # db.link[r]
    BY <2>1, <2>2, CommitLinks
  <2>3. CASE db'.link[r] = db.link[r] /\ db.link[r] # None
    <3>1. /\ db.region[r].source \in {"AI", "HUMAN"} /\ db.mapping[db.link[r]].by # None
          /\ db.link[r] \in Questions
      BY <1>1, <2>3 DEF EvidenceInv, RowsOK, Dbs
    <3>2. db'.mapping[db.link[r]].by # None
      BY <3>1, CommitMappings
    <3>3. db'.region[r].source # None /\ ~Deleted(db', r)
      BY <2>3, <3>1, CommitRegions DEF Deleted, None
    <3>4. db'.region[r].source \in {None, "AI", "HUMAN", "DELETED"}
      BY <1>1 DEF Dbs, Region
    <3> QED  BY <2>1, <2>3, <3>2, <3>3, <3>4 DEF Deleted
  <2> QED  BY <2>1, <2>2, <2>3
<1>3. \A u \in Questions : db'.mapping[u].state = "CONFIRMED" => db'.mapping[u].by = "HUMAN"
  BY CommitMappings
<1>4. ASSUME db'.sub.workflow = "READY_FOR_EVALUATION", NEW u \in Questions
      PROVE  db'.mapping[u].by # None
  <2>1. db'.sub.workflow
          = FlushColumn(c.loaded.sub.workflow, c.staged.sub.workflow, db.sub.workflow)
    BY CommitRows
  <2>2. Gates(s, c) /\ Since(c)
    BY <1>1, ReadyChange DEF Change
  <2>3. CASE db.sub.workflow = "READY_FOR_EVALUATION"
    BY <2>3, CommitMappings DEF EvidenceInv, RowsOK
  <2>4. CASE db.sub.workflow # "READY_FOR_EVALUATION"
    <3>1. /\ c.staged.sub.workflow = "READY_FOR_EVALUATION"
          /\ c.loaded.sub.workflow # "READY_FOR_EVALUATION"
      BY <1>4, <2>1, <2>4 DEF FlushColumn
    <3>2. c.loaded.mapping[u].by # None
      BY <2>2, <3>1 DEF Gates, Resolved
    <3> QED  BY <2>2, <3>2, CommitMappings DEF Since
  <2> QED  BY <2>3, <2>4
<1> QED  BY <1>2, <1>3, <1>4 DEF RowsOK, Deleted

LEMMA EvidenceCommits ==
  ASSUME TypeInv, EvidenceInv, NEW s \in Sessions, Commit(s)
  PROVE  EvidenceInv'
<1>1. PICK x : x = AfterCommit(session[s])
  OBVIOUS
<1>2. Ready(s) /\ session' = [session EXCEPT ![s] = x] /\ UNCHANGED setting
  BY <1>1, CommitRows
<1>3. x.op # "COMMIT"
  BY <1>1, <1>2, ReadyChange, AfterCommitType DEF TypeInv, SessionOK, Ready
<1>4. ASSUME NEW t \in Sessions, session'[t].op = "COMMIT"
      PROVE  t # s /\ session'[t] = session[t] /\ Transacts(t)
  BY <1>2, <1>3, <1>4 DEF TypeInv, Transacts
<1>5. DrawnOnce'
  BY <1>4 DEF EvidenceInv, DrawnOnce, Transacts, Creates
<1>6. ASSUME NEW t \in Sessions, NEW d \in {session'[t]}, d.op = "COMMIT"
      PROVE  Change(t, d)' /\ Since(d)'
  <2>1. t # s /\ d \in {session[t]} /\ Transacts(t)
    BY <1>4, <1>6
  <2>2. Change(t, d) /\ d \in Transactions
    BY <2>1, HeldTransaction DEF EvidenceInv
  <2> QED  BY <1>2, <2>1, <2>2, ChangeKept, SinceCommits
<1>7. RowsOK'
  BY RowsCommit
<1> QED  BY <1>5, <1>6, <1>7 DEF EvidenceInv, Transacts

LEMMA BeginsSince ==
  ASSUME Inv, NEW s \in Sessions, NEW c \in Transactions, Begins(s, c)
  PROVE  Since(c)
<1>1. /\ c.loaded.region = db.region /\ c.loaded.mapping = db.mapping
      /\ c.loaded.link = db.link /\ c.loaded.text = db.text
  BY DEF Begins
<1>2. \A r \in Regions : Len(db.text[r]) \in Nat
  BY LenProperties DEF Inv, TypeInv, Dbs
<1>3. \A r \in Regions : db.link[r] # None => db.region[r].source # None
  BY DEF Inv, EvidenceInv, RowsOK, None
<1> QED  BY <1>1, <1>2, <1>3 DEF Since, Deleted, Creates

LEMMA EvidenceStep ==
  ASSUME Inv, Step
  PROVE  EvidenceInv'
<1> USE DEF Inv
<1>1. CASE UNCHANGED <<db, raw, session, setting>> /\ FewerTasks
  BY <1>1, EvidenceStays
<1>2. ASSUME NEW s \in Sessions, Begin(s)
      PROVE  EvidenceInv'
  <2>1. PICK c \in Transactions : Begins(s, c)
    BY <1>2 DEF Begin
  <2>2. /\ session'[s] = c /\ Change(s, c) /\ UNCHANGED <<db, setting>>
        /\ \A r \in Regions : Creates(c, r) => Unreserved(r)
        /\ \A t \in Sessions : t # s => session'[t] = session[t]
    BY <2>1 DEF Begins, TypeInv
  <2>3. Since(c) /\ c \in Transactions
    BY <2>1, BeginsSince
  <2>4. SameEvidence
    BY <2>2 DEF SameEvidence
  <2> QED  BY <2>2, <2>3, <2>4, EvidenceKept
<1>3. ASSUME NEW s \in Sessions, NEW x \in States, x.op # "COMMIT",
             session' = [session EXCEPT ![s] = x], UNCHANGED <<db, setting>>
      PROVE  EvidenceInv'
  <2>1. /\ session'[s].op # "COMMIT" /\ SameEvidence
        /\ \A t \in Sessions : t # s => session'[t] = session[t]
    BY <1>3 DEF TypeInv, SameEvidence
  <2> QED  BY <1>3, <2>1, EvidenceKept
<1>4. ASSUME NEW s \in Sessions, Quiet(s) \/ Enqueue(s)
      PROVE  EvidenceInv'
  <2>1. Idle \in States /\ Idle.op # "COMMIT"
    BY DEF States, Waiting, Idle
  <2>2. session' = [session EXCEPT ![s] = Idle] /\ UNCHANGED <<db, setting>>
    BY <1>4 DEF Quiet, Lets, Enqueue
  <2> QED  BY <1>3, <2>1, <2>2
<1>5. ASSUME NEW q \in Requests, UploadRead(q) \/ UploadInsert(q)
      PROVE  EvidenceInv'
  <2>1. PICK x \in {[op |-> "INSERT"], [op |-> "STORE"], Idle} :
          session' = [session EXCEPT ![q] = x] /\ UNCHANGED <<db, setting>>
    BY <1>5 DEF UploadRead, UploadInsert
  <2>2. x \in States /\ x.op # "COMMIT" /\ q \in Sessions
    BY <2>1 DEF States, Waiting, Idle, Sessions
  <2> QED  BY <1>3, <2>1, <2>2
<1>6. ASSUME NEW q \in Requests, UploadStore(q) \/ UploadStoreFails(q)
      PROVE  EvidenceInv'
  <2>1. PICK c \in Transactions : Stores(q, c)
    BY <1>6, UploadStores
  <2>2. /\ session[q].op = "STORE" /\ session'[q] = c /\ UNCHANGED <<db, setting>>
        /\ \A t \in Sessions : t # q => session'[t] = session[t]
        /\ c.loaded = EmptyDb /\ Untouched(c) /\ Gates(q, c)
        /\ c.staged.sub.pair = c.loaded.sub.pair /\ q \in Sessions
    BY <2>1 DEF Stores, TypeInv, Sessions
  <2>3. c \in Transactions
    BY <2>1
  <2>4. Change(q, c)
    BY <2>2, <2>3, UntouchedChange
  <2>5. db = EmptyDb
    BY <2>2 DEF UploadInv, Uploads
  <2>6. Since(c)
    <3>1. \A r \in Regions : Len(db.text[r]) \in Nat
      BY LenProperties DEF TypeInv, Dbs
    <3>2. \A r \in Regions : db.link[r] # None => db.region[r].source # None
      BY DEF EvidenceInv, RowsOK, None
    <3>3. \A r \in Regions : ~Creates(c, r)
      BY <2>2 DEF Untouched, Creates
    <3>4. c.loaded = db
      BY <2>2, <2>5
    <3> QED  BY <3>1, <3>2, <3>3, <3>4 DEF Since, Deleted
  <2>7. \A r \in Regions : Creates(c, r) => Unreserved(r)
    BY <2>2 DEF Untouched, Creates
  <2>8. SameEvidence
    BY <2>2 DEF SameEvidence
  <2> QED  BY <2>2, <2>3, <2>4, <2>6, <2>7, <2>8, EvidenceKept
<1>7. ASSUME NEW q \in Requests, StartEvaluation(q)
      PROVE  EvidenceInv'
  <2>1. db' = [db EXCEPT !.sub.workflow = "EVALUATING"] /\ UNCHANGED <<session, setting>>
    BY <1>7 DEF StartEvaluation
  <2>2. SameEvidence /\ db'.sub.workflow = "EVALUATING" /\ q \in Sessions
    BY <2>1 DEF SameEvidence, TypeInv, Dbs, Submission, Sessions
  <2> QED  BY <2>1, <2>2, EvidenceKept
<1> QED  BY <1>1, <1>2, <1>4, <1>5, <1>6, <1>7, EvidenceCommits DEF Step

---------------------------------------------------------------------------
(* The upload                                                              *)

\* One session moves on: only an upload finds nothing committed.
LEMMA UploadKept ==
  ASSUME Inv, NEW s \in Sessions, NEW x, session'[s] = x,
         \A t \in Sessions : t # s => session'[t] = session[t],
         x.op = "STORE" \/ (x.op = "COMMIT" /\ x.loaded.sub.workflow = None) =>
           /\ db'.sub.workflow = None /\ s \in Requests
           /\ x.op = "COMMIT" => x.loaded = EmptyDb /\ x.stage = None
           /\ \A t \in Sessions : t # s => ~Uploads(t),
         x.op = "RUN" => x.sub.workflow # None,
         db'.sub.workflow = None =>
           /\ db' = db /\ FewerTasks
           /\ \/ x.op \in {"IDLE", "INSERT", "STORE"}
              \/ x.op = "COMMIT" /\ x.loaded.sub.workflow = None,
         db'.sub.workflow # None => \A t \in Sessions : t # s => ~Uploads(t)
  PROVE  UploadInv'
<1> USE DEF Inv
<1>1. Uploads(s)' <=> x.op = "STORE" \/ (x.op = "COMMIT" /\ x.loaded.sub.workflow = None)
  BY DEF Uploads, Transacts
<1>2. \A t \in Sessions : t # s => (Uploads(t)' <=> Uploads(t)) /\ (Transacts(t)' <=> Transacts(t))
  BY DEF Uploads, Transacts
<1>3. ASSUME db'.sub.workflow = None
      PROVE  /\ db' = EmptyDb /\ \A t \in Stage : tasks'[t] = 0
             /\ \A t \in Sessions : session'[t].op \in {"IDLE", "INSERT"} \/ Uploads(t)'
  <2>1. db = EmptyDb /\ \A t \in Stage : tasks[t] = 0
    BY <1>3 DEF UploadInv
  <2>2. \A t \in Stage : tasks'[t] = 0
    BY <1>3, <2>1 DEF FewerTasks
  <2>3. \A t \in Sessions : session'[t].op \in {"IDLE", "INSERT"} \/ Uploads(t)'
    BY <1>1, <1>2, <1>3 DEF UploadInv
  <2> QED  BY <1>3, <2>1, <2>2, <2>3
<1>4. \A t \in Sessions : Uploads(t)' => db'.sub.workflow = None /\ t \in Requests
  BY <1>1, <1>2 DEF UploadInv
<1>5. \A t \in Sessions : Uploads(t)' /\ Transacts(t)' =>
        session'[t].loaded = EmptyDb /\ session'[t].stage = None
  <2>1. Uploads(s)' /\ Transacts(s)' => session'[s].loaded = EmptyDb /\ session'[s].stage = None
    BY <1>1 DEF Transacts
  <2> QED  BY <1>2, <2>1 DEF UploadInv
<1>6. \A t, v \in Sessions : Uploads(t)' /\ Uploads(v)' => t = v
  BY <1>1, <1>2 DEF UploadInv
<1>7. \A t \in Sessions : session'[t].op = "RUN" => session'[t].sub.workflow # None
  BY DEF UploadInv
<1> QED  BY <1>3, <1>4, <1>5, <1>6, <1>7 DEF UploadInv

\* The first commit is an upload's, and a commit leaves a submission.
LEMMA CommitUploads ==
  ASSUME Inv, NEW s \in Sessions, Commit(s)
  PROVE  /\ db'.sub.workflow # None
         /\ \A t \in Sessions : t # s => ~Uploads(t)
<1> USE DEF Inv
<1> DEFINE c == session[s]
<1>1. /\ Ready(s)
      /\ db'.sub.workflow
           = FlushColumn(c.loaded.sub.workflow, c.staged.sub.workflow, db.sub.workflow)
  BY CommitRows
<1>2. c.staged.sub.workflow # None
  BY <1>1, ReadyChange DEF Change, Gates
<1>3. db.sub.workflow = None => Uploads(s)
  BY <1>1 DEF UploadInv, Ready, Transacts
<1>4. Uploads(s) => c.loaded.sub.workflow = None
  BY <1>1 DEF Uploads, Ready, Transacts
<1>5. db'.sub.workflow # None
  BY <1>1, <1>2, <1>3, <1>4 DEF FlushColumn
<1>6. \A t \in Sessions : t # s => ~Uploads(t)
  BY <1>3 DEF UploadInv
<1> QED  BY <1>5, <1>6

LEMMA UploadStep ==
  ASSUME Inv, Step
  PROVE  UploadInv'
<1> USE DEF Inv
<1>1. CASE UNCHANGED <<db, raw, session, setting>> /\ FewerTasks
  BY <1>1 DEF UploadInv, Uploads, Transacts, FewerTasks
<1>2. ASSUME NEW s \in Sessions, Begin(s)
      PROVE  UploadInv'
  <2>1. PICK c \in Transactions : Begins(s, c)
    BY <1>2 DEF Begin
  <2>2. /\ session'[s] = c /\ UNCHANGED db /\ db.sub.workflow # None
        /\ c.loaded.sub.workflow # None /\ c.op = "COMMIT"
        /\ \A t \in Sessions : t # s => session'[t] = session[t]
    BY <2>1 DEF Begins, TypeInv, Transactions
  <2>3. \A t \in Sessions : ~Uploads(t)
    BY <2>2 DEF UploadInv
  <2> QED  BY <2>2, <2>3, UploadKept
<1>3. ASSUME NEW s \in Sessions, NEW x \in {Idle, [op |-> "INSERT"]},
             session' = [session EXCEPT ![s] = x], UNCHANGED db,
             FewerTasks \/ db.sub.workflow # None
      PROVE  UploadInv'
  <2>1. /\ session'[s] = x /\ x.op \in {"IDLE", "INSERT"}
        /\ \A t \in Sessions : t # s => session'[t] = session[t]
    BY <1>3 DEF TypeInv, Idle
  <2>2. db.sub.workflow # None => \A t \in Sessions : ~Uploads(t)
    BY DEF UploadInv
  <2> QED  BY <1>3, <2>1, <2>2, UploadKept
<1>4. ASSUME NEW s \in Sessions, Quiet(s)
      PROVE  UploadInv'
  BY <1>3, <1>4 DEF Quiet, Lets
<1>5. ASSUME NEW s \in Sessions, Enqueue(s)
      PROVE  UploadInv'
  <2>1. db.sub.workflow # None
    BY <1>5 DEF Enqueue, UploadInv, Uploads, Transacts
  <2> QED  BY <1>3, <1>5, <2>1 DEF Enqueue
<1>6. ASSUME NEW s \in Sessions, Commit(s)
      PROVE  UploadInv'
  <2>1. PICK x : x = AfterCommit(session[s])
    OBVIOUS
  <2>2. Ready(s) /\ session' = [session EXCEPT ![s] = x]
    BY <1>6, <2>1, CommitRows
  <2>3. /\ x.op \in {"IDLE", "ENQUEUE", "RUN"}
        /\ x.op = "RUN" => x.sub = session[s].staged.sub
    BY <2>1, <2>2, ReadyChange, AfterCommitType DEF TypeInv, SessionOK, Ready
  <2>4. session[s].staged.sub.workflow # None
    BY <2>2, ReadyChange DEF Change, Gates
  <2>5. session'[s] = x /\ \A t \in Sessions : t # s => session'[t] = session[t]
    BY <2>2 DEF TypeInv
  <2> QED  BY <1>6, <2>3, <2>4, <2>5, CommitUploads, UploadKept
<1>7. ASSUME NEW q \in Requests, UploadRead(q)
      PROVE  UploadInv'
  <2>1. FewerTasks /\ q \in Sessions
    BY <1>7, SameTasks DEF UploadRead, Sessions
  <2> QED  BY <1>3, <1>7, <2>1 DEF UploadRead
<1>8. ASSUME NEW q \in Requests, UploadInsert(q)
      PROVE  UploadInv'
  <2>1. FewerTasks /\ q \in Sessions
    BY <1>8, SameTasks DEF UploadInsert, Sessions
  <2>2. CASE db.sub.workflow # None
    BY <1>3, <1>8, <2>1, <2>2 DEF UploadInsert
  <2>3. CASE db.sub.workflow = None
    <3>1. PICK x : x = [op |-> "STORE"]
      OBVIOUS
    <3>2. /\ session' = [session EXCEPT ![q] = x] /\ x.op = "STORE" /\ UNCHANGED db
          /\ \A p \in Requests \ {q} : session[p].op \notin {"STORE", "COMMIT"}
      BY <1>8, <2>3, <3>1 DEF UploadInsert
    <3>3. session'[q] = x /\ \A t \in Sessions : t # q => session'[t] = session[t]
      BY <2>1, <3>2 DEF TypeInv
    <3>4. \A t \in Sessions : t # q => ~Uploads(t)
      BY <3>2 DEF UploadInv, Uploads, Transacts
    <3> QED  BY <2>1, <2>3, <3>2, <3>3, <3>4, UploadKept
  <2> QED  BY <2>2, <2>3
<1>9. ASSUME NEW q \in Requests, UploadStore(q) \/ UploadStoreFails(q)
      PROVE  UploadInv'
  <2>1. PICK c \in Transactions : Stores(q, c)
    BY <1>9, UploadStores
  <2>2. /\ session[q].op = "STORE" /\ session'[q] = c /\ UNCHANGED <<db, tasks>>
        /\ \A t \in Sessions : t # q => session'[t] = session[t]
        /\ c.loaded = EmptyDb /\ c.stage = None /\ q \in Sessions /\ c.op = "COMMIT"
    BY <2>1 DEF Stores, TypeInv, Sessions, Transactions
  <2>3. c.loaded.sub.workflow = None
    BY <2>2 DEF EmptyDb, NoSubmission
  <2>4. Uploads(q) /\ FewerTasks
    BY <2>2, SameTasks DEF Uploads
  <2>5. db.sub.workflow = None /\ \A t \in Sessions : t # q => ~Uploads(t)
    BY <2>2, <2>4 DEF UploadInv
  <2> QED  BY <2>2, <2>3, <2>4, <2>5, UploadKept
<1>10. ASSUME NEW q \in Requests, StartEvaluation(q)
       PROVE  UploadInv'
  <2>1. /\ db' = [db EXCEPT !.sub.workflow = "EVALUATING"] /\ UNCHANGED <<session, setting>>
        /\ db.sub.workflow # None
    BY <1>10 DEF StartEvaluation, None
  <2>2. db'.sub.workflow # None
    BY <2>1 DEF TypeInv, Dbs, Submission, None
  <2>3. \A t \in Sessions : ~Uploads(t)
    BY <2>1 DEF UploadInv
  <2> QED  BY <2>1, <2>2, <2>3 DEF UploadInv, Uploads, Transacts
<1> QED  BY <1>1, <1>2, <1>4, <1>5, <1>6, <1>7, <1>8, <1>9, <1>10 DEF Step

---------------------------------------------------------------------------
(* The source                                                              *)

\* One session moves on, and whoever knows of a job knows of the source.
LEMMA SourceKept ==
  ASSUME Inv, NEW s \in Sessions, NEW x, session'[s] = x,
         \A t \in Sessions : t # s => session'[t] = session[t],
         raw => raw', Knows(x) => raw',
         db'.job["NORM"] = db.job["NORM"] \/ (db'.job["NORM"] # None => raw'),
         tasks'["NORM"] # 0 => tasks["NORM"] # 0 \/ raw'
  PROVE  SourceInv'
<1>1. \A t \in Sessions : Knows(session'[t]) => raw'
  BY DEF Inv, SourceInv
<1>2. (\A t \in Sessions : Knows(session[t]) => raw)'
  BY <1>1 DEF Knows
<1> QED  BY <1>2 DEF Inv, SourceInv, SourceIsStored

LEMMA SourceStep ==
  ASSUME Inv, Step
  PROVE  SourceInv'
<1> USE DEF Inv
<1>1. CASE UNCHANGED <<db, raw, session, setting>> /\ FewerTasks
  BY <1>1 DEF SourceInv, SourceIsStored, Knows, FewerTasks, Stage
<1>2. ASSUME NEW s \in Sessions, Begin(s)
      PROVE  SourceInv'
  <2>1. PICK c \in Transactions : Begins(s, c)
    BY <1>2 DEF Begin
  <2>2. /\ session'[s] = c /\ UNCHANGED <<db, raw>> /\ (Knows(c) => raw)
        /\ \A t \in Sessions : t # s => session'[t] = session[t]
    BY <2>1 DEF Begins, TypeInv
  <2>3. tasks'["NORM"] # 0 => tasks["NORM"] # 0
    BY <1>2 DEF Begin, FewerTasks, Stage
  <2> QED  BY <2>2, <2>3, SourceKept
<1>3. ASSUME NEW s \in Sessions, NEW x \in Waiting,
             session' = [session EXCEPT ![s] = x], UNCHANGED <<db, raw>>,
             tasks'["NORM"] # 0 => tasks["NORM"] # 0 \/ raw'
      PROVE  SourceInv'
  <2>1. /\ session'[s] = x /\ ~Knows(x)
        /\ \A t \in Sessions : t # s => session'[t] = session[t]
    BY <1>3 DEF TypeInv, Waiting, Idle, Knows
  <2> QED  BY <1>3, <2>1, SourceKept
<1>4. ASSUME NEW s \in Sessions, Quiet(s)
      PROVE  SourceInv'
  BY <1>3, <1>4 DEF Quiet, Lets, FewerTasks, Waiting, Stage
<1>5. ASSUME NEW s \in Sessions, Enqueue(s)
      PROVE  SourceInv'
  <2>1. /\ session[s].op = "ENQUEUE" /\ session' = [session EXCEPT ![s] = Idle]
        /\ UNCHANGED <<db, raw>>
        /\ tasks'["NORM"] # 0 => tasks["NORM"] # 0 \/ "NORM" \in session[s].stages
    BY <1>5, EnqueueRows
  <2>2. "NORM" \in session[s].stages => raw
    BY <2>1 DEF SourceInv, Knows
  <2> QED  BY <1>3, <2>1, <2>2 DEF Waiting
<1>6. ASSUME NEW s \in Sessions, Commit(s)
      PROVE  SourceInv'
  <2>1. PICK x : x = AfterCommit(session[s])
    OBVIOUS
  <2>2. /\ Ready(s) /\ session' = [session EXCEPT ![s] = x] /\ UNCHANGED <<raw, tasks>>
        /\ db'.job["NORM"]
             = FlushColumn(session[s].loaded.job["NORM"], session[s].staged.job["NORM"],
                           db.job["NORM"])
    BY <1>6, <2>1, CommitRows
  <2>3. /\ x.op \in {"IDLE", "ENQUEUE", "RUN"}
        /\ x.op = "RUN" => x.stage = session[s].stage
        /\ x.op = "ENQUEUE" => x.stages = session[s].enqueue
    BY <2>1, <2>2, ReadyChange, AfterCommitType DEF TypeInv, SessionOK, Ready
  <2>4. Knows(session[s]) => raw
    BY DEF SourceInv
  <2>5. Knows(x) => raw
    BY <2>2, <2>3, <2>4 DEF Knows, Ready, Transacts
  <2>6. db'.job["NORM"] = db.job["NORM"] \/ (db'.job["NORM"] # None => raw)
    BY <2>2, <2>4 DEF Knows, Ready, Transacts, FlushColumn
  <2>7. session'[s] = x /\ \A t \in Sessions : t # s => session'[t] = session[t]
    BY <2>2 DEF TypeInv
  <2> QED  BY <2>2, <2>5, <2>6, <2>7, SourceKept
<1>7. ASSUME NEW q \in Requests, UploadRead(q)
      PROVE  SourceInv'
  BY <1>3, <1>7 DEF UploadRead, Waiting, Sessions
<1>8. ASSUME NEW q \in Requests, UploadInsert(q)
      PROVE  SourceInv'
  <2>1. PICK x \in {Idle, [op |-> "STORE"]} :
          session' = [session EXCEPT ![q] = x] /\ UNCHANGED <<db, raw, tasks>>
    BY <1>8 DEF UploadInsert
  <2>2. x \in Waiting /\ q \in Sessions
    BY <2>1 DEF Waiting, Sessions
  <2> QED  BY <1>3, <2>1, <2>2
<1>9. ASSUME NEW q \in Requests, UploadStore(q) \/ UploadStoreFails(q)
      PROVE  SourceInv'
  <2>1. PICK c \in Transactions : Stores(q, c)
    BY <1>9, UploadStores
  <2>2. /\ session'[q] = c /\ UNCHANGED <<db, tasks>> /\ (raw => raw') /\ (Knows(c) => raw')
        /\ \A t \in Sessions : t # q => session'[t] = session[t]
        /\ q \in Sessions
    BY <2>1 DEF Stores, TypeInv, Sessions
  <2> QED  BY <2>2, SourceKept
<1>10. ASSUME NEW q \in Requests, StartEvaluation(q)
       PROVE  SourceInv'
  <2>1. db' = [db EXCEPT !.sub.workflow = "EVALUATING"] /\ UNCHANGED <<session, raw, tasks>>
    BY <1>10 DEF StartEvaluation
  <2>2. db'.job = db.job
    BY <2>1 DEF TypeInv, Dbs
  <2> QED  BY <2>1, <2>2 DEF SourceInv, SourceIsStored, Knows
<1> QED  BY <1>1, <1>2, <1>4, <1>5, <1>6, <1>7, <1>8, <1>9, <1>10 DEF Step

---------------------------------------------------------------------------
(* One client                                                              *)

LEMMA OneClient ==
  ASSUME TypeInv, Serial, NEW s \in Requests, NEW t \in Requests,
         session[s] # Idle, session[t] # Idle
  PROVE  s = t
<1>1. s \in setting.clients /\ t \in setting.clients
  BY DEF TypeInv, SessionOK, Client, Sessions
<1>2. IsFiniteSet(setting.clients)
  BY SessionsAssumption DEF TypeInv
<1>3. PICK x : setting.clients = {x}
  BY <1>2, FS_Singleton DEF Serial
<1> QED  BY <1>1, <1>3

LEMMA WorkerNoClient ==
  ASSUME TypeInv, NEW w \in Workers
  PROVE  ~Client(w) /\ w \notin Requests
BY SessionsAssumption DEF TypeInv, Client

LEMMA CroppedTwice ==
  ASSUME NEW a \in Region, NEW b \in Region, NEW c \in Region, Cropped(a, b), Cropped(b, c)
  PROVE  Cropped(a, c)
BY DEF Cropped, Region

LEMMA CroppedSame ==
  ASSUME NEW a \in Region
  PROVE  Cropped(a, a)
BY DEF Cropped, Region

\* A worker adds the provider's answer to a region, or leaves it alone.
LEMMA WorkerTexts ==
  ASSUME TypeInv, EvidenceInv, NEW w \in Workers, Commit(w), NEW r \in Regions
  PROVE  \/ db'.text[r] = db.text[r]
         \/ AnswerCommits(w, session[w], r, db'.text[r])
<1> DEFINE c == session[w]
           T == db'.text[r]
<1>1. w \in Sessions /\ ~Client(w)
  BY WorkerNoClient DEF Sessions
<1>2. TextCommits(w, c, r, T) /\ Texts(w, c) /\ Since(c) /\ RowsOK
  BY <1>1, CommitRows, ReadyChange DEF Change, EvidenceInv
<1>3. CASE Deleted(c.staged, r)
  <2>1. Deleted(c.loaded, r)
    BY <1>1, <1>2, <1>3 DEF Texts, Erased
  <2>2. db.text[r] = << >>
    BY <1>2, <2>1 DEF Since, RowsOK
  <2> QED  BY <1>2, <1>3, <2>2 DEF TextCommits
<1>4. CASE ~Deleted(c.staged, r)
  BY <1>1, <1>2, <1>4 DEF TextCommits, PutCommits, ConfirmCommits
<1> QED  BY <1>3, <1>4

\* What one client's transaction makes of a region's transcriptions.
Supersedes(c, r, T) ==
  /\ ~Deleted(db, r) /\ c.staged.sub = c.loaded.sub /\ Len(T) = Len(db.text[r]) + 1
  /\ \A n \in 1 .. Len(db.text[r]) :
       T[n].pair = db.text[r][n].pair /\ T[n].status = "SUPERSEDED"
  /\ T[Len(T)].pair = c.loaded.sub.pair
Confirms(c, r, T) ==
  /\ Len(T) = Len(db.text[r]) /\ Len(c.loaded.text[r]) # 0
  /\ \A n \in 1 .. Len(db.text[r]) :
       /\ T[n].source = db.text[r][n].source /\ T[n].pair = db.text[r][n].pair
       /\ T[n].status = "SUPERSEDED" <=> db.text[r][n].status = "SUPERSEDED"

LEMMA ClientTexts ==
  ASSUME TypeInv, EvidenceInv, NEW q \in Requests, Commit(q), ClientSees(session[q]),
         NEW r \in Regions, NEW T \in {db'.text[r]}
  PROVE  \/ T = db.text[r] \/ T = << >>
         \/ Supersedes(session[q], r, T) \/ Confirms(session[q], r, T)
<1> DEFINE c == session[q]
           cur == db.text[r]
           old == c.loaded.text[r]
<1>1. q \in Sessions /\ q \notin Workers
  BY SessionsAssumption DEF Sessions
<1>2. TextCommits(q, c, r, T) /\ db \in Dbs /\ c.loaded \in Dbs
  BY <1>1, CommitRows, ReadyChange
<1>3. cur \in Seq(Transcription) /\ old \in Seq(Transcription)
  BY <1>2 DEF Dbs
<1>4. Len(cur) \in Nat /\ DOMAIN cur = 1 .. Len(cur) /\ Len(old) \in Nat
      /\ DOMAIN old = 1 .. Len(old)
  BY <1>3, LenProperties
<1>5. \A n \in DOMAIN old : n \in DOMAIN cur /\ cur[n] = old[n]
  BY DEF ClientSees
<1>6. CASE PutCommits(q, c, r, T)
  <2>1. ASSUME NEW n \in 1 .. Len(cur)
        PROVE  T[n].status = "SUPERSEDED"
    <3>1. Len(cur) = Len(old)
      BY <1>6 DEF PutCommits
    <3>2. cur[n] = old[n]
      BY <1>4, <1>5, <3>1
    <3>3. T[n].status = IF old[n].status = "SUPERSEDED" THEN cur[n].status
                        ELSE "SUPERSEDED"
      BY <1>6 DEF PutCommits
    <3> QED  BY <3>2, <3>3
  <2> QED  BY <1>6, <2>1 DEF PutCommits, Supersedes
<1>7. CASE ConfirmCommits(q, c, r, T)
  <2>1. PICK n \in Active(c.loaded, r) : \A m \in 1 .. Len(cur) :
          /\ m # n => T[m] = cur[m]
          /\ T[m].source = cur[m].source /\ T[m].pair = cur[m].pair
          /\ T[m].status \in {cur[m].status, "CONFIRMED"}
    BY <1>7 DEF ConfirmCommits
  <2>2. n \in DOMAIN old /\ cur[n].status # "SUPERSEDED"
    BY <1>5, <2>1 DEF Active
  <2>3. Len(old) # 0
    BY <1>4, <2>2
  <2> QED  BY <1>7, <2>1, <2>2, <2>3 DEF ConfirmCommits, Confirms
<1> QED  BY <1>1, <1>2, <1>6, <1>7 DEF TextCommits, AnswerCommits

LEMMA Sees ==
  ASSUME TypeInv, SerialInv, Serial, NEW s \in Sessions, Transacts(s)
  PROVE  /\ s \in Requests => ClientSees(session[s])
         /\ s \in Workers => WorkerSees(session[s])
BY DEF SerialInv

\* What a commit makes of a region's transcriptions, whoever's it is.
LEMMA SerialTexts ==
  ASSUME TypeInv, EvidenceInv, SerialInv, Serial, NEW s \in Sessions, Commit(s),
         NEW r \in Regions, NEW T \in {db'.text[r]}
  PROVE  \/ T = db.text[r] \/ T = << >>
         \/ ~Deleted(db, r) /\ Len(T) = Len(db.text[r]) + 1
         \/ /\ Len(T) = Len(db.text[r])
            /\ \A n \in 1 .. Len(db.text[r]) :
                 /\ T[n].source = db.text[r][n].source
                 /\ T[n].status = "SUPERSEDED" <=> db.text[r][n].status = "SUPERSEDED"
<1>1. Transacts(s) /\ db \in Dbs
  BY CommitRows DEF Ready, TypeInv
<1>2. CASE s \in Workers
  <2>1. CASE AnswerCommits(s, session[s], r, T)
    <3>1. db.text[r] \in Seq(Transcription)
      BY <1>1 DEF Dbs
    <3>2. PICK x \in Transcription : T = Append(db.text[r], x)
      BY <2>1 DEF AnswerCommits
    <3>3. Len(T) = Len(db.text[r]) + 1
      BY <3>1, <3>2, AppendProperties
    <3> QED  BY <2>1, <3>3 DEF AnswerCommits
  <2> QED  BY <1>2, <2>1, WorkerTexts
<1>3. CASE s \in Requests
  <2>1. ClientSees(session[s])
    BY <1>1, <1>3, Sees
  <2>2. \/ T = db.text[r] \/ T = << >>
        \/ Supersedes(session[s], r, T) \/ Confirms(session[s], r, T)
    BY <1>3, <2>1, ClientTexts
  <2> QED  BY <2>2 DEF Supersedes, Confirms
<1> QED  BY <1>2, <1>3 DEF Sessions

LEMMA WorkerSeesCommit ==
  ASSUME TypeInv, EvidenceInv, SerialInv, Serial, NEW s \in Sessions, Commit(s),
         NEW w \in Workers, w # s, Transacts(w), NEW d \in {session[w]}
  PROVE  WorkerSees(d)'
<1>1. /\ w \in Sessions /\ d \in Transactions /\ Since(d) /\ WorkerSees(d)
      /\ db \in Dbs /\ db' \in Dbs
  BY HeldTransaction, Sees, CommitRows DEF Sessions, EvidenceInv, TypeInv
<1>2. ASSUME NEW r \in Regions, NEW T \in {db'.text[r]}, NEW old \in {d.loaded.text[r]},
             Len(T) = Len(old), NEW n \in DOMAIN T
      PROVE  /\ T[n].source = old[n].source
             /\ T[n].status = "SUPERSEDED" <=> old[n].status = "SUPERSEDED"
  <2>1. PICK cur : cur = db.text[r]
    OBVIOUS
  <2>2. /\ cur \in Seq(Transcription) /\ T \in Seq(Transcription)
        /\ old \in Seq(Transcription)
    BY <1>1, <1>2, <2>1 DEF Dbs, Transactions
  <2>3. /\ Len(cur) \in Nat /\ Len(T) \in Nat /\ DOMAIN cur = 1 .. Len(cur)
        /\ DOMAIN T = 1 .. Len(T) /\ Len(old) \in Nat
    BY <2>2, LenProperties
  <2>4. Deleted(db, r) \/ Len(old) <= Len(cur)
    BY <1>1, <1>2, <2>1 DEF Since
  <2>5. Len(cur) = Len(old) => \A m \in DOMAIN cur :
          /\ cur[m].source = old[m].source
          /\ cur[m].status = "SUPERSEDED" <=> old[m].status = "SUPERSEDED"
    BY <1>1, <1>2, <2>1 DEF WorkerSees
  <2>6. \/ T = cur \/ T = << >>
        \/ ~Deleted(db, r) /\ Len(T) = Len(cur) + 1
        \/ /\ Len(T) = Len(cur)
           /\ \A m \in 1 .. Len(cur) :
                /\ T[m].source = cur[m].source
                /\ T[m].status = "SUPERSEDED" <=> cur[m].status = "SUPERSEDED"
    BY <1>2, <2>1, SerialTexts
  <2>7. CASE T = << >>
    BY <1>2, <2>3, <2>7
  <2>8. CASE ~Deleted(db, r) /\ Len(T) = Len(cur) + 1
    BY <1>2, <2>3, <2>4, <2>8
  <2>9. CASE T = cur
    BY <1>2, <2>5, <2>9
  <2>10. CASE /\ Len(T) = Len(cur)
              /\ \A m \in 1 .. Len(cur) :
                   /\ T[m].source = cur[m].source
                   /\ T[m].status = "SUPERSEDED" <=> cur[m].status = "SUPERSEDED"
    BY <1>2, <2>3, <2>5, <2>10
  <2> QED  BY <2>6, <2>7, <2>8, <2>9, <2>10
<1> QED  BY <1>2 DEF WorkerSees

LEMMA ClientSeesCommit ==
  ASSUME TypeInv, EvidenceInv, SerialInv, Serial, NEW w \in Workers, Commit(w),
         NEW q \in Requests, Transacts(q), NEW d \in {session[q]}
  PROVE  ClientSees(d)'
<1> DEFINE c == session[w]
<1>1. /\ w \in Sessions /\ q \in Sessions /\ d \in Transactions /\ Since(d) /\ ClientSees(d)
      /\ db \in Dbs /\ db' \in Dbs
  BY HeldTransaction, Sees, CommitRows DEF Sessions, EvidenceInv, TypeInv
<1>2. /\ Change(w, c) /\ UNCHANGED setting /\ ~Client(w)
      /\ db'.sub.pair = FlushColumn(c.loaded.sub.pair, c.staged.sub.pair, db.sub.pair)
  BY <1>1, CommitRows, ReadyChange, WorkerNoClient
<1>3. d.loaded.sub.pair = db'.sub.pair
  BY <1>1, <1>2 DEF Change, Speaks, FlushColumn, ClientSees
<1>4. ASSUME ~setting.provider
      PROVE  db'.text = d.loaded.text
  <2>1. \A r \in Regions : db'.text[r] = db.text[r]
    BY <1>4, WorkerTexts DEF AnswerCommits
  <2>2. db'.text = db.text
    BY <1>1, <2>1 DEF Dbs
  <2> QED  BY <1>1, <1>4, <2>2 DEF ClientSees
<1>5. ASSUME NEW r \in Regions, d.loaded.region[r].source # None
      PROVE  Cropped(d.loaded.region[r], db'.region[r])
  <2>1. /\ d.loaded.region[r] \in Region /\ db.region[r] \in Region /\ db'.region[r] \in Region
    BY <1>1 DEF Dbs, Transactions
  <2>2. Cropped(d.loaded.region[r], db.region[r]) /\ db.region[r].source # None
    BY <1>1, <1>5 DEF ClientSees, Since
  <2>3. Cropped(db.region[r], db'.region[r])
    BY <1>1, <2>2, CommitRegions
  <2> QED  BY <2>1, <2>2, <2>3, CroppedTwice
<1>6. ASSUME NEW r \in Regions, NEW n \in DOMAIN d.loaded.text[r]
      PROVE  n \in DOMAIN db'.text[r] /\ db'.text[r][n] = d.loaded.text[r][n]
  <2>1. PICK cur : cur = db.text[r]
    OBVIOUS
  <2>2. n \in DOMAIN cur /\ cur[n] = d.loaded.text[r][n] /\ cur \in Seq(Transcription)
    BY <1>1, <2>1 DEF ClientSees, Dbs
  <2>3. CASE db'.text[r] = cur
    BY <2>2, <2>3
  <2>4. CASE AnswerCommits(w, c, r, db'.text[r])
    <3>1. PICK x \in Transcription : db'.text[r] = Append(cur, x)
      BY <2>1, <2>4 DEF AnswerCommits
    <3>2. n \in 1 .. Len(cur)
      BY <2>2, LenProperties
    <3>3. Append(cur, x)[n] = cur[n] /\ n \in DOMAIN Append(cur, x)
      BY <2>2, <3>2, AppendProperties
    <3> QED  BY <2>2, <3>1, <3>3
  <2> QED  BY <2>1, <2>3, <2>4, WorkerTexts
<1>7. ASSUME NEW r \in Regions, db'.link[r] # d.loaded.link[r]
      PROVE  d.loaded.link[r] = None /\ d.loaded.mapping[db'.link[r]].by = None
  <2>1. db.link[r] # d.loaded.link[r] =>
          d.loaded.link[r] = None /\ d.loaded.mapping[db.link[r]].by = None
    BY <1>1 DEF ClientSees
  <2>2. CASE db'.link[r] = db.link[r]
    BY <1>7, <2>1, <2>2
  <2>3. CASE db'.link[r] # db.link[r]
    <3>1. /\ db.link[r] = None /\ db'.link[r] \in Questions
          /\ db.mapping[db'.link[r]].by = None
      BY <1>1, <2>3, CommitLinks
    <3>2. d.loaded.mapping[db'.link[r]].by = None
      BY <1>1, <3>1 DEF Since
    <3> QED  BY <2>1, <3>1, <3>2
  <2> QED  BY <2>2, <2>3
<1>8. ASSUME NEW u \in Questions, d.loaded.mapping[u].by # None
      PROVE  db'.mapping[u] = d.loaded.mapping[u]
  <2>1. db.mapping[u] = d.loaded.mapping[u]
    BY <1>1, <1>8 DEF ClientSees
  <2>2. db'.mapping[u] = db.mapping[u]
    BY <1>1, <1>8, <2>1, CommitMappings
  <2> QED  BY <2>1, <2>2
<1> QED  BY <1>2, <1>3, <1>4, <1>5, <1>6, <1>7, <1>8 DEF ClientSees, Cropped

LEMMA OneActiveCommit ==
  ASSUME TypeInv, EvidenceInv, SerialInv, Serial, NEW s \in Sessions, Commit(s)
  PROVE  OneActiveOfEachSource'
<1> DEFINE c == session[s]
<1>1. Transacts(s) /\ db \in Dbs /\ db' \in Dbs
  BY CommitRows DEF Ready, TypeInv
<1>2. ASSUME NEW r \in Regions, NEW T \in {db'.text[r]}, NEW m \in DOMAIN T, NEW n \in DOMAIN T,
             T[m].status # "SUPERSEDED", T[n].status # "SUPERSEDED", T[m].source = T[n].source
      PROVE  m = n
  <2>1. PICK cur : cur = db.text[r]
    OBVIOUS
  <2>2. cur \in Seq(Transcription) /\ T \in Seq(Transcription)
    BY <1>1, <1>2, <2>1 DEF Dbs
  <2>3. /\ Len(cur) \in Nat /\ Len(T) \in Nat /\ DOMAIN cur = 1 .. Len(cur)
        /\ DOMAIN T = 1 .. Len(T)
    BY <2>2, LenProperties
  <2>4. \A i, j \in DOMAIN cur :
          cur[i].status # "SUPERSEDED" /\ cur[j].status # "SUPERSEDED"
            /\ cur[i].source = cur[j].source => i = j
    BY <2>1 DEF SerialInv, OneActiveOfEachSource, Active
  <2>5. CASE T = cur \/ T = << >>
    BY <1>2, <2>3, <2>4, <2>5
  <2>6. CASE Supersedes(c, r, T)
    <3>1. \A i \in 1 .. Len(cur) : T[i].status = "SUPERSEDED"
      BY <2>1, <2>6 DEF Supersedes
    <3>2. Len(T) = Len(cur) + 1
      BY <2>1, <2>6 DEF Supersedes
    <3> QED  BY <1>2, <2>3, <3>1, <3>2
  <2>7. CASE Confirms(c, r, T)
    <3>1. Len(T) = Len(cur)
      BY <2>1, <2>7 DEF Confirms
    <3>2. \A i \in 1 .. Len(cur) :
            /\ T[i].source = cur[i].source
            /\ T[i].status = "SUPERSEDED" <=> cur[i].status = "SUPERSEDED"
      BY <2>1, <2>7 DEF Confirms
    <3> QED  BY <1>2, <2>3, <2>4, <3>1, <3>2
  <2>8. CASE s \in Workers /\ AnswerCommits(s, c, r, T)
    <3>1. PICK old : old = c.loaded.text[r]
      OBVIOUS
    <3>2. PICK x \in Transcription : x.source = "AI" /\ T = Append(cur, x)
      BY <2>1, <2>8 DEF AnswerCommits
    <3>3. /\ Len(T) = Len(cur) + 1 /\ T[Len(T)] = x
          /\ \A i \in 1 .. Len(cur) : T[i] = cur[i]
      BY <2>2, <3>2, AppendProperties
    <3>4. ASSUME NEW i \in 1 .. Len(cur), cur[i].status # "SUPERSEDED"
          PROVE  cur[i].source = "HUMAN"
      <4>1. Len(cur) = Len(old)
        BY <2>1, <2>8, <3>1 DEF AnswerCommits
      <4>2. cur[i].source = old[i].source /\ old[i].status # "SUPERSEDED"
        BY <1>1, <2>1, <2>3, <2>8, <3>1, <3>4, <4>1, Sees DEF WorkerSees
      <4>3. old \in Seq(Transcription)
        BY <1>1, <3>1, HeldTransaction DEF Transactions, Dbs
      <4>4. i \in Active(c.loaded, r)
        BY <3>1, <4>1, <4>2, <4>3, LenProperties DEF Active
      <4> QED  BY <2>8, <3>1, <4>2, <4>4 DEF AnswerCommits
    <3>5. \A i \in DOMAIN T : i \in 1 .. Len(cur) \/ i = Len(T)
      BY <2>3, <3>3
    <3>6. CASE m \in 1 .. Len(cur) /\ n \in 1 .. Len(cur)
      BY <1>2, <2>3, <2>4, <3>3, <3>6
    <3>7. CASE m = Len(T) /\ n = Len(T)
      BY <3>7
    <3>8. CASE m \in 1 .. Len(cur) /\ n = Len(T)
      BY <1>2, <3>2, <3>3, <3>4, <3>8
    <3>9. CASE n \in 1 .. Len(cur) /\ m = Len(T)
      BY <1>2, <3>2, <3>3, <3>4, <3>9
    <3> QED  BY <1>2, <3>5, <3>6, <3>7, <3>8, <3>9
  <2>9. CASE s \in Workers
    BY <1>2, <2>1, <2>5, <2>8, <2>9, WorkerTexts
  <2>10. CASE s \in Requests
    <3>1. ClientSees(c)
      BY <1>1, <2>10, Sees
    <3> QED  BY <1>2, <2>1, <2>5, <2>6, <2>7, <2>10, <3>1, ClientTexts
  <2> QED  BY <2>9, <2>10 DEF Sessions
<1> QED  BY <1>2 DEF OneActiveOfEachSource, Active

LEMMA LanguageCommit ==
  ASSUME TypeInv, EvidenceInv, SerialInv, Serial, NEW s \in Sessions, Commit(s)
  PROVE  TranscribedInItsLanguage'
<1> DEFINE c == session[s]
<1>1. /\ Ready(s) /\ Transacts(s) /\ db \in Dbs /\ db' \in Dbs /\ UNCHANGED setting
      /\ c.loaded \in Dbs /\ Change(s, c)
      /\ db'.sub.pair = FlushColumn(c.loaded.sub.pair, c.staged.sub.pair, db.sub.pair)
  BY CommitRows, ReadyChange DEF Ready, TypeInv
<1>2. ASSUME ~setting.provider, NEW r \in Regions, NEW T \in {db'.text[r]}, NEW n \in DOMAIN T
      PROVE  T[n].pair = db'.sub.pair
  <2>1. PICK cur : cur = db.text[r]
    OBVIOUS
  <2>2. cur \in Seq(Transcription) /\ T \in Seq(Transcription)
    BY <1>1, <1>2, <2>1 DEF Dbs
  <2>3. /\ Len(cur) \in Nat /\ Len(T) \in Nat /\ DOMAIN cur = 1 .. Len(cur)
        /\ DOMAIN T = 1 .. Len(T)
    BY <2>2, LenProperties
  <2>4. \A i \in DOMAIN cur : cur[i].pair = db.sub.pair
    BY <1>2, <2>1 DEF SerialInv, TranscribedInItsLanguage
  <2>5. CASE s \in Workers
    <3>1. T = cur
      BY <1>2, <2>1, <2>5, WorkerTexts DEF AnswerCommits
    <3>2. db'.sub.pair = db.sub.pair
      BY <1>1, <2>5, WorkerNoClient DEF Change, Speaks, FlushColumn
    <3> QED  BY <1>2, <2>4, <3>1, <3>2
  <2>6. CASE s \in Requests
    <3>1. ClientSees(c)
      BY <1>1, <2>6, Sees
    <3>2. /\ cur = c.loaded.text[r] /\ c.loaded.sub.pair = db.sub.pair
      BY <1>2, <2>1, <3>1 DEF ClientSees
    <3>3. CASE c.staged.sub.pair # c.loaded.sub.pair
      <4>1. cur = << >>
        BY <1>1, <3>2, <3>3 DEF Change, Speaks
      <4>2. Len(cur) = 0 /\ c.staged.sub # c.loaded.sub
        BY <3>3, <4>1
      <4>3. T = cur \/ T = << >>
        BY <1>2, <2>1, <2>6, <3>1, <3>2, <4>2, ClientTexts DEF Supersedes, Confirms
      <4> QED  BY <1>2, <4>1, <4>3
    <3>4. CASE c.staged.sub.pair = c.loaded.sub.pair
      <4>1. db'.sub.pair = db.sub.pair
        BY <1>1, <3>4 DEF FlushColumn
      <4>2. CASE T = cur \/ T = << >>
        BY <1>2, <2>4, <4>1, <4>2
      <4>3. CASE Supersedes(c, r, T)
        <5>1. /\ Len(T) = Len(cur) + 1 /\ T[Len(T)].pair = db.sub.pair
              /\ \A i \in 1 .. Len(cur) : T[i].pair = cur[i].pair
          BY <2>1, <3>2, <4>3 DEF Supersedes
        <5> QED  BY <1>2, <2>3, <2>4, <4>1, <5>1
      <4>4. CASE Confirms(c, r, T)
        <5>1. Len(T) = Len(cur) /\ \A i \in 1 .. Len(cur) : T[i].pair = cur[i].pair
          BY <2>1, <4>4 DEF Confirms
        <5> QED  BY <1>2, <2>3, <2>4, <4>1, <5>1
      <4> QED  BY <1>2, <2>1, <2>6, <3>1, <4>2, <4>3, <4>4, ClientTexts
    <3> QED  BY <3>3, <3>4
  <2> QED  BY <2>5, <2>6 DEF Sessions
<1> QED  BY <1>1, <1>2 DEF TranscribedInItsLanguage

\* What a session sees stays, where the evidence and the language do.
LEMMA SeesKept ==
  ASSUME NEW d, SameEvidence, db'.sub.pair = db.sub.pair, UNCHANGED setting
  PROVE  (ClientSees(d) => ClientSees(d)') /\ (WorkerSees(d) => WorkerSees(d)')
<1>1. ClientSees(d) => ClientSees(d)'
  BY DEF SameEvidence, ClientSees, Cropped
<1>2. WorkerSees(d) => WorkerSees(d)'
  BY DEF SameEvidence, WorkerSees
<1> QED  BY <1>1, <1>2

LEMMA SerialKept ==
  ASSUME TypeInv, SerialInv, NEW s \in Sessions, NEW x, session'[s] = x,
         \A t \in Sessions : t # s => session'[t] = session[t],
         SameEvidence, db'.sub.pair = db.sub.pair, UNCHANGED setting,
         x.op = "COMMIT" => /\ s \in Requests => ClientSees(x)
                            /\ s \in Workers => WorkerSees(x)
  PROVE  SerialInv'
<1>1. ASSUME Serial, NEW t \in Sessions, NEW d \in {session'[t]}, d.op = "COMMIT"
      PROVE  (t \in Requests => ClientSees(d)') /\ (t \in Workers => WorkerSees(d)')
  <2>1. (t \in Requests => ClientSees(d)) /\ (t \in Workers => WorkerSees(d))
    BY <1>1 DEF SerialInv, Transacts
  <2> QED  BY <2>1, SeesKept
<1>2. Serial => (OneActiveOfEachSource /\ TranscribedInItsLanguage)'
  BY DEF SerialInv, OneActiveOfEachSource, TranscribedInItsLanguage, Active, SameEvidence, Serial
<1> QED  BY <1>1, <1>2 DEF SerialInv, Transacts, Serial

LEMMA SerialCommit ==
  ASSUME TypeInv, EvidenceInv, SerialInv, NEW s \in Sessions, Commit(s)
  PROVE  SerialInv'
<1>1. PICK x : x = AfterCommit(session[s])
  OBVIOUS
<1>2. Ready(s) /\ session' = [session EXCEPT ![s] = x] /\ UNCHANGED setting
  BY <1>1, CommitRows
<1>3. x.op # "COMMIT"
  BY <1>1, <1>2, ReadyChange, AfterCommitType DEF TypeInv, SessionOK, Ready
<1>4. ASSUME NEW t \in Sessions, session'[t].op = "COMMIT"
      PROVE  t # s /\ session'[t] = session[t] /\ Transacts(t)
  BY <1>2, <1>3, <1>4 DEF TypeInv, Transacts
<1>5. ASSUME Serial, NEW t \in Sessions, NEW d \in {session'[t]}, d.op = "COMMIT"
      PROVE  (t \in Requests => ClientSees(d)') /\ (t \in Workers => WorkerSees(d)')
  <2>1. t # s /\ d \in {session[t]} /\ Transacts(t)
    BY <1>4, <1>5
  <2>2. ASSUME t \in Requests
        PROVE  s \in Workers
    <3>1. session[t] # Idle /\ session[s] # Idle
      BY <1>2, <2>1 DEF Ready, Transacts, Idle
    <3> QED  BY <1>5, <2>1, <2>2, <3>1, OneClient DEF Sessions
  <2> QED  BY <1>5, <2>1, <2>2, ClientSeesCommit, WorkerSeesCommit
<1>6. Serial => (OneActiveOfEachSource /\ TranscribedInItsLanguage)'
  BY OneActiveCommit, LanguageCommit
<1> QED  BY <1>2, <1>5, <1>6 DEF SerialInv, Transacts, Serial

\* A session sees what it has just read.
LEMMA BeginsSees ==
  ASSUME TypeInv, NEW s \in Sessions, NEW c \in Transactions,
         c.loaded.region = db.region, c.loaded.mapping = db.mapping,
         c.loaded.link = db.link, c.loaded.text = db.text
  PROVE  /\ c.loaded.sub.pair = db.sub.pair => ClientSees(c)
         /\ WorkerSees(c)
<1>1. \A r \in Regions : Cropped(db.region[r], db.region[r])
  BY CroppedSame DEF TypeInv, Dbs
<1> QED  BY <1>1 DEF ClientSees, WorkerSees

LEMMA SerialStep ==
  ASSUME Inv, SerialInv, Step
  PROVE  SerialInv'
<1> USE DEF Inv
<1>1. CASE UNCHANGED <<db, raw, session, setting>> /\ FewerTasks
  <2>1. SameEvidence /\ db'.sub.pair = db.sub.pair
    BY <1>1 DEF SameEvidence
  <2>2. ASSUME Serial, NEW t \in Sessions, NEW d \in {session'[t]}, d.op = "COMMIT"
        PROVE  (t \in Requests => ClientSees(d)') /\ (t \in Workers => WorkerSees(d)')
    <3>1. (t \in Requests => ClientSees(d)) /\ (t \in Workers => WorkerSees(d))
      BY <1>1, <2>2 DEF SerialInv, Transacts
    <3> QED  BY <1>1, <2>1, <3>1, SeesKept
  <2>3. Serial => (OneActiveOfEachSource /\ TranscribedInItsLanguage)'
    BY <1>1 DEF SerialInv, OneActiveOfEachSource, TranscribedInItsLanguage, Active, Serial
  <2> QED  BY <1>1, <2>2, <2>3 DEF SerialInv, Transacts, Serial
<1>2. ASSUME NEW s \in Sessions, Begin(s)
      PROVE  SerialInv'
  <2>1. PICK c \in Transactions : Begins(s, c)
    BY <1>2 DEF Begin
  <2>2. /\ session'[s] = c /\ UNCHANGED <<db, setting>>
        /\ \A t \in Sessions : t # s => session'[t] = session[t]
        /\ s \in Requests => c.loaded.sub = db.sub
    BY <2>1 DEF Begins, TypeInv
  <2>3. (s \in Requests => ClientSees(c)) /\ WorkerSees(c)
    BY <2>1, <2>2, BeginsSees DEF Begins
  <2>4. SameEvidence
    BY <2>2 DEF SameEvidence
  <2> QED  BY <2>2, <2>3, <2>4, SerialKept
<1>3. ASSUME NEW s \in Sessions, NEW x \in Waiting,
             session' = [session EXCEPT ![s] = x], UNCHANGED <<db, setting>>
      PROVE  SerialInv'
  <2>1. /\ session'[s] = x /\ x.op # "COMMIT" /\ SameEvidence
        /\ \A t \in Sessions : t # s => session'[t] = session[t]
    BY <1>3 DEF TypeInv, SameEvidence, Waiting, Idle
  <2> QED  BY <1>3, <2>1, SerialKept
<1>4. ASSUME NEW s \in Sessions, Quiet(s) \/ Enqueue(s)
      PROVE  SerialInv'
  <2>1. session' = [session EXCEPT ![s] = Idle] /\ UNCHANGED <<db, setting>>
    BY <1>4 DEF Quiet, Lets, Enqueue
  <2> QED  BY <1>3, <2>1 DEF Waiting
<1>5. ASSUME NEW q \in Requests, UploadRead(q) \/ UploadInsert(q)
      PROVE  SerialInv'
  <2>1. PICK x \in {[op |-> "INSERT"], [op |-> "STORE"], Idle} :
          session' = [session EXCEPT ![q] = x] /\ UNCHANGED <<db, setting>>
    BY <1>5 DEF UploadRead, UploadInsert
  <2>2. x \in Waiting /\ q \in Sessions
    BY <2>1 DEF Waiting, Sessions
  <2> QED  BY <1>3, <2>1, <2>2
<1>6. ASSUME NEW q \in Requests, UploadStore(q) \/ UploadStoreFails(q)
      PROVE  SerialInv'
  <2>1. PICK c \in Transactions : Stores(q, c)
    BY <1>6, UploadStores
  <2>2. /\ session[q].op = "STORE" /\ session'[q] = c /\ UNCHANGED <<db, setting>>
        /\ \A t \in Sessions : t # q => session'[t] = session[t]
        /\ c.loaded = EmptyDb /\ q \in Sessions
    BY <2>1 DEF Stores, TypeInv, Sessions
  <2>3. db = EmptyDb
    BY <2>2 DEF UploadInv, Uploads
  <2>4. c.loaded = db
    BY <2>2, <2>3
  <2>5. ClientSees(c) /\ WorkerSees(c)
    BY <2>1, <2>2, <2>4, BeginsSees
  <2>6. SameEvidence
    BY <2>2 DEF SameEvidence
  <2> QED  BY <2>2, <2>5, <2>6, SerialKept
<1>7. ASSUME NEW q \in Requests, StartEvaluation(q)
      PROVE  SerialInv'
  <2>1. /\ db' = [db EXCEPT !.sub.workflow = "EVALUATING"] /\ UNCHANGED <<session, setting>>
        /\ session[q] = Idle /\ q \in Sessions
    BY <1>7, CallsClient DEF StartEvaluation, Sessions
  <2>2. SameEvidence /\ db'.sub.pair = db.sub.pair
    BY <2>1 DEF SameEvidence, TypeInv, Dbs, Submission
  <2>3. session'[q] = Idle /\ Idle.op # "COMMIT"
    BY <2>1 DEF Idle
  <2> QED  BY <2>1, <2>2, <2>3, SerialKept
<1> QED  BY <1>1, <1>2, <1>4, <1>5, <1>6, <1>7, SerialCommit DEF Step

---------------------------------------------------------------------------
(* The invariants hold                                                     *)

\* The rows that a behaviour begins with.
LEMMA InitialRows ==
  ASSUME NEW from \in {"upload", "identity", "mapping"}, NEW d \in {InitialDb(from)}
  PROVE  /\ d \in Dbs
         /\ \A r \in Regions :
              /\ d.region[r].source \in {None, "AI"} /\ d.text[r] = << >>
              /\ d.link[r] # None => d.region[r].source = "AI" /\ d.mapping[d.link[r]].by = "HUMAN"
         /\ \A u \in Questions : d.mapping[u].state = "CONFIRMED" => d.mapping[u].by = "HUMAN"
         /\ d.sub.workflow \in {None, "PROCESSING", "MAPPING_REVIEW"}
         /\ d.sub.workflow = None => d = EmptyDb /\ from = "upload"
         /\ d.job["NORM"] # None => from # "upload"
<1>1. PICK E : E = EmptyDb
  OBVIOUS
<1>2. /\ E \in Dbs /\ E.sub.workflow = None /\ E.job["NORM"] = None
      /\ \A r \in Regions : E.region[r].source = None /\ E.text[r] = << >> /\ E.link[r] = None
      /\ \A u \in Questions : E.mapping[u].state # "CONFIRMED"
  BY <1>1, EmptyDbType DEF EmptyDb, NoSubmission, NoRegion, NoMapping, Stage
<1>3. CASE from = "upload"
  BY <1>1, <1>2, <1>3 DEF InitialDb
<1>4. PICK st \in Students : st = CHOOSE s \in Students : TRUE
  BY RowsAssumption
<1>5. PICK C : C = [E EXCEPT !.sub.workflow = "PROCESSING",
        !.sub.match = "CONFIRMED", !.sub.student = st,
        !.pages = TRUE, !.job["NORM"] = "SUCCEEDED", !.job["MAPPING"] = "QUEUED"]
  OBVIOUS
<1>6. /\ C \in Dbs /\ C.region = E.region /\ C.mapping = E.mapping /\ C.link = E.link
      /\ C.text = E.text /\ C.sub.workflow = "PROCESSING"
  BY <1>2, <1>5 DEF Dbs, Submission, WorkflowState, JobStatus, Stage
<1>7. CASE from = "identity"
  <2>1. d = C
    BY <1>1, <1>4, <1>5, <1>7 DEF InitialDb
  <2> QED  BY <1>2, <1>6, <1>7, <2>1 DEF None
<1>8. CASE from = "mapping"
  <2>1. PICK region \in Regions : region = CHOOSE r \in Regions : TRUE
    BY RowsAssumption
  <2>2. PICK question \in Questions : question = CHOOSE u \in Questions : TRUE
    BY RowsAssumption
  <2>3. PICK M : M = [u \in Questions |->
               [by |-> "HUMAN", state |-> "CONFIRMED",
                disposition |-> IF u = question THEN "ANSWERED" ELSE "BLANK"]]
    OBVIOUS
  <2>4. d = [C EXCEPT !.sub.workflow = "MAPPING_REVIEW",
            !.job["MAPPING"] = "SUCCEEDED", !.analysed = TRUE,
            !.region[region].source = "AI", !.link[region] = question, !.mapping = M]
    BY <1>1, <1>4, <1>5, <1>8, <2>1, <2>2, <2>3 DEF InitialDb
  <2>5. M \in [Questions -> Mapping] /\ \A u \in Questions : M[u].by = "HUMAN"
    BY <2>3 DEF Mapping
  <2>6. PICK R : R = [C.region[region] EXCEPT !.source = "AI"]
    OBVIOUS
  <2>7. R \in Region /\ R.source = "AI"
    BY <1>6, <2>6 DEF Dbs, Region
  <2>8. d = [C EXCEPT !.sub.workflow = "MAPPING_REVIEW",
            !.job["MAPPING"] = "SUCCEEDED", !.analysed = TRUE,
            !.region[region] = R, !.link[region] = question, !.mapping = M]
    BY <2>4, <2>6
  <2>9. d \in Dbs
    <3>1. PICK z : z = [C.sub EXCEPT !.workflow = "MAPPING_REVIEW"]
      OBVIOUS
    <3>2. PICK j : j = [C.job EXCEPT !["MAPPING"] = "SUCCEEDED"]
      OBVIOUS
    <3>3. PICK k : k = [C.link EXCEPT ![region] = question]
      OBVIOUS
    <3>4. PICK n : n = [C.region EXCEPT ![region] = R]
      OBVIOUS
    <3>5. z \in Submission
      BY <1>6, <3>1 DEF Dbs, Submission, WorkflowState
    <3>6. j \in [Stage -> JobStatus]
      BY <1>6, <3>2 DEF Dbs, JobStatus
    <3>7. k \in [Regions -> Questions \cup {None}]
      BY <1>6, <3>3 DEF Dbs
    <3>8. n \in [Regions -> Region]
      BY <1>6, <2>7, <3>4 DEF Dbs
    <3>9. d = [C EXCEPT !.sub = z, !.job = j, !.analysed = TRUE,
              !.region = n, !.link = k, !.mapping = M]
      BY <2>8, <3>1, <3>2, <3>3, <3>4
    <3> QED  BY <1>6, <2>5, <3>5, <3>6, <3>7, <3>8, <3>9 DEF Dbs
  <2>10. /\ d.mapping = M /\ d.text = C.text /\ d.sub.workflow = "MAPPING_REVIEW"
         /\ \A r \in Regions : d.region[r] = IF r = region THEN R ELSE C.region[r]
         /\ \A r \in Regions : d.link[r] = IF r = region THEN question ELSE C.link[r]
    BY <1>6, <2>8 DEF Dbs, Submission
  <2>11. \A u \in Questions : d.mapping[u].by = "HUMAN"
    BY <2>5, <2>10
  <2>12. ASSUME NEW r \in Regions
         PROVE  /\ d.region[r].source \in {None, "AI"} /\ d.text[r] = << >>
                /\ d.link[r] # None => d.region[r].source = "AI" /\ d.mapping[d.link[r]].by = "HUMAN"
    <3>1. /\ C.region[r].source = None /\ C.text[r] = << >> /\ C.link[r] = None
      BY <1>2, <1>6
    <3>2. CASE r = region
      <4>1. d.region[r] = R /\ d.link[r] = question /\ d.text[r] = C.text[r]
        BY <2>10, <3>2
      <4> QED  BY <2>7, <2>11, <3>1, <4>1
    <3>3. CASE r # region
      <4>1. d.region[r] = C.region[r] /\ d.link[r] = C.link[r] /\ d.text[r] = C.text[r]
        BY <2>10, <3>3
      <4> QED  BY <3>1, <4>1
    <3> QED  BY <3>2, <3>3
  <2> QED  BY <1>8, <2>9, <2>10, <2>11, <2>12 DEF None
<1> QED  BY <1>3, <1>7, <1>8

LEMMA InitInv == Init => Inv /\ SerialInv
<1> SUFFICES ASSUME Init PROVE Inv /\ SerialInv
  OBVIOUS
<1>1. /\ setting \in Settings /\ setting.from \in {"upload", "identity", "mapping"}
      /\ db \in {InitialDb(setting.from)} /\ raw = (setting.from # "upload")
      /\ session = [s \in Sessions |-> Idle] /\ faults = 0
      /\ tasks = [s \in Stage |->
                    IF s = "MAPPING" /\ setting.from = "identity" THEN 1 ELSE 0]
  BY SessionsAssumption DEF Init
<1>2. /\ db \in Dbs
      /\ \A r \in Regions :
           /\ db.region[r].source \in {None, "AI"} /\ db.text[r] = << >>
           /\ db.link[r] # None => db.region[r].source = "AI" /\ db.mapping[db.link[r]].by = "HUMAN"
      /\ \A u \in Questions : db.mapping[u].state = "CONFIRMED" => db.mapping[u].by = "HUMAN"
      /\ db.sub.workflow \in {None, "PROCESSING", "MAPPING_REVIEW"}
      /\ db.sub.workflow = None => db = EmptyDb /\ setting.from = "upload"
      /\ db.job["NORM"] # None => setting.from # "upload"
  BY <1>1, InitialRows
<1>3. \A s \in Sessions : session[s] = Idle /\ session[s].op = "IDLE"
  BY <1>1 DEF Idle
<1>4. TypeInv
  <2>1. Idle \in States
    BY DEF States, Waiting
  <2>2. tasks \in [Stage -> 0 .. MaxTasks] /\ faults \in 0 .. MaxFaults
    BY <1>1, RowsAssumption DEF Stage
  <2> QED  BY <1>1, <1>2, <1>3, <2>1, <2>2 DEF TypeInv, SessionOK, Transacts
<1>5. EvidenceInv
  BY <1>2, <1>3 DEF EvidenceInv, RowsOK, DrawnOnce, Transacts, Deleted, None
<1>6. UploadInv
  <2>1. \A s \in Sessions : ~Uploads(s)
    BY <1>3 DEF Uploads, Transacts
  <2>2. db.sub.workflow = None => db = EmptyDb /\ \A t \in Stage : tasks[t] = 0
    BY <1>1, <1>2
  <2> QED  BY <1>3, <2>1, <2>2 DEF UploadInv
<1>7. SourceInv
  <2>1. \A s \in Sessions : ~Knows(session[s])
    BY <1>3 DEF Knows
  <2>2. tasks["NORM"] = 0
    BY <1>1 DEF Stage
  <2> QED  BY <1>1, <1>2, <2>1, <2>2 DEF SourceInv, SourceIsStored
<1>8. SerialInv
  BY <1>2, <1>3 DEF SerialInv, Transacts, OneActiveOfEachSource, TranscribedInItsLanguage, Active
<1> QED  BY <1>4, <1>5, <1>6, <1>7, <1>8 DEF Inv

LEMMA StepInv ==
  ASSUME Inv, SerialInv, [Next]_vars
  PROVE  Inv' /\ SerialInv'
<1>1. CASE Next
  <2>1. Step /\ faults' \in 0 .. MaxFaults
    BY <1>1, NextSteps
  <2>2. TypeInv' /\ EvidenceInv' /\ UploadInv' /\ SourceInv' /\ SerialInv'
    BY <2>1, TypeStep, EvidenceStep, UploadStep, SourceStep, SerialStep
  <2> QED  BY <2>2 DEF Inv
<1>2. CASE UNCHANGED vars
  <2>1. Step /\ faults' \in 0 .. MaxFaults
    BY <1>2, SameTasks DEF vars, Step, Inv, TypeInv
  <2>2. TypeInv' /\ EvidenceInv' /\ UploadInv' /\ SourceInv' /\ SerialInv'
    BY <2>1, TypeStep, EvidenceStep, UploadStep, SourceStep, SerialStep
  <2> QED  BY <2>2 DEF Inv
<1> QED  BY <1>1, <1>2

\* Both invariants, of every behaviour.
LEMMA IntakeInvariant == Spec => [](Inv /\ SerialInv)
BY InitInv, StepInv, PTL DEF Spec

LEMMA InvTypeOK == Inv => TypeOK
<1> SUFFICES ASSUME Inv PROVE TypeOK
  OBVIOUS
<1> USE DEF Inv
<1>1. \A d \in Dbs : DbType(d)
  BY DEF Dbs, DbType
<1>2. ASSUME NEW s \in Sessions
      PROVE  /\ session[s].op \in {"IDLE", "INSERT", "STORE", "COMMIT", "ENQUEUE", "RUN"}
             /\ session[s].op = "COMMIT" =>
                  DbType(session[s].loaded) /\ DbType(session[s].staged)
  <2>1. session[s] \in States
    BY DEF TypeInv
  <2>2. session[s].op \in {"IDLE", "INSERT", "STORE", "COMMIT", "ENQUEUE", "RUN"}
    BY <2>1 DEF States, Waiting, Idle, Enqueues, Runs, Transactions
  <2>3. session[s].op = "COMMIT" => session[s] \in Transactions
    BY HeldTransaction DEF Transacts
  <2> QED  BY <1>1, <2>2, <2>3 DEF Transactions
<1> QED  BY <1>1, <1>2 DEF TypeInv, TypeOK

\* Every row, every task in the broker and every open transaction has its type.
THEOREM IntakeTypeCorrect == Spec => []TypeOK
BY IntakeInvariant, InvTypeOK, PTL

LEMMA InvAgrees == Inv /\ SerialInv => EvidenceAgrees
<1> SUFFICES ASSUME Inv, SerialInv PROVE EvidenceAgrees
  OBVIOUS
<1>1. SourceIsStored
  BY DEF Inv, SourceInv
<1>2. LinkedRegionsExist
  BY DEF Inv, EvidenceInv, RowsOK, LinkedRegionsExist
<1>3. OneActiveOfEachSource /\ TranscribedInItsLanguage
  BY DEF SerialInv, OneActiveOfEachSource, TranscribedInItsLanguage
<1> QED  BY <1>1, <1>2, <1>3 DEF EvidenceAgrees

\* The source is stored before its job exists, no mapping is linked to a deleted
\* region, and with one client a region has one active transcription of each
\* source, in the submission's language where reviewers transcribe.
THEOREM EvidenceAgreesHolds == Spec => []EvidenceAgrees
BY IntakeInvariant, InvAgrees, PTL

---------------------------------------------------------------------------
(* What passes the gates                                                   *)

LEMMA KeptCommits ==
  ASSUME TypeInv, EvidenceInv, NEW s \in Sessions, Commit(s), NEW r \in Regions,
         Kept(session[s], r), ~Deleted(session[s].staged, r)
  PROVE  db'.text[r] = db.text[r]
<1> DEFINE c == session[s]
<1>1. /\ c.loaded \in Dbs /\ c.staged \in Dbs /\ db \in Dbs
  BY CommitRows, ReadyChange
<1>2. db'.text[r] = FlushText(r, c.loaded, c.staged, db)
  BY DEF Commit, Flushed
<1>3. c.staged.text[r] = c.loaded.text[r] /\ c.staged.region[r].source # "DELETED"
  BY DEF Kept, Deleted
<1> QED  BY <1>1, <1>2, <1>3, FlushTextKept

\* A client whose mappings all exist, and who leaves the evidence alone, commits
\* over the mappings, the links and the regions of evidence that it read.
LEMMA UntouchedCommits ==
  ASSUME Inv, SerialInv, Serial, NEW q \in Requests, Commit(q), NEW c \in {session[q]},
         Untouched(c), \A u \in Questions : c.loaded.mapping[u].by # None
  PROVE  /\ \A u \in Questions : db'.mapping[u] = c.loaded.mapping[u]
         /\ \A r \in Regions :
              /\ db'.link[r] = c.loaded.link[r]
              /\ c.loaded.link[r] # None =>
                   /\ Cropped(c.loaded.region[r], db'.region[r])
                   /\ db'.text[r] = db.text[r]
         /\ \A u \in Questions : LinkedTo(db', u) = LinkedTo(c.loaded, u)
<1> USE DEF Inv
<1>1. /\ q \in Sessions /\ Ready(q) /\ c.loaded \in Dbs /\ c.staged \in Dbs /\ db \in Dbs
      /\ Since(c) /\ Change(q, c)
  BY CommitRows, ReadyChange DEF Sessions
<1>2. ClientSees(c)
  BY <1>1, Sees DEF Ready
<1>3. ASSUME NEW u \in Questions
      PROVE  db'.mapping[u] = c.loaded.mapping[u]
  <2>1. c.loaded.mapping[u] \in Mapping /\ db.mapping[u] = c.loaded.mapping[u]
    BY <1>1, <1>2 DEF Dbs, ClientSees
  <2>2. c.staged.mapping[u] = c.loaded.mapping[u]
    BY DEF Untouched
  <2>3. db'.mapping[u] = FlushRow(c.loaded.mapping[u], c.loaded.mapping[u], c.loaded.mapping[u])
    BY <1>1, <2>1, <2>2, CommitRows
  <2> QED  BY <2>1, <2>3, FlushedMapping DEF Mapping, FlushColumn
<1>4. ASSUME NEW r \in Regions
      PROVE  db'.link[r] = c.loaded.link[r]
  <2>1. db'.link[r] = db.link[r]
    BY <1>1, CommitRows DEF Untouched, FlushColumn
  <2>2. db.link[r] \in Questions \cup {None}
    BY <1>1 DEF Dbs
  <2>3. db.link[r] # c.loaded.link[r] =>
          c.loaded.link[r] = None /\ c.loaded.mapping[db.link[r]].by = None
    BY <1>2 DEF ClientSees
  <2> QED  BY <2>1, <2>2, <2>3
<1>5. ASSUME NEW r \in Regions, c.loaded.link[r] # None
      PROVE  Cropped(c.loaded.region[r], db'.region[r]) /\ db'.text[r] = db.text[r]
  <2>1. c.loaded.region[r].source # None
    BY <1>1, <1>5 DEF Since
  <2>2. /\ c.loaded.region[r] \in Region /\ db.region[r] \in Region
        /\ Cropped(c.loaded.region[r], db.region[r])
    BY <1>1, <1>2, <2>1 DEF ClientSees, Dbs
  <2>3. db'.region[r] = FlushRow(c.loaded.region[r], c.loaded.region[r], db.region[r])
    BY <1>1, CommitRows DEF Untouched
  <2>4. db'.region[r] = db.region[r]
    BY <2>2, <2>3, FlushedRegion DEF Region, FlushColumn
  <2>5. ~Deleted(db, r)
    <3>1. db'.link[r] = db.link[r] /\ db'.link[r] = c.loaded.link[r]
      BY <1>1, <1>4, CommitRows DEF Untouched, FlushColumn
    <3> QED  BY <1>5, <3>1 DEF EvidenceInv, RowsOK, Deleted
  <2>6. ~Deleted(c.staged, r) /\ Kept(c, r)
    BY <1>1, <2>5 DEF Since, Untouched, Deleted, Kept
  <2> QED  BY <1>1, <2>2, <2>4, <2>6, KeptCommits
<1>6. \A u \in Questions : LinkedTo(db', u) = LinkedTo(c.loaded, u)
  BY <1>4 DEF LinkedTo
<1> QED  BY <1>3, <1>4, <1>5, <1>6

\* Only a commit or the start of an evaluation changes the database.
LEMMA WritesCommit ==
  ASSUME Inv, Step, db' # db
  PROVE  \/ \E s \in Sessions : Commit(s)
         \/ \E q \in Requests : StartEvaluation(q)
BY DEF Step, Begin, Begins, Quiet, Lets, Enqueue, UploadRead, UploadInsert, UploadStore,
       UploadStoreFails

LEMMA ClientRequest ==
  ASSUME TypeInv, NEW s \in Sessions, Client(s)
  PROVE  s \in Requests
BY SessionsAssumption DEF TypeInv, Client

LEMMA StartsEvaluating ==
  ASSUME TypeInv, NEW q \in Requests, StartEvaluation(q)
  PROVE  /\ db'.sub.workflow = "EVALUATING" /\ db'.sub.transcription = db.sub.transcription
         /\ UNCHANGED session
BY DEF StartEvaluation, TypeInv, Dbs, Submission

LEMMA FinalizeStep ==
  ASSUME Inv, SerialInv, Step, EvidenceInv', Serial,
         db.sub.workflow # "READY_FOR_EVALUATION", db'.sub.workflow = "READY_FOR_EVALUATION"
  PROVE  \A u \in Questions : Resolved(db', u) /\ db'.mapping[u].by = "HUMAN"
<1> USE DEF Inv
<1>1. PICK s \in Sessions : Commit(s)
  BY WritesCommit, StartsEvaluating
<1>2. PICK c : c = session[s]
  OBVIOUS
<1>3. /\ db'.sub.workflow
           = FlushColumn(c.loaded.sub.workflow, c.staged.sub.workflow, db.sub.workflow)
      /\ Gates(s, c)
  BY <1>1, <1>2, CommitRows, ReadyChange DEF Change
<1>4. Client(s) /\ Untouched(c) /\ \A u \in Questions : Resolved(c.loaded, u)
  BY <1>3 DEF Gates, FlushColumn
<1>5. s \in Requests /\ \A u \in Questions : c.loaded.mapping[u].by # None
  BY <1>4, ClientRequest DEF Resolved
<1>6. \A u \in Questions : /\ db'.mapping[u] = c.loaded.mapping[u]
                           /\ LinkedTo(db', u) = LinkedTo(c.loaded, u)
  BY <1>1, <1>2, <1>4, <1>5, UntouchedCommits
<1>7. \A u \in Questions : Resolved(db', u)
  BY <1>4, <1>6 DEF Resolved, Shaped
<1>8. \A u \in Questions : db'.mapping[u].by = "HUMAN"
  BY <1>7 DEF Resolved, EvidenceInv, RowsOK
<1> QED  BY <1>7, <1>8

\* A region that has active transcriptions has a latest one.
LEMMA LatestActive ==
  ASSUME NEW d \in Dbs, NEW r \in Regions, Latest(d, r) # 0
  PROVE  Latest(d, r) \in DOMAIN d.text[r]
<1>1. PICK N : N = Len(d.text[r])
  OBVIOUS
<1>2. N \in Nat /\ DOMAIN d.text[r] = 1 .. N
  BY <1>1, LenProperties DEF Dbs
<1>3. PICK S : S = Active(d, r)
  OBVIOUS
<1>4. S # {} /\ S \subseteq DOMAIN d.text[r]
  BY <1>3 DEF Latest, Active
<1>5. S \in SUBSET (0 .. N)
  BY <1>2, <1>4
<1>6. \E n \in S : \A m \in S : m <= n
  <2>1. Max(S) \in S /\ \A m \in S : Max(S) >= m
    BY <1>2, <1>4, <1>5, MaxOfInterval
  <2>2. \A m \in S : m <= Max(S)
    BY <1>2, <1>5, <2>1
  <2> QED  BY <2>1, <2>2
<1>7. Latest(d, r) \in S
  BY <1>3, <1>4, <1>6 DEF Latest
<1> QED  BY <1>4, <1>7

LEMMA ReadyStep ==
  ASSUME Inv, SerialInv, Step, Serial,
         db.sub.transcription # "READY", db'.sub.transcription = "READY"
  PROVE  \A r \in Evidence(db') : \E n \in DOMAIN db'.text[r] :
           db'.text[r][n].status = "CONFIRMED"
<1> USE DEF Inv
<1>1. PICK s \in Sessions : Commit(s)
  BY WritesCommit, StartsEvaluating
<1>2. PICK c : c = session[s]
  OBVIOUS
<1>3. /\ db'.sub.transcription
           = FlushColumn(c.loaded.sub.transcription, c.staged.sub.transcription,
                         db.sub.transcription)
      /\ Gates(s, c) /\ c.loaded \in Dbs /\ Transacts(s) /\ db' \in Dbs
  BY <1>1, <1>2, CommitRows, ReadyChange DEF Change, Ready
<1>4. /\ Client(s) /\ Untouched(c) /\ \A u \in Questions : c.loaded.mapping[u].by # None
      /\ \A r \in Evidence(c.loaded) : Reviewed(c.loaded, r)
  BY <1>3 DEF Gates, FlushColumn
<1>5. s \in Requests
  BY <1>4, ClientRequest
<1>6. /\ \A u \in Questions : db'.mapping[u] = c.loaded.mapping[u]
      /\ \A r \in Regions :
           /\ db'.link[r] = c.loaded.link[r]
           /\ c.loaded.link[r] # None =>
                /\ Cropped(c.loaded.region[r], db'.region[r])
                /\ db'.text[r] = db.text[r]
  BY <1>1, <1>2, <1>4, <1>5, UntouchedCommits
<1>7. ASSUME NEW r \in Evidence(db')
      PROVE  \E n \in DOMAIN db'.text[r] : db'.text[r][n].status = "CONFIRMED"
  <2>1. /\ r \in Regions /\ db'.link[r] # None
        /\ db'.mapping[db'.link[r]].disposition = "ANSWERED"
        /\ ~db'.region[r].ignored /\ db'.region[r].type # "SCRATCH"
    BY DEF Evidence
  <2>2. c.loaded.link[r] = db'.link[r] /\ db'.link[r] \in Questions
    BY <1>3, <1>6, <2>1 DEF Dbs
  <2>3. c.loaded.mapping[c.loaded.link[r]].disposition = "ANSWERED"
    BY <1>6, <2>1, <2>2
  <2>4. /\ Cropped(c.loaded.region[r], db'.region[r]) /\ db'.text[r] = db.text[r]
        /\ c.loaded.region[r] \in Region
    BY <1>3, <1>6, <2>1, <2>2 DEF Dbs
  <2>5. /\ c.loaded.region[r].ignored = db'.region[r].ignored
        /\ c.loaded.region[r].type = db'.region[r].type
    BY <2>4 DEF Cropped, Region
  <2>6. r \in Evidence(c.loaded)
    BY <2>1, <2>2, <2>3, <2>5 DEF Evidence
  <2>7. PICK n : n = Latest(c.loaded, r)
    OBVIOUS
  <2>8. n # 0 /\ c.loaded.text[r][n].status = "CONFIRMED"
    BY <1>4, <2>6, <2>7 DEF Reviewed
  <2>9. n \in DOMAIN c.loaded.text[r]
    BY <1>3, <2>1, <2>7, <2>8, LatestActive
  <2>10. n \in DOMAIN db.text[r] /\ db.text[r][n] = c.loaded.text[r][n]
    BY <1>2, <1>3, <1>5, <2>1, <2>9, Sees DEF ClientSees
  <2> QED  BY <2>4, <2>8, <2>10
<1> QED  BY <1>7

LEMMA HumanStep ==
  ASSUME Inv, Step, NEW w \in Workers, session'[w] # session[w]
  PROVE  /\ \A r \in Regions : db.region[r].source = "HUMAN" =>
              db'.region[r] = [db.region[r] EXCEPT !.crop = db'.region[r].crop]
         /\ \A u \in Questions : db.mapping[u].by = "HUMAN" =>
              db'.mapping[u] = db.mapping[u] /\ LinkedTo(db', u) = LinkedTo(db, u)
         /\ \A r \in Regions : \A n \in DOMAIN db.text[r] :
              db'.text[r][n] = db.text[r][n]
<1> USE DEF Inv
<1>1. CASE db' = db
  <2>1. \A r \in Regions : Cropped(db.region[r], db.region[r])
    BY CroppedSame DEF TypeInv, Dbs
  <2> QED  BY <1>1, <2>1 DEF Cropped, LinkedTo
<1>2. CASE db' # db
  <2>1. PICK s \in Sessions : Commit(s)
    BY <1>2, WritesCommit, StartsEvaluating
  <2>2. s = w /\ w \in Sessions /\ Commit(w) /\ db \in Dbs
    BY <2>1 DEF Commit, TypeInv, Sessions
  <2>3. ASSUME NEW r \in Regions, db.region[r].source = "HUMAN"
        PROVE  Cropped(db.region[r], db'.region[r])
    BY <2>2, <2>3, CommitRegions DEF None
  <2>4. ASSUME NEW u \in Questions, db.mapping[u].by = "HUMAN"
        PROVE  db'.mapping[u] = db.mapping[u] /\ LinkedTo(db', u) = LinkedTo(db, u)
    <3>1. db'.mapping[u] = db.mapping[u]
      BY <2>2, <2>4, CommitMappings DEF None
    <3>2. ASSUME NEW r \in Regions
          PROVE  db'.link[r] = u <=> db.link[r] = u
      <4>1. db'.link[r] # db.link[r] =>
              db.link[r] = None /\ db.mapping[db'.link[r]].by = None
        BY <2>2, CommitLinks
      <4> QED  BY <2>4, <4>1, RowsAssumption DEF None
    <3> QED  BY <3>1, <3>2 DEF LinkedTo
  <2>5. ASSUME NEW r \in Regions, NEW n \in DOMAIN db.text[r]
        PROVE  db'.text[r][n] = db.text[r][n]
    <3>1. PICK cur : cur = db.text[r]
      OBVIOUS
    <3>2. cur \in Seq(Transcription) /\ n \in DOMAIN cur
      BY <2>2, <3>1 DEF Dbs
    <3>3. CASE AnswerCommits(w, session[w], r, db'.text[r])
      <4>1. PICK x \in Transcription : db'.text[r] = Append(cur, x)
        BY <3>1, <3>3 DEF AnswerCommits
      <4>2. n \in 1 .. Len(cur)
        BY <3>2, LenProperties
      <4>3. Append(cur, x)[n] = cur[n]
        BY <3>2, <4>2, AppendProperties
      <4> QED  BY <3>1, <4>1, <4>3
    <3> QED  BY <2>2, <3>3, WorkerTexts
  <2> QED  BY <2>3, <2>4, <2>5 DEF Cropped
<1> QED  BY <1>1, <1>2

\* A stuttering step is one of these, too.
LEMMA BoxSteps ==
  ASSUME Inv, [Next]_vars
  PROVE  Step
BY NextSteps, SameTasks DEF vars, Step, Inv

\* Mapping is finalised over mappings that a reviewer has confirmed, as they are
\* when the handler commits, with one client and any number of workers.
THEOREM FinalizedMappingHolds == Spec => FinalizedMappingComplete
<1>1. ASSUME Inv, SerialInv, EvidenceInv', [Next]_vars
      PROVE  [Serial /\ db.sub.workflow # "READY_FOR_EVALUATION"
                /\ db'.sub.workflow = "READY_FOR_EVALUATION"
              => \A u \in Questions : Resolved(db', u) /\ db'.mapping[u].by = "HUMAN"]_vars
  BY <1>1, BoxSteps, FinalizeStep
<1>2. Inv /\ SerialInv => EvidenceInv
  BY DEF Inv
<1> QED  BY <1>1, <1>2, IntakeInvariant, PTL DEF Spec, FinalizedMappingComplete

\* A transcription becomes READY over confirmed evidence, as it is then.
THEOREM ReadyHasConfirmedHolds == Spec => ReadyHasConfirmed
<1>1. ASSUME Inv, SerialInv, [Next]_vars
      PROVE  [Serial /\ db.sub.transcription # "READY" /\ db'.sub.transcription = "READY"
              => \A r \in Evidence(db') : \E n \in DOMAIN db'.text[r] :
                   db'.text[r][n].status = "CONFIRMED"]_vars
  BY <1>1, BoxSteps, ReadyStep
<1> QED  BY <1>1, IntakeInvariant, PTL DEF Spec, ReadyHasConfirmed

\* No worker's step changes what a reviewer drew, mapped, wrote or confirmed,
\* whatever reviewers and other workers do meanwhile.
THEOREM HumanEvidenceHolds == Spec => HumanEvidenceKept
<1>1. ASSUME Inv, SerialInv, [Next]_vars
      PROVE  [(\E w \in Workers : session'[w] # session[w]) =>
               /\ \A r \in Regions : db.region[r].source = "HUMAN" =>
                    db'.region[r] = [db.region[r] EXCEPT !.crop = db'.region[r].crop]
               /\ \A u \in Questions : db.mapping[u].by = "HUMAN" =>
                    db'.mapping[u] = db.mapping[u] /\ LinkedTo(db', u) = LinkedTo(db, u)
               /\ \A r \in Regions : \A n \in DOMAIN db.text[r] :
                    db'.text[r][n] = db.text[r][n]]_vars
  <2>1. Step
    BY <1>1, BoxSteps
  <2> SUFFICES ASSUME NEW w \in Workers, session'[w] # session[w]
               PROVE  /\ \A r \in Regions : db.region[r].source = "HUMAN" =>
                           db'.region[r] = [db.region[r] EXCEPT !.crop = db'.region[r].crop]
                      /\ \A u \in Questions : db.mapping[u].by = "HUMAN" =>
                           db'.mapping[u] = db.mapping[u] /\ LinkedTo(db', u) = LinkedTo(db, u)
                      /\ \A r \in Regions : \A n \in DOMAIN db.text[r] :
                           db'.text[r][n] = db.text[r][n]
    OBVIOUS
  <2> QED  BY <1>1, <2>1, HumanStep
<1> QED  BY <1>1, IntakeInvariant, PTL DEF Spec, HumanEvidenceKept

\* Nothing passes a gate unconfirmed, and no task undoes what a reviewer did.
THEOREM ReviewCountsHolds == Spec => ReviewCounts
BY FinalizedMappingHolds, ReadyHasConfirmedHolds, HumanEvidenceHolds DEF ReviewCounts
=============================================================================
