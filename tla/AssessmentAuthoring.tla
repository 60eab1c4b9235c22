------------------------ MODULE AssessmentAuthoring ------------------------
(***************************************************************************)
(* An assessment while teachers write it: versions, question tree, answer  *)
(* keys, rubrics, curriculum mappings, and the transitions that freeze     *)
(* them (api/v1/curriculum_assessment.py, services/readiness.py,           *)
(* services/academic_freeze.py, services/assessment_transitions.py,        *)
(* db/models/curriculum_assessment.py).  A request reads without locks,    *)
(* checks, and commits later what it decided to write; the database then   *)
(* checks its unique indexes and foreign keys, and rejects it whole.       *)
(***************************************************************************)
EXTENDS Integers, Sequences, FiniteSets, FiniteSetsExt, TLC

CONSTANTS
  Teachers, Workers,   \* sessions of requests and of authoring tasks
  Codes,               \* stable codes of questions
  MarkValues, CriterionCodes, Nodes,
  Starts,              \* Starts[n]: a database some authoring led to
  Settings,
  MaxVersions, MaxKeys, MaxRubrics, MaxPapers   \* bounds of this model

VARIABLES
  db,        \* the committed tables: db[table][id] is a row
  session,   \* what each session has read and is about to do
  queue,     \* authoring tasks waiting for a worker
  provider,  \* is an authoring provider configured?
  setting
vars == <<db, session, queue, provider, setting>>

Sessions == Teachers \cup Workers
Idle == [phase |-> "idle"]
NoRun == <<"none", 0>>
NoQuestion == <<0, "none">>
Tables == {"assessment", "version", "question", "key", "header", "rubric", "criterion", "mapping", "run"}

-----------------------------------------------------------------------------
\* What a transaction does to one table: a row of `set` has only the columns
\* whose value changes.
NoChange == [new |-> << >>, set |-> << >>, gone |-> {}]
Inserts(rows) == [new |-> rows, set |-> << >>, gone |-> {}]
Updates(columns) == [new |-> << >>, set |-> columns, gone |-> {}]
Insert(id, row) == Inserts([i \in {id} |-> row])
Update(id, columns) == Updates([i \in {id} |-> columns])
Delete(id) == [new |-> << >>, set |-> << >>, gone |-> {id}]
Patched(columns, row) == [f \in DOMAIN row |-> IF f \in DOMAIN columns THEN columns[f] ELSE row[f]]

\* A transaction: nothing, one table, another table too.
Nothing == [t \in Tables |-> NoChange]
AlsoIn(tx, table, change) == [tx EXCEPT ![table] = change]
In(table, change) == AlsoIn(Nothing, table, change)

Deleted(tx) == tx["question"].gone

\* The foreign keys to question_versions: CASCADE, and SET NULL for a run.
QuestionOf(t, id) == CASE t = "key" -> db.key[id].of
                       [] t = "header" -> id
                       [] t \in {"rubric", "mapping"} -> id[1]
                       [] t = "criterion" -> id[1][1]
                       [] OTHER -> NoQuestion
Cascaded(t, tx) == {id \in DOMAIN db[t] : QuestionOf(t, id) \in Deleted(tx)}
Forgotten(t, row, tx) == IF t = "run" /\ row.of \in Deleted(tx) THEN [row EXCEPT !.of = NoQuestion] ELSE row

Applied(tx) == [t \in Tables |->
  LET c == tx[t]
      row(id) == IF id \in DOMAIN c.new THEN c.new[id]
                 ELSE IF id \in DOMAIN c.set THEN Patched(c.set[id], db[t][id]) ELSE db[t][id]
  IN  [id \in ((DOMAIN db[t] \cup DOMAIN c.new) \ c.gone) \ Cascaded(t, tx) |-> Forgotten(t, row(id), tx)]]

ActiveStatus == {"DRAFT", "REVIEW_REQUIRED", "APPROVED"}
\* uq_answer_key_versions_active_question.
OneActiveKey(new) ==
  \A j, k \in DOMAIN new.key :
    new.key[j].of = new.key[k].of /\ {new.key[j].status, new.key[k].status} \subseteq ActiveStatus => j = k
\* uq_rubric_versions_active_question.
OneActiveRubric(new) ==
  \A j, k \in DOMAIN new.rubric :
    j[1] = k[1] /\ {new.rubric[j].status, new.rubric[k].status} \subseteq ActiveStatus => j = k
\* Mutant: a key needs no question.
AnyKeyFits(new) == TRUE
KeysFit(new) == \A k \in DOMAIN new.key : new.key[k].of \in DOMAIN new.question
\* A row of a question that is gone, and a deleted parent (RESTRICT).
References(new) ==
  /\ \A q \in DOMAIN new.question : /\ q[1] \in DOMAIN new.version
                                    /\ new.question[q].parent \in DOMAIN new.question \cup {NoQuestion}
  /\ KeysFit(new) /\ DOMAIN new.header \subseteq DOMAIN new.question
  /\ {r[1] : r \in DOMAIN new.rubric} \subseteq DOMAIN new.header
  /\ {c[1] : c \in DOMAIN new.criterion} \subseteq DOMAIN new.rubric
  /\ {m[1] : m \in DOMAIN new.mapping} \subseteq DOMAIN new.question
  /\ \A r \in DOMAIN new.run : new.run[r].of \in DOMAIN new.question \cup {NoQuestion}

\* An inserted identity is free, an updated row is there, and the rows that
\* result fit together.
Accepted(tx) ==
  /\ \A t \in Tables :    /\ DOMAIN tx[t].new \cap DOMAIN db[t] = {}
                          /\ DOMAIN tx[t].set \subseteq DOMAIN db[t]
  /\ OneActiveKey(Applied(tx)) /\ OneActiveRubric(Applied(tx)) /\ References(Applied(tx))

\* A task that has flushed its run as RUNNING keeps that row locked.
Holds(s, r) == session[s].phase \in {"working", "writing"} /\ session[s].run = r
Free(s, r) == \A o \in Sessions \ {s} : ~Holds(o, r)

Writing(tx, run, then) == [phase |-> "writing", tx |-> tx, run |-> run, then |-> then]

\* The commit of what a request or a task decided to write.
Commit(s) ==
  /\ session[s].phase = "writing"
  /\ LET tx == session[s].tx
         done == Accepted(tx)
     IN  /\ \A r \in DOMAIN tx["run"].set : Free(s, r)
         /\ db' = IF done THEN Applied(tx) ELSE db
         /\ session' = [session EXCEPT ![s] =
              IF done /\ session[s].then # NoRun
              THEN [phase |-> "sending", run |-> session[s].then] ELSE Idle]
  /\ UNCHANGED <<queue, provider, setting>>

\* A request that passed its checks.
Request(t, call, tx) ==
  /\ t \in setting.teachers /\ call \in setting.calls /\ session[t] = Idle
  /\ session' = [session EXCEPT ![t] = Writing(tx, NoRun, NoRun)]
  /\ UNCHANGED <<db, queue, provider, setting>>

-----------------------------------------------------------------------------
Status == db.assessment["a"].status
Drafting == Status = "DRAFT"
\* Mutant: only an assessment that students sit is frozen.
UntilActive == Status \notin {"ACTIVE", "CLOSED", "ARCHIVED"}
\* ensure_academic_config_mutable.
Mutable == Status \in {"DRAFT", "RUBRIC_REVIEW"}

Latest == Max(DOMAIN db.version)
QuestionsOf(v) == {q \in DOMAIN db.question : q[1] = v}
Parents(v) == {db.question[q].parent : q \in QuestionsOf(v)}
Leaves(v) == {q \in QuestionsOf(v) \ Parents(v) : db.question[q].mode = "LEAF_SCORABLE"}
\* The marks of some of the rows.
Marks(rows, ids) == MapThenSumSet(LAMBDA i : rows[i].max, ids)
LeafMarks(v) == Marks(db.question, Leaves(v))
\* reconcile_marks.
MarksReconcile(v) == LeafMarks(v) = db.version[v].max

Criteria(r) == [c \in {id[2] : id \in {i \in DOMAIN db.criterion : i[1] = r}} |-> db.criterion[<<r, c>>]]
Total(crit, mode) == Marks(crit, {c \in DOMAIN crit : crit[c].mode = mode})
\* Mutant: all marks of a rubric are added up, whatever their mode.
SumsUp(crit, max) == crit # << >> /\ Marks(crit, DOMAIN crit) = max
\* reconcile_rubric.
Reconciles(crit, max) ==
  LET modes == {crit[c].mode : c \in DOMAIN crit}
  IN  \/ modes = {"ADDITIVE"} /\ Total(crit, "ADDITIVE") = max
      \/ modes = {"DEDUCTIVE"} /\ Total(crit, "DEDUCTIVE") = max
      \/ modes = {"ALL_OR_NOTHING"} /\ \A c \in DOMAIN crit : crit[c].max = max
      \/ /\ modes = {"ADDITIVE", "DEDUCTIVE"}
         /\ Total(crit, "ADDITIVE") = max /\ Total(crit, "DEDUCTIVE") <= max

ApprovedKeys(q) == {k \in DOMAIN db.key : db.key[k].of = q /\ db.key[k].status = "APPROVED"}
ApprovedRubrics(q) == {r \in DOMAIN db.rubric : r[1] = q /\ db.rubric[r].status = "APPROVED"}
\* ensure_assessment_ready, over the latest version.
Ready(v) ==
  /\ Leaves(v) # {} /\ MarksReconcile(v)
  /\ \A q \in Leaves(v) :
       /\ ApprovedKeys(q) # {}
       /\ \E r \in ApprovedRubrics(q) : Reconciles(Criteria(r), db.question[q].max)

ALLOWED_TRANSITIONS ==
  [DRAFT |-> {"RUBRIC_REVIEW", "READY"}, RUBRIC_REVIEW |-> {"DRAFT", "READY"},
   READY |-> {"ACTIVE", "DRAFT"}, ACTIVE |-> {"CLOSED"}, CLOSED |-> {"ARCHIVED"}, ARCHIVED |-> {}]

\* transition_assessment.
Transition(t, to) ==
  /\ to \in ALLOWED_TRANSITIONS[Status] /\ (to = "READY" => Ready(Latest))
  /\ Request(t, "transition", In("assessment", Update("a", [status |-> to])))

\* patch_assessment: every version is a DRAFT, no handler gives it another status.
PatchAssessment(t, max) ==
  /\ Drafting
  /\ Request(t, "assessment", AlsoIn(In("assessment", Update("a", [max |-> max])),
                                     "version", Updates([v \in DOMAIN db.version |-> [max |-> max]])))

\* create_assessment_version.
CreateVersion(t, max) ==
  /\ Drafting /\ Latest < MaxVersions
  /\ Request(t, "version", In("version", Insert(Latest + 1, [max |-> max, paper |-> 0])))

\* upload_question_paper: whatever the status of the assessment.
UploadPaper(t, v) ==
  /\ QuestionsOf(v) = {} /\ db.version[v].paper < MaxPapers
  /\ Request(t, "paper", In("version", Update(v, [paper |-> db.version[v].paper + 1])))

-----------------------------------------------------------------------------
\* The question tree, edited while the assessment is a DRAFT.
QuestionRow(max, parent, mode) == [max |-> max, parent |-> parent, mode |-> mode]

CreateQuestion(t, v, code, row) ==
  /\ Drafting /\ row.parent \in QuestionsOf(v) \cup {NoQuestion}
  /\ Request(t, "question", In("question", Insert(<<v, code>>, row)))

ParentOf(q) == db.question[q].parent
\* The ancestors patch_question walks through, the question itself first.
Lineage(q) ==
  {a \in DOMAIN db.question : \A qs \in SUBSET DOMAIN db.question :
     q \in qs /\ (\A b \in qs : ParentOf(b) \in qs \cup {NoQuestion}) => a \in qs}

\* patch_question: other marks, another mode, or another parent.
Reparented(q, p) == p \in QuestionsOf(q[1]) /\ q \notin Lineage(p)
PatchQuestion(t, q, columns) ==
  /\ Drafting
  /\ "parent" \in DOMAIN columns /\ columns.parent # NoQuestion => Reparented(q, columns.parent)
  /\ Request(t, "question", In("question", Update(q, columns)))

DeleteQuestion(t, q) ==
  /\ Drafting /\ Request(t, "delete", In("question", Delete(q)))

-----------------------------------------------------------------------------
\* Answer keys.  The number is that of all keys of the assessment.
Active(q) == {k \in DOMAIN db.key : db.key[k].of = q /\ db.key[k].status \in ActiveStatus}
Editable(status) == status \in {"DRAFT", "REVIEW_REQUIRED"}
\* A new row in place of the active ones.
Superseded(ids) == [i \in ids |-> [status |-> "SUPERSEDED"]]
InPlaceOf(ids, id, row) == [new |-> [i \in {id} |-> row], set |-> Superseded(ids), gone |-> {}]
NextNumber(numbers) == IF numbers = {} THEN 1 ELSE Max(numbers) + 1
KeyRow(q, status, source) == [of |-> q, status |-> status, source |-> source, text |-> 0]

\* create_answer_key_version: an approved version is superseded.
CreateKey(t, q, source) ==
  /\ Mutable /\ NextNumber(DOMAIN db.key) <= MaxKeys
  /\ \A k \in Active(q) : db.key[k].status = "APPROVED"
  /\ Request(t, "key", In("key",
       InPlaceOf(Active(q), NextNumber(DOMAIN db.key), KeyRow(q, "DRAFT", source))))

\* Approved keys are immutable.
KeyEditable(k) == Mutable /\ Editable(db.key[k].status)

\* patch_answer_key_version and approve_answer_key.
PatchKey(t, k, columns) == /\ KeyEditable(k) /\ Request(t, "key", In("key", Update(k, columns)))
ApproveKey(t, k) ==
  /\ Mutable /\ Editable(db.key[k].status)
  /\ Request(t, "approve", In("key", Update(k, [status |-> "APPROVED"])))

-----------------------------------------------------------------------------
\* Rubrics: one header per question, then numbered versions with criteria.
RubricNumbers(q) == {r[2] : r \in {i \in DOMAIN db.rubric : i[1] = q}}
ActiveRubrics(q) == {r \in DOMAIN db.rubric : r[1] = q /\ db.rubric[r].status \in ActiveStatus}
RubricRow(status, source) == [status |-> status, source |-> source]

CreateRubric(t, q) == /\ Mutable /\ Request(t, "rubric", In("header", Insert(q, [by |-> "TEACHER"])))
CreateRubricVersion(t, q, source) ==
  /\ Mutable /\ q \in DOMAIN db.header /\ NextNumber(RubricNumbers(q)) <= MaxRubrics
  /\ \A r \in ActiveRubrics(q) : db.rubric[r].status = "APPROVED"
  /\ Request(t, "rubric", In("rubric",
       InPlaceOf(ActiveRubrics(q), <<q, NextNumber(RubricNumbers(q))>>, RubricRow("DRAFT", source))))

RubricEditable(r) == Mutable /\ Editable(db.rubric[r].status)
\* patch_rubric_version, and the criteria of a version.
PatchRubric(t, r, row) == RubricEditable(r) /\ Request(t, "rubric", In("rubric", Update(r, row)))
CreateCriterion(t, r, code, row) ==
  RubricEditable(r) /\ Request(t, "criterion", In("criterion", Insert(<<r, code>>, row)))
PatchCriterion(t, c, columns) ==
  RubricEditable(c[1]) /\ Request(t, "criterion", In("criterion", Update(c, columns)))
DeleteCriterion(t, c) ==
  RubricEditable(c[1]) /\ Request(t, "criterion", In("criterion", Delete(c)))

\* approve_rubric, when its marks reconcile with the question.
ApproveRubric(t, r) ==
  /\ RubricEditable(r) /\ Reconciles(Criteria(r), db.question[r[1]].max)
  /\ Request(t, "approve", In("rubric", Update(r, [status |-> "APPROVED"])))

\* create_mapping and delete_mapping.
CreateMapping(t, q, n) == Mutable /\ Request(t, "mapping", In("mapping", Insert(<<q, n>>, [by |-> "TEACHER"])))
DeleteMapping(t, m) == Mutable /\ Request(t, "mapping", In("mapping", Delete(m)))

-----------------------------------------------------------------------------
Modes == {"LEAF_SCORABLE", "CONTAINER_DERIVED"}
CriterionModes == {"ADDITIVE", "DEDUCTIVE", "ALL_OR_NOTHING"}
Sources == {"TEACHER", "IMPORTED"}

TeacherNext(t) ==
  \/ \E to \in DOMAIN ALLOWED_TRANSITIONS : Transition(t, to)
  \/ \E m \in MarkValues : PatchAssessment(t, m) \/ CreateVersion(t, m)
  \/ \E v \in DOMAIN db.version :
       \/ UploadPaper(t, v)
       \/ \E c \in Codes, m \in MarkValues, p \in QuestionsOf(v) \cup {NoQuestion}, mode \in Modes :
            CreateQuestion(t, v, c, QuestionRow(m, p, mode))
  \/ \E q \in DOMAIN db.question :
       \/ \E m \in MarkValues \ {db.question[q].max} : PatchQuestion(t, q, [max |-> m])
       \/ \E mode \in Modes \ {db.question[q].mode} : PatchQuestion(t, q, [mode |-> mode])
       \/ \E p \in DOMAIN db.question \cup {NoQuestion} : p # ParentOf(q) /\ PatchQuestion(t, q, [parent |-> p])
       \/ DeleteQuestion(t, q)
       \/ \E s \in Sources : CreateKey(t, q, s) \/ CreateRubricVersion(t, q, s)
       \/ CreateRubric(t, q)
       \/ \E n \in Nodes : CreateMapping(t, q, n)
  \/ \E k \in DOMAIN db.key :
       \/ PatchKey(t, k, [text |-> 1 - db.key[k].text])
       \/ \E s \in {"DRAFT", "REVIEW_REQUIRED"} \ {db.key[k].status} : PatchKey(t, k, [status |-> s])
       \/ ApproveKey(t, k)
  \/ \E r \in DOMAIN db.rubric :
       \/ \E s \in Sources : PatchRubric(t, r, RubricRow("REVIEW_REQUIRED", s))
       \/ \E c \in CriterionCodes, m \in MarkValues, mode \in CriterionModes :
            CreateCriterion(t, r, c, [mode |-> mode, max |-> m])
       \/ ApproveRubric(t, r)
  \/ \E c \in DOMAIN db.criterion :
       \/ \E m \in MarkValues \ {db.criterion[c].max} : PatchCriterion(t, c, [max |-> m])
       \/ DeleteCriterion(t, c)
  \/ \E m \in DOMAIN db.mapping : DeleteMapping(t, m)
=============================================================================
