-------------------------- MODULE AuthoringProofs --------------------------
(***************************************************************************)
(* Theorems of AuthoringAi.  What a transaction may write is settled when  *)
(* its request passes the checks (Fits, Careful); what may happen before   *)
(* its commit does not undo that: with one teacher only tasks write in     *)
(* between, and they add proposals and touch no question, version or row   *)
(* of a key or rubric that is there (WorkerTx).                            *)
(***************************************************************************)
EXTENDS AuthoringAi, ExtremaLemmas, FiniteSetTheorems, TLAPS

AnyQuestion == Ids \cup {NoQuestion}
AuthorStatus == ActiveStatus \cup {"SUPERSEDED"}
Authors == Sources \cup {"AI_PROPOSED"}
By == {"TEACHER", "AI_PROPOSED"}

\* The rows of each table, their identities (but of runs), and the columns a transaction may change.
Rows == [assessment |-> [status : DOMAIN ALLOWED_TRANSITIONS, max : MarkValues],
         version |-> [max : MarkValues, paper : 0 .. MaxPapers],
         question |-> QuestionRows,
         key |-> [of : AnyQuestion, status : AuthorStatus, text : {0, 1}, source : Authors],
         header |-> [by : By],
         rubric |-> [status : AuthorStatus, source : Authors],
         criterion |-> CriterionRows,
         mapping |-> [by : By],
         run |-> RunRows]
StatusColumn == [status : {"DRAFT", "REVIEW_REQUIRED", "APPROVED", "SUPERSEDED"}]
RunStatus == {"QUEUED", "REVIEW_REQUIRED", "SUCCEEDED", "FAILED", "UNAVAILABLE"}
Columns == [assessment |-> [status : DOMAIN ALLOWED_TRANSITIONS] \cup [max : MarkValues],
            version |-> [max : MarkValues] \cup [paper : 0 .. MaxPapers],
            question |-> [max : MarkValues] \cup [mode : Modes] \cup [parent : AnyQuestion],
            key |-> StatusColumn \cup [text : {0, 1}],
            header |-> {},
            rubric |-> StatusColumn \cup [status : AuthorStatus, source : Authors],
            criterion |-> [max : MarkValues],
            mapping |-> {},
            run |-> [status : RunStatus] \cup [status : RunStatus, tree : Trees] \cup [tree : Trees]
                    \cup [status : RunStatus, nodes : SUBSET Nodes] \cup [nodes : SUBSET Nodes]]
Names == [assessment |-> {"a"}, version |-> 1 .. MaxVersions, question |-> Ids, key |-> 1 .. MaxKeys,
          header |-> AnyQuestion, rubric |-> AnyQuestion \X (1 .. MaxRubrics),
          criterion |-> (AnyQuestion \X (1 .. MaxRubrics)) \X CriterionCodes,
          mapping |-> AnyQuestion \X Nodes, run |-> {}]

SameVersionRow(q, row) == "parent" \in DOMAIN row => row.parent = NoQuestion \/ row.parent[1] = q[1]

\* What every transaction is, whoever makes it.
TypedChange(t, c) ==
  /\ t # "run" => DOMAIN c.new \subseteq Names[t]
  /\ \A i \in DOMAIN c.new : c.new[i] \in Rows[t]
  /\ \A i \in DOMAIN c.set : c.set[i] \in Columns[t]
  /\ t = "question" => /\ c.gone \subseteq Ids
                       /\ \A q \in DOMAIN c.new : SameVersionRow(q, c.new[q])
                       /\ \A q \in DOMAIN c.set : SameVersionRow(q, c.set[q])
  /\ t = "run" => \A r \in DOMAIN c.new : c.new[r].version \in DOMAIN db.version
  /\ t \in {"assessment", "version", "key", "header", "rubric", "run"} => c.gone = {}
TypedTx(tx) == DOMAIN tx = Tables /\ \A t \in Tables : TypedChange(t, tx[t])

\* A task adds material and changes none.
WorkerTx(tx) ==
  /\ \A t \in {"version", "question", "mapping"} : tx[t] = NoChange
  /\ \A t \in {"key", "header", "rubric", "criterion"} : DOMAIN tx[t].set = {} /\ tx[t].gone = {}
  /\ DOMAIN tx["assessment"].new = {} /\ DOMAIN tx["run"].new = {}
  /\ \A i \in DOMAIN tx["assessment"].set : tx["assessment"].set[i] = [status |-> "RUBRIC_REVIEW"]
  /\ \A k \in DOMAIN tx["key"].new : tx["key"].new[k].status = "REVIEW_REQUIRED"
  /\ \A r \in DOMAIN tx["rubric"].new : tx["rubric"].new[r].status = "REVIEW_REQUIRED"
  /\ \A c \in DOMAIN tx["criterion"].new : c[1] \in DOMAIN tx["rubric"].new

Fits(s, x) ==
  /\ x.phase \in {"idle", "sending", "taken", "working", "writing"}
  /\ x = Idle \/ s \in setting.teachers \cup setting.workers
  /\ s \in Teachers => x.phase \in {"idle", "sending", "writing"}
  /\ s \in Workers => x.phase \in {"idle", "taken", "working", "writing"}
  /\ x.phase \in {"sending", "taken", "working"} => x.run \in DOMAIN db.run
  /\ x.phase = "writing" =>
       /\ TypedTx(x.tx)
       /\ x.then \in {NoRun} \cup DOMAIN db.run \cup DOMAIN x.tx["run"].new
       /\ s \in Teachers => x.run = NoRun
       /\ s \in Workers => /\ x.then = NoRun /\ WorkerTx(x.tx)
                           /\ x.run \in DOMAIN db.run /\ DOMAIN x.tx["run"].set = {x.run}

TypedTable(t) == (t # "run" => DOMAIN db[t] \subseteq Names[t]) /\ db[t] \in [DOMAIN db[t] -> Rows[t]]
TypedDb ==
  /\ \A t \in Tables : TypedTable(t)
  /\ References(db) /\ SameVersion(db.question)
  /\ \A r \in DOMAIN db.run : db.run[r].version \in DOMAIN db.version
  /\ "a" \in DOMAIN db.assessment /\ DOMAIN db.version # {}

TypeInv ==
  /\ setting \in Settings /\ DOMAIN session = Sessions
  /\ TypedDb /\ queue \subseteq DOMAIN db.run
  /\ \A s \in Sessions : Fits(s, session[s])

-----------------------------------------------------------------------------
\* The only teacher.
Untouched(tx) ==
  /\ \A t \in {"question", "key", "header", "rubric", "criterion", "mapping"} : tx[t] = NoChange
  /\ DOMAIN tx["version"].new = {}
  /\ \A v \in DOMAIN tx["version"].set : "max" \notin DOMAIN tx["version"].set[v]

Edited(rows, c) ==
  [i \in (DOMAIN rows \cup DOMAIN c.new) \ c.gone |->
     IF i \in DOMAIN c.new THEN c.new[i]
     ELSE IF i \in DOMAIN c.set THEN Patched(c.set[i], rows[i]) ELSE rows[i]]
Parented(questions) ==
  \A q \in DOMAIN questions : questions[q].parent \in DOMAIN questions \cup {NoQuestion}

KeepsTree(c) ==
  /\ DOMAIN c.new \cap DOMAIN db.question = {} /\ Parented(Edited(db.question, c))
  => Rooted(Edited(db.question, c))

Superseding(columns) == columns = [status |-> "SUPERSEDED"]
KeepsApproved(tx) ==
  /\ \A k \in DOMAIN tx["key"].set \cap DOMAIN db.key :
       Editable(db.key[k].status) \/ Superseding(tx["key"].set[k])
  /\ \A r \in DOMAIN tx["rubric"].set \cap DOMAIN db.rubric :
       Editable(db.rubric[r].status) \/ Superseding(tx["rubric"].set[r])
  /\ \A c \in DOMAIN tx["criterion"].new \cup DOMAIN tx["criterion"].set \cup tx["criterion"].gone :
       c[1] \in DOMAIN db.rubric /\ Editable(db.rubric[c[1]].status)

Freezes(tx) ==
  \E i \in DOMAIN tx["assessment"].set :
    "status" \in DOMAIN tx["assessment"].set[i] /\ Frozen(tx["assessment"].set[i].status)

Careful(tx) ==
  /\ Frozen(Status) => Untouched(tx)
  /\ Freezes(tx) => Untouched(tx) /\ Ready(Latest)
  /\ KeepsTree(tx["question"])
  /\ KeepsApproved(tx)
  /\ DOMAIN tx["assessment"].new = {}

TeacherInv ==
  OneTeacher =>
    /\ Rooted(db.question)
    /\ Frozen(Status) => Ready(Latest)
    /\ \A t \in Teachers : session[t].phase = "writing" => Careful(session[t].tx)

-----------------------------------------------------------------------------
TreeReady(tx, r) ==
  LET v == db.run[r].version
      tree == db.run[r].tree
  IN  /\ tx["question"] = Inserts(TreeRows(v, tree)) /\ tx["version"] = NoChange
      /\ QuestionsOf(v) = {} /\ ValidTree(tree, db.version[v].max) /\ tree \in Trees
Succeeds(columns) == "status" \in DOMAIN columns /\ columns.status = "SUCCEEDED"

\* Runs.  The runs a teacher is about to call applied: a teacher's transaction
\* leaves none to be reviewed; the task at work has one that is not, and that no
\* teacher is about to call applied.
Applying(t) ==
  IF session[t].phase = "writing"
  THEN {r \in DOMAIN session[t].tx["run"].set : Succeeds(session[t].tx["run"].set[r])} ELSE {}
Held(w) == session[w].phase \in {"taken", "working", "writing"}
\* A task calls no parse applied.
Honest(x) == x.phase = "writing" /\ Succeeds(x.tx["run"].set[x.run]) => db.run[x.run].op # PARSE
RunInv ==
  /\ \A t \in Teachers : session[t].phase = "writing" =>
       LET set == session[t].tx["run"].set
       IN  \A r \in DOMAIN set : "status" \in DOMAIN set[r] => set[r].status \in {"UNAVAILABLE", "SUCCEEDED"}
  /\ \A w \in Workers : Honest(session[w])
  /\ OneWorker => \A w \in Workers : Held(w) =>
       /\ db.run[session[w].run].status \notin {"REVIEW_REQUIRED", "SUCCEEDED"}
       /\ \A t \in Teachers : session[w].run \notin Applying(t)
  /\ OneWorker => \A t \in Teachers : \A r \in Applying(t) : r \in DOMAIN db.run /\ db.run[r].status \in Settled
\* The tree of a transaction that applies one is still as it was checked.
TreeInv ==
  OneTeacher /\ OneWorker => \A t \in Teachers : \A r \in Applying(t) :
    db.run[r].op = PARSE => TreeReady(session[t].tx, r)


-----------------------------------------------------------------------------
\* How transactions are put together.
LEMMA TablesAre ==
  /\ Names["assessment"] = {"a"} /\ Names["version"] = 1 .. MaxVersions
  /\ Names["question"] = Ids /\ Names["key"] = 1 .. MaxKeys /\ Names["header"] = AnyQuestion
  /\ Names["rubric"] = AnyQuestion \X (1 .. MaxRubrics)
  /\ Names["criterion"] = (AnyQuestion \X (1 .. MaxRubrics)) \X CriterionCodes
  /\ Names["mapping"] = AnyQuestion \X Nodes
  /\ Rows["assessment"] = [status : DOMAIN ALLOWED_TRANSITIONS, max : MarkValues]
  /\ Rows["version"] = [max : MarkValues, paper : 0 .. MaxPapers]
  /\ Rows["question"] = QuestionRows
  /\ Rows["key"] = [of : AnyQuestion, status : AuthorStatus, text : {0, 1}, source : Authors]
  /\ Rows["header"] = [by : By] /\ Rows["rubric"] = [status : AuthorStatus, source : Authors]
  /\ Rows["criterion"] = CriterionRows /\ Rows["mapping"] = [by : By] /\ Rows["run"] = RunRows
BY DEF Names, Rows

LEMMA ColumnsAre ==
  /\ Columns["assessment"] = [status : DOMAIN ALLOWED_TRANSITIONS] \cup [max : MarkValues]
  /\ Columns["version"] = [max : MarkValues] \cup [paper : 0 .. MaxPapers]
  /\ Columns["question"] = [max : MarkValues] \cup [mode : Modes] \cup [parent : AnyQuestion]
  /\ Columns["key"] = StatusColumn \cup [text : {0, 1}]
  /\ Columns["header"] = {}
  /\ Columns["rubric"] = StatusColumn \cup [status : AuthorStatus, source : Authors]
  /\ Columns["criterion"] = [max : MarkValues] /\ Columns["mapping"] = {}
  /\ Columns["run"] = [status : RunStatus] \cup [status : RunStatus, tree : Trees] \cup [tree : Trees]
                      \cup [status : RunStatus, nodes : SUBSET Nodes] \cup [nodes : SUBSET Nodes]
BY DEF Columns

\* NoChange, Inserts, Updates, Insert, Update and Delete change what they say.
LEMMA ChangesAre ==
  /\ DOMAIN NoChange.new = {} /\ DOMAIN NoChange.set = {} /\ NoChange.gone = {}
  /\ \A rows : /\ Inserts(rows).new = rows /\ DOMAIN Inserts(rows).set = {} /\ Inserts(rows).gone = {}
               /\ DOMAIN Updates(rows).new = {} /\ Updates(rows).set = rows /\ Updates(rows).gone = {}
  /\ \A i, row : /\ DOMAIN Insert(i, row).new = {i} /\ Insert(i, row).new[i] = row
                 /\ DOMAIN Insert(i, row).set = {} /\ Insert(i, row).gone = {}
                 /\ DOMAIN Update(i, row).new = {} /\ Update(i, row).gone = {}
                 /\ DOMAIN Update(i, row).set = {i} /\ Update(i, row).set[i] = row
  /\ \A i : DOMAIN Delete(i).new = {} /\ DOMAIN Delete(i).set = {} /\ Delete(i).gone = {i}
BY DEF NoChange, Inserts, Updates, Insert, Update, Delete

\* In changes one table, AlsoIn another.
LEMMA AlsoInIs ==
  ASSUME NEW tx, DOMAIN tx = Tables, NEW table \in Tables, NEW c
  PROVE  /\ DOMAIN AlsoIn(tx, table, c) = Tables
         /\ \A t \in Tables : AlsoIn(tx, table, c)[t] = IF t = table THEN c ELSE tx[t]
BY DEF AlsoIn

LEMMA InIs ==
  ASSUME NEW table \in Tables, NEW c
  PROVE  /\ DOMAIN In(table, c) = Tables
         /\ \A t \in Tables : In(table, c)[t] = IF t = table THEN c ELSE NoChange
<1>1. DOMAIN Nothing = Tables /\ \A t \in Tables : Nothing[t] = NoChange
  BY DEF Nothing
<1> QED  BY <1>1, AlsoInIs DEF In

LEMMA NoChangeTyped ==
  ASSUME NEW t \in Tables
  PROVE  TypedChange(t, NoChange)
BY ChangesAre DEF TypedChange

LEMMA NothingTyped == TypedTx(Nothing)
BY NoChangeTyped DEF TypedTx, Nothing

LEMMA AlsoInTyped ==
  ASSUME NEW tx, TypedTx(tx), NEW table \in Tables, NEW c, TypedChange(table, c)
  PROVE  TypedTx(AlsoIn(tx, table, c))
<1>1. DOMAIN tx = Tables /\ \A t \in Tables : TypedChange(t, tx[t])
  BY DEF TypedTx
<1> QED  BY <1>1, AlsoInIs DEF TypedTx

LEMMA InTyped ==
  ASSUME NEW table \in Tables, NEW c, TypedChange(table, c)
  PROVE  TypedTx(In(table, c))
BY NothingTyped, AlsoInTyped DEF In

\* Columns over a row of their table make a row of it.
LEMMA PatchedTyped ==
  ASSUME NEW t \in Tables, NEW row \in Rows[t], NEW columns \in Columns[t]
  PROVE  Patched(columns, row) \in Rows[t]
<1>1. CASE t = "assessment"
  BY <1>1, TablesAre, ColumnsAre DEF Patched
<1>2. CASE t = "version"
  BY <1>2, TablesAre, ColumnsAre DEF Patched
<1>3. CASE t = "question"
  BY <1>3, TablesAre, ColumnsAre DEF Patched, QuestionRows, AnyQuestion
<1>4. CASE t = "key"
  BY <1>4, TablesAre, ColumnsAre DEF Patched, StatusColumn, AuthorStatus, ActiveStatus
<1>5. CASE t = "header"
  BY <1>5, ColumnsAre
<1>6. CASE t = "rubric"
  BY <1>6, TablesAre, ColumnsAre DEF Patched, StatusColumn, AuthorStatus, ActiveStatus
<1>7. CASE t = "criterion"
  BY <1>7, TablesAre, ColumnsAre DEF Patched, CriterionRows
<1>8. CASE t = "mapping"
  BY <1>8, ColumnsAre
<1>9. CASE t = "run"
  <2>1. row \in RunRows
    BY <1>9, TablesAre
  <2>2. /\ columns \in Columns["run"]
        /\ DOMAIN row = {"op", "version", "of", "input", "status", "tree", "nodes"}
    BY <1>9, <2>1 DEF RunRows
  <2>3. /\ DOMAIN columns \subseteq {"status", "tree", "nodes"}
        /\ "status" \in DOMAIN columns => columns.status \in RunStatus
        /\ "tree" \in DOMAIN columns => columns.tree \in Trees
        /\ "nodes" \in DOMAIN columns => columns.nodes \in SUBSET Nodes
    BY <2>2, ColumnsAre
  <2> QED  BY <1>9, <2>1, <2>2, <2>3, TablesAre DEF Patched, RunRows, RunStatus
<1> QED  BY <1>1, <1>2, <1>3, <1>4, <1>5, <1>6, <1>7, <1>8, <1>9 DEF Tables

-----------------------------------------------------------------------------
\* What a commit makes of the tables.
LEMMA NoQuestionIsNone == NoQuestion \notin Ids
BY AuthoringAssumption DEF NoQuestion, Ids

RowAfter(t, id, tx) ==
  IF id \in DOMAIN tx[t].new THEN tx[t].new[id]
  ELSE IF id \in DOMAIN tx[t].set THEN Patched(tx[t].set[id], db[t][id]) ELSE db[t][id]

LEMMA AppliedDomain ==
  ASSUME NEW tx, NEW t \in Tables
  PROVE  DOMAIN Applied(tx)[t] = ((DOMAIN db[t] \cup DOMAIN tx[t].new) \ tx[t].gone) \ Cascaded(t, tx)
BY DEF Applied

LEMMA AppliedRow ==
  ASSUME NEW tx, NEW t \in Tables, NEW id \in DOMAIN Applied(tx)[t]
  PROVE  Applied(tx)[t][id] = Forgotten(t, RowAfter(t, id, tx), tx)
BY AppliedDomain DEF Applied, RowAfter

LEMMA AppliedFunction ==
  ASSUME NEW tx, NEW t \in Tables
  PROVE  Applied(tx)[t] = [id \in DOMAIN Applied(tx)[t] |-> Applied(tx)[t][id]]
<1>1. Applied(tx)[t] = [id \in DOMAIN Applied(tx)[t] |-> Forgotten(t, RowAfter(t, id, tx), tx)]
  BY DEF Applied, RowAfter
<1> QED  BY <1>1, AppliedRow

LEMMA KeptRow ==
  ASSUME NEW t \in Tables, t # "run", NEW row, NEW tx
  PROVE  Forgotten(t, row, tx) = row
BY DEF Forgotten

LEMMA DeletedAre ==
  ASSUME NEW tx, TypedTx(tx)
  PROVE  Deleted(tx) = tx["question"].gone /\ Deleted(tx) \subseteq Ids /\ NoQuestion \notin Deleted(tx)
<1>1. TypedChange("question", tx["question"])
  BY DEF TypedTx, Tables
<1> QED  BY <1>1, NoQuestionIsNone DEF TypedChange, Deleted

LEMMA CascadedAre ==
  ASSUME NEW tx, TypedTx(tx)
  PROVE  /\ \A t \in {"assessment", "version", "question", "run"} : Cascaded(t, tx) = {}
         /\ Cascaded("key", tx) = {k \in DOMAIN db.key : db.key[k].of \in Deleted(tx)}
         /\ Cascaded("header", tx) = {q \in DOMAIN db.header : q \in Deleted(tx)}
         /\ Cascaded("rubric", tx) = {r \in DOMAIN db.rubric : r[1] \in Deleted(tx)}
         /\ Cascaded("mapping", tx) = {m \in DOMAIN db.mapping : m[1] \in Deleted(tx)}
         /\ Cascaded("criterion", tx) = {c \in DOMAIN db.criterion : c[1][1] \in Deleted(tx)}
<1>1. \A t \in {"assessment", "version", "question", "run"} : \A id : QuestionOf(t, id) = NoQuestion
  BY DEF QuestionOf
<1>2. \A t \in {"assessment", "version", "question", "run"} : Cascaded(t, tx) = {}
  BY <1>1, DeletedAre DEF Cascaded
<1>3. /\ \A id : QuestionOf("key", id) = db.key[id].of
      /\ \A id : QuestionOf("header", id) = id
      /\ \A id : QuestionOf("rubric", id) = id[1]
      /\ \A id : QuestionOf("mapping", id) = id[1]
      /\ \A id : QuestionOf("criterion", id) = id[1][1]
  BY DEF QuestionOf
<1> QED  BY <1>2, <1>3 DEF Cascaded

\* The rows after a commit are rows of their tables.
LEMMA AppliedTyped ==
  ASSUME TypedDb, NEW tx, TypedTx(tx), NEW t \in Tables
  PROVE  /\ t # "run" => DOMAIN Applied(tx)[t] \subseteq Names[t]
         /\ Applied(tx)[t] \in [DOMAIN Applied(tx)[t] -> Rows[t]]
<1>1. TypedChange(t, tx[t])
  BY DEF TypedTx
<1>2. (t # "run" => DOMAIN db[t] \subseteq Names[t]) /\ db[t] \in [DOMAIN db[t] -> Rows[t]]
  BY DEF TypedDb, TypedTable
<1>3. DOMAIN Applied(tx)[t] \subseteq DOMAIN db[t] \cup DOMAIN tx[t].new
  BY AppliedDomain
<1>4. t # "run" => DOMAIN Applied(tx)[t] \subseteq Names[t]
  BY <1>1, <1>2, <1>3 DEF TypedChange
<1>5. ASSUME NEW id \in DOMAIN Applied(tx)[t]
      PROVE  Applied(tx)[t][id] \in Rows[t]
  <2> DEFINE row == RowAfter(t, id, tx)
  <2>1. row \in Rows[t]
    <3>1. CASE id \in DOMAIN tx[t].new
      BY <1>1, <3>1 DEF TypedChange, RowAfter
    <3>2. CASE id \notin DOMAIN tx[t].new /\ id \in DOMAIN tx[t].set
      <4>1. tx[t].set[id] \in Columns[t]
        BY <1>1, <3>2 DEF TypedChange
      <4>2. db[t][id] \in Rows[t]
        BY <1>2, <1>3, <3>2
      <4> QED  BY <3>2, <4>1, <4>2, PatchedTyped DEF RowAfter
    <3>3. CASE id \notin DOMAIN tx[t].new /\ id \notin DOMAIN tx[t].set
      BY <1>2, <1>3, <3>3 DEF RowAfter
    <3> QED  BY <3>1, <3>2, <3>3
  <2>2. Applied(tx)[t][id] = Forgotten(t, row, tx)
    BY AppliedRow
  <2> HIDE DEF row
  <2>3. CASE t # "run"
    BY <2>1, <2>2, <2>3, KeptRow
  <2>4. CASE t = "run"
    <3>1. row \in RunRows
      BY <2>1, <2>4, TablesAre
    <3>2. [row EXCEPT !.of = NoQuestion] \in RunRows
      BY <3>1 DEF RunRows
    <3> QED  BY <2>2, <2>4, <3>1, <3>2, TablesAre DEF Forgotten
  <2> QED  BY <2>3, <2>4
<1>6. PICK f : f = Applied(tx)[t]
  OBVIOUS
<1>7. f = [id \in DOMAIN f |-> f[id]]
  BY <1>6, AppliedFunction
<1>8. \A id \in DOMAIN f : f[id] \in Rows[t]
  BY <1>5, <1>6
<1>9. f \in [DOMAIN f -> Rows[t]]
  BY <1>7, <1>8
<1> QED  BY <1>4, <1>6, <1>9

\* No version and no run is deleted.
LEMMA AppliedKeeps ==
  ASSUME TypedDb, NEW tx, TypedTx(tx)
  PROVE  /\ \A t \in {"assessment", "version", "run"} :
              DOMAIN Applied(tx)[t] = DOMAIN db[t] \cup DOMAIN tx[t].new
         /\ \A r \in DOMAIN Applied(tx)["run"] : Applied(tx)["run"][r].version \in DOMAIN Applied(tx)["version"]
<1>1. \A t \in {"assessment", "version", "run"} : t \in Tables /\ tx[t].gone = {}
  BY DEF TypedTx, TypedChange, Tables
<1>2. \A t \in {"assessment", "version", "run"} : DOMAIN Applied(tx)[t] = DOMAIN db[t] \cup DOMAIN tx[t].new
  BY <1>1, AppliedDomain, CascadedAre
<1>3. ASSUME NEW r \in DOMAIN Applied(tx)["run"]
      PROVE  Applied(tx)["run"][r].version \in DOMAIN Applied(tx)["version"]
  <2> DEFINE row == RowAfter("run", r, tx)
  <2>1. Applied(tx)["run"][r] = Forgotten("run", row, tx)
    BY <1>1, AppliedRow
  <2>2. row.version \in DOMAIN db.version
    <3>1. CASE r \in DOMAIN tx["run"].new
      BY <1>1, <3>1 DEF TypedTx, TypedChange, RowAfter
    <3>2. r \in DOMAIN tx["run"].new \/ r \in DOMAIN db.run
      BY <1>2
    <3>3. CASE r \notin DOMAIN tx["run"].new
      <4>1. db.run[r].version \in DOMAIN db.version /\ db.run[r] \in RunRows
        BY <3>2, <3>3, TablesAre DEF TypedDb, TypedTable, Tables
      <4>2. ASSUME r \in DOMAIN tx["run"].set
            PROVE  "version" \notin DOMAIN tx["run"].set[r]
        <5>1. tx["run"].set[r] \in Columns["run"]
          BY <1>1, <4>2 DEF TypedTx, TypedChange
        <5> QED  BY <5>1, ColumnsAre
      <4>3. "version" \in DOMAIN db.run[r]
        BY <4>1 DEF RunRows
      <4> QED  BY <3>3, <4>1, <4>2, <4>3 DEF Patched, RowAfter
    <3> QED  BY <3>1, <3>3
  <2>3. \A x, y : [x EXCEPT !.of = y].version = x.version \/ "version" \notin DOMAIN x
    OBVIOUS
  <2>4. row \in RunRows
    <3>1. Applied(tx)["run"][r] \in RunRows
      BY AppliedTyped, TablesAre DEF Tables
    <3>2. TypedChange("run", tx["run"]) /\ db["run"] \in [DOMAIN db["run"] -> Rows["run"]]
      BY DEF TypedTx, TypedDb, TypedTable, Tables
    <3>3. r \in DOMAIN tx["run"].new \/ r \in DOMAIN db["run"]
      BY <1>2
    <3> QED  BY <3>2, <3>3, PatchedTyped, TablesAre DEF TypedChange, Tables, RowAfter
  <2>5. "version" \in DOMAIN row
    BY <2>4 DEF RunRows
  <2> HIDE DEF row
  <2>6. Applied(tx)["run"][r].version = row.version
    BY <2>1, <2>3, <2>5 DEF Forgotten
  <2> QED  BY <1>2, <2>2, <2>6
<1> QED  BY <1>2, <1>3

LEMMA AppliedSameVersion ==
  ASSUME TypedDb, NEW tx, TypedTx(tx)
  PROVE  SameVersion(Applied(tx)["question"])
<1>1. TypedChange("question", tx["question"]) /\ "question" \in Tables
  BY DEF TypedTx, Tables
<1>2. SUFFICES ASSUME NEW q \in DOMAIN Applied(tx)["question"]
               PROVE  \/ Applied(tx)["question"][q].parent = NoQuestion
                      \/ Applied(tx)["question"][q].parent[1] = q[1]
  BY DEF SameVersion
<1>3. q \in DOMAIN db["question"] \cup DOMAIN tx["question"].new
  BY <1>1, AppliedDomain
<1>4. Applied(tx)["question"][q] = RowAfter("question", q, tx)
  BY <1>1, AppliedRow, KeptRow
<1>5. CASE q \in DOMAIN tx["question"].new
  <2>1. SameVersionRow(q, tx["question"].new[q]) /\ tx["question"].new[q] \in QuestionRows
    BY <1>1, <1>5, TablesAre DEF TypedChange
  <2> QED  BY <1>4, <1>5, <2>1 DEF SameVersionRow, QuestionRows, RowAfter
<1>6. CASE q \notin DOMAIN tx["question"].new
  <2>1. db["question"][q] \in QuestionRows
    BY <1>1, <1>3, <1>6, TablesAre DEF TypedDb, TypedTable
  <2>2. db["question"][q].parent = NoQuestion \/ db["question"][q].parent[1] = q[1]
    BY <1>3, <1>6 DEF TypedDb, SameVersion
  <2>3. q \in DOMAIN tx["question"].set => SameVersionRow(q, tx["question"].set[q])
    BY <1>1 DEF TypedChange
  <2> QED  BY <1>4, <1>6, <2>1, <2>2, <2>3 DEF SameVersionRow, Patched, QuestionRows, RowAfter
<1> QED  BY <1>5, <1>6

\* A transaction that is accepted leaves a well-formed database.
LEMMA CommitTyped ==
  ASSUME TypedDb, NEW tx, TypedTx(tx), Accepted(tx), db' = Applied(tx)
  PROVE  TypedDb'
<1>1. \A t \in Tables : TypedTable(t)'
  BY AppliedTyped DEF TypedTable
<1>2. References(db') /\ SameVersion(db'.question)
  BY AppliedSameVersion DEF Accepted
<1>3. \A r \in DOMAIN db'.run : db'.run[r].version \in DOMAIN db'.version
  BY AppliedKeeps
<1>4. "a" \in DOMAIN db'.assessment /\ DOMAIN db'.version # {}
  BY AppliedKeeps DEF TypedDb
<1> QED  BY <1>1, <1>2, <1>3, <1>4 DEF TypedDb

-----------------------------------------------------------------------------
\* Changes of one table.
LEMMA InsertTyped ==
  ASSUME NEW t \in Tables, NEW id, NEW row \in Rows[t], t # "run" => id \in Names[t],
         t = "question" => SameVersionRow(id, row), t = "run" => row.version \in DOMAIN db.version
  PROVE  TypedChange(t, Insert(id, row))
BY ChangesAre DEF TypedChange

LEMMA UpdateTyped ==
  ASSUME NEW t \in Tables, NEW id, NEW columns \in Columns[t],
         t = "question" => SameVersionRow(id, columns)
  PROVE  TypedChange(t, Update(id, columns))
BY ChangesAre DEF TypedChange

LEMMA DeleteTyped ==
  ASSUME NEW t \in {"question", "criterion", "mapping"}, NEW id, t = "question" => id \in Ids
  PROVE  TypedChange(t, Delete(id))
BY ChangesAre DEF TypedChange

LEMMA UnchangedTree ==
  ASSUME TypedDb, Rooted(db.question)
  PROVE  KeepsTree(NoChange)
<1>1. Edited(db.question, NoChange) = [i \in DOMAIN db.question |-> db.question[i]]
  BY ChangesAre DEF Edited
<1>2. db.question = [i \in DOMAIN db.question |-> db.question[i]]
  BY DEF TypedDb, TypedTable, Tables
<1> QED  BY <1>1, <1>2 DEF KeepsTree

\* Changes of material are careful while it is not frozen.
LEMMA CarefulIn ==
  ASSUME TypedDb, Rooted(db.question), ~Frozen(Status), NEW c,
         NEW t \in {"version", "question", "key", "header", "rubric", "criterion", "mapping", "run"},
         t = "question" => KeepsTree(c),
         t = "key" => \A k \in DOMAIN c.set \cap DOMAIN db.key : Editable(db.key[k].status) \/ Superseding(c.set[k]),
         t = "rubric" => \A r \in DOMAIN c.set \cap DOMAIN db.rubric :
                           Editable(db.rubric[r].status) \/ Superseding(c.set[r]),
         t = "criterion" => \A i \in DOMAIN c.new \cup DOMAIN c.set \cup c.gone :
                              i[1] \in DOMAIN db.rubric /\ Editable(db.rubric[i[1]].status)
  PROVE  Careful(In(t, c))
<1>1. /\ DOMAIN In(t, c) = Tables /\ t \in Tables
      /\ \A u \in Tables : In(t, c)[u] = IF u = t THEN c ELSE NoChange
  BY InIs DEF Tables
<1>2. In(t, c)["assessment"] = NoChange
  BY <1>1 DEF Tables
<1>3. ~Freezes(In(t, c)) /\ DOMAIN In(t, c)["assessment"].new = {}
  BY <1>2, ChangesAre DEF Freezes
<1>4. KeepsTree(In(t, c)["question"])
  BY <1>1, UnchangedTree DEF Tables
<1>5. KeepsApproved(In(t, c))
  <2>1. \A k \in DOMAIN In(t, c)["key"].set \cap DOMAIN db.key :
          Editable(db.key[k].status) \/ Superseding(In(t, c)["key"].set[k])
    BY <1>1, ChangesAre DEF Tables
  <2>2. \A r \in DOMAIN In(t, c)["rubric"].set \cap DOMAIN db.rubric :
          Editable(db.rubric[r].status) \/ Superseding(In(t, c)["rubric"].set[r])
    BY <1>1, ChangesAre DEF Tables
  <2>3. CASE t = "criterion"
    BY <1>1, <2>1, <2>2, <2>3 DEF KeepsApproved, Tables
  <2>4. CASE t # "criterion"
    <3>1. In(t, c)["criterion"] = NoChange
      BY <1>1, <2>4 DEF Tables
    <3> QED  BY <2>1, <2>2, <3>1, ChangesAre DEF KeepsApproved
  <2> QED  BY <2>3, <2>4
<1> QED  BY <1>3, <1>4, <1>5 DEF Careful

\* Changes that touch no material are careful at any time.
LEMMA CarefulQuiet ==
  ASSUME TypedDb, Rooted(db.question), NEW c,
         NEW t \in {"assessment", "version", "run"},
         t = "assessment" => DOMAIN c.new = {},
         t = "version" => DOMAIN c.new = {} /\ \A v \in DOMAIN c.set : "max" \notin DOMAIN c.set[v],
         Freezes(In(t, c)) => Ready(Latest)
  PROVE  Careful(In(t, c))
<1>1. /\ DOMAIN In(t, c) = Tables /\ t \in Tables
      /\ \A u \in Tables : In(t, c)[u] = IF u = t THEN c ELSE NoChange
  BY InIs DEF Tables
<1>2. \A u \in {"question", "key", "header", "rubric", "criterion", "mapping"} : In(t, c)[u] = NoChange
  BY <1>1 DEF Tables
<1>3. Untouched(In(t, c))
  BY <1>1, <1>2, ChangesAre DEF Untouched, Tables
<1>4. KeepsTree(In(t, c)["question"])
  BY <1>2, UnchangedTree
<1>5. KeepsApproved(In(t, c))
  BY <1>2, ChangesAre DEF KeepsApproved
<1>6. DOMAIN In(t, c)["assessment"].new = {}
  BY <1>1, ChangesAre DEF Tables
<1> QED  BY <1>3, <1>4, <1>5, <1>6 DEF Careful

LEMMA CarefulNothing ==
  ASSUME TypedDb, Rooted(db.question)
  PROVE  Careful(Nothing)
<1>1. \A u \in Tables : Nothing[u] = NoChange
  BY DEF Nothing
<1>2. ~Freezes(Nothing) /\ Untouched(Nothing) /\ KeepsApproved(Nothing) /\ DOMAIN Nothing["assessment"].new = {}
  BY <1>1, ChangesAre DEF Freezes, Untouched, KeepsApproved, Tables
<1>3. KeepsTree(Nothing["question"])
  BY <1>1, UnchangedTree DEF Tables
<1> QED  BY <1>2, <1>3 DEF Careful

\* What a request of a teacher leaves behind.
TeacherTx(tx) ==
  \A r \in DOMAIN tx["run"].set :
    /\ "status" \in DOMAIN tx["run"].set[r] => tx["run"].set[r].status \in {"UNAVAILABLE", "SUCCEEDED"}
    /\ Succeeds(tx["run"].set[r]) => /\ r \in DOMAIN db.run /\ db.run[r].status = "REVIEW_REQUIRED"
                                     /\ db.run[r].op = PARSE => TreeReady(tx, r)

AskedWell(t) ==
  \E tx, then :
    /\ t \in setting.teachers /\ session[t] = Idle
    /\ session' = [session EXCEPT ![t] = Writing(tx, NoRun, then)]
    /\ UNCHANGED <<db, queue, provider, setting>>
    /\ then \in {NoRun} \cup DOMAIN db.run \cup DOMAIN tx["run"].new
    /\ TypedTx(tx) /\ TeacherTx(tx)
    /\ OneTeacher /\ TeacherInv => Careful(tx)

LEMMA RequestAsks ==
  ASSUME NEW t, NEW call, NEW tx, Request(t, call, tx), TypedTx(tx), TeacherTx(tx),
         OneTeacher /\ TeacherInv => Careful(tx)
  PROVE  AskedWell(t)
BY DEF Request, AskedWell

\* A change of one table that is not of runs.
LEMMA InTeacherTx ==
  ASSUME NEW table \in Tables, table # "run", NEW c
  PROVE  TeacherTx(In(table, c))
<1>1. In(table, c)["run"] = NoChange
  BY InIs DEF Tables
<1> QED  BY <1>1, ChangesAre DEF TeacherTx

LEMMA OneTableAsks ==
  ASSUME NEW t, NEW call, NEW c, NEW table \in Tables, table # "run", Request(t, call, In(table, c)),
         TypedChange(table, c), OneTeacher /\ TeacherInv => Careful(In(table, c))
  PROVE  AskedWell(t)
BY InTyped, InTeacherTx, RequestAsks

-----------------------------------------------------------------------------
\* The requests of teachers, one by one.
LEMMA MutableIsNotFrozen == Mutable \/ Drafting => ~Frozen(Status)
BY DEF Mutable, Drafting, Frozen

LEMMA TeacherInvGives ==
  ASSUME TeacherInv, OneTeacher
  PROVE  Rooted(db.question) /\ (Frozen(Status) => Ready(Latest))
BY DEF TeacherInv

LEMMA TypedRows ==
  ASSUME TypedDb, NEW t \in Tables
  PROVE  /\ \A i \in DOMAIN db[t] : db[t][i] \in Rows[t]
         /\ t # "run" => DOMAIN db[t] \subseteq Names[t]
BY DEF TypedDb, TypedTable

LEMMA StatusTyped ==
  ASSUME TypedDb
  PROVE  Status \in {"DRAFT", "RUBRIC_REVIEW", "READY", "ACTIVE", "CLOSED", "ARCHIVED"}
<1>1. "assessment" \in Tables /\ "a" \in DOMAIN db.assessment
  BY DEF TypedDb, Tables
<1>2. db.assessment["a"] \in [status : DOMAIN ALLOWED_TRANSITIONS, max : MarkValues]
  BY <1>1, TypedRows, TablesAre
<1> QED  BY <1>2 DEF Status, ALLOWED_TRANSITIONS

LEMMA TransitionAsks ==
  ASSUME TypeInv, NEW t \in Teachers, NEW to \in DOMAIN ALLOWED_TRANSITIONS, Transition(t, to)
  PROVE  AskedWell(t)
<1> DEFINE c == Update("a", [status |-> to])
<1>1. Request(t, "transition", In("assessment", c)) /\ "assessment" \in Tables /\ TypedDb
  BY DEF Transition, Tables, TypeInv
<1>2. TypedChange("assessment", c)
  <2>1. [status |-> to] \in Columns["assessment"]
    BY ColumnsAre
  <2> QED  BY <1>1, <2>1, UpdateTyped
<1>3. ASSUME OneTeacher, TeacherInv
      PROVE  Careful(In("assessment", c))
  <2>1. DOMAIN c.new = {} /\ DOMAIN c.set = {"a"} /\ c.set["a"] = [status |-> to]
    BY ChangesAre
  <2>2. ASSUME Freezes(In("assessment", c))
        PROVE  Ready(Latest)
    <3>1. In("assessment", c)["assessment"] = c
      BY <1>1, InIs
    <3>2. Frozen(to)
      BY <2>1, <2>2, <3>1 DEF Freezes
    <3>3. CASE to = "READY"
      BY <3>3 DEF Transition
    <3>4. CASE to # "READY"
      <4>1. Frozen(Status)
        BY <1>1, <3>2, <3>4, StatusTyped DEF Transition, ALLOWED_TRANSITIONS, Frozen
      <4> QED  BY <1>3, <4>1, TeacherInvGives
    <3> QED  BY <3>3, <3>4
  <2> HIDE DEF c
  <2> QED  BY <1>1, <1>3, <2>1, <2>2, TeacherInvGives, CarefulQuiet
<1> QED  BY <1>1, <1>2, <1>3, OneTableAsks DEF Tables

LEMMA PatchAssessmentAsks ==
  ASSUME TypeInv, NEW t \in Teachers, NEW m \in MarkValues, PatchAssessment(t, m)
  PROVE  AskedWell(t)
<1> DEFINE a == Update("a", [max |-> m])
           c == Updates([v \in DOMAIN db.version |-> [max |-> m]])
           tx == AlsoIn(In("assessment", a), "version", c)
<1>1. /\ Request(t, "assessment", tx) /\ Drafting /\ TypedDb
      /\ "assessment" \in Tables /\ "version" \in Tables /\ "run" \in Tables
  BY DEF PatchAssessment, Tables, TypeInv
<1>2. TypedTx(tx)
  <2>1. [max |-> m] \in Columns["assessment"] /\ [max |-> m] \in Columns["version"]
    BY ColumnsAre
  <2>2. TypedChange("assessment", a)
    BY <1>1, <2>1, UpdateTyped
  <2>3. TypedChange("version", c)
    BY <2>1, ChangesAre DEF TypedChange
  <2> QED  BY <1>1, <2>2, <2>3, InTyped, AlsoInTyped
<1>3. \A u \in Tables : tx[u] = IF u = "version" THEN c ELSE IF u = "assessment" THEN a ELSE NoChange
  BY <1>1, InIs, AlsoInIs
<1>4. TeacherTx(tx)
  BY <1>1, <1>3, ChangesAre DEF TeacherTx
<1>5. ASSUME OneTeacher, TeacherInv
      PROVE  Careful(tx)
  <2>1. ~Frozen(Status) /\ Rooted(db.question)
    BY <1>1, <1>5, MutableIsNotFrozen, TeacherInvGives
  <2>2. \A u \in {"question", "key", "header", "rubric", "criterion", "mapping"} : tx[u] = NoChange
    BY <1>3 DEF Tables
  <2>3. KeepsTree(tx["question"])
    BY <1>1, <2>1, <2>2, UnchangedTree
  <2>4. KeepsApproved(tx)
    BY <2>2, ChangesAre DEF KeepsApproved
  <2>5. tx["assessment"] = a /\ DOMAIN a.new = {} /\ \A i \in DOMAIN a.set : a.set[i] = [max |-> m]
    BY <1>1, <1>3, ChangesAre
  <2>6. ~Freezes(tx)
    BY <2>5 DEF Freezes
  <2> QED  BY <2>1, <2>3, <2>4, <2>5, <2>6 DEF Careful
<1> QED  BY <1>1, <1>2, <1>4, <1>5, RequestAsks

LEMMA LatestIs ==
  ASSUME TypedDb
  PROVE  Latest \in DOMAIN db.version /\ Latest \in 1 .. MaxVersions /\ \A v \in DOMAIN db.version : Latest >= v
<1>1. DOMAIN db.version \subseteq 1 .. MaxVersions /\ DOMAIN db.version # {}
  BY TypedRows, TablesAre DEF TypedDb, Tables
<1>2. MaxVersions \in Nat
  BY AuthoringAssumption
<1>3. DOMAIN db.version \in SUBSET (0 .. MaxVersions)
  BY <1>1, <1>2
<1> QED  BY <1>1, <1>2, <1>3, MaxOfInterval DEF Latest

LEMMA CreateVersionAsks ==
  ASSUME TypeInv, NEW t \in Teachers, NEW m \in MarkValues, CreateVersion(t, m)
  PROVE  AskedWell(t)
<1> DEFINE c == Insert(Latest + 1, [max |-> m, paper |-> 0])
<1>1. /\ Request(t, "version", In("version", c)) /\ Drafting /\ Latest < MaxVersions
      /\ "version" \in Tables /\ TypedDb
  BY DEF CreateVersion, Tables, TypeInv
<1>2. Latest + 1 \in Names["version"] /\ [max |-> m, paper |-> 0] \in Rows["version"]
  BY <1>1, LatestIs, TablesAre, AuthoringAssumption
<1>3. TypedChange("version", c)
  BY <1>1, <1>2, InsertTyped
<1>4. ASSUME OneTeacher, TeacherInv
      PROVE  Careful(In("version", c))
  <2> HIDE DEF c
  <2> QED  BY <1>1, <1>4, MutableIsNotFrozen, TeacherInvGives, CarefulIn
<1> QED  BY <1>1, <1>3, <1>4, OneTableAsks

LEMMA UploadPaperAsks ==
  ASSUME TypeInv, NEW t \in Teachers, NEW v \in DOMAIN db.version, UploadPaper(t, v)
  PROVE  AskedWell(t)
<1> DEFINE columns == [paper |-> db.version[v].paper + 1]
           c == Update(v, columns)
<1>1. /\ Request(t, "paper", In("version", c)) /\ db.version[v].paper < MaxPapers
      /\ "version" \in Tables /\ TypedDb
  BY DEF UploadPaper, Tables, TypeInv
<1>2. columns \in Columns["version"]
  <2>1. db.version[v] \in [max : MarkValues, paper : 0 .. MaxPapers]
    BY <1>1, TypedRows, TablesAre
  <2> QED  BY <1>1, <2>1, ColumnsAre, AuthoringAssumption
<1>3. TypedChange("version", c)
  BY <1>1, <1>2, UpdateTyped
<1>4. ASSUME OneTeacher, TeacherInv
      PROVE  Careful(In("version", c))
  <2>1. DOMAIN c.new = {} /\ \A i \in DOMAIN c.set : "max" \notin DOMAIN c.set[i]
    BY ChangesAre
  <2>2. ~Freezes(In("version", c))
    BY <1>1, InIs, ChangesAre DEF Freezes, Tables
  <2> HIDE DEF c
  <2> QED  BY <1>1, <1>4, <2>1, <2>2, TeacherInvGives, CarefulQuiet
<1> QED  BY <1>1, <1>3, <1>4, OneTableAsks

-----------------------------------------------------------------------------
\* The tree of questions stays one.
LEMMA QuestionTyped ==
  ASSUME TypedDb
  PROVE  /\ db.question \in [DOMAIN db.question -> QuestionRows] /\ DOMAIN db.question \subseteq Ids
         /\ Parented(db.question)
         /\ \A q \in DOMAIN db.question : /\ q = <<q[1], q[2]>> /\ q # NoQuestion
                                          /\ db.question[q].parent = NoQuestion \/ db.question[q].parent[1] = q[1]
<1>1. "question" \in Tables
  BY DEF Tables
<1>2. db.question \in [DOMAIN db.question -> QuestionRows] /\ DOMAIN db.question \subseteq Ids
  BY <1>1, TablesAre DEF TypedDb, TypedTable
<1>3. \A q \in Ids : q = <<q[1], q[2]>>
  BY DEF Ids
<1> QED  BY <1>2, <1>3, NoQuestionIsNone DEF TypedDb, References, SameVersion, Parented

\* A new question is nobody's parent.
LEMMA InsertKeepsTree ==
  ASSUME TypedDb, Rooted(db.question), NEW id \in Ids, NEW row,
         row.parent \in DOMAIN db.question \cup {NoQuestion}
  PROVE  KeepsTree(Insert(id, row))
<1> DEFINE c == Insert(id, row)
           next == Edited(db.question, c)
<1>1. SUFFICES ASSUME id \notin DOMAIN db.question, NEW qs \in SUBSET DOMAIN next, qs # {}
               PROVE  \E q \in qs : next[q].parent \notin qs
  BY ChangesAre DEF KeepsTree, Rooted
<1>2. /\ DOMAIN next = DOMAIN db.question \cup {id}
      /\ \A q \in DOMAIN db.question : next[q] = db.question[q]
      /\ next[id] = row
  BY <1>1, ChangesAre DEF Edited
<1> HIDE DEF next
<1>3. CASE qs \ {id} = {}
  <2>1. id \in qs /\ row.parent \notin qs
    BY <1>1, <1>3, NoQuestionIsNone
  <2> QED  BY <1>2, <2>1
<1>4. CASE qs \ {id} # {}
  <2>1. PICK q \in qs \ {id} : db.question[q].parent \notin qs \ {id}
    BY <1>1, <1>2, <1>4 DEF Rooted
  <2>2. q \in DOMAIN db.question /\ next[q] = db.question[q]
    BY <1>2, <2>1
  <2>3. db.question[q].parent # id
    BY <1>1, <2>2, QuestionTyped, NoQuestionIsNone DEF Parented
  <2> QED  BY <2>1, <2>2, <2>3
<1> QED  BY <1>3, <1>4

\* A question moves under one that is not below it.
LEMMA UpdateKeepsTree ==
  ASSUME TypedDb, Rooted(db.question), NEW q \in DOMAIN db.question, NEW columns,
         "parent" \in DOMAIN columns /\ columns.parent # NoQuestion => Reparented(q, columns.parent)
  PROVE  KeepsTree(Update(q, columns))
<1> DEFINE c == Update(q, columns)
           next == Edited(db.question, c)
<1>1. SUFFICES ASSUME NEW qs \in SUBSET DOMAIN next, qs # {}, \A x \in qs : next[x].parent \in qs
               PROVE  FALSE
  BY DEF KeepsTree, Rooted
<1>2. /\ DOMAIN next = DOMAIN db.question
      /\ \A x \in DOMAIN db.question : x # q => next[x] = db.question[x]
      /\ next[q] = Patched(columns, db.question[q])
  BY ChangesAre DEF Edited
<1>3. next[q].parent = IF "parent" \in DOMAIN columns THEN columns.parent ELSE db.question[q].parent
  BY <1>2, QuestionTyped DEF Patched, QuestionRows
<1> HIDE DEF next
<1>4. NoQuestion \notin qs
  BY <1>1, <1>2, QuestionTyped
<1>5. CASE q \notin qs \/ "parent" \notin DOMAIN columns
  <2>1. \A x \in qs : next[x].parent = db.question[x].parent
    BY <1>1, <1>2, <1>3, <1>5
  <2> QED  BY <1>1, <1>2, <2>1 DEF Rooted
<1>6. CASE q \in qs /\ "parent" \in DOMAIN columns
  <2> DEFINE p == columns.parent
  <2>1. p \in qs /\ p # NoQuestion /\ q \notin Lineage(p)
    BY <1>1, <1>3, <1>4, <1>6 DEF Reparented
  <2>2. PICK up \in SUBSET DOMAIN db.question :
          /\ p \in up /\ q \notin up
          /\ \A x \in up : ParentOf(x) \in up \cup {NoQuestion}
    BY <2>1 DEF Lineage
  <2>3. \A x \in up \cap qs : db.question[x].parent \in up \cap qs
    BY <1>1, <1>2, <1>4, <2>2 DEF ParentOf
  <2>4. up \cap qs \in SUBSET DOMAIN db.question /\ up \cap qs # {}
    BY <2>1, <2>2
  <2> QED  BY <2>3, <2>4 DEF Rooted
<1> QED  BY <1>5, <1>6

\* What is left of a tree is one.
LEMMA DeleteKeepsTree ==
  ASSUME TypedDb, Rooted(db.question), NEW q
  PROVE  KeepsTree(Delete(q))
<1> DEFINE next == Edited(db.question, Delete(q))
<1>1. DOMAIN next \subseteq DOMAIN db.question /\ \A x \in DOMAIN next : next[x] = db.question[x]
  BY ChangesAre DEF Edited
<1> HIDE DEF next
<1>2. Rooted(next)
  BY <1>1 DEF Rooted
<1> QED  BY <1>2 DEF KeepsTree, next

\* A tree applied to a version without questions.
LEMMA ApplyKeepsTree ==
  ASSUME TypedDb, Rooted(db.question), NEW v \in DOMAIN db.version, NEW tree \in Trees, QuestionsOf(v) = {}
  PROVE  KeepsTree(Inserts(TreeRows(v, tree)))
<1> DEFINE rows == TreeRows(v, tree)
           next == Edited(db.question, Inserts(rows))
<1>1. SUFFICES ASSUME NEW qs \in SUBSET DOMAIN next, qs # {}, \A x \in qs : next[x].parent \in qs
               PROVE  FALSE
  BY DEF KeepsTree, Rooted
<1>2. TreeShaped(tree) /\ v \in 1 .. MaxVersions
  BY AuthoringAssumption, TypedRows, TablesAre DEF Tables
<1>3. DOMAIN rows = {<<v, c>> : c \in DOMAIN tree}
  BY DEF TreeRows
<1>4. \A c \in DOMAIN tree :
        rows[<<v, c>>].parent = IF tree[c].parent = "none" THEN NoQuestion ELSE <<v, tree[c].parent>>
  BY DEF TreeRows, QuestionRow
<1> HIDE DEF rows
<1>5. /\ DOMAIN next = DOMAIN db.question \cup DOMAIN rows
      /\ \A x \in DOMAIN rows : next[x] = rows[x]
      /\ \A x \in DOMAIN db.question : x \notin DOMAIN rows => next[x] = db.question[x]
  BY ChangesAre DEF Edited
<1> HIDE DEF next
<1>6. \A x \in DOMAIN db.question : x[1] # v /\ x \notin DOMAIN rows
  BY <1>3 DEF QuestionsOf
<1>7. \A x \in qs : x \in DOMAIN rows \/ x \in DOMAIN db.question
  BY <1>1, <1>5
<1>8. NoQuestion \notin qs
  <2>1. \A c : <<v, c>> # NoQuestion
    BY <1>2, AuthoringAssumption DEF NoQuestion
  <2> QED  BY <1>3, <1>7, <2>1, QuestionTyped
<1>9. CASE qs \subseteq DOMAIN db.question
  <2>1. \A x \in qs : db.question[x].parent \in qs
    BY <1>1, <1>5, <1>6, <1>9
  <2> QED  BY <1>1, <1>9, <2>1 DEF Rooted
<1>10. CASE ~(qs \subseteq DOMAIN db.question)
  <2> DEFINE cs == {c \in DOMAIN tree : <<v, c>> \in qs}
  <2>1. cs # {}
    BY <1>3, <1>7, <1>10
  <2>2. cs \in SUBSET DOMAIN tree
    OBVIOUS
  <2>3. PICK c \in cs : tree[c].parent \notin cs
    BY <1>2, <2>1, <2>2 DEF TreeShaped
  <2>4. c \in DOMAIN tree /\ <<v, c>> \in qs /\ <<v, c>> \in DOMAIN rows
    BY <1>3, <2>3
  <2>5. rows[<<v, c>>].parent \in qs
    BY <1>1, <1>5, <2>4
  <2>6. tree[c].parent # "none" /\ <<v, tree[c].parent>> \in qs
    BY <1>4, <1>8, <2>4, <2>5
  <2>7. <<v, tree[c].parent>> \in DOMAIN rows
    <3>1. <<v, tree[c].parent>>[1] = v
      OBVIOUS
    <3> QED  BY <1>6, <1>7, <2>6, <3>1
  <2>8. tree[c].parent \in DOMAIN tree
    BY <1>3, <2>7
  <2> QED  BY <2>3, <2>6, <2>8
<1> QED  BY <1>9, <1>10

-----------------------------------------------------------------------------
LEMMA CreateQuestionAsks ==
  ASSUME TypeInv, NEW t \in Teachers, NEW v \in DOMAIN db.version, NEW code \in Codes, NEW m \in MarkValues,
         NEW p \in QuestionsOf(v) \cup {NoQuestion}, NEW mode \in Modes,
         CreateQuestion(t, v, code, QuestionRow(m, p, mode))
  PROVE  AskedWell(t)
<1> DEFINE row == QuestionRow(m, p, mode)
           c == Insert(<<v, code>>, row)
<1>1. Request(t, "question", In("question", c)) /\ Drafting /\ "question" \in Tables /\ TypedDb
  BY DEF CreateQuestion, Tables, TypeInv
<1>2. <<v, code>> \in Ids /\ (p \in DOMAIN db.question => p \in Ids)
  BY <1>1, TypedRows, TablesAre DEF Tables, Ids
<1>3. p \in DOMAIN db.question \cup {NoQuestion} /\ (p = NoQuestion \/ p[1] = v)
  BY DEF QuestionsOf
<1>4. row \in Rows["question"] /\ SameVersionRow(<<v, code>>, row) /\ row.parent = p
  BY <1>2, <1>3, TablesAre DEF QuestionRow, QuestionRows, SameVersionRow
<1>5. TypedChange("question", c)
  BY <1>1, <1>2, <1>4, InsertTyped, TablesAre
<1>6. ASSUME OneTeacher, TeacherInv
      PROVE  Careful(In("question", c))
  <2> HIDE DEF row
  <2>1. KeepsTree(c)
    BY <1>1, <1>2, <1>3, <1>4, <1>6, TeacherInvGives, InsertKeepsTree
  <2> HIDE DEF c
  <2> QED  BY <1>1, <1>6, <2>1, MutableIsNotFrozen, TeacherInvGives, CarefulIn
<1> QED  BY <1>1, <1>5, <1>6, OneTableAsks

LEMMA PatchQuestionAsks ==
  ASSUME TypeInv, NEW t \in Teachers, NEW q \in DOMAIN db.question, NEW columns \in Columns["question"],
         PatchQuestion(t, q, columns)
  PROVE  AskedWell(t)
<1> DEFINE c == Update(q, columns)
<1>1. Request(t, "question", In("question", c)) /\ Drafting /\ "question" \in Tables /\ TypedDb
  BY DEF PatchQuestion, Tables, TypeInv
<1>2. "parent" \in DOMAIN columns /\ columns.parent # NoQuestion => Reparented(q, columns.parent)
  BY DEF PatchQuestion
<1>3. SameVersionRow(q, columns)
  BY <1>2 DEF SameVersionRow, Reparented, QuestionsOf
<1>4. TypedChange("question", c)
  BY <1>1, <1>3, UpdateTyped
<1>5. ASSUME OneTeacher, TeacherInv
      PROVE  Careful(In("question", c))
  <2>1. KeepsTree(c)
    BY <1>1, <1>2, <1>5, TeacherInvGives, UpdateKeepsTree
  <2> HIDE DEF c
  <2> QED  BY <1>1, <1>5, <2>1, MutableIsNotFrozen, TeacherInvGives, CarefulIn
<1> QED  BY <1>1, <1>4, <1>5, OneTableAsks

LEMMA DeleteQuestionAsks ==
  ASSUME TypeInv, NEW t \in Teachers, NEW q \in DOMAIN db.question, DeleteQuestion(t, q)
  PROVE  AskedWell(t)
<1> DEFINE c == Delete(q)
<1>1. Request(t, "delete", In("question", c)) /\ Drafting /\ "question" \in Tables /\ TypedDb
  BY DEF DeleteQuestion, Tables, TypeInv
<1>2. TypedChange("question", c)
  BY <1>1, QuestionTyped, DeleteTyped
<1>3. ASSUME OneTeacher, TeacherInv
      PROVE  Careful(In("question", c))
  <2>1. KeepsTree(c)
    BY <1>1, <1>3, TeacherInvGives, DeleteKeepsTree
  <2> HIDE DEF c
  <2> QED  BY <1>1, <1>3, <2>1, MutableIsNotFrozen, TeacherInvGives, CarefulIn
<1> QED  BY <1>1, <1>2, <1>3, OneTableAsks

-----------------------------------------------------------------------------
\* Answer keys.
LEMMA NextNumberIs ==
  ASSUME NEW n \in Nat, NEW numbers \in SUBSET (0 .. n)
  PROVE  NextNumber(numbers) \in Nat \ {0}
<1>1. CASE numbers = {}
  BY <1>1 DEF NextNumber
<1>2. CASE numbers # {}
  <2>1. Max(numbers) \in numbers
    BY <1>2, MaxOfInterval
  <2>2. Max(numbers) \in 0 .. n
    BY <2>1
  <2> QED  BY <1>2, <2>2 DEF NextNumber
<1> QED  BY <1>1, <1>2

LEMMA NextKey ==
  ASSUME TypedDb, NextNumber(DOMAIN db.key) <= MaxKeys
  PROVE  NextNumber(DOMAIN db.key) \in Names["key"]
<1>1. DOMAIN db.key \subseteq 1 .. MaxKeys /\ MaxKeys \in Nat
  BY TypedRows, TablesAre, AuthoringAssumption DEF Tables
<1>2. DOMAIN db.key \in SUBSET (0 .. MaxKeys)
  BY <1>1
<1>3. NextNumber(DOMAIN db.key) \in Nat \ {0}
  BY <1>1, <1>2, NextNumberIs
<1> QED  BY <1>1, <1>3, TablesAre

LEMMA KeyTyped ==
  ASSUME TypedDb
  PROVE  /\ db.key \in [DOMAIN db.key -> Rows["key"]]
         /\ \A k \in DOMAIN db.key : db.key[k].of \in DOMAIN db.question
BY DEF TypedDb, TypedTable, References, KeysFit, Tables

LEMMA CreateKeyAsks ==
  ASSUME TypeInv, NEW t \in Teachers, NEW q \in DOMAIN db.question, NEW s \in Sources, CreateKey(t, q, s)
  PROVE  AskedWell(t)
<1> DEFINE n == NextNumber(DOMAIN db.key)
           c == InPlaceOf(Active(q), n, KeyRow(q, "DRAFT", s))
<1>1. Request(t, "key", In("key", c)) /\ Mutable /\ "key" \in Tables /\ TypedDb /\ n <= MaxKeys
  BY DEF CreateKey, Tables, TypeInv
<1>2. /\ DOMAIN c.new = {n} /\ c.new[n] = KeyRow(q, "DRAFT", s) /\ c.gone = {}
      /\ \A k \in DOMAIN c.set : c.set[k] = [status |-> "SUPERSEDED"]
  BY DEF InPlaceOf, Superseded
<1> HIDE DEF c
<1>3. TypedChange("key", c)
  <2>1. KeyRow(q, "DRAFT", s) \in Rows["key"]
    BY <1>1, QuestionTyped, TablesAre DEF KeyRow, AnyQuestion, AuthorStatus, ActiveStatus, Authors
  <2>2. n \in Names["key"]
    BY <1>1, NextKey
  <2>3. [status |-> "SUPERSEDED"] \in Columns["key"]
    BY ColumnsAre DEF StatusColumn
  <2> HIDE DEF n
  <2> QED  BY <1>2, <2>1, <2>2, <2>3 DEF TypedChange
<1>4. ASSUME OneTeacher, TeacherInv
      PROVE  Careful(In("key", c))
  BY <1>1, <1>2, <1>4, MutableIsNotFrozen, TeacherInvGives, CarefulIn DEF Superseding
<1> QED  BY <1>1, <1>3, <1>4, OneTableAsks

LEMMA KeyUpdateAsks ==
  ASSUME TypeInv, NEW t \in Teachers, NEW k \in DOMAIN db.key, NEW columns \in Columns["key"], NEW call,
         Mutable, Editable(db.key[k].status), Request(t, call, In("key", Update(k, columns)))
  PROVE  AskedWell(t)
<1> DEFINE c == Update(k, columns)
<1>1. "key" \in Tables /\ TypedDb /\ DOMAIN c.set = {k}
  BY ChangesAre DEF Tables, TypeInv
<1>2. TypedChange("key", c)
  BY <1>1, UpdateTyped
<1> HIDE DEF c
<1>3. ASSUME OneTeacher, TeacherInv
      PROVE  Careful(In("key", c))
  BY <1>1, <1>3, MutableIsNotFrozen, TeacherInvGives, CarefulIn
<1> QED  BY <1>1, <1>2, <1>3, OneTableAsks DEF c

LEMMA PatchKeyAsks ==
  ASSUME TypeInv, NEW t \in Teachers, NEW k \in DOMAIN db.key, NEW columns \in Columns["key"], PatchKey(t, k, columns)
  PROVE  AskedWell(t)
BY KeyUpdateAsks DEF PatchKey, KeyEditable

LEMMA ApproveKeyAsks ==
  ASSUME TypeInv, NEW t \in Teachers, NEW k \in DOMAIN db.key, ApproveKey(t, k)
  PROVE  AskedWell(t)
<1>1. [status |-> "APPROVED"] \in Columns["key"]
  BY ColumnsAre DEF StatusColumn
<1> QED  BY <1>1, KeyUpdateAsks DEF ApproveKey

-----------------------------------------------------------------------------
\* Rubrics, criteria and mappings.
LEMMA RubricTyped ==
  ASSUME TypedDb
  PROVE  /\ db.rubric \in [DOMAIN db.rubric -> Rows["rubric"]]
         /\ \A r \in DOMAIN db.rubric : /\ r = <<r[1], r[2]>> /\ r[1] \in DOMAIN db.header /\ r[1] \in DOMAIN db.question
                                        /\ r[2] \in 1 .. MaxRubrics /\ r \in Names["rubric"]
         /\ \A q \in DOMAIN db.header : q \in DOMAIN db.question
         /\ DOMAIN db.criterion \subseteq Names["criterion"]
         /\ \A c \in DOMAIN db.criterion : /\ c = <<c[1], c[2]>> /\ c[1] \in DOMAIN db.rubric
                                           /\ c[2] \in CriterionCodes /\ db.criterion[c] \in CriterionRows
         /\ db.criterion \in [DOMAIN db.criterion -> CriterionRows]
<1>1. /\ TypedTable("rubric") /\ TypedTable("criterion") /\ TypedTable("header") /\ References(db)
  BY DEF TypedDb, Tables
<1>2. /\ DOMAIN db.rubric \subseteq AnyQuestion \X (1 .. MaxRubrics)
      /\ db.rubric \in [DOMAIN db.rubric -> Rows["rubric"]]
      /\ DOMAIN db.criterion \subseteq (AnyQuestion \X (1 .. MaxRubrics)) \X CriterionCodes
      /\ db.criterion \in [DOMAIN db.criterion -> CriterionRows]
  BY <1>1, TablesAre DEF TypedTable
<1>3. /\ \A r \in DOMAIN db.rubric : r[1] \in DOMAIN db.header
      /\ DOMAIN db.header \subseteq DOMAIN db.question
      /\ \A c \in DOMAIN db.criterion : c[1] \in DOMAIN db.rubric
  BY <1>1 DEF References
<1> QED  BY <1>2, <1>3, TablesAre

LEMMA NextRubric ==
  ASSUME TypedDb, NEW q, NextNumber(RubricNumbers(q)) <= MaxRubrics
  PROVE  NextNumber(RubricNumbers(q)) \in 1 .. MaxRubrics
<1>1. MaxRubrics \in Nat
  BY AuthoringAssumption
<1>2. RubricNumbers(q) \in SUBSET (0 .. MaxRubrics)
  BY <1>1, RubricTyped DEF RubricNumbers
<1>3. NextNumber(RubricNumbers(q)) \in Nat \ {0}
  BY <1>1, <1>2, NextNumberIs
<1> QED  BY <1>1, <1>3

LEMMA CreateRubricAsks ==
  ASSUME TypeInv, NEW t \in Teachers, NEW q \in DOMAIN db.question, CreateRubric(t, q)
  PROVE  AskedWell(t)
<1> DEFINE c == Insert(q, [by |-> "TEACHER"])
<1>1. Request(t, "rubric", In("header", c)) /\ Mutable /\ "header" \in Tables /\ TypedDb
  BY DEF CreateRubric, Tables, TypeInv
<1>2. [by |-> "TEACHER"] \in Rows["header"] /\ q \in Names["header"]
  BY <1>1, QuestionTyped, TablesAre DEF AnyQuestion, By
<1>3. TypedChange("header", c)
  BY <1>1, <1>2, InsertTyped
<1>4. ASSUME OneTeacher, TeacherInv
      PROVE  Careful(In("header", c))
  <2> HIDE DEF c
  <2> QED  BY <1>1, <1>4, MutableIsNotFrozen, TeacherInvGives, CarefulIn
<1> QED  BY <1>1, <1>3, <1>4, OneTableAsks

LEMMA CreateRubricVersionAsks ==
  ASSUME TypeInv, NEW t \in Teachers, NEW q \in DOMAIN db.question, NEW s \in Sources, CreateRubricVersion(t, q, s)
  PROVE  AskedWell(t)
<1> DEFINE r == <<q, NextNumber(RubricNumbers(q))>>
           c == InPlaceOf(ActiveRubrics(q), r, RubricRow("DRAFT", s))
<1>1. /\ Request(t, "rubric", In("rubric", c)) /\ Mutable /\ "rubric" \in Tables /\ TypedDb
      /\ NextNumber(RubricNumbers(q)) <= MaxRubrics
  BY DEF CreateRubricVersion, Tables, TypeInv
<1>2. /\ DOMAIN c.new = {r} /\ c.new[r] = RubricRow("DRAFT", s) /\ c.gone = {}
      /\ \A k \in DOMAIN c.set : c.set[k] = [status |-> "SUPERSEDED"]
  BY DEF InPlaceOf, Superseded
<1> HIDE DEF c
<1>3. TypedChange("rubric", c)
  <2>1. RubricRow("DRAFT", s) \in Rows["rubric"]
    BY TablesAre DEF RubricRow, AuthorStatus, ActiveStatus, Authors
  <2>2. r \in Names["rubric"]
    BY <1>1, NextRubric, QuestionTyped, TablesAre DEF AnyQuestion
  <2>3. [status |-> "SUPERSEDED"] \in Columns["rubric"]
    BY ColumnsAre DEF StatusColumn
  <2> HIDE DEF r
  <2> QED  BY <1>2, <2>1, <2>2, <2>3 DEF TypedChange
<1>4. ASSUME OneTeacher, TeacherInv
      PROVE  Careful(In("rubric", c))
  BY <1>1, <1>2, <1>4, MutableIsNotFrozen, TeacherInvGives, CarefulIn DEF Superseding
<1> QED  BY <1>1, <1>3, <1>4, OneTableAsks

LEMMA RubricUpdateAsks ==
  ASSUME TypeInv, NEW t \in Teachers, NEW r \in DOMAIN db.rubric, NEW columns \in Columns["rubric"], NEW call,
         RubricEditable(r), Request(t, call, In("rubric", Update(r, columns)))
  PROVE  AskedWell(t)
<1> DEFINE c == Update(r, columns)
<1>1. "rubric" \in Tables /\ TypedDb /\ DOMAIN c.set = {r} /\ Mutable /\ Editable(db.rubric[r].status)
  BY ChangesAre DEF Tables, TypeInv, RubricEditable
<1>2. TypedChange("rubric", c)
  BY <1>1, UpdateTyped
<1> HIDE DEF c
<1>3. ASSUME OneTeacher, TeacherInv
      PROVE  Careful(In("rubric", c))
  BY <1>1, <1>3, MutableIsNotFrozen, TeacherInvGives, CarefulIn
<1> QED  BY <1>1, <1>2, <1>3, OneTableAsks DEF c

LEMMA PatchRubricAsks ==
  ASSUME TypeInv, NEW t \in Teachers, NEW r \in DOMAIN db.rubric, NEW s \in Sources,
         PatchRubric(t, r, RubricRow("REVIEW_REQUIRED", s))
  PROVE  AskedWell(t)
<1>1. RubricRow("REVIEW_REQUIRED", s) \in Columns["rubric"]
  BY ColumnsAre DEF RubricRow, AuthorStatus, ActiveStatus, Authors
<1> QED  BY <1>1, RubricUpdateAsks DEF PatchRubric

LEMMA ApproveRubricAsks ==
  ASSUME TypeInv, NEW t \in Teachers, NEW r \in DOMAIN db.rubric, ApproveRubric(t, r)
  PROVE  AskedWell(t)
<1>1. [status |-> "APPROVED"] \in Columns["rubric"]
  BY ColumnsAre DEF StatusColumn
<1> QED  BY <1>1, RubricUpdateAsks DEF ApproveRubric

LEMMA CriterionAsks ==
  ASSUME TypeInv, NEW t \in Teachers, NEW c, NEW r \in DOMAIN db.rubric, RubricEditable(r), NEW call,
         Request(t, call, In("criterion", c)), TypedChange("criterion", c),
         \A i \in DOMAIN c.new \cup DOMAIN c.set \cup c.gone : i[1] = r
  PROVE  AskedWell(t)
<1>1. "criterion" \in Tables /\ TypedDb /\ Mutable /\ Editable(db.rubric[r].status)
  BY DEF Tables, TypeInv, RubricEditable
<1>2. ASSUME OneTeacher, TeacherInv
      PROVE  Careful(In("criterion", c))
  BY <1>1, <1>2, MutableIsNotFrozen, TeacherInvGives, CarefulIn
<1> QED  BY <1>1, <1>2, OneTableAsks

LEMMA CreateCriterionAsks ==
  ASSUME TypeInv, NEW t \in Teachers, NEW r \in DOMAIN db.rubric, NEW code \in CriterionCodes,
         NEW row \in CriterionRows, CreateCriterion(t, r, code, row)
  PROVE  AskedWell(t)
<1> DEFINE c == Insert(<<r, code>>, row)
<1>1. RubricEditable(r) /\ Request(t, "criterion", In("criterion", c)) /\ TypedDb /\ "criterion" \in Tables
  BY DEF CreateCriterion, TypeInv, Tables
<1>2. <<r, code>> \in Names["criterion"]
  BY <1>1, RubricTyped, TablesAre
<1>3. TypedChange("criterion", c)
  BY <1>1, <1>2, InsertTyped, TablesAre
<1>4. \A i \in DOMAIN c.new \cup DOMAIN c.set \cup c.gone : i[1] = r
  BY ChangesAre
<1> QED  BY <1>1, <1>3, <1>4, CriterionAsks

LEMMA PatchCriterionAsks ==
  ASSUME TypeInv, NEW t \in Teachers, NEW i \in DOMAIN db.criterion, NEW m \in MarkValues,
         PatchCriterion(t, i, [max |-> m])
  PROVE  AskedWell(t)
<1> DEFINE c == Update(i, [max |-> m])
<1>1. RubricEditable(i[1]) /\ Request(t, "criterion", In("criterion", c)) /\ TypedDb /\ "criterion" \in Tables
  BY DEF PatchCriterion, TypeInv, Tables
<1>2. TypedChange("criterion", c)
  BY <1>1, UpdateTyped, ColumnsAre
<1>3. \A x \in DOMAIN c.new \cup DOMAIN c.set \cup c.gone : x[1] = i[1]
  BY ChangesAre
<1> QED  BY <1>1, <1>2, <1>3, CriterionAsks, RubricTyped

LEMMA DeleteCriterionAsks ==
  ASSUME TypeInv, NEW t \in Teachers, NEW i \in DOMAIN db.criterion, DeleteCriterion(t, i)
  PROVE  AskedWell(t)
<1> DEFINE c == Delete(i)
<1>1. RubricEditable(i[1]) /\ Request(t, "criterion", In("criterion", c)) /\ TypedDb
  BY DEF DeleteCriterion, TypeInv
<1>2. TypedChange("criterion", c)
  BY DeleteTyped
<1>3. \A x \in DOMAIN c.new \cup DOMAIN c.set \cup c.gone : x[1] = i[1]
  BY ChangesAre
<1> QED  BY <1>1, <1>2, <1>3, CriterionAsks, RubricTyped

LEMMA CreateMappingAsks ==
  ASSUME TypeInv, NEW t \in Teachers, NEW q \in DOMAIN db.question, NEW n \in Nodes, CreateMapping(t, q, n)
  PROVE  AskedWell(t)
<1> DEFINE c == Insert(<<q, n>>, [by |-> "TEACHER"])
<1>1. Request(t, "mapping", In("mapping", c)) /\ Mutable /\ "mapping" \in Tables /\ TypedDb
  BY DEF CreateMapping, Tables, TypeInv
<1>2. [by |-> "TEACHER"] \in Rows["mapping"] /\ <<q, n>> \in Names["mapping"]
  BY <1>1, QuestionTyped, TablesAre DEF AnyQuestion, By
<1>3. TypedChange("mapping", c)
  BY <1>1, <1>2, InsertTyped
<1>4. ASSUME OneTeacher, TeacherInv
      PROVE  Careful(In("mapping", c))
  <2> HIDE DEF c
  <2> QED  BY <1>1, <1>4, MutableIsNotFrozen, TeacherInvGives, CarefulIn
<1> QED  BY <1>1, <1>3, <1>4, OneTableAsks

LEMMA DeleteMappingAsks ==
  ASSUME TypeInv, NEW t \in Teachers, NEW m, DeleteMapping(t, m)
  PROVE  AskedWell(t)
<1> DEFINE c == Delete(m)
<1>1. Request(t, "mapping", In("mapping", c)) /\ Mutable /\ "mapping" \in Tables /\ TypedDb
  BY DEF DeleteMapping, Tables, TypeInv
<1>2. TypedChange("mapping", c)
  BY DeleteTyped
<1>3. ASSUME OneTeacher, TeacherInv
      PROVE  Careful(In("mapping", c))
  <2> HIDE DEF c
  <2> QED  BY <1>1, <1>3, MutableIsNotFrozen, TeacherInvGives, CarefulIn
<1> QED  BY <1>1, <1>2, <1>3, OneTableAsks

-----------------------------------------------------------------------------
LEMMA TeacherAsks ==
  ASSUME TypeInv, NEW t \in Teachers, TeacherNext(t)
  PROVE  AskedWell(t)
<1>1. CASE \E to \in DOMAIN ALLOWED_TRANSITIONS : Transition(t, to)
  BY <1>1, TransitionAsks
<1>2. CASE \E m \in MarkValues : PatchAssessment(t, m) \/ CreateVersion(t, m)
  BY <1>2, PatchAssessmentAsks, CreateVersionAsks
<1>3. CASE \E v \in DOMAIN db.version :
             \/ UploadPaper(t, v)
             \/ \E c \in Codes, m \in MarkValues, p \in QuestionsOf(v) \cup {NoQuestion}, mode \in Modes :
                  CreateQuestion(t, v, c, QuestionRow(m, p, mode))
  BY <1>3, UploadPaperAsks, CreateQuestionAsks
<1>4. ASSUME NEW q \in DOMAIN db.question,
             \/ \E m \in MarkValues \ {db.question[q].max} : PatchQuestion(t, q, [max |-> m])
             \/ \E mode \in Modes \ {db.question[q].mode} : PatchQuestion(t, q, [mode |-> mode])
             \/ \E p \in DOMAIN db.question \cup {NoQuestion} :
                  p # ParentOf(q) /\ PatchQuestion(t, q, [parent |-> p])
      PROVE  AskedWell(t)
  <2>1. \A p \in DOMAIN db.question \cup {NoQuestion} : p \in AnyQuestion
    BY QuestionTyped DEF AnyQuestion, TypeInv
  <2>2. CASE \E m \in MarkValues : PatchQuestion(t, q, [max |-> m])
    <3>1. \A m \in MarkValues : [max |-> m] \in Columns["question"]
      BY ColumnsAre
    <3> QED  BY <2>2, <3>1, PatchQuestionAsks
  <2>3. CASE \E mode \in Modes : PatchQuestion(t, q, [mode |-> mode])
    <3>1. \A m \in Modes : [mode |-> m] \in Columns["question"]
      BY ColumnsAre
    <3> QED  BY <2>3, <3>1, PatchQuestionAsks
  <2>4. CASE \E p \in DOMAIN db.question \cup {NoQuestion} : PatchQuestion(t, q, [parent |-> p])
    <3>1. \A p \in AnyQuestion : [parent |-> p] \in Columns["question"]
      BY ColumnsAre
    <3> QED  BY <2>1, <2>4, <3>1, PatchQuestionAsks
  <2> QED  BY <1>4, <2>2, <2>3, <2>4
<1>5. ASSUME NEW q \in DOMAIN db.question,
             \/ DeleteQuestion(t, q)
             \/ \E s \in Sources : CreateKey(t, q, s) \/ CreateRubricVersion(t, q, s)
             \/ CreateRubric(t, q)
             \/ \E n \in Nodes : CreateMapping(t, q, n)
      PROVE  AskedWell(t)
  BY <1>5, DeleteQuestionAsks, CreateKeyAsks, CreateRubricVersionAsks, CreateRubricAsks, CreateMappingAsks
<1>6. ASSUME NEW k \in DOMAIN db.key,
             \/ PatchKey(t, k, [text |-> 1 - db.key[k].text])
             \/ \E s \in {"DRAFT", "REVIEW_REQUIRED"} \ {db.key[k].status} : PatchKey(t, k, [status |-> s])
             \/ ApproveKey(t, k)
      PROVE  AskedWell(t)
  <2>1. db.key[k].text \in {0, 1}
    BY KeyTyped, TablesAre DEF TypeInv
  <2>2. /\ [text |-> 1 - db.key[k].text] \in Columns["key"]
        /\ \A s \in {"DRAFT", "REVIEW_REQUIRED"} : [status |-> s] \in Columns["key"]
    BY <2>1, ColumnsAre DEF StatusColumn
  <2> QED  BY <1>6, <2>2, PatchKeyAsks, ApproveKeyAsks
<1>7. ASSUME NEW r \in DOMAIN db.rubric,
             \/ \E s \in Sources : PatchRubric(t, r, RubricRow("REVIEW_REQUIRED", s))
             \/ \E c \in CriterionCodes, m \in MarkValues, mode \in CriterionModes :
                  CreateCriterion(t, r, c, [mode |-> mode, max |-> m])
             \/ ApproveRubric(t, r)
      PROVE  AskedWell(t)
  <2>1. \A m \in MarkValues, mode \in CriterionModes : [mode |-> mode, max |-> m] \in CriterionRows
    BY DEF CriterionRows
  <2> QED  BY <1>7, <2>1, PatchRubricAsks, CreateCriterionAsks, ApproveRubricAsks
<1>8. CASE \E c \in DOMAIN db.criterion :
             \/ \E m \in MarkValues \ {db.criterion[c].max} : PatchCriterion(t, c, [max |-> m])
             \/ DeleteCriterion(t, c)
  BY <1>8, PatchCriterionAsks, DeleteCriterionAsks
<1>9. CASE \E m \in DOMAIN db.mapping : DeleteMapping(t, m)
  BY <1>9, DeleteMappingAsks
<1> QED  BY <1>1, <1>2, <1>3, <1>4, <1>5, <1>6, <1>7, <1>8, <1>9 DEF TeacherNext

-----------------------------------------------------------------------------
\* The requests of proposals.
LEMMA CarefulAlsoRun ==
  ASSUME NEW tx, DOMAIN tx = Tables, Careful(tx), NEW c
  PROVE  Careful(AlsoIn(tx, "run", c))
<1>1. \A t \in Tables : t # "run" => AlsoIn(tx, "run", c)[t] = tx[t]
  BY AlsoInIs DEF Tables
<1>2. /\ \A t \in {"question", "key", "header", "rubric", "criterion", "mapping"} : AlsoIn(tx, "run", c)[t] = tx[t]
      /\ AlsoIn(tx, "run", c)["version"] = tx["version"]
      /\ AlsoIn(tx, "run", c)["assessment"] = tx["assessment"]
  BY <1>1 DEF Tables
<1>3. Untouched(tx) => Untouched(AlsoIn(tx, "run", c))
  BY <1>2 DEF Untouched
<1>4. Freezes(AlsoIn(tx, "run", c)) => Freezes(tx)
  BY <1>2 DEF Freezes
<1>5. KeepsApproved(AlsoIn(tx, "run", c))
  BY <1>2 DEF KeepsApproved, Careful
<1> QED  BY <1>2, <1>3, <1>4, <1>5 DEF Careful

LEMMA RunTyped ==
  ASSUME TypedDb, NEW r \in DOMAIN db.run
  PROVE  /\ db.run[r] \in RunRows /\ db.run[r].version \in DOMAIN db.version /\ db.run[r].version \in 1 .. MaxVersions
         /\ db.run[r].of \in DOMAIN db.question \cup {NoQuestion}
<1>1. db.run[r] \in RunRows
  BY TablesAre DEF TypedDb, TypedTable, Tables
<1> QED  BY <1>1 DEF TypedDb, References, RunRows

LEMMA RequestedAsks ==
  ASSUME TypeInv, NEW t \in Teachers, NEW op \in Operations, NEW v \in DOMAIN db.version,
         NEW q \in DOMAIN db.question \cup {NoQuestion}, NEW input \in Nat \X Nat,
         NEW status \in {"QUEUED", "UNAVAILABLE"}, Requested(t, op, v, q, input, status)
  PROVE  AskedWell(t)
<1> DEFINE n == <<t, 1 + Cardinality({r \in DOMAIN db.run : r[1] = t})>>
           row == RunRow(op, v, q, input, status)
<1>1. TypedDb /\ "run" \in Tables
  BY DEF TypeInv, Tables
<1>2. row \in RunRows /\ row.version = v
  <2>1. v \in 1 .. MaxVersions /\ q \in AnyQuestion
    BY <1>1, QuestionTyped, TypedRows, TablesAre DEF Tables, AnyQuestion
  <2>2. row = [op |-> op, version |-> v, of |-> q, input |-> input, status |-> status, tree |-> << >>, nodes |-> {}]
    BY DEF RunRow
  <2> HIDE DEF row
  <2> QED  BY <2>1, <2>2 DEF RunRows, AnyQuestion
<1>3. ASSUME NEW then \in {NoRun, n}, Asking(t, op, Writing(In("run", Insert(n, row)), NoRun, then))
      PROVE  AskedWell(t)
  <2> DEFINE c == Insert(n, row)
  <2>1. DOMAIN c.set = {} /\ DOMAIN c.new = {n}
    BY ChangesAre
  <2>2. TypedChange("run", c)
    BY <1>1, <1>2, InsertTyped, TablesAre
  <2> HIDE DEF c, n, row
  <2>3. TypedTx(In("run", c)) /\ In("run", c)["run"] = c /\ TeacherTx(In("run", c))
    BY <1>1, <2>1, <2>2, InTyped, InIs DEF TeacherTx
  <2>4. ASSUME OneTeacher, TeacherInv
        PROVE  Careful(In("run", c))
    <3>1. ~Freezes(In("run", c))
      BY <1>1, InIs, ChangesAre DEF Freezes, Tables
    <3> QED  BY <1>1, <2>4, <3>1, TeacherInvGives, CarefulQuiet
  <2>5. then \in {NoRun} \cup DOMAIN db.run \cup DOMAIN In("run", c)["run"].new
    BY <1>3, <2>1, <2>3
  <2>6. Asking(t, op, Writing(In("run", c), NoRun, then))
    BY <1>3 DEF c
  <2> QED  BY <2>3, <2>4, <2>5, <2>6 DEF AskedWell, Asking
<1>4. ASSUME NEW r \in Live(op, v, q, input), NEW then \in {NoRun, r}, NEW tx,
             tx = Nothing \/ (tx = In("run", Update(r, [status |-> "UNAVAILABLE"]))),
             Asking(t, op, Writing(tx, NoRun, then))
      PROVE  AskedWell(t)
  <2>1. r \in DOMAIN db.run
    BY DEF Live
  <2>2. CASE tx = Nothing
    <3>1. TypedTx(tx) /\ TeacherTx(tx)
      BY <2>2, NothingTyped, ChangesAre DEF TeacherTx, Nothing, Tables
    <3>2. OneTeacher /\ TeacherInv => Careful(tx)
      BY <1>1, <2>2, TeacherInvGives, CarefulNothing
    <3> QED  BY <1>4, <2>1, <3>1, <3>2 DEF AskedWell, Asking
  <2>3. CASE tx = In("run", Update(r, [status |-> "UNAVAILABLE"]))
    <3> DEFINE c == Update(r, [status |-> "UNAVAILABLE"])
    <3>1. [status |-> "UNAVAILABLE"] \in Columns["run"]
      BY ColumnsAre DEF RunStatus
    <3>2. TypedChange("run", c)
      BY <1>1, <3>1, UpdateTyped
    <3>3. DOMAIN c.set = {r} /\ c.set[r] = [status |-> "UNAVAILABLE"]
      BY ChangesAre
    <3> HIDE DEF c
    <3>4. tx["run"] = c /\ TypedTx(tx)
      BY <1>1, <2>3, <3>2, InIs, InTyped DEF c
    <3>5. TeacherTx(tx)
      BY <3>3, <3>4 DEF TeacherTx, Succeeds
    <3>6. ASSUME OneTeacher, TeacherInv
          PROVE  Careful(tx)
      <4>1. ~Freezes(tx)
        BY <1>1, <2>3, InIs, ChangesAre DEF Freezes, Tables
      <4> QED  BY <1>1, <2>3, <3>6, <4>1, TeacherInvGives, CarefulQuiet
    <3> QED  BY <1>4, <2>1, <3>4, <3>5, <3>6 DEF AskedWell, Asking
  <2> QED  BY <1>4, <2>2, <2>3
<1>5. CASE /\ Live(op, v, q, input) = {}
           /\ Asking(t, op, Writing(In("run", Insert(n, row)), NoRun, IF status = "QUEUED" THEN n ELSE NoRun))
  BY <1>3, <1>5
<1>6. CASE \E r \in Live(op, v, q, input) :
             Asking(t, op, Writing(IF status = "QUEUED" THEN Nothing ELSE In("run", Update(r, [status |-> status])),
                                   NoRun, IF status = "QUEUED" THEN r ELSE NoRun))
  <2>1. PICK r \in Live(op, v, q, input) :
          Asking(t, op, Writing(IF status = "QUEUED" THEN Nothing ELSE In("run", Update(r, [status |-> status])),
                                NoRun, IF status = "QUEUED" THEN r ELSE NoRun))
    BY <1>6
  <2>2. CASE status = "QUEUED"
    BY <1>4, <2>1, <2>2
  <2>3. CASE status = "UNAVAILABLE"
    BY <1>4, <2>1, <2>3
  <2> QED  BY <2>2, <2>3
<1> QED  BY <1>5, <1>6 DEF Requested

LEMMA PrepareParseAsks ==
  ASSUME TypeInv, NEW t \in Teachers, NEW v \in DOMAIN db.version, PrepareParse(t, v)
  PROVE  AskedWell(t)
<1> DEFINE input == <<db.version[v].paper, db.version[v].max>>
           status == IF provider THEN "QUEUED" ELSE "UNAVAILABLE"
<1>1. Requested(t, PARSE, v, NoQuestion, input, status)
  BY DEF PrepareParse
<1>2. input \in Nat \X Nat
  <2>1. db.version[v] \in [max : MarkValues, paper : 0 .. MaxPapers]
    BY TypedRows, TablesAre DEF TypeInv, Tables
  <2>2. MarkValues \subseteq Nat /\ 0 .. MaxPapers \subseteq Nat
    BY AuthoringAssumption
  <2> QED  BY <2>1, <2>2
<1>3. PARSE \in Operations /\ status \in {"QUEUED", "UNAVAILABLE"}
  BY DEF Operations
<1> HIDE DEF input, status
<1> QED  BY <1>1, <1>2, <1>3, RequestedAsks

LEMMA ProposalAsks ==
  ASSUME TypeInv, NEW t \in Teachers, NEW q \in DOMAIN db.question, NEW op \in Operations, Proposal(t, op, q)
  PROVE  AskedWell(t)
<1>1. Requested(t, op, q[1], q, <<0, 0>>, "QUEUED") /\ q[1] \in DOMAIN db.version
  BY DEF Proposal, TypeInv, TypedDb, References
<1>2. <<0, 0>> \in Nat \X Nat
  OBVIOUS
<1> QED  BY <1>1, <1>2, RequestedAsks

\* What a teacher decides about a run.
LEMMA RunUpdateAsks ==
  ASSUME TypeInv, NEW t \in Teachers, NEW r \in DOMAIN db.run, NEW call, NEW columns \in Columns["run"],
         "status" \notin DOMAIN columns, Request(t, call, In("run", Update(r, columns)))
  PROVE  AskedWell(t)
<1> DEFINE c == Update(r, columns)
<1>1. TypedDb /\ "run" \in Tables
  BY DEF TypeInv, Tables
<1>2. TypedChange("run", c) /\ DOMAIN c.set = {r} /\ c.set[r] = columns
  BY <1>1, UpdateTyped, ChangesAre
<1>3. In("run", c)["run"] = c /\ TypedTx(In("run", c)) /\ In("run", c)["assessment"] = NoChange
  BY <1>1, <1>2, InIs, InTyped DEF Tables
<1> HIDE DEF c
<1>4. TeacherTx(In("run", c))
  BY <1>2, <1>3 DEF TeacherTx, Succeeds
<1>5. ~Freezes(In("run", c))
  BY <1>3, ChangesAre DEF Freezes
<1>6. OneTeacher /\ TeacherInv => Careful(In("run", c))
  BY <1>1, <1>5, TeacherInvGives, CarefulQuiet
<1> QED  BY <1>3, <1>4, <1>6, RequestAsks DEF c

LEMMA UpdateTreeAsks ==
  ASSUME TypeInv, NEW t \in Teachers, NEW r \in DOMAIN db.run, NEW tree \in Trees, UpdateTree(t, r, tree)
  PROVE  AskedWell(t)
<1>1. [tree |-> tree] \in Columns["run"] /\ "status" \notin DOMAIN [tree |-> tree]
  BY ColumnsAre
<1> QED  BY <1>1, RunUpdateAsks DEF UpdateTree

LEMMA UpdateMappingsAsks ==
  ASSUME TypeInv, NEW t \in Teachers, NEW r \in DOMAIN db.run, NEW nodes \in SUBSET Nodes, UpdateMappings(t, r, nodes)
  PROVE  AskedWell(t)
<1>1. [nodes |-> nodes] \in Columns["run"] /\ "status" \notin DOMAIN [nodes |-> nodes]
  BY ColumnsAre
<1> QED  BY <1>1, RunUpdateAsks DEF UpdateMappings

\* A proposal is applied: its rows, and the run SUCCEEDED.
LEMMA AppliesAsks ==
  ASSUME TypeInv, NEW t \in Teachers, NEW r \in DOMAIN db.run, NEW c, NEW table \in {"question", "mapping"},
         TypedChange(table, c), db.run[r].status = "REVIEW_REQUIRED",
         Request(t, "apply", AlsoIn(In(table, c), "run", Update(r, [status |-> "SUCCEEDED"]))),
         table = "question" => c = Inserts(TreeRows(db.run[r].version, db.run[r].tree)),
         db.run[r].op = PARSE =>
           /\ table = "question" /\ QuestionsOf(db.run[r].version) = {} /\ db.run[r].tree \in Trees
           /\ ValidTree(db.run[r].tree, db.version[db.run[r].version].max),
         OneTeacher /\ TeacherInv => Careful(In(table, c))
  PROVE  AskedWell(t)
<1> DEFINE u == Update(r, [status |-> "SUCCEEDED"])
           tx == AlsoIn(In(table, c), "run", u)
<1>1. TypedDb /\ "run" \in Tables /\ table \in Tables /\ table # "run"
  BY DEF TypeInv, Tables
<1>2. DOMAIN u.set = {r} /\ u.set[r] = [status |-> "SUCCEEDED"] /\ TypedChange("run", u)
  <2>1. [status |-> "SUCCEEDED"] \in Columns["run"]
    BY ColumnsAre DEF RunStatus
  <2> QED  BY <1>1, <2>1, UpdateTyped, ChangesAre
<1> HIDE DEF u
<1>3. TypedTx(tx) /\ DOMAIN In(table, c) = Tables
  BY <1>1, <1>2, InIs, InTyped, AlsoInTyped
<1>4. tx["run"] = u /\ tx["version"] = NoChange /\ (table = "question" => tx["question"] = c)
  BY <1>1, InIs, AlsoInIs DEF Tables
<1>5. OneTeacher /\ TeacherInv => Careful(tx)
  BY <1>3, CarefulAlsoRun
<1> HIDE DEF tx
<1>6. TeacherTx(tx)
  BY <1>2, <1>4 DEF TeacherTx, TreeReady, Succeeds
<1> QED  BY <1>3, <1>5, <1>6, RequestAsks DEF tx, u

LEMMA ApplyTreeAsks ==
  ASSUME TypeInv, NEW t \in Teachers, NEW r \in DOMAIN db.run, ApplyTree(t, r)
  PROVE  AskedWell(t)
<1> DEFINE v == db.run[r].version
           tree == db.run[r].tree
           c == Inserts(TreeRows(v, tree))
<1>1. /\ db.run[r].op = PARSE /\ db.run[r].status = "REVIEW_REQUIRED" /\ Drafting /\ QuestionsOf(v) = {}
      /\ ValidTree(tree, db.version[v].max)
      /\ Request(t, "apply", AlsoIn(In("question", c), "run", Update(r, [status |-> "SUCCEEDED"])))
  BY DEF ApplyTree, Reviewable, NoQuestions
<1>2. TypedDb /\ db.run[r] \in RunRows /\ v \in DOMAIN db.version /\ v \in 1 .. MaxVersions
  BY RunTyped DEF TypeInv
<1>3. tree \in Trees /\ TreeShaped(tree)
  BY <1>1, <1>2, AuthoringAssumption DEF RunRows, ValidTree
<1> HIDE DEF v, tree
<1>4. TypedChange("question", c)
  <2> DEFINE rows == TreeRows(v, tree)
  <2>1. DOMAIN tree \subseteq Codes /\ tree \in [DOMAIN tree -> [max : MarkValues, parent : Codes \cup {"none"}, mode : Modes]]
    BY <1>3 DEF TreeShaped, RowsIn
  <2>2. DOMAIN rows = {<<v, code>> : code \in DOMAIN tree}
    BY DEF TreeRows
  <2>3. \A x \in DOMAIN rows : x = <<v, x[2]>> /\ x[1] = v /\ x[2] \in DOMAIN tree /\ x \in Ids
    BY <1>2, <2>1, <2>2 DEF Ids
  <2>4. ASSUME NEW x \in DOMAIN rows
        PROVE  rows[x] \in QuestionRows /\ SameVersionRow(x, rows[x])
    <3> DEFINE node == tree[x[2]]
               p == IF node.parent = "none" THEN NoQuestion ELSE <<v, node.parent>>
    <3>1. node \in [max : MarkValues, parent : Codes \cup {"none"}, mode : Modes]
      BY <2>1, <2>3, <2>4
    <3>2. p \in Ids \cup {NoQuestion} /\ (p = NoQuestion \/ p[1] = x[1])
      BY <1>2, <2>3, <2>4, <3>1 DEF Ids
    <3>3. rows[x] = [max |-> node.max, parent |-> p, mode |-> node.mode]
      BY <2>2, <2>4 DEF TreeRows, QuestionRow
    <3> HIDE DEF p, node, rows
    <3> QED  BY <3>1, <3>2, <3>3 DEF QuestionRows, SameVersionRow
  <2> HIDE DEF rows
  <2>5. c.new = rows /\ DOMAIN c.set = {} /\ c.gone = {}
    BY ChangesAre DEF rows
  <2> QED  BY <2>3, <2>4, <2>5, TablesAre DEF TypedChange
<1>5. ASSUME OneTeacher, TeacherInv
      PROVE  Careful(In("question", c))
  <2>1. KeepsTree(c)
    BY <1>1, <1>2, <1>3, <1>5, TeacherInvGives, ApplyKeepsTree
  <2> HIDE DEF c
  <2> QED  BY <1>1, <1>2, <1>5, <2>1, MutableIsNotFrozen, TeacherInvGives, CarefulIn
<1>6. c = Inserts(TreeRows(db.run[r].version, db.run[r].tree))
  BY DEF v, tree
<1>7. QuestionsOf(db.run[r].version) = {} /\ db.run[r].tree \in Trees /\ ValidTree(db.run[r].tree, db.version[db.run[r].version].max)
  BY <1>1, <1>3 DEF v, tree
<1> HIDE DEF c
<1> QED  BY <1>1, <1>4, <1>5, <1>6, <1>7, AppliesAsks

LEMMA ApplyMappingsAsks ==
  ASSUME TypeInv, NEW t \in Teachers, NEW r \in DOMAIN db.run, NEW chosen \in SUBSET Nodes, ApplyMappings(t, r, chosen)
  PROVE  AskedWell(t)
<1> DEFINE q == db.run[r].of
           ids == {<<q, n>> : n \in chosen} \ DOMAIN db.mapping
           rows == [m \in ids |-> [by |-> "AI_PROPOSED"]]
           c == Inserts(rows)
<1>1. /\ db.run[r].op = MAPPING /\ db.run[r].status = "REVIEW_REQUIRED" /\ Mutable /\ q # NoQuestion
      /\ Request(t, "apply", AlsoIn(In("mapping", c), "run", Update(r, [status |-> "SUCCEEDED"])))
  BY DEF ApplyMappings, Reviewable
<1>2. TypedDb /\ q \in DOMAIN db.question
  BY <1>1, RunTyped DEF TypeInv
<1>3. ids \subseteq AnyQuestion \X Nodes
  BY <1>2, QuestionTyped DEF AnyQuestion
<1>4. [by |-> "AI_PROPOSED"] \in [by : By]
  BY DEF By
<1>5. TypedChange("mapping", c)
  <2>1. c.new = rows /\ DOMAIN c.set = {} /\ c.gone = {}
    BY ChangesAre
  <2> HIDE DEF c
  <2>2. DOMAIN c.new = ids /\ \A i \in ids : c.new[i] = [by |-> "AI_PROPOSED"]
    BY <2>1
  <2> HIDE DEF ids, rows
  <2> QED  BY <1>3, <1>4, <2>1, <2>2, TablesAre DEF TypedChange
<1>6. MAPPING # PARSE
  BY DEF MAPPING, PARSE
<1> HIDE DEF c
<1>7. ASSUME OneTeacher, TeacherInv
      PROVE  Careful(In("mapping", c))
  BY <1>1, <1>2, <1>7, MutableIsNotFrozen, TeacherInvGives, CarefulIn
<1> QED  BY <1>1, <1>5, <1>6, <1>7, AppliesAsks

-----------------------------------------------------------------------------
\* The steps of tasks.
\* A task goes on with its run, or takes one that is not settled.
Takes(w, r) == \/ session[w].phase \in {"taken", "working"} /\ session[w].run = r
               \/ db.run[r].status \notin Settled
WorkerGoes(w) ==
  \E x : /\ session' = [session EXCEPT ![w] = x] /\ UNCHANGED <<db, provider, setting>>
         /\ queue' \subseteq queue /\ Fits(w, x)
         /\ x = Idle \/ Takes(w, x.run)
         /\ Honest(x)
AtWork(w) == /\ w \in setting.workers /\ session[w].run \in DOMAIN db.run
             /\ session[w].phase \in {"taken", "working"}

LEMMA GoesOn ==
  ASSUME NEW w, NEW x, Goes(w, x), Fits(w, x), queue' \subseteq queue, x = Idle \/ Takes(w, x.run),
         Honest(x)
  PROVE  WorkerGoes(w)
BY DEF Goes, WorkerGoes

LEMMA WritingIs ==
  ASSUME NEW tx, NEW run, NEW then
  PROVE  /\ Writing(tx, run, then).phase = "writing" /\ Writing(tx, run, then).tx = tx
         /\ Writing(tx, run, then).run = run /\ Writing(tx, run, then).then = then
BY DEF Writing

LEMMA WorkerWrites ==
  ASSUME NEW w \in Workers, w \in setting.workers, NEW r \in DOMAIN db.run, NEW tx, TypedTx(tx), WorkerTx(tx),
         DOMAIN tx["run"].set = {r}
  PROVE  Fits(w, Writing(tx, r, NoRun))
<1>1. w \notin Teachers
  BY AuthoringAssumption
<1> QED  BY <1>1, WritingIs DEF Fits

LEMMA EndsGoes ==
  ASSUME TypeInv, NEW w \in Workers, w \in setting.workers, NEW r \in DOMAIN db.run, NEW status \in {"UNAVAILABLE", "FAILED"},
         Ends(w, r, status), queue' \subseteq queue, Takes(w, r)
  PROVE  WorkerGoes(w)
<1> DEFINE c == Update(r, [status |-> status])
           tx == In("run", c)
<1>1. "run" \in Tables /\ TypedChange("run", c) /\ DOMAIN c.set = {r} /\ DOMAIN c.new = {}
  BY UpdateTyped, ColumnsAre, ChangesAre DEF Tables, RunStatus
<1>2. c.set[r] = [status |-> status]
  BY ChangesAre
<1> HIDE DEF c
<1>3. TypedTx(tx) /\ \A t \in Tables : tx[t] = IF t = "run" THEN c ELSE NoChange
  BY <1>1, InTyped, InIs
<1> HIDE DEF tx
<1>4. WorkerTx(tx) /\ DOMAIN tx["run"].set = {r}
  BY <1>1, <1>3, ChangesAre DEF WorkerTx, Tables
<1>5. Fits(w, Writing(tx, r, NoRun))
  BY <1>3, <1>4, WorkerWrites
<1>6. Writing(tx, r, NoRun).run = r /\ Honest(Writing(tx, r, NoRun))
  <2>1. tx["run"].set[r] = [status |-> status]
    BY <1>1, <1>3, <1>2
  <2>2. ~Succeeds(tx["run"].set[r])
    BY <2>1 DEF Succeeds
  <2> QED  BY <2>2, WritingIs DEF Honest
<1> QED  BY <1>5, <1>6, GoesOn DEF Ends, tx, c

LEMMA IdleGoes ==
  ASSUME TypeInv, NEW w \in Workers, Goes(w, Idle), queue' \subseteq queue
  PROVE  WorkerGoes(w)
<1>1. Fits(w, Idle) /\ Honest(Idle)
  BY AuthoringAssumption DEF Fits, Idle, Honest
<1> QED  BY <1>1 DEF Goes, WorkerGoes

LEMMA TakeTaskGoes ==
  ASSUME TypeInv, NEW w \in Workers, NEW r \in queue, TakeTask(w, r)
  PROVE  WorkerGoes(w)
<1>1. /\ w \in setting.workers /\ queue' \subseteq queue /\ r \in DOMAIN db.run
      /\ Goes(w, Idle) \/ Ends(w, r, "UNAVAILABLE") \/ Goes(w, [phase |-> "taken", run |-> r])
  BY DEF TakeTask, Unavailable, TypeInv
<1>2. Goes(w, Idle) \/ Takes(w, r)
  BY DEF TakeTask, Takes
<1>3. CASE Goes(w, [phase |-> "taken", run |-> r])
  <2> DEFINE x == [phase |-> "taken", run |-> r]
  <2>1. Fits(w, x) /\ x.run = r /\ Honest(x)
    BY <1>1, AuthoringAssumption DEF Fits, Honest
  <2> HIDE DEF x
  <2> QED  BY <1>1, <1>2, <1>3, <2>1, IdleGoes, GoesOn DEF x
<1>4. CASE Ends(w, r, "UNAVAILABLE")
  BY <1>1, <1>2, <1>4, EndsGoes, IdleGoes
<1> QED  BY <1>1, <1>3, <1>4, IdleGoes

LEMMA WorkerAtWork ==
  ASSUME TypeInv, NEW w \in Workers, session[w].phase \in {"taken", "working"}
  PROVE  AtWork(w)
<1>1. Fits(w, session[w]) /\ w \notin Teachers /\ setting \in Settings
  BY AuthoringAssumption DEF TypeInv, Sessions
<1>2. session[w] # Idle /\ setting.teachers \subseteq Teachers
  BY <1>1, AuthoringAssumption DEF Idle
<1> QED  BY <1>1, <1>2 DEF Fits, AtWork

LEMMA BeginGoes ==
  ASSUME TypeInv, NEW w \in Workers, Begin(w)
  PROVE  WorkerGoes(w)
<1>1. AtWork(w) /\ queue' \subseteq queue
  BY WorkerAtWork DEF Begin
<1>2. PICK status, max : \/ Goes(w, Idle) \/ Ends(w, session[w].run, "FAILED")
                         \/ Goes(w, [phase |-> "working", run |-> session[w].run, status |-> status, max |-> max])
  BY DEF Begin
<1>3. CASE Goes(w, [phase |-> "working", run |-> session[w].run, status |-> status, max |-> max])
  <2> DEFINE x == [phase |-> "working", run |-> session[w].run, status |-> status, max |-> max]
  <2>1. Fits(w, x) /\ x.run = session[w].run /\ Goes(w, x) /\ Honest(x)
    BY <1>1, <1>3, AuthoringAssumption DEF Fits, AtWork, Honest
  <2> HIDE DEF x
  <2>2. Takes(w, x.run)
    BY <1>1, <2>1 DEF AtWork, Takes
  <2> QED  BY <1>1, <2>1, <2>2, GoesOn
<1>4. CASE Ends(w, session[w].run, "FAILED")
  BY <1>1, <1>4, EndsGoes DEF AtWork, Takes
<1> QED  BY <1>1, <1>2, <1>3, <1>4, IdleGoes

LEMMA FailingGoes ==
  ASSUME TypeInv, NEW w \in Workers, AtWork(w), Failing(w), queue' \subseteq queue
  PROVE  WorkerGoes(w)
BY EndsGoes DEF Failing, AtWork, Takes

\* A proposal: what it adds, and its run.
LEMMA ProposesGoes ==
  ASSUME TypeInv, NEW w \in Workers, AtWork(w), queue' = queue, NEW columns \in Columns["run"],
         NEW tx, TypedTx(tx), WorkerTx(tx), Proposes(w, columns, tx),
         Succeeds(columns) => db.run[session[w].run].op # PARSE
  PROVE  WorkerGoes(w)
<1> DEFINE r == session[w].run
           c == Update(r, columns)
           all == AlsoIn(tx, "run", c)
<1>1. /\ "run" \in Tables /\ DOMAIN tx = Tables
      /\ TypedChange("run", c) /\ DOMAIN c.set = {r} /\ c.set[r] = columns /\ DOMAIN c.new = {}
  BY UpdateTyped, ChangesAre DEF Tables, TypedTx
<1> HIDE DEF c
<1>2. TypedTx(all) /\ \A t \in Tables : all[t] = IF t = "run" THEN c ELSE tx[t]
  BY <1>1, AlsoInTyped, AlsoInIs
<1>3. Goes(w, Writing(all, r, NoRun))
  BY DEF Proposes, c
<1> HIDE DEF all
<1>4. WorkerTx(all) /\ DOMAIN all["run"].set = {r}
  BY <1>1, <1>2 DEF WorkerTx, Tables
<1>5. Fits(w, Writing(all, r, NoRun))
  BY <1>2, <1>4, WorkerWrites DEF AtWork
<1>6. Writing(all, r, NoRun).run = r /\ Takes(w, r)
  BY WritingIs DEF Takes, AtWork
<1>7. Honest(Writing(all, r, NoRun))
  BY <1>1, <1>2, WritingIs DEF Honest
<1> QED  BY <1>3, <1>5, <1>6, <1>7, GoesOn

LEMMA NothingIsWorkerTx == WorkerTx(Nothing)
<1>1. \A t \in Tables : Nothing[t] = NoChange
  BY DEF Nothing
<1> QED  BY <1>1, ChangesAre DEF WorkerTx, Tables

LEMMA WorkingIs ==
  ASSUME TypeInv, NEW w \in Workers, NEW op, Working(w, op)
  PROVE  AtWork(w) /\ queue' = queue /\ db.run[session[w].run] \in RunRows
BY WorkerAtWork, RunTyped DEF Working, AtWork, TypeInv

LEMMA AnswerFailsGoes ==
  ASSUME TypeInv, NEW w \in Workers, AnswerFails(w)
  PROVE  WorkerGoes(w)
BY WorkingIs, FailingGoes DEF AnswerFails

LEMMA ParseAnswerGoes ==
  ASSUME TypeInv, NEW w \in Workers, NEW tree \in Trees, ParseAnswer(w, tree)
  PROVE  WorkerGoes(w)
<1>1. AtWork(w) /\ queue' = queue
  BY WorkingIs DEF ParseAnswer
<1>2. [status |-> "REVIEW_REQUIRED", tree |-> tree] \in Columns["run"]
  BY ColumnsAre DEF RunStatus
<1>3. Failing(w) \/ Proposes(w, [status |-> "REVIEW_REQUIRED", tree |-> tree], Nothing)
  BY DEF ParseAnswer
<1>4. ~Succeeds([status |-> "REVIEW_REQUIRED", tree |-> tree])
  BY DEF Succeeds
<1> QED  BY <1>1, <1>2, <1>3, <1>4, FailingGoes, ProposesGoes, NothingTyped, NothingIsWorkerTx

LEMMA MappingAnswerGoes ==
  ASSUME TypeInv, NEW w \in Workers, NEW nodes \in SUBSET Nodes, MappingAnswer(w, nodes)
  PROVE  WorkerGoes(w)
<1> DEFINE status == IF nodes = {} THEN "SUCCEEDED" ELSE "REVIEW_REQUIRED"
<1>1. AtWork(w) /\ queue' = queue /\ Proposes(w, [status |-> status, nodes |-> nodes], Nothing)
  BY WorkingIs DEF MappingAnswer
<1>2. status \in RunStatus
  BY DEF RunStatus
<1> HIDE DEF status
<1>3. [status |-> status, nodes |-> nodes] \in Columns["run"]
  BY <1>2, ColumnsAre
<1>4. db.run[session[w].run].op # PARSE
  BY DEF MappingAnswer, Working, MAPPING, PARSE
<1> QED  BY <1>1, <1>3, <1>4, ProposesGoes, NothingTyped, NothingIsWorkerTx

LEMMA ReopenedIs ==
  ASSUME NEW w
  PROVE  /\ TypedChange("assessment", Reopened(w))
         /\ DOMAIN Reopened(w).new = {}
         /\ \A i \in DOMAIN Reopened(w).set : Reopened(w).set[i] = [status |-> "RUBRIC_REVIEW"]
<1>1. "assessment" \in Tables /\ [status |-> "RUBRIC_REVIEW"] \in Columns["assessment"]
  BY ColumnsAre DEF Tables, ALLOWED_TRANSITIONS
<1>2. Reopened(w) = NoChange \/ Reopened(w) = Update("a", [status |-> "RUBRIC_REVIEW"])
  BY DEF Reopened
<1> QED  BY <1>1, <1>2, ChangesAre, NoChangeTyped, UpdateTyped

LEMMA KeyAnswerGoes ==
  ASSUME TypeInv, NEW w \in Workers, KeyAnswer(w)
  PROVE  WorkerGoes(w)
<1> DEFINE q == db.run[session[w].run].of
           n == NextNumber(DOMAIN db.key)
           key == Insert(n, KeyRow(q, "REVIEW_REQUIRED", "AI_PROPOSED"))
           tx == AlsoIn(In("key", key), "assessment", Reopened(w))
<1>1. /\ AtWork(w) /\ queue' = queue /\ n <= MaxKeys /\ q \in AnyQuestion
      /\ Proposes(w, [status |-> "REVIEW_REQUIRED"], tx)
  BY WorkingIs DEF KeyAnswer, RunRows, AnyQuestion
<1>2. {"key", "assessment"} \subseteq Tables /\ TypedDb
  BY DEF Tables, TypeInv
<1>3. TypedChange("key", key)
  <2>1. KeyRow(q, "REVIEW_REQUIRED", "AI_PROPOSED") \in Rows["key"]
    BY <1>1, TablesAre DEF KeyRow, AuthorStatus, ActiveStatus, Authors
  <2> QED  BY <1>1, <1>2, <2>1, NextKey, InsertTyped
<1>4. DOMAIN key.set = {} /\ key.gone = {} /\ \A k \in DOMAIN key.new : key.new[k].status = "REVIEW_REQUIRED"
  BY ChangesAre DEF KeyRow
<1> HIDE DEF key
<1>5. TypedTx(tx) /\ \A t \in Tables : tx[t] = IF t = "assessment" THEN Reopened(w) ELSE IF t = "key" THEN key ELSE NoChange
  BY <1>2, <1>3, InTyped, InIs, AlsoInTyped, AlsoInIs, ReopenedIs
<1> HIDE DEF tx
<1>6. WorkerTx(tx)
  BY <1>4, <1>5, ChangesAre, ReopenedIs DEF WorkerTx, Tables
<1>7. [status |-> "REVIEW_REQUIRED"] \in Columns["run"] /\ ~Succeeds([status |-> "REVIEW_REQUIRED"])
  BY ColumnsAre DEF RunStatus, Succeeds
<1> QED  BY <1>1, <1>5, <1>6, <1>7, ProposesGoes

LEMMA RubricAnswerGoes ==
  ASSUME TypeInv, NEW w \in Workers, NEW crit \in Criterias, RubricAnswer(w, crit)
  PROVE  WorkerGoes(w)
<1> DEFINE q == db.run[session[w].run].of
           n == NextNumber(RubricNumbers(q))
           r == <<q, n>>
           header == IF q \in DOMAIN db.header THEN NoChange ELSE Insert(q, [by |-> "AI_PROPOSED"])
           rows == [c \in {<<r, code>> : code \in DOMAIN crit} |-> crit[c[2]]]
           rubric == Insert(r, RubricRow("REVIEW_REQUIRED", "AI_PROPOSED"))
           criteria == Inserts(rows)
           tx == AlsoIn(AlsoIn(AlsoIn(In("rubric", rubric), "criterion", criteria), "header", header), "assessment", Reopened(w))
<1>1. /\ AtWork(w) /\ queue' = queue /\ n <= MaxRubrics /\ q \in AnyQuestion
      /\ Failing(w) \/ Proposes(w, [status |-> "REVIEW_REQUIRED"], tx)
  BY WorkingIs DEF RubricAnswer, RunRows, AnyQuestion
<1>2. {"rubric", "criterion", "header", "assessment"} \subseteq Tables /\ TypedDb
  BY DEF Tables, TypeInv
<1>3. n \in 1 .. MaxRubrics
  BY <1>1, <1>2, NextRubric
<1> HIDE DEF n, q
<1>4. r \in AnyQuestion \X (1 .. MaxRubrics)
  BY <1>1, <1>3
<1> HIDE DEF r
<1>5. TypedChange("rubric", rubric) /\ DOMAIN rubric.set = {} /\ rubric.gone = {} /\ DOMAIN rubric.new = {r}
      /\ \A k \in DOMAIN rubric.new : rubric.new[k].status = "REVIEW_REQUIRED"
  <2>1. RubricRow("REVIEW_REQUIRED", "AI_PROPOSED") \in Rows["rubric"]
    BY TablesAre DEF RubricRow, AuthorStatus, ActiveStatus, Authors
  <2>2. TypedChange("rubric", rubric)
    BY <1>2, <1>4, <2>1, InsertTyped, TablesAre
  <2> QED  BY <2>2, ChangesAre DEF RubricRow
<1>6. TypedChange("criterion", criteria) /\ DOMAIN criteria.set = {} /\ criteria.gone = {}
      /\ \A c \in DOMAIN criteria.new : c[1] = r
  <2>1. DOMAIN crit \subseteq CriterionCodes /\ \A code \in DOMAIN crit : crit[code] \in CriterionRows
    BY AuthoringAssumption DEF RowsIn
  <2>2. DOMAIN rows = {<<r, code>> : code \in DOMAIN crit} /\ \A c \in DOMAIN rows : rows[c] = crit[c[2]]
    OBVIOUS
  <2> HIDE DEF rows
  <2>3. \A c \in DOMAIN rows : c[1] = r /\ c \in Names["criterion"] /\ rows[c] \in CriterionRows
    BY <1>4, <2>1, <2>2, TablesAre
  <2> QED  BY <2>3, ChangesAre, TablesAre DEF TypedChange
<1>7. TypedChange("header", header) /\ DOMAIN header.set = {} /\ header.gone = {}
  <2>1. [by |-> "AI_PROPOSED"] \in Rows["header"] /\ q \in Names["header"]
    BY <1>1, TablesAre DEF By
  <2>2. TypedChange("header", Insert(q, [by |-> "AI_PROPOSED"]))
    BY <1>2, <2>1, InsertTyped
  <2> QED  BY <1>2, <2>2, NoChangeTyped, ChangesAre
<1> HIDE DEF rubric, criteria, header
<1>8. /\ TypedTx(tx)
      /\ \A t \in Tables : tx[t] = IF t = "assessment" THEN Reopened(w) ELSE IF t = "header" THEN header
                                   ELSE IF t = "criterion" THEN criteria ELSE IF t = "rubric" THEN rubric ELSE NoChange
  <2> DEFINE t1 == In("rubric", rubric)
             t2 == AlsoIn(t1, "criterion", criteria)
             t3 == AlsoIn(t2, "header", header)
  <2>1. TypedTx(t1) /\ DOMAIN t1 = Tables /\ \A t \in Tables : t1[t] = IF t = "rubric" THEN rubric ELSE NoChange
    BY <1>2, <1>5, InTyped, InIs
  <2> HIDE DEF t1
  <2>2. TypedTx(t2) /\ DOMAIN t2 = Tables /\ \A t \in Tables : t2[t] = IF t = "criterion" THEN criteria ELSE t1[t]
    BY <1>2, <1>6, <2>1, AlsoInTyped, AlsoInIs
  <2> HIDE DEF t2
  <2>3. TypedTx(t3) /\ DOMAIN t3 = Tables /\ \A t \in Tables : t3[t] = IF t = "header" THEN header ELSE t2[t]
    BY <1>2, <1>7, <2>2, AlsoInTyped, AlsoInIs
  <2> HIDE DEF t3
  <2>4. tx = AlsoIn(t3, "assessment", Reopened(w))
    BY DEF t1, t2, t3
  <2>5. TypedTx(tx) /\ \A t \in Tables : tx[t] = IF t = "assessment" THEN Reopened(w) ELSE t3[t]
    BY <1>2, <2>3, <2>4, AlsoInTyped, AlsoInIs, ReopenedIs
  <2> QED  BY <2>1, <2>2, <2>3, <2>5
<1> HIDE DEF tx
<1>9. WorkerTx(tx)
  BY <1>5, <1>6, <1>7, <1>8, ChangesAre, ReopenedIs DEF WorkerTx, Tables
<1>10. [status |-> "REVIEW_REQUIRED"] \in Columns["run"] /\ ~Succeeds([status |-> "REVIEW_REQUIRED"])
  BY ColumnsAre DEF RunStatus, Succeeds
<1> QED  BY <1>1, <1>8, <1>9, <1>10, FailingGoes, ProposesGoes

-----------------------------------------------------------------------------
\* The type invariant.
LEMMA Steps ==
  ASSUME TypeInv, Next
  PROVE  \/ Configure \/ \E s \in Sessions : Commit(s)
         \/ \E t \in Teachers : AskedWell(t) \/ Enqueue(t) \/ EnqueueFails(t)
         \/ \E w \in Workers : WorkerGoes(w)
<1>1. ASSUME NEW t \in Teachers, TeacherNext(t) \/ \E v \in DOMAIN db.version : PrepareParse(t, v)
      PROVE  AskedWell(t)
  BY <1>1, TeacherAsks, PrepareParseAsks
<1>2. ASSUME NEW t \in Teachers, NEW q \in DOMAIN db.question,
             ProposeKey(t, q) \/ ProposeRubric(t, q) \/ SuggestMapping(t, q)
      PROVE  AskedWell(t)
  BY <1>2, ProposalAsks DEF ProposeKey, ProposeRubric, SuggestMapping, Operations
<1>3. ASSUME NEW t \in Teachers, NEW r \in DOMAIN db.run,
             \/ ApplyTree(t, r) \/ \E tree \in Trees : UpdateTree(t, r, tree)
             \/ \E nodes \in SUBSET Nodes : UpdateMappings(t, r, nodes) \/ ApplyMappings(t, r, nodes)
      PROVE  AskedWell(t)
  BY <1>3, ApplyTreeAsks, UpdateTreeAsks, UpdateMappingsAsks, ApplyMappingsAsks
<1>4. ASSUME NEW w \in Workers,
             \/ \E r \in queue : TakeTask(w, r)
             \/ Begin(w) \/ AnswerFails(w) \/ KeyAnswer(w) \/ Crash(w)
             \/ \E tree \in Trees : ParseAnswer(w, tree)
             \/ \E crit \in Criterias : RubricAnswer(w, crit)
             \/ \E nodes \in SUBSET Nodes : MappingAnswer(w, nodes)
      PROVE  WorkerGoes(w)
  <2>1. CASE Crash(w)
    BY <2>1, IdleGoes DEF Crash
  <2> QED  BY <1>4, <2>1, TakeTaskGoes, BeginGoes, AnswerFailsGoes, KeyAnswerGoes, ParseAnswerGoes, RubricAnswerGoes,
              MappingAnswerGoes
<1> QED  BY <1>1, <1>2, <1>3, <1>4 DEF Next

LEMMA FitsStays ==
  ASSUME NEW s, NEW x, Fits(s, x), setting' = setting,
         DOMAIN db.run \subseteq DOMAIN db'.run, DOMAIN db.version \subseteq DOMAIN db'.version
  PROVE  Fits(s, x)'
<1>1. ASSUME NEW tx, TypedTx(tx)
      PROVE  TypedTx(tx)'
  <2>1. \A t \in Tables : TypedChange(t, tx[t])'
    BY <1>1 DEF TypedTx, TypedChange
  <2> QED  BY <1>1, <2>1 DEF TypedTx
<1>2. x.phase = "writing" => TypedTx(x.tx)'
  BY <1>1 DEF Fits
<1> QED  BY <1>2 DEF Fits, WorkerTx

LEMMA SessionStep ==
  ASSUME TypeInv, NEW s \in Sessions, NEW x, Fits(s, x), session' = [session EXCEPT ![s] = x],
         db' = db, setting' = setting, queue' \subseteq DOMAIN db.run
  PROVE  TypeInv'
<1>1. TypedDb'
  BY DEF TypeInv, TypedDb, TypedTable, References, KeysFit, SameVersion
<1>2. \A o \in Sessions : session'[o] = IF o = s THEN x ELSE session[o]
  BY DEF TypeInv
<1>3. ASSUME NEW o \in Sessions
      PROVE  Fits(o, session[o])'
  <2>1. PICK y : y = session'[o]
    OBVIOUS
  <2>2. Fits(o, y)
    BY <1>2, <2>1 DEF TypeInv
  <2>3. Fits(o, y)'
    BY <2>2, FitsStays
  <2> QED  BY <2>1, <2>3 DEF Fits
<1> QED  BY <1>1, <1>3 DEF TypeInv

\* A commit, of which the transaction is well formed.
LEMMA CommitIs ==
  ASSUME TypeInv, NEW s \in Sessions, Commit(s)
  PROVE  /\ TypedTx(session[s].tx) /\ session[s] # Idle
         /\ \/ Accepted(session[s].tx) /\ db' = Applied(session[s].tx)
            \/ db' = db
         /\ DOMAIN session' = Sessions /\ \A o \in Sessions \ {s} : session'[o] = session[o]
         /\ \/ session'[s] = Idle
            \/ session'[s] = [phase |-> "sending", run |-> session[s].then] /\ s \in Teachers /\ db' = Applied(session[s].tx)
         /\ session'[s].phase # "writing" /\ UNCHANGED <<queue, provider, setting>>
<1>1. Fits(s, session[s]) /\ session[s].phase = "writing" /\ s \in Teachers \cup Workers
  BY DEF TypeInv, Commit, Sessions
<1>2. s \in Workers => session[s].then = NoRun
  BY <1>1 DEF Fits
<1> QED  BY <1>1, <1>2 DEF Commit, Fits, Idle, TypeInv

LEMMA CommitTypeInv ==
  ASSUME TypeInv, NEW s \in Sessions, Commit(s)
  PROVE  TypeInv'
<1> DEFINE tx == session[s].tx
<1>1. /\ TypedTx(tx) /\ ((Accepted(tx) /\ db' = Applied(tx)) \/ db' = db) /\ setting' = setting /\ queue' = queue
      /\ DOMAIN session' = Sessions
  BY CommitIs
<1>2. TypedDb' /\ DOMAIN db.run \subseteq DOMAIN db'.run /\ DOMAIN db.version \subseteq DOMAIN db'.version
  <2>1. CASE Accepted(tx) /\ db' = Applied(tx)
    BY <1>1, <2>1, CommitTyped, AppliedKeeps DEF TypeInv
  <2>2. CASE db' = db
    BY <2>2 DEF TypeInv, TypedDb, TypedTable, References, KeysFit, SameVersion
  <2> QED  BY <1>1, <2>1, <2>2
<1>3. ASSUME NEW o \in Sessions
      PROVE  Fits(o, session[o])'
  <2>1. CASE o # s \/ session'[s] = Idle
    <3>1. PICK y : y = session'[o]
      OBVIOUS
    <3>2. Fits(o, session[o]) /\ Fits(o, Idle)
      BY DEF TypeInv, Fits, Idle
    <3>3. y = session[o] \/ y = Idle
      BY <2>1, <3>1, CommitIs
    <3>4. Fits(o, y)
      BY <3>2, <3>3
    <3>5. Fits(o, y)'
      BY <1>1, <1>2, <3>4, FitsStays
    <3> QED  BY <3>1, <3>5 DEF Fits
  <2>2. CASE /\ o = s /\ session'[s] = [phase |-> "sending", run |-> session[s].then] /\ s \in Teachers
             /\ session'[s] # Idle /\ db' = Applied(tx)
    <3>1. Fits(s, session[s]) /\ session[s].phase = "writing" /\ session[s] # Idle /\ s \notin Workers
      BY <2>2, CommitIs, AuthoringAssumption DEF TypeInv, Commit
    <3>2. session[s].then \in DOMAIN db.run \cup DOMAIN tx["run"].new
      BY <2>2, <3>1 DEF Fits, Commit, Idle
    <3>3. session[s].then \in DOMAIN db'.run
      BY <1>1, <2>2, <3>2, AppliedKeeps DEF TypeInv
    <3> QED  BY <1>1, <2>2, <3>1, <3>3 DEF Fits
  <2> QED  BY <2>1, <2>2, CommitIs DEF Idle
<1> QED  BY <1>1, <1>2, <1>3 DEF TypeInv

LEMMA TypeStep ==
  ASSUME TypeInv, [Next]_vars
  PROVE  TypeInv'
<1>1. CASE UNCHANGED vars \/ Configure
  <2>1. db' = db /\ session' = session /\ queue' = queue /\ setting' = setting
    BY <1>1 DEF vars, Configure
  <2> QED  BY <2>1 DEF TypeInv, TypedDb, TypedTable, References, KeysFit, SameVersion, Fits, TypedTx, TypedChange, WorkerTx
<1>2. ASSUME NEW t \in Teachers, AskedWell(t)
      PROVE  TypeInv'
  <2>1. PICK tx, then : /\ t \in setting.teachers
                        /\ session' = [session EXCEPT ![t] = Writing(tx, NoRun, then)]
                        /\ UNCHANGED <<db, queue, provider, setting>>
                        /\ then \in {NoRun} \cup DOMAIN db.run \cup DOMAIN tx["run"].new
                        /\ TypedTx(tx)
    BY <1>2 DEF AskedWell
  <2>2. Fits(t, Writing(tx, NoRun, then))
    BY <2>1, WritingIs, AuthoringAssumption DEF Fits
  <2> QED  BY <2>1, <2>2, SessionStep DEF TypeInv, Sessions
<1>3. ASSUME NEW t \in Teachers, Enqueue(t) \/ EnqueueFails(t)
      PROVE  TypeInv'
  <2>1. session[t].run \in DOMAIN db.run /\ Fits(t, Idle)
    BY <1>3, AuthoringAssumption DEF TypeInv, Fits, Sessions, Enqueue, EnqueueFails, Idle
  <2> QED  BY <1>3, <2>1, SessionStep DEF Enqueue, EnqueueFails, TypeInv, Sessions
<1>4. ASSUME NEW w \in Workers, WorkerGoes(w)
      PROVE  TypeInv'
  BY <1>4, SessionStep DEF WorkerGoes, TypeInv, Sessions
<1> QED  BY <1>1, <1>2, <1>3, <1>4, Steps, CommitTypeInv

LEMMA ConsistentIsTyped ==
  ASSUME Consistent(db), SameVersion(db.question)
  PROVE  TypedDb
<1>1. /\ db.assessment \in [DOMAIN db.assessment -> Rows["assessment"]] /\ DOMAIN db.assessment \subseteq Names["assessment"]
      /\ db.version \in [DOMAIN db.version -> Rows["version"]] /\ DOMAIN db.version \subseteq Names["version"]
      /\ db.question \in [DOMAIN db.question -> Rows["question"]] /\ DOMAIN db.question \subseteq (DOMAIN db.version) \X Codes
      /\ DOMAIN db.key \subseteq Names["key"]
      /\ db.header \in [DOMAIN db.header -> Rows["header"]] /\ DOMAIN db.header \subseteq DOMAIN db.question
      /\ db.rubric \in [DOMAIN db.rubric -> Rows["rubric"]] /\ DOMAIN db.rubric \subseteq (DOMAIN db.header) \X (1 .. MaxRubrics)
      /\ db.criterion \in [DOMAIN db.criterion -> Rows["criterion"]]
      /\ DOMAIN db.criterion \subseteq (DOMAIN db.rubric) \X CriterionCodes
      /\ db.mapping \in [DOMAIN db.mapping -> Rows["mapping"]] /\ DOMAIN db.mapping \subseteq (DOMAIN db.question) \X Nodes
      /\ db.run \in [DOMAIN db.run -> Rows["run"]]
  BY TablesAre DEF Consistent, RowsIn, AuthorStatus, Authors, By
<1>2. DOMAIN db.question \subseteq Ids /\ DOMAIN db.question \subseteq AnyQuestion /\ DOMAIN db.header \subseteq AnyQuestion
  BY <1>1, TablesAre DEF Ids, AnyQuestion
<1>3. /\ db.key \in [DOMAIN db.key -> [of : DOMAIN db.question, status : AuthorStatus, text : {0, 1}, source : Authors]]
  BY DEF Consistent, RowsIn, AuthorStatus, Authors
<1>4. db.key \in [DOMAIN db.key -> Rows["key"]] /\ KeysFit(db)
  BY <1>2, <1>3, TablesAre DEF KeysFit
<1>5. /\ DOMAIN db.rubric \subseteq Names["rubric"] /\ DOMAIN db.mapping \subseteq Names["mapping"]
      /\ DOMAIN db.question \subseteq Names["question"] /\ DOMAIN db.header \subseteq Names["header"]
  BY <1>1, <1>2, TablesAre
<1>6. DOMAIN db.criterion \subseteq Names["criterion"]
  BY <1>1, <1>5, TablesAre
<1>7. \A t \in Tables : TypedTable(t)
  BY <1>1, <1>4, <1>5, <1>6 DEF Tables, TypedTable
<1>8. References(db)
  BY <1>1, <1>4 DEF References, Consistent
<1> QED  BY <1>7, <1>8 DEF TypedDb, Consistent

LEMMA TypedIsConsistent ==
  ASSUME TypedDb
  PROVE  Consistent(db)
<1>1. \A t \in Tables : (t # "run" => DOMAIN db[t] \subseteq Names[t]) /\ db[t] \in [DOMAIN db[t] -> Rows[t]]
  BY DEF TypedDb, TypedTable
<1>2. /\ RowsIn(db.assessment, {"a"}, [status : DOMAIN ALLOWED_TRANSITIONS, max : MarkValues])
      /\ RowsIn(db.version, 1 .. MaxVersions, [max : MarkValues, paper : 0 .. MaxPapers])
      /\ RowsIn(db.run, DOMAIN db.run, RunRows)
  BY <1>1, TablesAre DEF Tables, RowsIn
<1>3. RowsIn(db.question, (DOMAIN db.version) \X Codes, QuestionRows)
  <2>1. \A q \in DOMAIN db.question : q \in (DOMAIN db.version) \X Codes
    BY QuestionTyped DEF TypedDb, References, Ids
  <2> QED  BY <1>1, <2>1, TablesAre DEF Tables, RowsIn
<1>4. RowsIn(db.key, 1 .. MaxKeys, [of : DOMAIN db.question, status : AuthorStatus, text : {0, 1}, source : Authors])
  <2>1. /\ \A k \in DOMAIN db.key : /\ db.key[k] \in [of : AnyQuestion, status : AuthorStatus, text : {0, 1}, source : Authors]
                                   /\ db.key[k].of \in DOMAIN db.question
        /\ db.key \in [DOMAIN db.key -> Rows["key"]] /\ DOMAIN db.key \subseteq 1 .. MaxKeys
    BY <1>1, TablesAre DEF Tables, TypedDb, References, KeysFit
  <2>2. \A k \in DOMAIN db.key : db.key[k] \in [of : DOMAIN db.question, status : AuthorStatus, text : {0, 1}, source : Authors]
    BY <2>1
  <2> QED  BY <2>1, <2>2 DEF RowsIn
<1>5. RowsIn(db.header, DOMAIN db.question, [by : By])
  BY <1>1, TablesAre, RubricTyped DEF Tables, RowsIn
<1>6. RowsIn(db.rubric, (DOMAIN db.header) \X (1 .. MaxRubrics), [status : AuthorStatus, source : Authors])
  <2>1. \A r \in DOMAIN db.rubric : r \in (DOMAIN db.header) \X (1 .. MaxRubrics)
    BY RubricTyped
  <2> QED  BY <2>1, RubricTyped, TablesAre DEF RowsIn
<1>7. RowsIn(db.criterion, (DOMAIN db.rubric) \X CriterionCodes, CriterionRows)
  <2>1. \A c \in DOMAIN db.criterion : c \in (DOMAIN db.rubric) \X CriterionCodes
    BY RubricTyped
  <2> QED  BY <2>1, RubricTyped DEF RowsIn
<1>8. RowsIn(db.mapping, (DOMAIN db.question) \X Nodes, [by : By])
  <2>1. DOMAIN db.mapping \subseteq AnyQuestion \X Nodes /\ db.mapping \in [DOMAIN db.mapping -> [by : By]]
    BY <1>1, TablesAre DEF Tables
  <2>2. \A m \in DOMAIN db.mapping : m \in (DOMAIN db.question) \X Nodes
    BY <2>1 DEF TypedDb, References
  <2> QED  BY <2>1, <2>2 DEF RowsIn
<1>9. /\ \A r \in DOMAIN db.run : /\ db.run[r].version \in DOMAIN db.version
                                 /\ db.run[r].of \in DOMAIN db.question \cup {NoQuestion}
      /\ \A q \in DOMAIN db.question : db.question[q].parent \in DOMAIN db.question \cup {NoQuestion}
      /\ {"a"} \subseteq DOMAIN db.assessment /\ DOMAIN db.version # {}
  BY DEF TypedDb, References
<1> QED  BY <1>2, <1>3, <1>4, <1>5, <1>6, <1>7, <1>8, <1>9 DEF Consistent, AuthorStatus, Authors, By

LEMMA TypeInit ==
  ASSUME Init
  PROVE  TypeInv
<1>1. PICK n \in DOMAIN Starts : db = Starts[n]
  BY AuthoringAssumption DEF Init
<1>2. Consistent(db) /\ SameVersion(db.question)
  BY <1>1, AuthoringAssumption
<1>3. \A s \in Sessions : session[s] = Idle /\ Fits(s, Idle)
  BY DEF Init, Fits, Idle
<1> QED  BY <1>2, <1>3, ConsistentIsTyped DEF Init, TypeInv

LEMMA TypeAlways == Spec => []TypeInv
BY TypeInit, TypeStep, PTL DEF Spec

\* TypeOK: every table holds rows of its kind, what they name is there, and so
\* is the run of every task that waits; whatever the teachers and tasks do
\* between what they read and what they commit.
THEOREM AuthoringTypeCorrect == Spec => []TypeOK
<1>1. TypeInv => TypeOK
  BY TypedIsConsistent DEF TypeInv, TypeOK
<1> QED  BY <1>1, TypeAlways, PTL

-----------------------------------------------------------------------------
\* What a commit leaves as it was.
LEMMA SameTable ==
  ASSUME TypedDb, NEW tx, TypedTx(tx), NEW t \in Tables, t # "run", tx[t] = NoChange, Deleted(tx) = {}
  PROVE  Applied(tx)[t] = db[t]
<1>1. Cascaded(t, tx) = {}
  BY CascadedAre DEF Tables
<1>2. DOMAIN Applied(tx)[t] = DOMAIN db[t]
  <2>1. DOMAIN tx[t].new = {} /\ tx[t].gone = {}
    BY ChangesAre
  <2>2. DOMAIN Applied(tx)[t] = ((DOMAIN db[t] \cup DOMAIN tx[t].new) \ tx[t].gone) \ Cascaded(t, tx)
    BY AppliedDomain
  <2> QED  BY <1>1, <2>1, <2>2
<1>3. ASSUME NEW i \in DOMAIN db[t]
      PROVE  Applied(tx)[t][i] = db[t][i]
  BY <1>2, AppliedRow, KeptRow, ChangesAre DEF RowAfter
<1>4. db[t] = [i \in DOMAIN db[t] |-> db[t][i]]
  BY DEF TypedDb, TypedTable
<1> QED  BY <1>2, <1>3, <1>4, AppliedFunction

LEMMA EditedTable ==
  ASSUME TypedDb, NEW tx, TypedTx(tx)
  PROVE  Applied(tx)["question"] = Edited(db.question, tx["question"])
<1>1. "question" \in Tables
  BY DEF Tables
<1>2. DOMAIN Applied(tx)["question"] = (DOMAIN db.question \cup DOMAIN tx["question"].new) \ tx["question"].gone
  BY <1>1, AppliedDomain, CascadedAre
<1>3. ASSUME NEW q \in DOMAIN Applied(tx)["question"]
      PROVE  Applied(tx)["question"][q] = Edited(db.question, tx["question"])[q]
  BY <1>1, <1>2, AppliedRow, KeptRow DEF RowAfter, Edited
<1>4. Applied(tx)["question"] = [q \in DOMAIN Applied(tx)["question"] |-> Applied(tx)["question"][q]]
  BY <1>1, AppliedFunction
<1> QED  BY <1>2, <1>3, <1>4 DEF Edited

\* What a task writes next to what is there.
LEMMA WorkerCommit ==
  ASSUME TypedDb, NEW tx, TypedTx(tx), WorkerTx(tx), Accepted(tx), db' = Applied(tx)
  PROVE  /\ db'.question = db.question /\ db'.version = db.version /\ db'.mapping = db.mapping
         /\ \A k \in DOMAIN db.key : k \in DOMAIN db'.key /\ db'.key[k] = db.key[k]
         /\ \A k \in DOMAIN db'.key : k \in DOMAIN db.key \/ db'.key[k].status = "REVIEW_REQUIRED"
         /\ \A r \in DOMAIN db.rubric : r \in DOMAIN db'.rubric /\ db'.rubric[r] = db.rubric[r]
         /\ \A r \in DOMAIN db'.rubric : r \in DOMAIN db.rubric \/ db'.rubric[r].status = "REVIEW_REQUIRED"
         /\ \A r \in DOMAIN db.rubric : Criteria(r)' = Criteria(r)
         /\ Status' = Status \/ Status' = "RUBRIC_REVIEW"
<1>1. Deleted(tx) = {}
  BY DeletedAre, ChangesAre DEF WorkerTx
<1>2. /\ db'.question = db.question /\ db'.version = db.version /\ db'.mapping = db.mapping
  BY <1>1, SameTable DEF WorkerTx, Tables
<1>3. \A t \in Tables : /\ Cascaded(t, tx) = {} /\ DOMAIN tx[t].new \cap DOMAIN db[t] = {}
  BY <1>1, CascadedAre DEF Accepted, Tables
<1>4. ASSUME NEW t \in {"key", "rubric", "criterion"}
      PROVE  /\ DOMAIN db'[t] = DOMAIN db[t] \cup DOMAIN tx[t].new
             /\ \A i \in DOMAIN db[t] : db'[t][i] = db[t][i]
             /\ \A i \in DOMAIN tx[t].new : db'[t][i] = tx[t].new[i]
  <2>1. t \in Tables /\ t # "run" /\ DOMAIN tx[t].set = {} /\ tx[t].gone = {}
    BY DEF WorkerTx, Tables
  <2>2. DOMAIN db'[t] = DOMAIN db[t] \cup DOMAIN tx[t].new
    BY <1>3, <2>1, AppliedDomain
  <2>3. \A i \in DOMAIN db'[t] : db'[t][i] = RowAfter(t, i, tx)
    BY <2>1, AppliedRow, KeptRow
  <2> QED  BY <1>3, <2>1, <2>2, <2>3 DEF RowAfter
<1>5. ASSUME NEW r \in DOMAIN db.rubric
      PROVE  Criteria(r)' = Criteria(r)
  <2>1. \A i \in DOMAIN tx["criterion"].new : i[1] # r
    BY <1>3 DEF WorkerTx, Tables
  <2>2. {i \in DOMAIN db'.criterion : i[1] = r} = {i \in DOMAIN db.criterion : i[1] = r}
    BY <1>4, <2>1
  <2>3. \A i \in {i \in DOMAIN db.criterion : i[1] = r} : i = <<r, i[2]>>
    BY RubricTyped
  <2>4. \A c \in {i[2] : i \in {i \in DOMAIN db.criterion : i[1] = r}} : db'.criterion[<<r, c>>] = db.criterion[<<r, c>>]
    BY <1>4, <2>3
  <2> QED  BY <2>2, <2>4 DEF Criteria
<1>6. Status' = Status \/ Status' = "RUBRIC_REVIEW"
  <2>1. "assessment" \in Tables /\ "a" \in DOMAIN db.assessment /\ DOMAIN tx["assessment"].new = {}
    BY DEF Tables, TypedDb, WorkerTx
  <2>2. "a" \in DOMAIN db'.assessment
    BY <2>1, AppliedKeeps
  <2>3. db'.assessment["a"] = RowAfter("assessment", "a", tx)
    BY <2>1, <2>2, AppliedRow, KeptRow
  <2>4. "status" \in DOMAIN db.assessment["a"]
    <3>1. db["assessment"]["a"] \in Rows["assessment"]
      BY <2>1, TypedRows
    <3> QED  BY <3>1, TablesAre
  <2> QED  BY <2>1, <2>3, <2>4 DEF RowAfter, WorkerTx, Patched, Status
<1> QED  BY <1>2, <1>4, <1>5, <1>6 DEF WorkerTx

\* A change of the status, of a run or of a paper.
LEMMA QuietCommit ==
  ASSUME TypedDb, NEW tx, TypedTx(tx), Untouched(tx), db' = Applied(tx)
  PROVE  /\ db'.question = db.question /\ db'.key = db.key /\ db'.header = db.header
         /\ db'.rubric = db.rubric /\ db'.criterion = db.criterion /\ db'.mapping = db.mapping
         /\ DOMAIN db'.version = DOMAIN db.version
         /\ \A v \in DOMAIN db.version : db'.version[v].max = db.version[v].max
<1>1. Deleted(tx) = {}
  BY DeletedAre, ChangesAre DEF Untouched
<1>2. \A t \in {"question", "key", "header", "rubric", "criterion", "mapping"} : db'[t] = db[t]
  BY <1>1, SameTable DEF Untouched, Tables
<1>3. "version" \in Tables /\ DOMAIN db'.version = DOMAIN db.version
  BY AppliedKeeps DEF Untouched, Tables
<1>4. ASSUME NEW v \in DOMAIN db.version
      PROVE  db'.version[v].max = db.version[v].max
  <2>1. db'.version[v] = RowAfter("version", v, tx)
    BY <1>3, AppliedRow, KeptRow
  <2>2. "max" \in DOMAIN db.version[v]
    <3>1. db["version"][v] \in Rows["version"]
      BY <1>3, TypedRows
    <3> QED  BY <3>1, TablesAre
  <2> QED  BY <2>1, <2>2 DEF RowAfter, Untouched, Patched
<1> QED  BY <1>2, <1>3, <1>4

\* The gate of READY stays open while its questions, and what is approved, stay.
LEMMA ReadyStays ==
  ASSUME TypedDb, Ready(Latest), db'.question = db.question, DOMAIN db'.version = DOMAIN db.version,
         \A v \in DOMAIN db.version : db'.version[v].max = db.version[v].max,
         \A k \in DOMAIN db.key : db.key[k].status = "APPROVED" => k \in DOMAIN db'.key /\ db'.key[k] = db.key[k],
         \A r \in DOMAIN db.rubric : db.rubric[r].status = "APPROVED"
           => r \in DOMAIN db'.rubric /\ db'.rubric[r] = db.rubric[r] /\ Criteria(r)' = Criteria(r)
  PROVE  Ready(Latest)'
<1>1. Latest' = Latest /\ Latest \in DOMAIN db.version
  BY LatestIs DEF Latest
<1> DEFINE v == Latest
<1>2. Leaves(Latest)' = Leaves(Latest)
  BY <1>1 DEF Leaves, QuestionsOf, Parents
<1>3. MarksReconcile(Latest)'
  BY <1>1, <1>2 DEF Ready, MarksReconcile, LeafMarks
<1>4. \A q : ApprovedKeys(q) \subseteq ApprovedKeys(q)'
  BY DEF ApprovedKeys
<1>5. \A q : \A r \in ApprovedRubrics(q) : r \in ApprovedRubrics(q)' /\ Criteria(r)' = Criteria(r)
  BY DEF ApprovedRubrics
<1>6. ASSUME NEW q \in Leaves(Latest)
      PROVE  ApprovedKeys(q)' # {} /\ \E r \in ApprovedRubrics(q)' : Reconciles(Criteria(r)', db'.question[q].max)
  BY <1>4, <1>5 DEF Ready
<1> QED  BY <1>2, <1>3, <1>6 DEF Ready

-----------------------------------------------------------------------------
\* The invariant of the only teacher.
LEMMA CarefulStays ==
  ASSUME TypedDb, NEW tx, Careful(tx), db'.question = db.question, Status' = Status \/ Status' = "RUBRIC_REVIEW",
         Ready(Latest) => Ready(Latest)',
         \A k \in DOMAIN db.key : db'.key[k] = db.key[k],
         \A k \in DOMAIN db'.key : k \in DOMAIN db.key \/ db'.key[k].status = "REVIEW_REQUIRED",
         \A r \in DOMAIN db.rubric : r \in DOMAIN db'.rubric /\ db'.rubric[r] = db.rubric[r],
         \A r \in DOMAIN db'.rubric : r \in DOMAIN db.rubric \/ db'.rubric[r].status = "REVIEW_REQUIRED"
  PROVE  Careful(tx)'
<1>1. Frozen(Status)' => Frozen(Status)
  BY DEF Frozen
<1>2. KeepsTree(tx["question"])'
  BY DEF Careful, KeepsTree, Rooted, Parented, Edited
<1>3. KeepsApproved(tx)'
  <2>1. \A k \in DOMAIN tx["key"].set \cap DOMAIN db'.key :
          Editable(db'.key[k].status) \/ Superseding(tx["key"].set[k])
    BY DEF Careful, KeepsApproved, Editable
  <2>2. \A r \in DOMAIN tx["rubric"].set \cap DOMAIN db'.rubric :
          Editable(db'.rubric[r].status) \/ Superseding(tx["rubric"].set[r])
    BY DEF Careful, KeepsApproved, Editable
  <2>3. \A c \in DOMAIN tx["criterion"].new \cup DOMAIN tx["criterion"].set \cup tx["criterion"].gone :
          c[1] \in DOMAIN db'.rubric /\ Editable(db'.rubric[c[1]].status)
    BY DEF Careful, KeepsApproved
  <2> QED  BY <2>1, <2>2, <2>3 DEF KeepsApproved
<1>4. /\ Frozen(Status)' => Untouched(tx)
      /\ Freezes(tx) => Untouched(tx) /\ Ready(Latest)'
      /\ DOMAIN tx["assessment"].new = {}
  BY <1>1 DEF Careful
<1> QED  BY <1>2, <1>3, <1>4 DEF Careful, Untouched, Freezes

\* What another session does to nothing.
LEMMA SameDb ==
  ASSUME TypedDb, db' = db
  PROVE  /\ Status' = Status /\ (Ready(Latest) => Ready(Latest)')
         /\ \A tx : Careful(tx) => Careful(tx)'
<1>1. Status' = Status
  BY DEF Status
<1>2. Ready(Latest) => Ready(Latest)'
  <2>1. \A r : Criteria(r)' = Criteria(r)
    BY DEF Criteria
  <2> QED  BY <2>1, ReadyStays
<1>3. ASSUME NEW tx, Careful(tx)
      PROVE  Careful(tx)'
  BY <1>1, <1>2, <1>3, CarefulStays
<1> QED  BY <1>1, <1>2, <1>3

LEMMA OnlyTeacher ==
  ASSUME TypeInv, OneTeacher, NEW t \in Teachers, NEW u \in Teachers, session[t] # Idle, session[u] # Idle
  PROVE  t = u
<1>1. IsFiniteSet(setting.teachers) /\ Cardinality(setting.teachers) = 1 /\ setting.workers \subseteq Workers
  BY AuthoringAssumption DEF TypeInv, OneTeacher
<1>2. PICK x : setting.teachers = {x}
  BY <1>1, FS_Singleton
<1>3. t \in setting.teachers /\ u \in setting.teachers
  BY <1>1, AuthoringAssumption DEF TypeInv, Fits, Sessions
<1> QED  BY <1>2, <1>3

LEMMA WorkerCommitTeacherInv ==
  ASSUME TypeInv, TeacherInv, NEW s \in Workers, Commit(s), db' = Applied(session[s].tx), Accepted(session[s].tx)
  PROVE  TeacherInv'
<1> DEFINE tx == session[s].tx
<1>1. TypedDb /\ TypedTx(tx) /\ setting' = setting /\ s \notin Teachers /\ s \in Sessions
  BY CommitIs, AuthoringAssumption DEF TypeInv, Sessions
<1>2. WorkerTx(tx)
  BY <1>1 DEF TypeInv, Fits, Commit
<1> HIDE DEF tx
<1>3. db' = Applied(tx) /\ Accepted(tx)
  BY DEF tx
<1>4. Ready(Latest) => Ready(Latest)'
  BY <1>1, <1>2, <1>3, WorkerCommit, ReadyStays
<1>5. ASSUME NEW t \in Teachers
      PROVE  session'[t] = session[t]
  BY <1>1, CommitIs DEF Sessions
<1>6. ASSUME NEW other, Careful(other)
      PROVE  Careful(other)'
  BY <1>1, <1>2, <1>3, <1>4, <1>6, WorkerCommit, CarefulStays
<1>7. db'.question = db.question /\ (Status' = Status \/ Status' = "RUBRIC_REVIEW")
  BY <1>1, <1>2, <1>3, WorkerCommit
<1>8. ASSUME OneTeacher'
      PROVE  /\ Rooted(db'.question) /\ (Frozen(Status)' => Ready(Latest)')
             /\ \A t \in Teachers : session'[t].phase = "writing" => Careful(session[t].tx)'
  <2>1. OneTeacher
    BY <1>1, <1>8 DEF OneTeacher
  <2>2. Rooted(db.question) /\ (Frozen(Status) => Ready(Latest))
        /\ \A t \in Teachers : session[t].phase = "writing" => Careful(session[t].tx)
    BY <2>1 DEF TeacherInv
  <2>3. ASSUME NEW t \in Teachers, session'[t].phase = "writing"
        PROVE  Careful(session[t].tx)'
    <3>1. PICK other : other = session[t].tx
      OBVIOUS
    <3>2. other = session'[t].tx /\ Careful(other)
      BY <1>5, <2>2, <2>3, <3>1
    <3>3. Careful(other)'
      BY <1>6, <3>2
    <3> QED  BY <3>2, <3>3
  <2> QED  BY <1>4, <1>7, <2>2, <2>3 DEF Frozen
<1> QED  BY <1>8 DEF TeacherInv

LEMMA TeacherCommitTeacherInv ==
  ASSUME TypeInv, TeacherInv, NEW s \in Teachers, Commit(s), db' = Applied(session[s].tx), Accepted(session[s].tx)
  PROVE  TeacherInv'
<1> DEFINE tx == session[s].tx
<1>1. /\ TypedDb /\ TypedTx(tx) /\ setting' = setting /\ s \in Sessions /\ session[s] # Idle
      /\ session[s].phase = "writing"
  BY CommitIs DEF TypeInv, Sessions, Commit
<1> SUFFICES ASSUME OneTeacher'
             PROVE  /\ Rooted(db'.question) /\ (Frozen(Status)' => Ready(Latest)')
                    /\ \A t \in Teachers : session'[t].phase # "writing"
  BY DEF TeacherInv
<1>2. OneTeacher /\ Careful(tx) /\ (Frozen(Status) => Ready(Latest))
  BY <1>1 DEF OneTeacher, TeacherInv
<1>3. \A t \in Teachers : session'[t].phase # "writing"
  <2>1. ASSUME NEW t \in Teachers, t # s
        PROVE  session[t].phase # "writing" /\ session'[t] = session[t]
    <3>1. session'[t] = session[t]
      BY <2>1, CommitIs DEF Sessions
    <3>2. session[t] = Idle
      BY <1>1, <1>2, <2>1, OnlyTeacher
    <3> QED  BY <3>1, <3>2 DEF Idle
  <2> QED  BY <1>1, <2>1, CommitIs
<1> HIDE DEF tx
<1>4. db' = Applied(tx) /\ Accepted(tx)
  BY DEF tx
<1>5. Rooted(db'.question)
  <2>1. db'.question = Edited(db.question, tx["question"]) /\ "question" \in Tables
    BY <1>1, <1>4, EditedTable DEF Tables
  <2>2. DOMAIN tx["question"].new \cap DOMAIN db.question = {} /\ Parented(db'.question)
    BY <1>4, <2>1 DEF Accepted, References, Parented
  <2> QED  BY <1>2, <2>1, <2>2 DEF Careful, KeepsTree
<1>6. ASSUME Frozen(Status)'
      PROVE  Untouched(tx) /\ Ready(Latest)
  <2>1. "assessment" \in Tables /\ "a" \in DOMAIN db.assessment /\ DOMAIN tx["assessment"].new = {}
    BY <1>1, <1>2 DEF Tables, TypedDb, Careful
  <2>2. "a" \in DOMAIN db'.assessment
    BY <1>1, <1>4, <2>1, AppliedKeeps
  <2>3. db'.assessment["a"] = RowAfter("assessment", "a", tx)
    BY <1>4, <2>1, <2>2, AppliedRow, KeptRow
  <2>4. "status" \in DOMAIN db.assessment["a"]
    <3>1. db["assessment"]["a"] \in Rows["assessment"]
      BY <1>1, <2>1, TypedRows
    <3> QED  BY <3>1, TablesAre
  <2>5. Frozen(Status) \/ Freezes(tx)
    BY <1>6, <2>1, <2>3, <2>4 DEF RowAfter, Patched, Status, Freezes
  <2> QED  BY <1>2, <2>5 DEF Careful
<1>7. ASSUME Frozen(Status)'
      PROVE  Ready(Latest)'
  <2>1. Untouched(tx) /\ Ready(Latest)
    BY <1>6, <1>7
  <2>2. /\ db'.question = db.question /\ db'.key = db.key /\ db'.rubric = db.rubric /\ db'.criterion = db.criterion
        /\ DOMAIN db'.version = DOMAIN db.version
        /\ \A v \in DOMAIN db.version : db'.version[v].max = db.version[v].max
    BY <1>1, <1>4, <2>1, QuietCommit
  <2>3. \A r : Criteria(r)' = Criteria(r)
    BY <2>2 DEF Criteria
  <2> QED  BY <1>1, <2>1, <2>2, <2>3, ReadyStays
<1> QED  BY <1>3, <1>5, <1>7

\* A step that leaves the tables, and what the teachers write.
LEMMA QuietTeacherInv ==
  ASSUME TypeInv, TeacherInv, db' = db, setting' = setting,
         \A t \in Teachers : session'[t].phase = "writing" =>
           session'[t] = session[t] \/ (OneTeacher /\ TeacherInv => Careful(session'[t].tx))
  PROVE  TeacherInv'
<1> SUFFICES ASSUME OneTeacher'
             PROVE  /\ Rooted(db'.question) /\ (Frozen(Status)' => Ready(Latest)')
                    /\ \A t \in Teachers : session'[t].phase = "writing" => Careful(session[t].tx)'
  BY DEF TeacherInv
<1>1. /\ OneTeacher /\ TypedDb /\ Rooted(db.question) /\ (Frozen(Status) => Ready(Latest))
      /\ \A t \in Teachers : session[t].phase = "writing" => Careful(session[t].tx)
  BY DEF OneTeacher, TeacherInv, TypeInv
<1>2. ASSUME NEW t \in Teachers, session'[t].phase = "writing"
      PROVE  Careful(session[t].tx)'
  <2>1. PICK tx : tx = session'[t].tx
    OBVIOUS
  <2>2. Careful(tx)
    BY <1>1, <1>2, <2>1
  <2>3. Careful(tx)'
    BY <1>1, <2>2, SameDb
  <2> QED  BY <2>1, <2>3
<1> QED  BY <1>1, <1>2, SameDb DEF Frozen

LEMMA TeacherStep ==
  ASSUME TypeInv, TeacherInv, [Next]_vars
  PROVE  TeacherInv'
<1>1. CASE UNCHANGED vars \/ Configure
  <2>1. db' = db /\ session' = session /\ setting' = setting
    BY <1>1 DEF vars, Configure
  <2> QED  BY <2>1, QuietTeacherInv
<1>2. ASSUME NEW t \in Teachers, AskedWell(t)
      PROVE  TeacherInv'
  <2>1. PICK tx, then : /\ session' = [session EXCEPT ![t] = Writing(tx, NoRun, then)]
                        /\ UNCHANGED <<db, queue, provider, setting>>
                        /\ OneTeacher /\ TeacherInv => Careful(tx)
    BY <1>2 DEF AskedWell
  <2>2. \A u \in Teachers : session'[u] = IF u = t THEN Writing(tx, NoRun, then) ELSE session[u]
    BY <2>1 DEF TypeInv, Sessions
  <2> QED  BY <2>1, <2>2, WritingIs, QuietTeacherInv
<1>3. ASSUME NEW t \in Teachers, Enqueue(t) \/ EnqueueFails(t)
      PROVE  TeacherInv'
  <2>1. \A u \in Teachers : session'[u] = IF u = t THEN Idle ELSE session[u]
    BY <1>3 DEF TypeInv, Sessions, Enqueue, EnqueueFails
  <2> QED  BY <1>3, <2>1, QuietTeacherInv DEF Enqueue, EnqueueFails, Idle
<1>4. ASSUME NEW w \in Workers, WorkerGoes(w)
      PROVE  TeacherInv'
  <2>1. \A u \in Teachers : session'[u] = session[u]
    BY <1>4, AuthoringAssumption DEF TypeInv, Sessions, WorkerGoes
  <2> QED  BY <1>4, <2>1, QuietTeacherInv DEF WorkerGoes
<1>5. ASSUME NEW s \in Sessions, Commit(s)
      PROVE  TeacherInv'
  <2>1. CASE db' = db
    <3>1. /\ setting' = setting /\ DOMAIN session' = Sessions
          /\ \A o \in Sessions \ {s} : session'[o] = session[o]
          /\ session'[s].phase # "writing"
      BY <1>5, CommitIs
    <3> QED  BY <2>1, <3>1, QuietTeacherInv DEF Sessions
  <2>2. CASE db' = Applied(session[s].tx) /\ Accepted(session[s].tx)
    BY <1>5, <2>2, WorkerCommitTeacherInv, TeacherCommitTeacherInv DEF Sessions
  <2> QED  BY <1>5, <2>1, <2>2, CommitIs
<1> QED  BY <1>1, <1>2, <1>3, <1>4, <1>5, Steps

LEMMA TeacherInit ==
  ASSUME Init
  PROVE  TeacherInv
<1>1. PICK n \in DOMAIN Starts : db = Starts[n]
  BY AuthoringAssumption DEF Init
<1>2. Rooted(db.question) /\ ~Frozen(Status)
  BY <1>1, AuthoringAssumption DEF Status, Frozen
<1>3. \A t \in Teachers : session[t].phase # "writing"
  BY DEF Init, Sessions, Idle
<1> QED  BY <1>2, <1>3 DEF TeacherInv

LEMMA TeacherAlways == Spec => [](TypeInv /\ TeacherInv)
BY TypeInit, TypeStep, TeacherInit, TeacherStep, PTL DEF Spec

-----------------------------------------------------------------------------
\* Marks adds up.
Adds(rows, S, g) == /\ g \in [SUBSET S -> Nat] /\ g[{}] = 0
                    /\ \A U \in SUBSET S : \A y \in U : g[U] = rows[y].max + g[U \ {y}]

LEMMA SmallestSet ==
  ASSUME NEW S, IsFiniteSet(S), NEW Bad \in SUBSET (SUBSET S), Bad # {}
  PROVE  \E T \in Bad : \A y \in T : T \ {y} \notin Bad
<1> DEFINE sizes == {Cardinality(T) : T \in Bad}
<1>1. \A T \in Bad : IsFiniteSet(T) /\ Cardinality(T) \in Nat
  BY FS_Subset, FS_CardinalityType
<1>2. sizes \in SUBSET Nat /\ sizes # {}
  BY <1>1
<1>3. PICK T \in Bad : \A n \in sizes : Cardinality(T) <= n
  <2> HIDE DEF sizes
  <2>1. Min(sizes) \in sizes /\ \A n \in sizes : Min(sizes) <= n
    BY <1>2, MinOfNats
  <2> QED  BY <2>1 DEF sizes
<1>4. ASSUME NEW y \in T, T \ {y} \in Bad
      PROVE  FALSE
  <2>1. Cardinality(T \ {y}) = Cardinality(T) - 1
    BY <1>1, FS_RemoveElement
  <2>2. Cardinality(T) <= Cardinality(T \ {y})
    BY <1>3, <1>4
  <2> QED  BY <1>1, <2>1, <2>2
<1> QED  BY <1>4

LEMMA SumExists ==
  ASSUME NEW S, IsFiniteSet(S), NEW rows, \A i \in S : rows[i].max \in Nat
  PROVE  \E g : Adds(rows, S, g)
<1> DEFINE Bad == {T \in SUBSET S : ~ \E g : Adds(rows, T, g)}
<1>1. SUFFICES ASSUME Bad # {}
               PROVE  FALSE
  OBVIOUS
<1>2. PICK T \in Bad : \A y \in T : T \ {y} \notin Bad
  <2> HIDE DEF Bad
  <2>1. Bad \in SUBSET (SUBSET S)
    BY DEF Bad
  <2> QED  BY <1>1, <2>1, SmallestSet
<1>3. CASE T = {}
  <2> DEFINE g == [U \in SUBSET T |-> 0]
  <2>1. Adds(rows, T, g)
    BY <1>3 DEF Adds
  <2> QED  BY <2>1
<1>4. ASSUME NEW z \in T
      PROVE  FALSE
  <2>1. PICK f : Adds(rows, T \ {z}, f)
    BY <1>2
  <2> DEFINE g == [U \in SUBSET T |-> IF z \in U THEN rows[z].max + f[U \ {z}] ELSE f[U]]
  <2>2. /\ f \in [SUBSET (T \ {z}) -> Nat] /\ f[{}] = 0 /\ rows[z].max \in Nat
        /\ \A U \in SUBSET (T \ {z}) : \A y \in U : f[U] = rows[y].max + f[U \ {y}]
    BY <2>1 DEF Adds
  <2>3. \A U \in SUBSET T : /\ U \ {z} \in SUBSET (T \ {z})
                            /\ z \notin U => U \in SUBSET (T \ {z})
    OBVIOUS
  <2>4. g \in [SUBSET T -> Nat] /\ g[{}] = 0
    BY <2>2, <2>3
  <2>5. ASSUME NEW U \in SUBSET T, NEW y \in U
        PROVE  g[U] = rows[y].max + g[U \ {y}]
    <3>1. U \ {y} \in SUBSET T
      OBVIOUS
    <3>2. CASE y = z
      <4>1. g[U] = rows[z].max + f[U \ {z}] /\ g[U \ {y}] = f[U \ {z}]
        BY <3>1, <3>2
      <4> QED  BY <3>2, <4>1
    <3>3. CASE y # z /\ z \notin U
      BY <2>2, <2>3, <3>1, <3>3
    <3>4. CASE y # z /\ z \in U
      <4>1. g[U] = rows[z].max + f[U \ {z}] /\ g[U \ {y}] = rows[z].max + f[(U \ {y}) \ {z}]
        BY <3>1, <3>4
      <4>2. (U \ {y}) \ {z} = (U \ {z}) \ {y} /\ y \in U \ {z}
        BY <3>4
      <4>3. f[U \ {z}] = rows[y].max + f[(U \ {y}) \ {z}]
        BY <2>2, <2>3, <4>2
      <4>4. f[(U \ {y}) \ {z}] \in Nat /\ rows[y].max \in Nat
        BY <2>2, <2>3, <3>1
      <4> HIDE DEF g
      <4> QED  BY <2>2, <4>1, <4>3, <4>4
    <3> QED  BY <3>2, <3>3, <3>4
  <2> HIDE DEF g
  <2>6. Adds(rows, T, g)
    BY <2>4, <2>5 DEF Adds
  <2> QED  BY <2>6
<1> QED  BY <1>3, <1>4

\* Marks is the sum, in whatever order it is made.
LEMMA MarksAre ==
  ASSUME NEW S, IsFiniteSet(S), NEW rows, NEW g, Adds(rows, S, g)
  PROVE  Marks(rows, S) = g[S]
<1> DEFINE ch(s) == CHOOSE x \in s : TRUE
           G(it) == [s \in SUBSET S |-> IF s = {} THEN 0 ELSE rows[ch(s)].max + it[s \ {ch(s)}]]
           iter == CHOOSE it : it = G(it)
<1>1. Marks(rows, S) = iter[S]
  BY DEF Marks, MapThenSumSet, MapThenFoldSet
<1>2. \A s \in SUBSET S : s # {} => ch(s) \in s
  OBVIOUS
<1>3. g = G(g)
  <2>1. g = [s \in SUBSET S |-> g[s]]
    BY DEF Adds
  <2>2. \A s \in SUBSET S : g[s] = IF s = {} THEN 0 ELSE rows[ch(s)].max + g[s \ {ch(s)}]
    BY <1>2 DEF Adds
  <2> HIDE DEF ch
  <2> QED  BY <2>1, <2>2
<1>4. iter = G(iter)
  <2> HIDE DEF G
  <2> QED  BY <1>3
<1> DEFINE Bad == {U \in SUBSET S : iter[U] # g[U]}
<1>5. ASSUME NEW U \in Bad, \A y \in U : U \ {y} \notin Bad
      PROVE  FALSE
  <2> HIDE DEF iter
  <2>1. CASE U = {}
    <3>1. iter[{}] = 0
      BY <1>4
    <3> QED  BY <2>1, <3>1 DEF Adds
  <2>2. CASE U # {}
    <3>1. ch(U) \in U
      BY <1>2, <2>2
    <3> HIDE DEF ch
    <3>2. iter[U] = rows[ch(U)].max + iter[U \ {ch(U)}]
      BY <1>4, <2>2
    <3>3. iter[U \ {ch(U)}] = g[U \ {ch(U)}]
      BY <1>5, <3>1
    <3>4. g[U] = rows[ch(U)].max + g[U \ {ch(U)}]
      BY <3>1 DEF Adds
    <3> QED  BY <3>2, <3>3, <3>4
  <2> QED  BY <2>1, <2>2
<1>6. Bad = {}
  <2> HIDE DEF Bad, iter
  <2>1. Bad \in SUBSET (SUBSET S)
    BY DEF Bad
  <2> QED  BY <1>5, <2>1, SmallestSet
<1> QED  BY <1>1, <1>6

LEMMA MarksNatural ==
  ASSUME NEW S, IsFiniteSet(S), NEW rows, \A i \in S : rows[i].max \in Nat
  PROVE  Marks(rows, S) \in Nat
<1>1. PICK g : Adds(rows, S, g)
  BY SumExists
<1>2. Marks(rows, S) = g[S]
  BY <1>1, MarksAre
<1> QED  BY <1>1, <1>2 DEF Adds

LEMMA MarksOfNone ==
  ASSUME NEW rows
  PROVE  Marks(rows, {}) = 0
<1>1. PICK g : Adds(rows, {}, g)
  BY SumExists, FS_EmptySet
<1> QED  BY <1>1, MarksAre, FS_EmptySet DEF Adds

\* The same marks under other names add up to the same.
LEMMA MarksRenamed ==
  ASSUME NEW S, IsFiniteSet(S), NEW rows, NEW others, NEW h, DOMAIN h = S, h = [i \in S |-> h[i]],
         \A i, j \in S : h[i] = h[j] => i = j,
         \A i \in S : rows[i].max \in Nat /\ others[h[i]].max = rows[i].max
  PROVE  Marks(others, {h[i] : i \in S}) = Marks(rows, S)
<1> DEFINE T == {h[i] : i \in S}
<1>1. IsFiniteSet(T)
  <2>1. h \in Surjection(S, T)
    BY DEF Surjection
  <2> QED  BY <2>1, FS_Surjection
<1>2. \A x \in T : others[x].max \in Nat
  OBVIOUS
<1>3. PICK f : Adds(others, T, f)
  <2> HIDE DEF T
  <2> QED  BY <1>1, <1>2, SumExists
<1> DEFINE of(U) == {h[i] : i \in U}
           g == [U \in SUBSET S |-> f[of(U)]]
<1>4. \A U \in SUBSET S : of(U) \in SUBSET T
  OBVIOUS
<1>5. \A U \in SUBSET S : \A y \in U : h[y] \in of(U) /\ of(U \ {y}) = of(U) \ {h[y]}
  OBVIOUS
<1>6. of({}) = {} /\ of(S) = T
  OBVIOUS
<1> HIDE DEF of, T
<1>7. f \in [SUBSET T -> Nat] /\ f[{}] = 0 /\ \A U \in SUBSET T : \A y \in U : f[U] = others[y].max + f[U \ {y}]
  BY <1>3 DEF Adds
<1>8. g \in [SUBSET S -> Nat] /\ g[{}] = 0
  BY <1>4, <1>6, <1>7
<1>9. ASSUME NEW U \in SUBSET S, NEW y \in U
      PROVE  g[U] = rows[y].max + g[U \ {y}]
  <2>1. f[of(U)] = others[h[y]].max + f[of(U) \ {h[y]}]
    <3>1. of(U) \in SUBSET T /\ h[y] \in of(U)
      BY <1>4, <1>5
    <3> QED  BY <3>1, <1>7
  <2>2. g[U] = f[of(U)] /\ g[U \ {y}] = f[of(U) \ {h[y]}]
    BY <1>5
  <2> QED  BY <2>1, <2>2
<1>10. Adds(rows, S, g) /\ g[S] = f[T]
  <2>1. g[S] = f[T]
    BY <1>6
  <2> HIDE DEF g
  <2> QED  BY <1>8, <1>9, <2>1 DEF Adds
<1> HIDE DEF g
<1>11. Marks(rows, S) = g[S] /\ Marks(others, T) = f[T]
  BY <1>1, <1>3, <1>10, MarksAre
<1> QED  BY <1>10, <1>11 DEF T

-----------------------------------------------------------------------------
\* A rubric that reconciles.
LEMMA MaxOfTwo ==
  ASSUME NEW a \in Int
  PROVE  /\ a >= 0 => Max({a, 0}) = a
         /\ a <= 0 => Max({a, 0}) = 0
         /\ Max({a}) = a
BY DEF Max

LEMMA PerfectAndEmpty ==
  ASSUME NEW crit, IsFiniteSet(DOMAIN crit), \A c \in DOMAIN crit : crit[c] \in CriterionRows, NEW max \in Nat,
         Reconciles(crit, max)
  PROVE  Score(crit, DOMAIN crit, max) = max /\ Score(crit, {}, max) = 0
<1> DEFINE of(mode) == {c \in DOMAIN crit : crit[c].mode = mode}
           modes == {crit[c].mode : c \in DOMAIN crit}
           add == of("ADDITIVE")
           ded == of("DEDUCTIVE")
           aon == of("ALL_OR_NOTHING")
           full == (IF add = {} THEN max ELSE Marks(crit, add)) - Marks(crit, {})
           empty == (IF add = {} THEN max ELSE Marks(crit, {})) - Marks(crit, ded)
<1>1. /\ Score(crit, DOMAIN crit, max) =
           IF aon # {} THEN Max({crit[c].max : c \in DOMAIN crit})
           ELSE Max({full, 0})
      /\ Score(crit, {}, max) =
           IF aon # {} THEN IF DOMAIN crit = {} THEN Max({crit[c].max : c \in DOMAIN crit}) ELSE 0
           ELSE Max({empty, 0})
  <2>1. add \cap DOMAIN crit = add /\ ded \ DOMAIN crit = {} /\ add \cap {} = {} /\ ded \ {} = ded
    OBVIOUS
  <2>2. DOMAIN crit \subseteq DOMAIN crit /\ (DOMAIN crit \subseteq {} <=> DOMAIN crit = {})
    OBVIOUS
  <2> QED  BY <2>1, <2>2 DEF Score
<1>2. Marks(crit, {}) = 0
  BY MarksOfNone
<1>3. Marks(crit, ded) \in Nat /\ Total(crit, "ADDITIVE") = Marks(crit, add) /\ Total(crit, "DEDUCTIVE") = Marks(crit, ded)
  <2>1. IsFiniteSet(ded) /\ \A c \in ded : crit[c].max \in Nat
    BY FS_Subset, AuthoringAssumption DEF CriterionRows
  <2> HIDE DEF ded
  <2>2. Marks(crit, ded) \in Nat
    BY <2>1, MarksNatural
  <2> QED  BY <2>2 DEF Total, ded
<1>4. /\ add # {} <=> "ADDITIVE" \in modes
      /\ ded # {} <=> "DEDUCTIVE" \in modes
      /\ aon # {} <=> "ALL_OR_NOTHING" \in modes
      /\ DOMAIN crit # {} <=> modes # {}
  OBVIOUS
<1>5. \/ modes = {"ADDITIVE"} /\ Marks(crit, add) = max
      \/ modes = {"DEDUCTIVE"} /\ Marks(crit, ded) = max
      \/ modes = {"ALL_OR_NOTHING"} /\ \A c \in DOMAIN crit : crit[c].max = max
      \/ modes = {"ADDITIVE", "DEDUCTIVE"} /\ Marks(crit, add) = max /\ Marks(crit, ded) <= max
  BY <1>3 DEF Reconciles
<1>6. modes = {"ALL_OR_NOTHING"} /\ (\A c \in DOMAIN crit : crit[c].max = max) => {crit[c].max : c \in DOMAIN crit} = {max}
  BY <1>4
<1>7. /\ add # {} /\ Marks(crit, add) = max => full = max /\ empty = 0 - Marks(crit, ded)
      /\ add = {} => full = max /\ empty = max - Marks(crit, ded)
  BY <1>2, <1>3
<1>8. Max({max, 0}) = max /\ Max({max}) = max /\ Max({0, 0}) = 0 /\ Max({0 - Marks(crit, ded), 0}) = 0
  <2> DEFINE n == 0 - Marks(crit, ded)
  <2>1. n \in Int /\ n <= 0
    BY <1>3
  <2> HIDE DEF n
  <2>2. Max({n, 0}) = 0
    BY <2>1, MaxOfTwo
  <2>3. Max({0, 0}) = 0
    BY MaxOfTwo
  <2>4. Max({max, 0}) = max /\ Max({max}) = max
    BY MaxOfTwo
  <2> QED  BY <2>2, <2>3, <2>4 DEF n
<1> HIDE DEF full, empty, modes, add, ded, aon, of
<1>9. CASE modes = {"ADDITIVE"} /\ Marks(crit, add) = max
  <2>1. add # {} /\ ded = {} /\ aon = {}
    BY <1>4, <1>9
  <2>2. full = max /\ empty = 0
    BY <1>2, <1>7, <1>9, <2>1
  <2> QED  BY <1>1, <1>8, <2>1, <2>2
<1>10. CASE modes = {"DEDUCTIVE"} /\ Marks(crit, ded) = max
  <2>1. add = {} /\ aon = {}
    BY <1>4, <1>10
  <2>2. full = max /\ empty = 0
    BY <1>7, <1>10, <2>1
  <2> QED  BY <1>1, <1>8, <2>1, <2>2
<1>11. CASE modes = {"ALL_OR_NOTHING"} /\ \A c \in DOMAIN crit : crit[c].max = max
  <2>1. aon # {} /\ DOMAIN crit # {}
    BY <1>4, <1>11
  <2> QED  BY <1>1, <1>6, <1>8, <1>11, <2>1
<1>12. CASE modes = {"ADDITIVE", "DEDUCTIVE"} /\ Marks(crit, add) = max /\ Marks(crit, ded) <= max
  <2>1. add # {} /\ aon = {}
    BY <1>4, <1>12
  <2>2. full = max /\ empty = 0 - Marks(crit, ded)
    BY <1>7, <1>12, <2>1
  <2> QED  BY <1>1, <1>8, <2>1, <2>2
<1> QED  BY <1>5, <1>9, <1>10, <1>11, <1>12

LEMMA CriteriaTyped ==
  ASSUME TypedDb, NEW r
  PROVE  IsFiniteSet(DOMAIN Criteria(r)) /\ \A c \in DOMAIN Criteria(r) : Criteria(r)[c] \in CriterionRows
<1>1. DOMAIN Criteria(r) = {i[2] : i \in {i \in DOMAIN db.criterion : i[1] = r}}
  BY DEF Criteria
<1>2. \A i \in DOMAIN db.criterion : i = <<i[1], i[2]>> /\ i[2] \in CriterionCodes /\ db.criterion[i] \in CriterionRows
  BY RubricTyped
<1>3. DOMAIN Criteria(r) \subseteq CriterionCodes
  BY <1>1, <1>2
<1>4. \A c \in DOMAIN Criteria(r) : Criteria(r)[c] = db.criterion[<<r, c>>] /\ <<r, c>> \in DOMAIN db.criterion
  BY <1>1, <1>2 DEF Criteria
<1> QED  BY <1>2, <1>3, <1>4, FS_Subset, AuthoringAssumption

LEMMA ReadyComplete ==
  ASSUME TypeInv, TeacherInv
  PROVE  MaterialIsComplete
<1> SUFFICES ASSUME OneTeacher
             PROVE  Rooted(db.question) /\ (Frozen(Status) => ReadyIsComplete)
  BY DEF MaterialIsComplete, ReadyIsComplete, ParentsAreATree
<1>1. Rooted(db.question) /\ TypedDb
  BY DEF TeacherInv, TypeInv
<1>2. ASSUME Frozen(Status)
      PROVE  ReadyIsComplete
  <2> DEFINE leaves == {q \in DOMAIN db.question : /\ q[1] = Latest /\ db.question[q].mode = "LEAF_SCORABLE"
                                                  /\ \A d \in DOMAIN db.question : db.question[d].parent # q}
  <2>1. Ready(Latest)
    BY <1>2 DEF TeacherInv
  <2>2. leaves = Leaves(Latest)
    BY <1>1, QuestionTyped DEF Leaves, QuestionsOf, Parents
  <2> HIDE DEF leaves
  <2>3. leaves # {} /\ Marks(db.question, leaves) = db.version[Latest].max
    BY <2>1, <2>2 DEF Ready, MarksReconcile, LeafMarks
  <2>4. ASSUME NEW q \in leaves
        PROVE  /\ \E k \in DOMAIN db.key : db.key[k].of = q /\ db.key[k].status = "APPROVED"
               /\ \E r \in DOMAIN db.rubric :
                    /\ r[1] = q /\ db.rubric[r].status = "APPROVED"
                    /\ Score(Criteria(r), DOMAIN Criteria(r), db.question[q].max) = db.question[q].max
                    /\ Score(Criteria(r), {}, db.question[q].max) = 0
    <3>1. ApprovedKeys(q) # {} /\ \E r \in ApprovedRubrics(q) : Reconciles(Criteria(r), db.question[q].max)
      BY <2>1, <2>2 DEF Ready
    <3>2. PICK r \in ApprovedRubrics(q) : Reconciles(Criteria(r), db.question[q].max)
      BY <3>1
    <3>3. db.question[q].max \in Nat
      <4>1. q \in DOMAIN db.question
        BY <2>4 DEF leaves
      <4> QED  BY <1>1, <4>1, QuestionTyped, AuthoringAssumption DEF QuestionRows
    <3>4. /\ Score(Criteria(r), DOMAIN Criteria(r), db.question[q].max) = db.question[q].max
          /\ Score(Criteria(r), {}, db.question[q].max) = 0
      BY <1>1, <3>2, <3>3, CriteriaTyped, PerfectAndEmpty
    <3> QED  BY <3>1, <3>2, <3>4 DEF ApprovedKeys, ApprovedRubrics
  <2> QED  BY <2>3, <2>4 DEF ReadyIsComplete, leaves
<1> QED  BY <1>1, <1>2

\* MaterialIsComplete: from READY on the leaves of the latest version carry its
\* marks, each has an approved key and an approved rubric under which a perfect
\* answer earns the marks and an empty one nothing, and no question is its own
\* ancestor; with one teacher and any tasks (ensure_assessment_ready).
THEOREM ReadyMaterialComplete == Spec => []MaterialIsComplete
BY TeacherAlways, ReadyComplete, PTL

-----------------------------------------------------------------------------
\* What is frozen or approved.
LEMMA WhoCommits ==
  ASSUME TypeInv, [Next]_vars, db' # db
  PROVE  \E s \in Sessions : Commit(s) /\ Accepted(session[s].tx) /\ db' = Applied(session[s].tx)
<1>1. ~(UNCHANGED vars) /\ ~Configure
  BY DEF vars, Configure
<1>2. ~ \E t \in Teachers : AskedWell(t) \/ Enqueue(t) \/ EnqueueFails(t)
  BY DEF AskedWell, Enqueue, EnqueueFails
<1>3. ~ \E w \in Workers : WorkerGoes(w)
  BY DEF WorkerGoes
<1>4. PICK s \in Sessions : Commit(s)
  BY <1>1, <1>2, <1>3, Steps
<1> QED  BY <1>4, CommitIs

LEMMA TeacherCommits ==
  ASSUME TypeInv, TeacherInv, OneTeacher, NEW s \in Teachers, Commit(s)
  PROVE  Careful(session[s].tx)
BY DEF TeacherInv, Commit

LEMMA WorkerCommits ==
  ASSUME TypeInv, NEW s \in Workers, Commit(s)
  PROVE  WorkerTx(session[s].tx) /\ s \in setting.workers
<1>1. Fits(s, session[s]) /\ s \notin Teachers /\ session[s].phase = "writing" /\ setting \in Settings
  BY AuthoringAssumption DEF TypeInv, Sessions, Commit
<1> QED  BY <1>1, AuthoringAssumption DEF Fits, Idle

LEMMA SameTables ==
  ASSUME NEW q, db'.key = db.key, db'.rubric = db.rubric, db'.criterion = db.criterion
  PROVE  Table(q)' = Table(q)
BY DEF Table, Criteria

LEMMA LeafStep ==
  ASSUME TypeInv, TeacherInv, [Next]_vars, OneTeacher, Frozen(Status), NEW q \in Leaves(Latest)
  PROVE  Table(q)' = Table(q)
<1>1. CASE db' = db
  BY <1>1, SameTables
<1>2. CASE db' # db
  <2>1. PICK s \in Sessions : Commit(s) /\ Accepted(session[s].tx) /\ db' = Applied(session[s].tx)
    BY <1>2, WhoCommits
  <2> DEFINE tx == session[s].tx
  <2>2. TypedDb /\ TypedTx(tx) /\ Ready(Latest)
    BY <2>1, CommitIs DEF TypeInv, TeacherInv
  <2>3. CASE s \in Teachers
    <3>1. Untouched(tx)
      BY <2>1, <2>3, TeacherCommits DEF Careful
    <3> QED  BY <2>1, <2>2, <3>1, QuietCommit, SameTables
  <2>4. CASE s \in Workers
    <3>1. WorkerTx(tx)
      BY <2>1, <2>4, WorkerCommits
    <3> HIDE DEF tx
    <3>2. /\ \A k \in DOMAIN db.key : k \in DOMAIN db'.key /\ db'.key[k] = db.key[k]
          /\ \A k \in DOMAIN db'.key : k \in DOMAIN db.key \/ db'.key[k].status = "REVIEW_REQUIRED"
          /\ \A r \in DOMAIN db.rubric : r \in DOMAIN db'.rubric /\ db'.rubric[r] = db.rubric[r]
          /\ \A r \in DOMAIN db'.rubric : r \in DOMAIN db.rubric \/ db'.rubric[r].status = "REVIEW_REQUIRED"
          /\ \A r \in DOMAIN db.rubric : Criteria(r)' = Criteria(r)
      BY <2>1, <2>2, <3>1, WorkerCommit DEF tx
    <3>3. OneActiveKey(db') /\ OneActiveRubric(db')
      BY <2>1 DEF Accepted
    <3>4. PICK k \in DOMAIN db.key : db.key[k].of = q /\ db.key[k].status = "APPROVED"
      BY <2>2 DEF Ready, ApprovedKeys
    <3>5. PICK r \in DOMAIN db.rubric : r[1] = q /\ db.rubric[r].status = "APPROVED"
      BY <2>2 DEF Ready, ApprovedRubrics
    <3>6. {i \in DOMAIN db'.key : db'.key[i].of = q} = {i \in DOMAIN db.key : db.key[i].of = q}
      <4>1. ASSUME NEW i \in DOMAIN db'.key, i \notin DOMAIN db.key, db'.key[i].of = q
            PROVE  FALSE
        <5>1. db'.key[i].status = "REVIEW_REQUIRED" /\ db'.key[k] = db.key[k] /\ k \in DOMAIN db'.key
          BY <3>2, <4>1
        <5>2. i = k
          BY <3>3, <3>4, <4>1, <5>1 DEF OneActiveKey, ActiveStatus
        <5> QED  BY <4>1, <5>2
      <4> QED  BY <3>2, <4>1
    <3>7. {i \in DOMAIN db'.rubric : i[1] = q} = {i \in DOMAIN db.rubric : i[1] = q}
      <4>1. ASSUME NEW i \in DOMAIN db'.rubric, i \notin DOMAIN db.rubric, i[1] = q
            PROVE  FALSE
        <5>1. db'.rubric[i].status = "REVIEW_REQUIRED" /\ db'.rubric[r] = db.rubric[r] /\ r \in DOMAIN db'.rubric
          BY <3>2, <4>1
        <5>2. i = r
          BY <3>3, <3>5, <4>1, <5>1 DEF OneActiveRubric, ActiveStatus
        <5> QED  BY <4>1, <5>2
      <4> QED  BY <3>2, <4>1
    <3> QED  BY <3>2, <3>6, <3>7 DEF Table
  <2> QED  BY <2>3, <2>4 DEF Sessions
<1> QED  BY <1>1, <1>2

LEMMA ConfigurationStep ==
  ASSUME TypeInv, TeacherInv, [Next]_vars, OneTeacher, setting.workers = {}, Frozen(Status)
  PROVE  /\ db'.key = db.key /\ db'.rubric = db.rubric /\ db'.criterion = db.criterion
         /\ db'.mapping = db.mapping /\ db'.question = db.question
<1>1. CASE db' # db
  <2>1. PICK s \in Sessions : Commit(s) /\ Accepted(session[s].tx) /\ db' = Applied(session[s].tx)
    BY <1>1, WhoCommits
  <2>2. s \in Teachers
    BY <2>1, WorkerCommits DEF Sessions
  <2>3. Untouched(session[s].tx) /\ TypedDb /\ TypedTx(session[s].tx)
    BY <2>1, <2>2, TeacherCommits, CommitIs DEF Careful, TypeInv
  <2> QED  BY <2>1, <2>3, QuietCommit
<1> QED  BY <1>1

LEMMA TeacherKeepsApproved ==
  ASSUME TypedDb, NEW tx, TypedTx(tx), KeepsApproved(tx), Accepted(tx), db' = Applied(tx)
  PROVE  /\ \A k \in DOMAIN db.key \cap DOMAIN db'.key :
              db.key[k].status \in {"APPROVED", "SUPERSEDED"}
              => /\ db'.key[k].text = db.key[k].text
                 /\ db'.key[k].status \in {db.key[k].status, "SUPERSEDED"}
         /\ \A r \in DOMAIN db.rubric \cap DOMAIN db'.rubric :
              db.rubric[r].status \in {"APPROVED", "SUPERSEDED"}
              => /\ Criteria(r)' = Criteria(r)
                 /\ db'.rubric[r].status \in {db.rubric[r].status, "SUPERSEDED"}
<1>1. {"key", "rubric", "criterion"} \subseteq Tables /\ \A t \in Tables : DOMAIN tx[t].new \cap DOMAIN db[t] = {}
  BY DEF Tables, Accepted
<1>2. ASSUME NEW t \in {"key", "rubric", "criterion"}, NEW i \in DOMAIN db[t] \cap DOMAIN db'[t]
      PROVE  db'[t][i] = IF i \in DOMAIN tx[t].set THEN Patched(tx[t].set[i], db[t][i]) ELSE db[t][i]
  <2>1. t \in Tables /\ t # "run" /\ i \notin DOMAIN tx[t].new
    BY <1>1, <1>2
  <2> QED  BY <2>1, AppliedRow, KeptRow DEF RowAfter
<1>3. ASSUME NEW k \in DOMAIN db.key \cap DOMAIN db'.key, db.key[k].status \in {"APPROVED", "SUPERSEDED"}
      PROVE  db'.key[k].text = db.key[k].text /\ db'.key[k].status \in {db.key[k].status, "SUPERSEDED"}
  <2>1. db'.key[k] = IF k \in DOMAIN tx["key"].set THEN Patched(tx["key"].set[k], db.key[k]) ELSE db.key[k]
    BY <1>2
  <2>2. k \in DOMAIN tx["key"].set => tx["key"].set[k] = [status |-> "SUPERSEDED"]
    BY <1>3 DEF KeepsApproved, Editable, Superseding
  <2>3. "status" \in DOMAIN db.key[k] /\ "text" \in DOMAIN db.key[k]
    <3>1. db.key[k] \in Rows["key"]
      BY KeyTyped
    <3> QED  BY <3>1, TablesAre
  <2> QED  BY <2>1, <2>2, <2>3 DEF Patched
<1>4. ASSUME NEW r \in DOMAIN db.rubric \cap DOMAIN db'.rubric, db.rubric[r].status \in {"APPROVED", "SUPERSEDED"}
      PROVE  Criteria(r)' = Criteria(r) /\ db'.rubric[r].status \in {db.rubric[r].status, "SUPERSEDED"}
  <2>1. db'.rubric[r] = IF r \in DOMAIN tx["rubric"].set THEN Patched(tx["rubric"].set[r], db.rubric[r]) ELSE db.rubric[r]
    BY <1>2
  <2>2. r \in DOMAIN tx["rubric"].set => tx["rubric"].set[r] = [status |-> "SUPERSEDED"]
    BY <1>4 DEF KeepsApproved, Editable, Superseding
  <2>3. "status" \in DOMAIN db.rubric[r]
    <3>1. db.rubric[r] \in Rows["rubric"]
      BY RubricTyped
    <3> QED  BY <3>1, TablesAre
  <2>4. db'.rubric[r].status \in {db.rubric[r].status, "SUPERSEDED"}
    BY <2>1, <2>2, <2>3 DEF Patched
  <2>5. \A c \in DOMAIN tx["criterion"].new \cup DOMAIN tx["criterion"].set \cup tx["criterion"].gone : c[1] # r
    BY <1>4 DEF KeepsApproved, Editable
  <2>6. r[1] \notin Deleted(tx)
    <3>1. r \notin Cascaded("rubric", tx)
      BY <1>1, <1>4, AppliedDomain
    <3> QED  BY <3>1, CascadedAre
  <2>7. {i \in DOMAIN db'.criterion : i[1] = r} = {i \in DOMAIN db.criterion : i[1] = r}
    <3>1. DOMAIN db'.criterion = ((DOMAIN db.criterion \cup DOMAIN tx["criterion"].new) \ tx["criterion"].gone) \ Cascaded("criterion", tx)
      BY <1>1, AppliedDomain
    <3>2. \A i \in Cascaded("criterion", tx) : i[1] # r
      BY <2>6, CascadedAre
    <3> QED  BY <2>5, <3>1, <3>2
  <2>8. \A i \in {i \in DOMAIN db.criterion : i[1] = r} : i = <<r, i[2]>> /\ db'.criterion[i] = db.criterion[i]
    <3>1. \A i \in DOMAIN db.criterion \cap DOMAIN db'.criterion : i \notin DOMAIN tx["criterion"].set => db'.criterion[i] = db.criterion[i]
      BY <1>2
    <3> QED  BY <2>5, <2>7, <3>1, RubricTyped
  <2>9. \A c \in {i[2] : i \in {i \in DOMAIN db.criterion : i[1] = r}} : db'.criterion[<<r, c>>] = db.criterion[<<r, c>>]
    BY <2>8
  <2> QED  BY <2>4, <2>7, <2>9 DEF Criteria
<1> QED  BY <1>3, <1>4

LEMMA ApprovedStep ==
  ASSUME TypeInv, TeacherInv, [Next]_vars, OneTeacher
  PROVE  /\ \A k \in DOMAIN db.key \cap DOMAIN db'.key :
              db.key[k].status \in {"APPROVED", "SUPERSEDED"}
              => /\ db'.key[k].text = db.key[k].text
                 /\ db'.key[k].status \in {db.key[k].status, "SUPERSEDED"}
         /\ \A r \in DOMAIN db.rubric \cap DOMAIN db'.rubric :
              db.rubric[r].status \in {"APPROVED", "SUPERSEDED"}
              => /\ Criteria(r)' = Criteria(r)
                 /\ db'.rubric[r].status \in {db.rubric[r].status, "SUPERSEDED"}
<1>1. CASE db' = db
  <2>1. \A r : Criteria(r)' = Criteria(r)
    BY <1>1 DEF Criteria
  <2> QED  BY <1>1, <2>1
<1>2. CASE db' # db
  <2>1. PICK s \in Sessions : Commit(s) /\ Accepted(session[s].tx) /\ db' = Applied(session[s].tx)
    BY <1>2, WhoCommits
  <2>2. TypedDb /\ TypedTx(session[s].tx)
    BY <2>1, CommitIs DEF TypeInv
  <2>3. CASE s \in Teachers
    <3>1. KeepsApproved(session[s].tx)
      BY <2>1, <2>3, TeacherCommits DEF Careful
    <3> QED  BY <2>1, <2>2, <3>1, TeacherKeepsApproved
  <2>4. CASE s \in Workers
    <3>1. WorkerTx(session[s].tx)
      BY <2>1, <2>4, WorkerCommits
    <3>2. /\ \A k \in DOMAIN db.key : db'.key[k] = db.key[k]
          /\ \A r \in DOMAIN db.rubric : db'.rubric[r] = db.rubric[r]
          /\ \A r \in DOMAIN db.rubric : Criteria(r)' = Criteria(r)
      BY <2>1, <2>2, <3>1, WorkerCommit
    <3> QED  BY <3>2
  <2> QED  BY <2>3, <2>4 DEF Sessions
<1> QED  BY <1>1, <1>2

\* FreezeHolds: from READY on the keys and the rubrics of the scorable leaves
\* stay what they were, also when a proposal comes late; without tasks nothing of
\* the configuration changes; and what was approved keeps its content
\* (academic_freeze.py, uq_answer_key_versions_active_question).
THEOREM FrozenStays == Spec => FreezeHolds
<1>1. ASSUME TypeInv, TeacherInv, [Next]_vars
      PROVE  OneTeacher /\ Frozen(Status) /\ Frozen(Status)' =>
               \A q \in DOMAIN db.question :
                 q[1] = Latest /\ db.question[q].mode = "LEAF_SCORABLE" /\ q \notin Parents(Latest)
                 => Table(q)' = Table(q)
  <2>1. \A q \in DOMAIN db.question :
          q[1] = Latest /\ db.question[q].mode = "LEAF_SCORABLE" /\ q \notin Parents(Latest) => q \in Leaves(Latest)
    BY DEF Leaves, QuestionsOf
  <2> QED  BY <1>1, <2>1, LeafStep
<1>2. ASSUME TypeInv, TeacherInv, [Next]_vars
      PROVE  OneTeacher /\ setting.workers = {} /\ Frozen(Status) =>
               /\ db.key' = db.key /\ db.rubric' = db.rubric /\ db.criterion' = db.criterion
               /\ db.mapping' = db.mapping /\ db.question' = db.question
  BY <1>2, ConfigurationStep
<1> QED  BY <1>1, <1>2, ApprovedStep, TeacherAlways, PTL
        DEF Spec, FreezeHolds, LeafMaterialStays, ConfigurationStays, ApprovedIsImmutable

-----------------------------------------------------------------------------
\* What happens to runs.
LEMMA RunCommit ==
  ASSUME TypedDb, NEW tx, TypedTx(tx), Accepted(tx), db' = Applied(tx), NEW r \in DOMAIN db.run
  PROVE  /\ r \in DOMAIN db'.run /\ db'.run[r].op = db.run[r].op /\ db'.run[r].version = db.run[r].version
         /\ \/ r \in DOMAIN tx["run"].set
            \/ db'.run[r].status = db.run[r].status /\ db'.run[r].tree = db.run[r].tree
         /\ \/ db'.run[r].status = db.run[r].status
            \/ /\ r \in DOMAIN tx["run"].set /\ "status" \in DOMAIN tx["run"].set[r]
               /\ db'.run[r].status = tx["run"].set[r].status
<1> DEFINE set == tx["run"].set
           row == RowAfter("run", r, tx)
<1>1. /\ "run" \in Tables /\ r \in DOMAIN db'.run /\ r \notin DOMAIN tx["run"].new
      /\ \A i \in DOMAIN set : set[i] \in Columns["run"]
  BY AppliedKeeps DEF Accepted, Tables, TypedTx, TypedChange
<1>2. db'.run[r] = Forgotten("run", row, tx)
  BY <1>1, AppliedRow
<1>3. row = IF r \in DOMAIN set THEN Patched(set[r], db.run[r]) ELSE db.run[r]
  BY <1>1 DEF RowAfter
<1>4. DOMAIN db.run[r] = {"op", "version", "of", "input", "status", "tree", "nodes"}
  BY RunTyped DEF RunRows
<1>5. /\ DOMAIN row = DOMAIN db.run[r] /\ row.op = db.run[r].op /\ row.version = db.run[r].version
      /\ r \in DOMAIN set \/ row = db.run[r]
      /\ \/ row.status = db.run[r].status
         \/ r \in DOMAIN set /\ "status" \in DOMAIN set[r] /\ row.status = set[r].status
  <2>1. CASE r \in DOMAIN set
    <3>1. DOMAIN set[r] \subseteq {"status", "tree", "nodes"}
      BY <1>1, <2>1, ColumnsAre
    <3> QED  BY <1>3, <1>4, <2>1, <3>1 DEF Patched
  <2> QED  BY <1>3, <2>1
<1> HIDE DEF row
<1>6. /\ db'.run[r].op = row.op /\ db'.run[r].version = row.version
      /\ db'.run[r].status = row.status /\ db'.run[r].tree = row.tree
  BY <1>2, <1>4, <1>5 DEF Forgotten
<1> QED  BY <1>1, <1>5, <1>6

LEMMA OnlyWorker ==
  ASSUME TypeInv, OneWorker, NEW w \in Workers, NEW u \in Workers, session[w] # Idle, session[u] # Idle
  PROVE  w = u
<1>1. IsFiniteSet(setting.workers) /\ Cardinality(setting.workers) <= 1 /\ setting.teachers \subseteq Teachers
  BY AuthoringAssumption DEF TypeInv, OneWorker
<1>2. w \in setting.workers /\ u \in setting.workers
  BY <1>1, AuthoringAssumption DEF TypeInv, Fits, Sessions
<1>3. Cardinality(setting.workers) \in Nat /\ Cardinality(setting.workers) # 0
  BY <1>1, <1>2, FS_CardinalityType, FS_EmptySet
<1>4. Cardinality(setting.workers) = 1
  BY <1>1, <1>3
<1>5. PICK x : setting.workers = {x}
  BY <1>1, <1>4, FS_Singleton
<1> QED  BY <1>2, <1>5

LEMMA HeldIs ==
  ASSUME TypeInv, NEW w \in Workers, Held(w)
  PROVE  session[w] # Idle /\ session[w].run \in DOMAIN db.run
BY AuthoringAssumption DEF TypeInv, Sessions, Fits, Held, Idle

\* What a session was about it still is, or it is about nothing.
LEMMA QuietRunInv ==
  ASSUME TypeInv, RunInv, db' = db, setting' = setting,
         \A t \in Teachers : session'[t] = session[t] \/ session'[t].phase # "writing",
         \A w \in Workers : session'[w] = session[w] \/ session'[w] = Idle
  PROVE  RunInv'
<1>1. \A t \in Teachers : Applying(t)' \subseteq Applying(t)
  BY DEF Applying
<1>2. \A w \in Workers : Held(w)' => Held(w) /\ session'[w] = session[w]
  BY DEF Held, Idle
<1>3. \A w \in Workers : Honest(session[w])'
  <2>1. ASSUME NEW w \in Workers
        PROVE  Honest(session[w])'
    <3>1. PICK y : y = session'[w]
      OBVIOUS
    <3>2. Honest(y)
      BY <3>1 DEF RunInv, Honest, Idle
    <3> QED  BY <3>1, <3>2 DEF Honest
  <2> QED  BY <2>1
<1>4. OneWorker' => OneWorker
  BY DEF OneWorker
<1>5. \A t \in Teachers : session'[t].phase = "writing" => session'[t] = session[t]
  OBVIOUS
<1> QED  BY <1>1, <1>2, <1>3, <1>4, <1>5 DEF RunInv

LEMMA AskedRunInv ==
  ASSUME TypeInv, RunInv, NEW t \in Teachers, AskedWell(t)
  PROVE  RunInv'
<1>1. PICK tx, then : /\ session' = [session EXCEPT ![t] = Writing(tx, NoRun, then)]
                      /\ UNCHANGED <<db, queue, provider, setting>> /\ TeacherTx(tx)
  BY DEF AskedWell
<1>2. /\ \A u \in Teachers \ {t} : session'[u] = session[u]
      /\ session'[t].phase = "writing" /\ session'[t].tx = tx
      /\ \A w \in Workers : session'[w] = session[w]
  BY <1>1, WritingIs, AuthoringAssumption DEF TypeInv, Sessions
<1>3. /\ \A u \in Teachers \ {t} : Applying(u)' = Applying(u)
      /\ \A r \in Applying(t)' : r \in DOMAIN db.run /\ db.run[r].status = "REVIEW_REQUIRED"
  BY <1>1, <1>2 DEF Applying, TeacherTx
<1>4. \A w \in Workers : (Held(w)' <=> Held(w)) /\ (Honest(session[w])' <=> Honest(session[w]))
  BY <1>1, <1>2 DEF Held, Honest
<1>5. \A u \in Teachers : session'[u].phase = "writing" =>
        LET set == session'[u].tx["run"].set
        IN  \A r \in DOMAIN set : "status" \in DOMAIN set[r] => set[r].status \in {"UNAVAILABLE", "SUCCEEDED"}
  BY <1>1, <1>2 DEF TeacherTx, RunInv
<1>6. OneWorker' <=> OneWorker
  BY <1>1 DEF OneWorker
<1>7. ASSUME OneWorker, NEW w \in Workers, Held(w)
      PROVE  /\ db'.run[session'[w].run].status \notin {"REVIEW_REQUIRED", "SUCCEEDED"}
             /\ \A u \in Teachers : session'[w].run \notin Applying(u)'
  BY <1>1, <1>2, <1>3, <1>7 DEF RunInv
<1>8. ASSUME OneWorker, NEW u \in Teachers, NEW r \in Applying(u)'
      PROVE  r \in DOMAIN db'.run /\ db'.run[r].status \in Settled
  BY <1>1, <1>3, <1>8 DEF RunInv, Settled
<1> QED  BY <1>4, <1>5, <1>6, <1>7, <1>8 DEF RunInv

LEMMA WorkerRunInv ==
  ASSUME TypeInv, RunInv, NEW w \in Workers, WorkerGoes(w)
  PROVE  RunInv'
<1>1. PICK x : /\ session' = [session EXCEPT ![w] = x] /\ UNCHANGED <<db, provider, setting>>
               /\ Fits(w, x) /\ (x = Idle \/ Takes(w, x.run)) /\ Honest(x)
  BY DEF WorkerGoes
<1>2. /\ \A u \in Workers \ {w} : session'[u] = session[u]
      /\ session'[w] = x /\ \A t \in Teachers : session'[t] = session[t]
  BY <1>1, AuthoringAssumption DEF TypeInv, Sessions
<1>3. CASE x = Idle
  BY <1>1, <1>2, <1>3, QuietRunInv
<1>4. CASE Takes(w, x.run)
  <2>1. \A t \in Teachers : Applying(t)' = Applying(t)
    BY <1>2 DEF Applying
  <2>2. \A u \in Workers : Honest(session[u])'
    <3>1. ASSUME NEW u \in Workers
          PROVE  Honest(session[u])'
      <4>1. PICK y : y = session'[u]
        OBVIOUS
      <4>2. Honest(y)
        BY <1>1, <1>2, <4>1 DEF RunInv
      <4> QED  BY <1>1, <4>1, <4>2 DEF Honest
    <3> QED  BY <3>1
  <2>3. \A u \in Workers \ {w} : Held(u)' <=> Held(u)
    BY <1>2 DEF Held
  <2>4. ASSUME OneWorker
        PROVE  /\ db.run[x.run].status \notin {"REVIEW_REQUIRED", "SUCCEEDED"}
               /\ \A t \in Teachers : x.run \notin Applying(t)
    <3>1. CASE session[w].phase \in {"taken", "working"} /\ session[w].run = x.run
      BY <2>4, <3>1 DEF RunInv, Held
    <3>2. CASE db.run[x.run].status \notin Settled
      BY <2>4, <3>2 DEF RunInv, Settled
    <3> QED  BY <1>4, <3>1, <3>2 DEF Takes
  <2>5. OneWorker' <=> OneWorker
    BY <1>1 DEF OneWorker
  <2>6. ASSUME OneWorker, NEW u \in Workers, Held(u)'
        PROVE  /\ db'.run[session'[u].run].status \notin {"REVIEW_REQUIRED", "SUCCEEDED"}
               /\ \A t \in Teachers : session'[u].run \notin Applying(t)'
    BY <1>1, <1>2, <2>1, <2>3, <2>4, <2>6 DEF RunInv
  <2>7. ASSUME OneWorker, NEW t \in Teachers, NEW r \in Applying(t)'
        PROVE  r \in DOMAIN db'.run /\ db'.run[r].status \in Settled
    BY <1>1, <2>1, <2>7 DEF RunInv
  <2> QED  BY <1>2, <2>2, <2>5, <2>6, <2>7 DEF RunInv
<1> QED  BY <1>1, <1>3, <1>4

\* Who is about to commit what of runs.
LEMMA CommitRuns ==
  ASSUME TypeInv, RunInv, NEW s \in Sessions, Commit(s)
  PROVE  LET set == session[s].tx["run"].set
         IN  /\ s \in Teachers => \A r \in DOMAIN set :
                  "status" \in DOMAIN set[r] => \/ set[r].status = "UNAVAILABLE"
                                                \/ set[r].status = "SUCCEEDED" /\ r \in Applying(s)
             /\ s \in Workers => Held(s) /\ DOMAIN set = {session[s].run}
<1>1. session[s].phase = "writing" /\ Fits(s, session[s])
  BY DEF TypeInv, Commit
<1>2. s \in Workers => Held(s) /\ DOMAIN session[s].tx["run"].set = {session[s].run}
  BY <1>1 DEF Held, Fits
<1>3. ASSUME s \in Teachers, NEW r \in DOMAIN session[s].tx["run"].set, "status" \in DOMAIN session[s].tx["run"].set[r]
      PROVE  \/ session[s].tx["run"].set[r].status = "UNAVAILABLE"
             \/ session[s].tx["run"].set[r].status = "SUCCEEDED" /\ r \in Applying(s)
  <2>1. session[s].tx["run"].set[r].status \in {"UNAVAILABLE", "SUCCEEDED"}
    BY <1>1, <1>3 DEF RunInv
  <2> QED  BY <1>1, <1>3, <2>1 DEF Applying, Succeeds
<1> QED  BY <1>2, <1>3

LEMMA CommitRunInv ==
  ASSUME TypeInv, RunInv, NEW s \in Sessions, Commit(s), Accepted(session[s].tx), db' = Applied(session[s].tx)
  PROVE  RunInv'
<1> DEFINE tx == session[s].tx
           set == tx["run"].set
<1>1. /\ TypedDb /\ TypedTx(tx) /\ setting' = setting /\ session[s] # Idle /\ session'[s].phase # "writing"
      /\ \A o \in Sessions \ {s} : session'[o] = session[o]
      /\ s \in Workers => session'[s] = Idle
  BY CommitIs, AuthoringAssumption DEF TypeInv
<1>2. ASSUME NEW r \in DOMAIN db.run
      PROVE  /\ r \in DOMAIN db'.run /\ db'.run[r].op = db.run[r].op
             /\ \/ db'.run[r].status = db.run[r].status
                \/ /\ r \in DOMAIN set /\ "status" \in DOMAIN set[r]
                   /\ db'.run[r].status = set[r].status
  BY <1>1, RunCommit
<1>3. /\ s \in Teachers => \A r \in DOMAIN set :
           "status" \in DOMAIN set[r] => \/ set[r].status = "UNAVAILABLE"
                                         \/ set[r].status = "SUCCEEDED" /\ r \in Applying(s)
      /\ s \in Workers => Held(s) /\ DOMAIN set = {session[s].run}
  BY CommitRuns
<1> HIDE DEF set
<1>4. /\ \A t \in Teachers : Applying(t)' \subseteq Applying(t)
      /\ \A t \in Teachers : session'[t].phase = "writing" => session'[t] = session[t]
  BY <1>1 DEF Applying, Sessions
<1>5. \A w \in Workers : Held(w)' => Held(w) /\ session'[w] = session[w] /\ w # s
  BY <1>1 DEF Held, Idle, Sessions
<1>6. ASSUME NEW w \in Workers
      PROVE  Honest(session[w])'
  <2>1. CASE w = s
    <3>1. PICK y : y = session'[s] /\ y.phase # "writing"
      BY <1>1
    <3> QED  BY <2>1, <3>1 DEF Honest
  <2>2. CASE w # s
    <3>1. PICK y : y = session'[w] /\ y = session[w]
      BY <1>1, <2>2 DEF Sessions
    <3>2. Honest(y) /\ Fits(w, y) /\ w \notin Teachers
      BY <3>1, AuthoringAssumption DEF RunInv, TypeInv, Sessions
    <3>3. y.phase = "writing" => y.run \in DOMAIN db.run
      BY <3>2 DEF Fits
    <3>4. y.phase = "writing" => db'.run[y.run].op = db.run[y.run].op
      BY <1>2, <3>3
    <3> QED  BY <3>1, <3>2, <3>4 DEF Honest
  <2> QED  BY <2>1, <2>2
<1>7. OneWorker' <=> OneWorker
  BY <1>1 DEF OneWorker
<1>8. ASSUME OneWorker, NEW w \in Workers, Held(w)'
      PROVE  /\ db'.run[session'[w].run].status \notin {"REVIEW_REQUIRED", "SUCCEEDED"}
             /\ \A t \in Teachers : session'[w].run \notin Applying(t)'
  <2> DEFINE r == session[w].run
  <2>1. Held(w) /\ session'[w] = session[w] /\ w # s /\ session[w] # Idle /\ r \in DOMAIN db.run
    BY <1>5, <1>8, HeldIs
  <2>2. s \in Teachers
    BY <1>1, <1>8, <2>1, OnlyWorker DEF Sessions
  <2>3. db.run[r].status \notin {"REVIEW_REQUIRED", "SUCCEEDED"} /\ \A t \in Teachers : r \notin Applying(t)
    BY <1>8, <2>1 DEF RunInv
  <2>4. db'.run[r].status \notin {"REVIEW_REQUIRED", "SUCCEEDED"}
    BY <1>2, <1>3, <2>1, <2>2, <2>3
  <2> QED  BY <1>4, <2>1, <2>3, <2>4
<1>9. ASSUME OneWorker, NEW t \in Teachers, NEW r \in Applying(t)'
      PROVE  r \in DOMAIN db'.run /\ db'.run[r].status \in Settled
  <2>1. r \in Applying(t) /\ r \in DOMAIN db.run /\ db.run[r].status \in Settled
    BY <1>4, <1>9 DEF RunInv
  <2>2. CASE s \in Teachers
    BY <1>2, <1>3, <2>1, <2>2 DEF Settled
  <2>3. CASE s \in Workers
    <3>1. r # session[s].run
      BY <1>3, <1>9, <2>1, <2>3 DEF RunInv
    <3> QED  BY <1>2, <1>3, <2>1, <2>3, <3>1
  <2> QED  BY <2>2, <2>3 DEF Sessions
<1>10. \A t \in Teachers : session'[t].phase = "writing" =>
         \A r \in DOMAIN session'[t].tx["run"].set :
           "status" \in DOMAIN session'[t].tx["run"].set[r]
           => session'[t].tx["run"].set[r].status \in {"UNAVAILABLE", "SUCCEEDED"}
  BY <1>4 DEF RunInv
<1> QED  BY <1>6, <1>7, <1>8, <1>9, <1>10 DEF RunInv

LEMMA RunStep ==
  ASSUME TypeInv, RunInv, [Next]_vars
  PROVE  RunInv'
<1>1. CASE UNCHANGED vars \/ Configure
  <2>1. db' = db /\ session' = session /\ setting' = setting
    BY <1>1 DEF vars, Configure
  <2> QED  BY <2>1, QuietRunInv
<1>2. ASSUME NEW t \in Teachers, Enqueue(t) \/ EnqueueFails(t)
      PROVE  RunInv'
  <2>1. /\ \A u \in Teachers : session'[u] = IF u = t THEN Idle ELSE session[u]
        /\ \A w \in Workers : session'[w] = session[w]
    BY <1>2, AuthoringAssumption DEF TypeInv, Sessions, Enqueue, EnqueueFails
  <2> QED  BY <1>2, <2>1, QuietRunInv DEF Enqueue, EnqueueFails, Idle
<1>3. ASSUME NEW s \in Sessions, Commit(s)
      PROVE  RunInv'
  <2>1. CASE db' = db
    <3>1. /\ setting' = setting /\ \A o \in Sessions \ {s} : session'[o] = session[o]
          /\ session'[s].phase # "writing" /\ (s \in Workers => session'[s] = Idle)
      BY <1>3, CommitIs, AuthoringAssumption
    <3>2. \A w \in Workers : session'[w] = session[w] \/ session'[w] = Idle
      BY <3>1 DEF Sessions
    <3> QED  BY <2>1, <3>1, <3>2, QuietRunInv DEF Sessions
  <2>2. CASE Accepted(session[s].tx) /\ db' = Applied(session[s].tx)
    BY <1>3, <2>2, CommitRunInv
  <2> QED  BY <1>3, <2>1, <2>2, CommitIs
<1> QED  BY <1>1, <1>2, <1>3, Steps, AskedRunInv, WorkerRunInv

LEMMA RunInit ==
  ASSUME Init
  PROVE  RunInv
<1>1. \A s \in Sessions : session[s].phase = "idle"
  BY DEF Init, Idle
<1>2. \A t \in Teachers : Applying(t) = {}
  BY <1>1 DEF Applying, Sessions
<1> QED  BY <1>1, <1>2 DEF RunInv, Honest, Held, Sessions

LEMMA OnceStep ==
  ASSUME TypeInv, RunInv, [Next]_vars, OneWorker, NEW r \in DOMAIN db.run, db.run[r].status = "SUCCEEDED"
  PROVE  db'.run[r].status # "REVIEW_REQUIRED"
<1>1. CASE db' # db
  <2>1. PICK s \in Sessions : Commit(s) /\ Accepted(session[s].tx) /\ db' = Applied(session[s].tx)
    BY <1>1, WhoCommits
  <2> DEFINE set == session[s].tx["run"].set
  <2>2. /\ s \in Teachers => \A i \in DOMAIN set :
             "status" \in DOMAIN set[i] => \/ set[i].status = "UNAVAILABLE"
                                           \/ set[i].status = "SUCCEEDED" /\ i \in Applying(s)
        /\ s \in Workers => Held(s) /\ DOMAIN set = {session[s].run}
    BY <2>1, CommitRuns
  <2>3. TypedDb /\ TypedTx(session[s].tx)
    BY <2>1, CommitIs DEF TypeInv
  <2>4. \/ db'.run[r].status = db.run[r].status
        \/ r \in DOMAIN set /\ "status" \in DOMAIN set[r] /\ db'.run[r].status = set[r].status
    BY <2>1, <2>3, RunCommit
  <2> HIDE DEF set
  <2>5. s \in Workers => r \notin DOMAIN set
    BY <2>2 DEF RunInv
  <2> QED  BY <2>2, <2>4, <2>5 DEF Sessions
<1> QED  BY <1>1

-----------------------------------------------------------------------------
\* A tree, from the request that applies it to its commit.
LEMMA TreeStep ==
  ASSUME TypeInv, RunInv, TreeInv, [Next]_vars
  PROVE  TreeInv'
<1>1. SUFFICES ASSUME OneTeacher', OneWorker', NEW t \in Teachers, NEW r \in Applying(t)', db'.run[r].op = PARSE
               PROVE  TreeReady(session[t].tx, r)'
  BY DEF TreeInv
<1>2. session'[t].phase = "writing" /\ r \in DOMAIN session'[t].tx["run"].set /\ Succeeds(session'[t].tx["run"].set[r])
  BY <1>1 DEF Applying
<1>3. ASSUME OneTeacher, OneWorker, session'[t] = session[t], r \in DOMAIN db.run => db'.run[r] = db.run[r],
             db'.question = db.question, db'.version = db.version
      PROVE  TreeReady(session[t].tx, r)'
  <2>1. r \in Applying(t) /\ r \in DOMAIN db.run
    BY <1>2, <1>3 DEF Applying, RunInv
  <2>2. TreeReady(session[t].tx, r)
    BY <1>1, <1>3, <2>1 DEF TreeInv
  <2> QED  BY <1>3, <2>1, <2>2 DEF TreeReady, QuestionsOf
<1>4. setting' = setting => OneTeacher /\ OneWorker
  BY <1>1 DEF OneTeacher, OneWorker
<1>5. CASE UNCHANGED vars \/ Configure
  BY <1>3, <1>4, <1>5 DEF vars, Configure
<1>6. ASSUME NEW u \in Teachers, Enqueue(u) \/ EnqueueFails(u)
      PROVE  TreeReady(session[t].tx, r)'
  <2>1. session'[t] = IF t = u THEN Idle ELSE session[t]
    BY <1>6 DEF TypeInv, Sessions, Enqueue, EnqueueFails
  <2> QED  BY <1>2, <1>3, <1>4, <1>6, <2>1 DEF Enqueue, EnqueueFails, Idle
<1>7. ASSUME NEW w \in Workers, WorkerGoes(w)
      PROVE  TreeReady(session[t].tx, r)'
  <2>1. session'[t] = session[t]
    BY <1>7, AuthoringAssumption DEF WorkerGoes, TypeInv, Sessions
  <2> QED  BY <1>3, <1>4, <1>7, <2>1 DEF WorkerGoes
<1>8. ASSUME NEW u \in Teachers, AskedWell(u)
      PROVE  TreeReady(session[t].tx, r)'
  <2>1. PICK tx, then : /\ session' = [session EXCEPT ![u] = Writing(tx, NoRun, then)]
                        /\ UNCHANGED <<db, queue, provider, setting>> /\ TeacherTx(tx)
    BY <1>8 DEF AskedWell
  <2>2. session'[t] = IF t = u THEN Writing(tx, NoRun, then) ELSE session[t]
    BY <2>1 DEF TypeInv, Sessions
  <2>3. CASE t = u
    <3>1. session'[t].tx = tx
      BY <2>2, <2>3, WritingIs
    <3>2. TreeReady(tx, r)
      BY <1>1, <1>2, <2>1, <3>1 DEF TeacherTx
    <3> QED  BY <2>1, <3>1, <3>2 DEF TreeReady, QuestionsOf
  <2> QED  BY <1>3, <1>4, <2>1, <2>2, <2>3
<1>9. ASSUME NEW s \in Sessions, Commit(s)
      PROVE  TreeReady(session[t].tx, r)'
  <2>1. /\ TypedTx(session[s].tx) /\ session[s] # Idle /\ setting' = setting
        /\ session'[t] = session[t] /\ t # s
    BY <1>2, <1>9, CommitIs DEF Sessions
  <2>2. CASE db' = db
    BY <1>3, <1>4, <2>1, <2>2
  <2>3. CASE Accepted(session[s].tx) /\ db' = Applied(session[s].tx)
    <3>1. s \in Workers
      BY <1>2, <1>4, <2>1, OnlyTeacher DEF Sessions, Idle
    <3>2. WorkerTx(session[s].tx) /\ TypedDb
      BY <1>9, <3>1, WorkerCommits DEF TypeInv
    <3>3. db'.question = db.question /\ db'.version = db.version
      BY <2>1, <2>3, <3>2, WorkerCommit
    <3>4. r \in Applying(t) /\ r \in DOMAIN db.run
      BY <1>2, <1>4, <2>1 DEF Applying, RunInv
    <3>5. r \notin DOMAIN session[s].tx["run"].set
      BY <1>4, <1>9, <2>1, <3>1, <3>4, CommitRuns DEF RunInv
    <3>6. /\ db'.run[r].op = db.run[r].op /\ db'.run[r].version = db.run[r].version
          /\ db'.run[r].tree = db.run[r].tree
      BY <2>1, <2>3, <3>2, <3>4, <3>5, RunCommit
    <3>7. TreeReady(session[t].tx, r)
      BY <1>1, <1>4, <2>1, <3>4, <3>6 DEF TreeInv
    <3> QED  BY <2>1, <3>3, <3>6, <3>7 DEF TreeReady, QuestionsOf
  <2> QED  BY <1>9, <2>2, <2>3, CommitIs
<1> QED  BY <1>5, <1>6, <1>7, <1>8, <1>9, Steps

LEMMA ProposalsAlways == Spec => [](TypeInv /\ TeacherInv /\ RunInv /\ TreeInv)
<1>1. ASSUME Init
      PROVE  TreeInv
  BY <1>1 DEF Init, TreeInv, Applying, Sessions, Idle
<1> QED  BY <1>1, TypeInit, TypeStep, TeacherInit, TeacherStep, RunInit, RunStep, TreeStep, PTL DEF Spec

\* The leaves of a valid tree are the leaves of the version it is applied to.
LEMMA TreeApplied ==
  ASSUME TypedDb, NEW v \in DOMAIN db.version, NEW tree \in Trees, NEW max, ValidTree(tree, max),
         QuestionsOf(v) = {}, db'.question = Edited(db.question, Inserts(TreeRows(v, tree)))
  PROVE  {q[2] : q \in QuestionsOf(v)'} = DOMAIN tree /\ LeafMarks(v)' = max
<1> DEFINE leaves == {c \in DOMAIN tree : tree[c].mode = "LEAF_SCORABLE"}
           h == [c \in leaves |-> <<v, c>>]
<1>1. /\ TreeShaped(tree) /\ MarkValues \subseteq Nat /\ v \in 1 .. MaxVersions
      /\ IsFiniteSet(DOMAIN tree)
  BY AuthoringAssumption, TypedRows, TablesAre DEF Tables, TreeShaped
<1>2. PICK rows : rows = TreeRows(v, tree)
  OBVIOUS
<1>3. PICK next : next = db'.question
  OBVIOUS
<1>4. /\ DOMAIN rows = {<<v, c>> : c \in DOMAIN tree}
      /\ \A c \in DOMAIN tree :
           /\ rows[<<v, c>>].max = tree[c].max /\ rows[<<v, c>>].mode = tree[c].mode
           /\ rows[<<v, c>>].parent = IF tree[c].parent = "none" THEN NoQuestion ELSE <<v, tree[c].parent>>
  BY <1>2 DEF TreeRows, QuestionRow
<1>5. /\ DOMAIN next = DOMAIN db.question \cup DOMAIN rows
      /\ \A x \in DOMAIN rows : next[x] = rows[x]
  BY <1>2, <1>3, ChangesAre DEF Edited
<1>6. QuestionsOf(v)' = DOMAIN rows
  BY <1>3, <1>4, <1>5 DEF QuestionsOf
<1>7. {q[2] : q \in QuestionsOf(v)'} = DOMAIN tree
  <2>1. \A q \in DOMAIN rows : q[2] \in DOMAIN tree
    BY <1>4
  <2>2. \A c \in DOMAIN tree : \E q \in DOMAIN rows : c = q[2]
    <3>1. \A c \in DOMAIN tree : <<v, c>> \in DOMAIN rows /\ c = <<v, c>>[2]
      BY <1>4
    <3> QED  BY <3>1
  <2> QED  BY <1>6, <2>1, <2>2
<1>8. Parents(v)' = {next[q].parent : q \in DOMAIN rows}
  BY <1>3, <1>6 DEF Parents
<1>9. ASSUME NEW c \in leaves
      PROVE  <<v, c>> \notin Parents(v)'
  <2>1. \A d \in DOMAIN tree : tree[d].parent # c
    BY <1>9 DEF ValidTree, ChildrenIn
  <2>2. ASSUME NEW d \in DOMAIN tree
        PROVE  next[<<v, d>>].parent # <<v, c>>
    <3>1. next[<<v, d>>].parent = IF tree[d].parent = "none" THEN NoQuestion ELSE <<v, tree[d].parent>>
      BY <1>4, <1>5
    <3>2. NoQuestion # <<v, c>>
      BY <1>1, AuthoringAssumption DEF NoQuestion
    <3> QED  BY <2>1, <3>1, <3>2
  <2> QED  BY <1>4, <1>8, <2>2
<1>10. Leaves(v)' = {<<v, c>> : c \in leaves}
  <2>1. Leaves(v)' = {q \in DOMAIN rows \ Parents(v)' : next[q].mode = "LEAF_SCORABLE"}
    BY <1>3, <1>6 DEF Leaves
  <2>2. \A c \in DOMAIN tree : next[<<v, c>>].mode = tree[c].mode
    BY <1>4, <1>5
  <2> QED  BY <1>4, <1>9, <2>1, <2>2
<1>11. {<<v, c>> : c \in leaves} = {h[c] : c \in leaves}
  OBVIOUS
<1>12. IsFiniteSet(leaves)
  BY <1>1, FS_Subset
<1>13. \A c \in leaves : tree[c].max \in Nat /\ next[h[c]].max = tree[c].max
  <2>1. \A c \in leaves : tree[c].max \in Nat
    BY <1>1 DEF TreeShaped, RowsIn
  <2> QED  BY <1>4, <1>5, <2>1
<1>14. \A c, d \in leaves : h[c] = h[d] => c = d
  OBVIOUS
<1>15. DOMAIN h = leaves /\ h = [c \in leaves |-> h[c]]
  OBVIOUS
<1>16. max = Marks(tree, leaves)
  BY DEF ValidTree, Total
<1>17. LeafMarks(v)' = Marks(next, {h[c] : c \in leaves})
  BY <1>3, <1>10, <1>11 DEF LeafMarks
<1> HIDE DEF leaves, h
<1>18. Marks(next, {h[c] : c \in leaves}) = Marks(tree, leaves)
  BY <1>12, <1>13, <1>14, <1>15, MarksRenamed
<1> QED  BY <1>7, <1>16, <1>17, <1>18

LEMMA WholeStep ==
  ASSUME TypeInv, RunInv, TreeInv, [Next]_vars, OneTeacher, OneWorker, NEW r \in DOMAIN db.run, NEW v,
         v = db.run[r].version, db.run[r].op = PARSE, db.run[r].status # "SUCCEEDED", db'.run[r].status = "SUCCEEDED"
  PROVE  /\ db'.run[r].version = v
         /\ {q[2] : q \in QuestionsOf(v)'} = DOMAIN db.run[r].tree
         /\ LeafMarks(v)' = db'.version[v].max
<1>1. PICK s \in Sessions : Commit(s) /\ Accepted(session[s].tx) /\ db' = Applied(session[s].tx)
  BY WhoCommits
<1> DEFINE tx == session[s].tx
           set == tx["run"].set
<1>2. TypedDb /\ TypedTx(tx) /\ v \in DOMAIN db.version
  BY <1>1, CommitIs, RunTyped DEF TypeInv
<1>3. /\ r \in DOMAIN set /\ Succeeds(set[r]) /\ db'.run[r].version = v
  BY <1>1, <1>2, RunCommit DEF Succeeds
<1>4. s \in Teachers
  <2>1. ASSUME s \in Workers
        PROVE  FALSE
    <3>1. session[s].phase = "writing" /\ Honest(session[s])
      BY <1>1, <2>1 DEF Commit, RunInv
    <3>2. set = session[s].tx["run"].set
      OBVIOUS
    <3> HIDE DEF set
    <3>3. DOMAIN set = {session[s].run}
      BY <1>1, <2>1, <3>2, CommitRuns
    <3>4. r = session[s].run /\ Succeeds(session[s].tx["run"].set[session[s].run])
      BY <1>3, <3>2, <3>3
    <3> QED  BY <3>1, <3>4 DEF Honest
  <2> QED  BY <2>1 DEF Sessions
<1>5. r \in Applying(s)
  BY <1>1, <1>3, <1>4 DEF Applying, Commit
<1>6. TreeReady(tx, r)
  BY <1>4, <1>5 DEF TreeInv
<1> HIDE DEF tx, set
<1>7. /\ tx["question"] = Inserts(TreeRows(v, db.run[r].tree)) /\ tx["version"] = NoChange
      /\ QuestionsOf(v) = {} /\ ValidTree(db.run[r].tree, db.version[v].max) /\ db.run[r].tree \in Trees
  BY <1>6 DEF TreeReady
<1>8. db' = Applied(tx) /\ {"question", "version"} \subseteq Tables
  BY <1>1 DEF tx, Tables
<1>9. db'.question = Edited(db.question, Inserts(TreeRows(v, db.run[r].tree)))
  BY <1>2, <1>7, <1>8, EditedTable
<1>10. db'.version = db.version
  <2>1. Deleted(tx) = {}
    BY <1>2, <1>7, DeletedAre, ChangesAre
  <2> QED  BY <1>2, <1>7, <1>8, <2>1, SameTable
<1>11. {q[2] : q \in QuestionsOf(v)'} = DOMAIN db.run[r].tree /\ LeafMarks(v)' = db.version[v].max
  <2>1. PICK tree, max : tree = db.run[r].tree /\ max = db.version[v].max
    OBVIOUS
  <2>2. {q[2] : q \in QuestionsOf(v)'} = DOMAIN tree /\ LeafMarks(v)' = max
    BY <1>2, <1>7, <1>9, <2>1, TreeApplied
  <2> QED  BY <2>1, <2>2
<1> QED  BY <1>3, <1>10, <1>11

\* AppliedWholeAndOnce: the step that applies a proposed tree leaves a version
\* with exactly its questions, whose leaves carry the marks of the version, and
\* nothing that was applied is offered for review again, whatever was requested,
\* edited and proposed in between (apply_question_tree, run_parse_pipeline); one
\* task at a time, and for the tree one teacher.
THEOREM ProposalsAppliedWhole == Spec => AppliedWholeAndOnce
<1>1. ASSUME TypeInv, RunInv, TreeInv, [Next]_vars
      PROVE  OneTeacher /\ OneWorker => \A r \in DOMAIN db.run :
               db.run[r].op = PARSE /\ db.run[r].status # "SUCCEEDED" /\ db'.run[r].status = "SUCCEEDED"
               => LET v == db.run[r].version
                  IN  /\ {q[2] : q \in QuestionsOf(v)'} = DOMAIN db.run[r].tree
                      /\ LeafMarks(v)' = db'.version[v].max
  <2>1. SUFFICES ASSUME OneTeacher, OneWorker, NEW r \in DOMAIN db.run, db.run[r].op = PARSE,
                        db.run[r].status # "SUCCEEDED", db'.run[r].status = "SUCCEEDED"
                 PROVE  /\ {q[2] : q \in QuestionsOf(db.run[r].version)'} = DOMAIN db.run[r].tree
                        /\ LeafMarks(db.run[r].version)' = db'.version[db.run[r].version].max
    OBVIOUS
  <2>2. PICK v : v = db.run[r].version
    OBVIOUS
  <2>3. /\ db'.run[r].version = v
        /\ {q[2] : q \in QuestionsOf(v)'} = DOMAIN db.run[r].tree
        /\ LeafMarks(v)' = db'.version[v].max
    BY <1>1, <2>1, <2>2, WholeStep
  <2> QED  BY <2>2, <2>3 DEF QuestionsOf, LeafMarks, Leaves, Parents
<1>2. ASSUME TypeInv, RunInv, [Next]_vars
      PROVE  OneWorker => \A r \in DOMAIN db.run :
               db.run[r].status = "SUCCEEDED" => db'.run[r].status # "REVIEW_REQUIRED"
  BY <1>2, OnceStep
<1> QED  BY <1>1, <1>2, ProposalsAlways, PTL
        DEF Spec, AppliedWholeAndOnce, AppliedTreeIsWhole, AppliedOnce
=============================================================================
