----------------------------- MODULE AuthoringAi -----------------------------
(***************************************************************************)
(* AI help with authoring (services/authoring_ai.py, api/v1/authoring_ai.py*)
(* and the tasks of tasks/celery_app.py): a run is requested, committed    *)
(* and enqueued; a worker asks the provider and commits a proposal; a      *)
(* teacher edits and applies it.  A worker's transaction flushes its run   *)
(* as RUNNING, which nobody else sees, and holds that row; everything else *)
(* it reads before the provider answers may have changed when it commits.  *)
(***************************************************************************)
EXTENDS AssessmentAuthoring

CONSTANTS
  Trees,      \* question trees a provider or a teacher may propose
  Criterias,  \* sets of criteria a provider may propose
  MaxRuns     \* bound of this model

PARSE == "PARSE_QUESTION_PAPER"
ANSWER_KEY == "PROPOSE_ANSWER_KEY"
RUBRIC == "PROPOSE_RUBRIC"
MAPPING == "SUGGEST_CURRICULUM_MAPPING"

ChildrenIn(tree, c) == {d \in DOMAIN tree : tree[d].parent = c}
\* validate_question_tree.
ValidTree(tree, max) ==
  /\ tree # << >>
  /\ \A c \in DOMAIN tree : tree[c].mode = "LEAF_SCORABLE" <=> ChildrenIn(tree, c) = {}
  /\ Total(tree, "LEAF_SCORABLE") = max

RunRow(op, v, q, input, status) ==
  [op |-> op, version |-> v, of |-> q, input |-> input, status |-> status, tree |-> << >>, nodes |-> {}]

Ids == (1 .. MaxVersions) \X Codes
QuestionRows == [max : MarkValues, parent : Ids \cup {NoQuestion}, mode : Modes]
CriterionRows == [mode : CriterionModes, max : MarkValues]
Operations == {PARSE, ANSWER_KEY, RUBRIC, MAPPING}
RunRows == [op : Operations, version : 1 .. MaxVersions, of : Ids \cup {NoQuestion}, input : Nat \X Nat,
            status : {"QUEUED", "REVIEW_REQUIRED", "SUCCEEDED", "FAILED", "UNAVAILABLE"},
            tree : Trees \cup {<< >>}, nodes : SUBSET Nodes]
RowsIn(table, ids, rows) == DOMAIN table \subseteq ids /\ table \in [DOMAIN table -> rows]

\* Every table of a database holds rows of its kind, and what they name is there.
Consistent(d) ==
  /\ RowsIn(d.assessment, {"a"}, [status : DOMAIN ALLOWED_TRANSITIONS, max : MarkValues])
  /\ RowsIn(d.version, 1 .. MaxVersions, [max : MarkValues, paper : 0 .. MaxPapers])
  /\ RowsIn(d.question, (DOMAIN d.version) \X Codes, QuestionRows)
  /\ RowsIn(d.key, 1 .. MaxKeys, [of : DOMAIN d.question, status : ActiveStatus \cup {"SUPERSEDED"},
                                  text : {0, 1}, source : Sources \cup {"AI_PROPOSED"}])
  /\ RowsIn(d.header, DOMAIN d.question, [by : {"TEACHER", "AI_PROPOSED"}])
  /\ RowsIn(d.rubric, (DOMAIN d.header) \X (1 .. MaxRubrics),
            [status : ActiveStatus \cup {"SUPERSEDED"}, source : Sources \cup {"AI_PROPOSED"}])
  /\ RowsIn(d.criterion, (DOMAIN d.rubric) \X CriterionCodes, CriterionRows)
  /\ RowsIn(d.mapping, (DOMAIN d.question) \X Nodes, [by : {"TEACHER", "AI_PROPOSED"}])
  /\ RowsIn(d.run, DOMAIN d.run, RunRows)
  /\ \A r \in DOMAIN d.run : /\ d.run[r].version \in DOMAIN d.version
                             /\ d.run[r].of \in DOMAIN d.question \cup {NoQuestion}
  /\ \A q \in DOMAIN d.question : d.question[q].parent \in DOMAIN d.question \cup {NoQuestion}
  /\ {"a"} \subseteq DOMAIN d.assessment /\ DOMAIN d.version # {}

\* No question is its own ancestor.
Rooted(questions) == \A qs \in SUBSET DOMAIN questions \ {{}} : \E q \in qs : questions[q].parent \notin qs
SameVersion(questions) ==
  \A q \in DOMAIN questions : questions[q].parent = NoQuestion \/ questions[q].parent[1] = q[1]

\* Trees are nested lists of questions.
TreeShaped(tree) ==
  /\ IsFiniteSet(DOMAIN tree) /\ RowsIn(tree, Codes, [max : MarkValues, parent : Codes \cup {"none"}, mode : Modes])
  /\ \A cs \in SUBSET DOMAIN tree \ {{}} : \E c \in cs : tree[c].parent \notin cs

ASSUME AuthoringAssumption ==
  /\ Teachers \cap Workers = {} /\ MarkValues \subseteq Nat /\ IsFiniteSet(CriterionCodes)
  /\ {MaxVersions, MaxKeys, MaxRubrics, MaxPapers} \subseteq Nat
  /\ \A tree \in Trees : TreeShaped(tree)
  /\ \A crit \in Criterias : RowsIn(crit, CriterionCodes, CriterionRows)
  /\ \A n \in DOMAIN Starts : /\ Consistent(Starts[n]) /\ Starts[n].assessment["a"].status = "DRAFT"
                              /\ Rooted(Starts[n].question) /\ SameVersion(Starts[n].question)
  /\ \A x \in Settings : /\ x.start \in DOMAIN Starts
                         /\ x.teachers \subseteq Teachers /\ IsFiniteSet(x.teachers)
                         /\ x.workers \subseteq Workers /\ IsFiniteSet(x.workers)

Init ==
  /\ setting \in Settings
  /\ db = Starts[setting.start]
  /\ session = [s \in Sessions |-> Idle]
  /\ queue = {}
  /\ provider = (setting.providers # {"none"})

-----------------------------------------------------------------------------
LiveStatus == {"QUEUED", "RUNNING", "REVIEW_REQUIRED", "SUCCEEDED"}

\* The live runs with the same operation, target and input hash.
Live(op, v, q, input) ==
  {r \in DOMAIN db.run : /\ db.run[r].op = op /\ db.run[r].version = v /\ db.run[r].of = q
                         /\ db.run[r].input = input /\ db.run[r].status \in LiveStatus}

Asking(t, op, state) ==
  /\ t \in setting.teachers /\ op \in setting.calls /\ session[t] = Idle
  /\ session' = [session EXCEPT ![t] = state]
  /\ UNCHANGED <<db, queue, provider, setting>>

\* The run a request goes on with, and what it writes of it.
Requested(t, op, v, q, input, status) ==
  LET n == <<t, 1 + Cardinality({r \in DOMAIN db.run : r[1] = t})>>
      live == Live(op, v, q, input)
      then(r) == IF status = "QUEUED" THEN r ELSE NoRun
  IN  \/ /\ live = {} /\ Cardinality(DOMAIN db.run) < MaxRuns
         /\ Asking(t, op, Writing(In("run", Insert(n, RunRow(op, v, q, input, status))), NoRun, then(n)))
      \/ \E r \in live :
           Asking(t, op, Writing(IF status = "QUEUED" THEN Nothing
                                 ELSE In("run", Update(r, [status |-> status])), NoRun, then(r)))

\* prepare_parse_question_paper; without a provider the route marks the run,
\* new or old, UNAVAILABLE.
PrepareParse(t, v) ==
  /\ Drafting /\ QuestionsOf(v) = {} /\ db.version[v].paper > 0
  /\ Requested(t, PARSE, v, NoQuestion, <<db.version[v].paper, db.version[v].max>>,
               IF provider THEN "QUEUED" ELSE "UNAVAILABLE")

\* _assert_no_existing_material: an imported draft is none.
Blocks(row) == row.status = "APPROVED" \/ row.source \in {"TEACHER", "AI_PROPOSED"}
Material(op, q) == CASE op = ANSWER_KEY -> {db.key[k] : k \in Active(q)}
                     [] op = RUBRIC -> {db.rubric[r] : r \in ActiveRubrics(q)}
                     [] OTHER -> {}
Blocked(op, q) == \E row \in Material(op, q) : Blocks(row)

\* The routes of proposals make no run without a provider.
Proposal(t, op, q) == Mutable /\ provider /\ Requested(t, op, q[1], q, <<0, 0>>, "QUEUED")
\* prepare_propose_answer_key, prepare_propose_rubric and
\* prepare_suggest_curriculum_mapping.
ProposeKey(t, q) == ~Blocked(ANSWER_KEY, q) /\ Proposal(t, ANSWER_KEY, q)
ProposeRubric(t, q) == ~Blocked(RUBRIC, q) /\ Proposal(t, RUBRIC, q)
SuggestMapping(t, q) == Proposal(t, MAPPING, q)

\* _enqueue_and_refresh: a failed enqueue is only reported.
Enqueue(t) ==
  /\ session[t].phase = "sending"
  /\ session' = [session EXCEPT ![t] = Idle]
  /\ queue' = queue \cup {session[t].run}
  /\ UNCHANGED <<db, provider, setting>>
EnqueueFails(t) ==
  /\ "enqueue" \in setting.faults /\ session[t].phase = "sending"
  /\ session' = [session EXCEPT ![t] = Idle]
  /\ UNCHANGED <<db, queue, provider, setting>>

-----------------------------------------------------------------------------
\* A run that needs no work.
Settled == {"REVIEW_REQUIRED", "SUCCEEDED", "UNAVAILABLE"}

Goes(w, state) == session' = [session EXCEPT ![w] = state] /\ UNCHANGED <<db, provider, setting>>
Ends(w, r, status) == Goes(w, Writing(In("run", Update(r, [status |-> status])), r, NoRun))

\* mark_unavailable.
Unavailable(w, r) == Ends(w, r, "UNAVAILABLE")

\* The first read of a task.
TakeTask(w, r) ==
  /\ w \in setting.workers /\ session[w] = Idle /\ r \in queue
  /\ queue' = queue \ {r}
  /\ IF db.run[r].status \in Settled THEN Goes(w, Idle)
     ELSE IF ~provider THEN Unavailable(w, r)
     ELSE Goes(w, [phase |-> "taken", run |-> r])

\* RUNNING is flushed, the rest is read, and the provider is asked.  A deleted
\* question ends the task; the run stays as it was.
Begin(w) ==
  /\ session[w].phase = "taken" /\ Free(w, session[w].run)
  /\ LET r == session[w].run
         run == db.run[r]
         gone == run.op # PARSE /\ run.of = NoQuestion
         max == CASE run.op = PARSE -> db.version[run.version].max
                  [] run.of # NoQuestion -> db.question[run.of].max
                  [] OTHER -> 0
     IN  IF gone THEN Goes(w, Idle)
         ELSE IF Blocked(run.op, run.of) THEN Ends(w, r, "FAILED")
         ELSE Goes(w, [phase |-> "working", run |-> r, status |-> Status, max |-> max])
  /\ UNCHANGED queue

Working(w, op) ==
  /\ session[w].phase = "working" /\ db.run[session[w].run].op = op
  /\ UNCHANGED queue
Failing(w) == Ends(w, session[w].run, "FAILED")

\* The status is the one that was read before the provider was asked.
WasDraft(status) == status = "DRAFT"
Reopened(w) == IF WasDraft(session[w].status) THEN Update("a", [status |-> "RUBRIC_REVIEW"]) ELSE NoChange
Proposes(w, columns, tx) ==
  LET r == session[w].run
  IN  Goes(w, Writing(AlsoIn(tx, "run", Update(r, columns)), r, NoRun))

AnswerFails(w) == /\ \E op \in {PARSE, ANSWER_KEY, RUBRIC, MAPPING} : Working(w, op)
                  /\ "provider" \in setting.faults /\ Failing(w)

\* run_parse_pipeline.
ParseAnswer(w, tree) ==
  /\ Working(w, PARSE)
  /\ IF ValidTree(tree, session[w].max)
     THEN Proposes(w, [status |-> "REVIEW_REQUIRED", tree |-> tree], Nothing) ELSE Failing(w)

\* run_propose_answer_key_pipeline.
KeyAnswer(w) ==
  LET q == db.run[session[w].run].of
      n == NextNumber(DOMAIN db.key)
  IN  /\ Working(w, ANSWER_KEY) /\ n <= MaxKeys
      /\ Proposes(w, [status |-> "REVIEW_REQUIRED"],
                  AlsoIn(In("key", Insert(n, KeyRow(q, "REVIEW_REQUIRED", "AI_PROPOSED"))),
                         "assessment", Reopened(w)))

\* run_propose_rubric_pipeline: the proposal reconciles with the marks that
\* were read before the provider was asked.
RubricAnswer(w, crit) ==
  LET q == db.run[session[w].run].of
      r == <<q, NextNumber(RubricNumbers(q))>>
      header == IF q \in DOMAIN db.header THEN NoChange ELSE Insert(q, [by |-> "AI_PROPOSED"])
      criteria == [c \in {<<r, code>> : code \in DOMAIN crit} |-> crit[c[2]]]
  IN  /\ Working(w, RUBRIC) /\ r[2] <= MaxRubrics
      /\ IF Reconciles(crit, session[w].max)
         THEN Proposes(w, [status |-> "REVIEW_REQUIRED"],
                AlsoIn(AlsoIn(AlsoIn(In("rubric", Insert(r, RubricRow("REVIEW_REQUIRED", "AI_PROPOSED"))),
                  "criterion", Inserts(criteria)), "header", header), "assessment", Reopened(w)))
         ELSE Failing(w)

\* run_suggest_curriculum_mapping_pipeline: no mapping is written.
MappingAnswer(w, nodes) ==
  /\ Working(w, MAPPING)
  /\ Proposes(w, [status |-> IF nodes = {} THEN "SUCCEEDED" ELSE "REVIEW_REQUIRED", nodes |-> nodes], Nothing)

\* A worker dies; its transaction is rolled back and its task is gone.
Crash(w) ==
  /\ "crash" \in setting.faults /\ session[w] # Idle
  /\ Goes(w, Idle) /\ UNCHANGED queue

\* The deployment is configured anew.
Configure ==
  /\ setting.providers = {"none", "some"} /\ provider' = ~provider
  /\ UNCHANGED <<db, session, queue, setting>>

-----------------------------------------------------------------------------
Reviewable(r, op) == db.run[r].op = op /\ db.run[r].status = "REVIEW_REQUIRED"

\* update_question_tree_proposal.
UpdateTree(t, r, tree) ==
  /\ Reviewable(r, PARSE) /\ ValidTree(tree, db.version[db.run[r].version].max)
  /\ tree # db.run[r].tree
  /\ Request(t, "tree", In("run", Update(r, [tree |-> tree])))

\* Mutant: only the request for the run looks for questions.
AnyQuestions(v) == TRUE
NoQuestions(v) == QuestionsOf(v) = {}

\* apply_question_tree.
TreeRows(v, tree) ==
  LET parent(c) == IF tree[c].parent = "none" THEN NoQuestion ELSE <<v, tree[c].parent>>
  IN  [q \in {<<v, c>> : c \in DOMAIN tree} |->
         QuestionRow(tree[q[2]].max, parent(q[2]), tree[q[2]].mode)]
ApplyTree(t, r) ==
  LET v == db.run[r].version
      tree == db.run[r].tree
  IN  /\ Reviewable(r, PARSE) /\ Drafting /\ NoQuestions(v) /\ ValidTree(tree, db.version[v].max)
      /\ Request(t, "apply", AlsoIn(In("question", Inserts(TreeRows(v, tree))),
                                     "run", Update(r, [status |-> "SUCCEEDED"])))

\* update_curriculum_mapping_proposal and apply_curriculum_mappings.
UpdateMappings(t, r, nodes) ==
  /\ Reviewable(r, MAPPING) /\ nodes # db.run[r].nodes
  /\ Request(t, "mappings", In("run", Update(r, [nodes |-> nodes])))
ApplyMappings(t, r, chosen) ==
  LET q == db.run[r].of
      rows == [m \in {<<q, n>> : n \in chosen} \ DOMAIN db.mapping |-> [by |-> "AI_PROPOSED"]]
  IN  /\ Reviewable(r, MAPPING) /\ Mutable /\ q # NoQuestion /\ chosen \subseteq db.run[r].nodes
      /\ Request(t, "apply", AlsoIn(In("mapping", Inserts(rows)),
                                     "run", Update(r, [status |-> "SUCCEEDED"])))

Next ==
  \/ Configure
  \/ \E s \in Sessions : Commit(s)
  \/ \E t \in Teachers :
       \/ TeacherNext(t) \/ Enqueue(t) \/ EnqueueFails(t)
       \/ \E v \in DOMAIN db.version : PrepareParse(t, v)
       \/ \E q \in DOMAIN db.question : ProposeKey(t, q) \/ ProposeRubric(t, q) \/ SuggestMapping(t, q)
       \/ \E r \in DOMAIN db.run :
            \/ ApplyTree(t, r) \/ \E tree \in Trees : UpdateTree(t, r, tree)
            \/ \E nodes \in SUBSET Nodes : UpdateMappings(t, r, nodes) \/ ApplyMappings(t, r, nodes)
  \/ \E w \in Workers :
       \/ \E r \in queue : TakeTask(w, r)
       \/ Begin(w) \/ AnswerFails(w) \/ KeyAnswer(w) \/ Crash(w)
       \/ \E tree \in Trees : ParseAnswer(w, tree)
       \/ \E crit \in Criterias : RubricAnswer(w, crit)
       \/ \E nodes \in SUBSET Nodes : MappingAnswer(w, nodes)

Spec == Init /\ [][Next]_vars

-----------------------------------------------------------------------------
\* What tasks are about is there.
TypeOK == Consistent(db) /\ queue \subseteq DOMAIN db.run

OneTeacher == Cardinality(setting.teachers) = 1
OneWorker == Cardinality(setting.workers) <= 1
Frozen(status) == status \in {"READY", "ACTIVE", "CLOSED", "ARCHIVED"}

\* What an answer earns that meets the criteria `met`: awards add up, unmet
\* deductions are taken off, and an all-or-nothing rubric wants them all.
Score(crit, met, max) ==
  LET of(mode) == {c \in DOMAIN crit : crit[c].mode = mode}
      sum(cs) == Marks(crit, cs)
      base == IF of("ADDITIVE") = {} THEN max ELSE sum(of("ADDITIVE") \cap met)
      left == base - sum(of("DEDUCTIVE") \ met)
  IN  IF of("ALL_OR_NOTHING") # {}
      THEN IF DOMAIN crit \subseteq met THEN Max({crit[c].max : c \in DOMAIN crit}) ELSE 0
      ELSE Max({left, 0})

\* From READY on the leaves of the latest version carry its marks, and each has
\* an approved key and an approved rubric under which a perfect answer earns
\* the marks of the question and an empty one nothing.  One teacher at a time,
\* any tasks: two teachers can break it between the gate and its commit.
ReadyIsComplete ==
  OneTeacher /\ Frozen(Status) =>
    LET leaves == {q \in DOMAIN db.question : /\ q[1] = Latest /\ db.question[q].mode = "LEAF_SCORABLE"
                                              /\ \A d \in DOMAIN db.question : db.question[d].parent # q}
    IN  /\ leaves # {}
        /\ Marks(db.question, leaves) = db.version[Latest].max
        /\ \A q \in leaves :
             /\ \E k \in DOMAIN db.key : db.key[k].of = q /\ db.key[k].status = "APPROVED"
             /\ \E r \in DOMAIN db.rubric :
                  /\ r[1] = q /\ db.rubric[r].status = "APPROVED"
                  /\ LET crit == Criteria(r)
                         max == db.question[q].max
                     IN  Score(crit, DOMAIN crit, max) = max /\ Score(crit, {}, max) = 0

\* No question is its own ancestor, with one teacher editing.
ParentsAreATree == OneTeacher => Rooted(db.question)

Table(q) == [key |-> {<<k, db.key[k]>> : k \in {i \in DOMAIN db.key : db.key[i].of = q}},
             rubric |-> {<<r, db.rubric[r], Criteria(r)>> : r \in {i \in DOMAIN db.rubric : i[1] = q}}]

\* Once an assessment is READY the key and the rubric of a scorable leaf stay
\* what they were, also when a proposal that was requested before comes late.
LeafMaterialStays ==
  [][OneTeacher /\ Frozen(Status) /\ Frozen(Status)' =>
       \A q \in DOMAIN db.question :
         q[1] = Latest /\ db.question[q].mode = "LEAF_SCORABLE" /\ q \notin Parents(Latest)
         => Table(q)' = Table(q)]_vars

\* While no task is at work, nothing of the academic configuration changes.
ConfigurationStays ==
  [][OneTeacher /\ setting.workers = {} /\ Frozen(Status) =>
       /\ db.key' = db.key /\ db.rubric' = db.rubric /\ db.criterion' = db.criterion
       /\ db.mapping' = db.mapping /\ db.question' = db.question]_vars

\* docs/engineering/A2_TEST_MATRIX.md:57, of every task too.
ConfigurationFrozen ==
  [][OneTeacher /\ Frozen(Status) =>
       /\ db.key' = db.key /\ db.rubric' = db.rubric /\ db.mapping' = db.mapping]_vars

\* docs/engineering/A2_TEST_MATRIX.md:58: approved history is not deleted.
ApprovedHistoryStays ==
  [][\A k \in DOMAIN db.key : db.key[k].status \in {"APPROVED", "SUPERSEDED"} => k \in DOMAIN db.key']_vars

\* What was approved keeps its content: a key its text, a rubric its criteria.
\* It is only superseded, or goes with its question.
ApprovedIsImmutable ==
  [][OneTeacher =>
       /\ \A k \in DOMAIN db.key \cap DOMAIN db'.key :
            db.key[k].status \in {"APPROVED", "SUPERSEDED"}
            => /\ db'.key[k].text = db.key[k].text
               /\ db'.key[k].status \in {db.key[k].status, "SUPERSEDED"}
       /\ \A r \in DOMAIN db.rubric \cap DOMAIN db'.rubric :
            db.rubric[r].status \in {"APPROVED", "SUPERSEDED"}
            => /\ Criteria(r)' = Criteria(r)
               /\ db'.rubric[r].status \in {db.rubric[r].status, "SUPERSEDED"}]_vars

\* The step that applies a tree leaves a version with exactly its questions,
\* whose leaves carry the marks of the version; a second worker can propose
\* another tree while the first one is applied.
AppliedTreeIsWhole ==
  [][OneTeacher /\ OneWorker => \A r \in DOMAIN db.run :
       db.run[r].op = PARSE /\ db.run[r].status # "SUCCEEDED" /\ db'.run[r].status = "SUCCEEDED"
       => LET v == db.run[r].version
          IN  /\ {q[2] : q \in QuestionsOf(v)'} = DOMAIN db.run[r].tree
              /\ LeafMarks(v)' = db'.version[v].max]_vars

\* A proposal that was applied is not offered for review again, whatever
\* requests and tasks of it follow; one task at a time.
AppliedOnce ==
  [][OneWorker => \A r \in DOMAIN db.run :
       db.run[r].status = "SUCCEEDED" => db'.run[r].status # "REVIEW_REQUIRED"]_vars

\* The tree and the marking material of an assessment are well formed.
MaterialIsComplete == ReadyIsComplete /\ ParentsAreATree

\* What is frozen or approved is not changed.
FreezeHolds == LeafMaterialStays /\ ConfigurationStays /\ ApprovedIsImmutable

\* A proposal is applied as a whole, and once.
AppliedWholeAndOnce == AppliedTreeIsWhole /\ AppliedOnce
=============================================================================
