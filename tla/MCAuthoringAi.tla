---------------------------- MODULE MCAuthoringAi ----------------------------
(***************************************************************************)
(* A small assessment: two question codes, marks of one or two.            *)
(***************************************************************************)
EXTENDS AuthoringAi

Empty == << >>
Tree(c, max, parent, mode) == c :> [max |-> max, parent |-> parent, mode |-> mode]
Leaf(c, max) == Tree(c, max, "none", "LEAF_SCORABLE")
MCTrees == {Leaf("q", 2), Leaf("q", 1), Leaf("q", 1) @@ Leaf("r", 1),
            Tree("r", 2, "none", "CONTAINER_DERIVED") @@ Tree("q", 2, "r", "LEAF_SCORABLE")}
Crit(c, mode, max) == c :> [mode |-> mode, max |-> max]
MCCriterias == {Crit("c1", "ADDITIVE", 2), Crit("c1", "ADDITIVE", 1) @@ Crit("c2", "DEDUCTIVE", 1)}

Database(status, questions, keys, headers, rubrics, criteria) ==
  [assessment |-> "a" :> [status |-> status, max |-> 2],
   version |-> 1 :> [max |-> 2, paper |-> 0],
   question |-> questions, key |-> keys, header |-> headers, rubric |-> rubrics,
   criterion |-> criteria, mapping |-> Empty, run |-> Empty]

Q == <<1, "q">>
R == <<1, "r">>
LeafRow == QuestionRow(2, NoQuestion, "LEAF_SCORABLE")
OneLeaf == Q :> LeafRow
Nested == (Q :> QuestionRow(2, R, "LEAF_SCORABLE")) @@ (R :> QuestionRow(2, NoQuestion, "CONTAINER_DERIVED"))
Approved(questions) ==
  Database("DRAFT", questions, 1 :> KeyRow(Q, "APPROVED", "TEACHER"), Q :> [by |-> "TEACHER"],
           <<Q, 1>> :> RubricRow("APPROVED", "TEACHER"),
           <<<<Q, 1>>, "c1">> :> [mode |-> "ADDITIVE", max |-> 2])
Written(criteria) ==
  Database("DRAFT", OneLeaf, 1 :> KeyRow(Q, "APPROVED", "TEACHER"), Q :> [by |-> "TEACHER"],
           <<Q, 1>> :> RubricRow("DRAFT", "TEACHER"), criteria)
Keyless == [Approved(OneLeaf) EXCEPT !.key = Empty]
Keyed == [Approved(OneLeaf) EXCEPT !.header = Empty, !.rubric = Empty, !.criterion = Empty]
Imported == [Approved(OneLeaf) EXCEPT !.rubric = <<Q, 1>> :> RubricRow("DRAFT", "IMPORTED")]
MCStarts ==
  [imported |-> Imported, keyless |-> Keyless, keyed |-> Keyed,
   fresh |-> Database("DRAFT", Empty, Empty, Empty, Empty, Empty),
   papered |-> [Database("DRAFT", Empty, Empty, Empty, Empty, Empty) EXCEPT !.version[1].paper = 1],
   leaf |-> Database("DRAFT", OneLeaf, Empty, Empty, Empty, Empty),
   rubric |-> Written(Empty),
   approved |-> Approved(OneLeaf),
   nested |-> Approved(Nested)]

Setting(teachers, workers, calls, start, faults, providers) ==
  [teachers |-> teachers, workers |-> workers, calls |-> calls, start |-> start,
   faults |-> faults, providers |-> providers]
Some == {"some"}
MCSettings == {
  \* a question tree by hand
  Setting({"t1"}, {}, {"question", "delete", "assessment"}, "fresh", {}, Some),
  Setting({"t1"}, {}, {"question", "transition"}, "approved", {}, Some),
  Setting({"t1"}, {}, {"version", "assessment", "delete", "transition"}, "approved", {}, Some),
  \* criteria up to READY, of a first rubric and of the one that follows it
  Setting({"t1"}, {}, {"criterion", "approve", "transition"}, "rubric", {}, Some),
  Setting({"t1"}, {}, {"criterion", "rubric", "approve", "transition"}, "approved", {}, Some),
  \* new versions of what is approved, back and forth
  Setting({"t1"}, {}, {"key", "rubric", "approve", "transition", "mapping", "delete"}, "approved", {}, Some),
  \* two teachers
  Setting({"t1", "t2"}, {}, {"key", "approve", "transition"}, "approved", {}, Some),
  \* a paper is parsed, its tree edited and applied, while the paper or the assessment changes
  Setting({"t1"}, {"w1"}, {"paper", PARSE, "tree", "apply"}, "fresh", {"provider", "crash", "enqueue"}, Some),
  Setting({"t1"}, {"w1"}, {PARSE, "tree", "apply", "assessment"}, "papered", {"provider", "crash", "enqueue"}, Some),
  Setting({"t1"}, {"w1"}, {"paper", PARSE, "apply", "delete"}, "fresh", {}, Some),
  Setting({"t1"}, {"w1"}, {PARSE, "apply", "delete"}, "papered", {}, {"none", "some"}),
  \* proposals of keys and rubrics, while teachers go on
  Setting({"t1"}, {"w1"}, {ANSWER_KEY, "key", "approve", "transition"}, "nested", {}, Some),
  Setting({"t1"}, {"w1", "w2"}, {ANSWER_KEY, RUBRIC, "transition"}, "leaf", {}, Some),
  Setting({"t1"}, {"w1"}, {ANSWER_KEY, RUBRIC, "transition"}, "leaf", {"provider"}, Some),
  Setting({"t1"}, {"w1"}, {ANSWER_KEY, "key", "approve", "transition"}, "keyless", {}, Some),
  Setting({"t1"}, {"w1"}, {ANSWER_KEY, RUBRIC, "delete"}, "leaf", {}, Some),
  Setting({"t1"}, {"w1"}, {RUBRIC, "rubric", "approve", "transition"}, "keyed", {}, Some),
  Setting({"t1"}, {"w1"}, {RUBRIC, "approve", "rubric", "transition"}, "imported", {}, Some),
  Setting({"t1"}, {"w1"}, {MAPPING, "mappings", "mapping", "apply", "transition", "delete"}, "leaf", {"provider"}, Some)}
=============================================================================
