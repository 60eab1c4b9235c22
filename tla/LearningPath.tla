---------------------------- MODULE LearningPath ----------------------------
(***************************************************************************)
(* The prerequisite graph of a curriculum, as its editors build it (the    *)
(* prerequisite routes of curriculum_assessment.py and services/           *)
(* curriculum.py), and the ordered path that build_learning_plan_structure *)
(* (learning_algorithm.py) makes of it for the weak nodes of a student,    *)
(* one target at a time.                                                   *)
(***************************************************************************)
EXTENDS Integers, Sequences, SequencesExt, FiniteSets, TLC

CONSTANTS
  Topics,      \* nodes of the curriculum
  Editors,
  Profiles,    \* what the evidence of a node may say
  PathSettings \* the editors, the profiles, deletions, and a bound on the edges

Kinds == [concept |-> "LEARN", procedure |-> "GUIDED", execution |-> "INDEPENDENT"]
Priority == [concept |-> 1, procedure |-> 2, execution |-> 3]
Idle == [phase |-> "idle"]

VARIABLES
  edges,     \* the prerequisite rows, in the order they were inserted
  editor,    \* editor[s]: the edge a request is about to insert
  profile,   \* profile[n]: the weakness of n, "strong", or "none" without evidence
  phase,     \* "editing", "building", "done", "refused" or "failed"
  targets,   \* weak nodes the path has not come to
  path,      \* the steps so far
  psetting

pathVars == <<edges, editor, profile, phase, targets, path, psetting>>

Edge == [pre : Topics, dep : Topics, type : {"REQUIRED", "RECOMMENDED"}]
PathTypeOK ==
  /\ edges \in Seq(Edge) /\ DOMAIN editor = Editors
  /\ profile \in [Topics -> Profiles] /\ targets \subseteq Topics
  /\ phase \in {"editing", "building", "done", "refused", "failed"}
  /\ \A i \in DOMAIN path : path[i].node \in Topics

PathInit ==
  /\ psetting \in PathSettings
  /\ edges = << >> /\ editor = [s \in Editors |-> Idle]
  /\ profile = [n \in Topics |-> "none"]
  /\ phase = "editing" /\ targets = {} /\ path = << >>

-----------------------------------------------------------------------------
Of(es, type) == {es[i] : i \in {j \in DOMAIN es : es[j].type = type}}

\* All prerequisites of n over a set of edges, direct and transitive.
RECURSIVE Before(_, _, _)
Before(es, ns, found) ==
  LET next == {e.pre : e \in {x \in es : x.dep \in ns}} \ found
  IN  IF next = {} THEN found ELSE Before(es, next, found \cup next)
Prerequisites(es, n) == Before(es, {n}, {})

Cyclic(es) == \E n \in Topics : n \in Prerequisites(es, n)

\* ensure_prerequisite_acyclic: edges of both types count.
ClosesCycle(e) == Cyclic(ToSet(edges) \cup {e})

\* create_prerequisite reads the graph and inserts later; delete_prerequisite.
AddRead(s, e) ==
  /\ phase = "editing" /\ s \in psetting.editors /\ editor[s] = Idle
  /\ Len(edges) < psetting.edges /\ e.pre # e.dep /\ ~ClosesCycle(e)
  /\ editor' = [editor EXCEPT ![s] = [phase |-> "checked", edge |-> e]]
  /\ UNCHANGED <<edges, profile, phase, targets, path, psetting>>
\* The unique key of an edge lets one row of a pair in.
AddCommit(s) ==
  /\ editor[s] # Idle /\ editor' = [editor EXCEPT ![s] = Idle]
  /\ LET e == editor[s].edge
         there == \E i \in DOMAIN edges : edges[i].pre = e.pre /\ edges[i].dep = e.dep
     IN  edges' = IF there THEN edges ELSE Append(edges, e)
  /\ UNCHANGED <<profile, phase, targets, path, psetting>>
DeleteEdge(i) ==
  /\ phase = "editing" /\ psetting.deletes
  /\ edges' = RemoveAt(edges, i)
  /\ UNCHANGED <<editor, profile, phase, targets, path, psetting>>

-----------------------------------------------------------------------------
Weak(n) == profile[n] \in DOMAIN Kinds

\* _detect_cycle refuses a plan of a graph with a cycle of required edges.
Build ==
  /\ phase = "editing" /\ \A s \in Editors : editor[s] = Idle
  /\ \E p \in [Topics -> psetting.profiles] :
       /\ profile' = p /\ targets' = {n \in Topics : p[n] \in DOMAIN Kinds}
  /\ phase' = IF Cyclic(Of(edges, "REQUIRED")) THEN "refused" ELSE "building"
  /\ UNCHANGED <<edges, editor, path, psetting>>

\* dependent_rank: one pass over the required edges between targets, in order.
WeakAll == {n \in Topics : Weak(n)}
Rank ==
  FoldLeft(LAMBDA rank, e :
             IF e.type = "REQUIRED" /\ {e.pre, e.dep} \subseteq WeakAll
                /\ rank[e.dep] + 1 > rank[e.pre]
             THEN [rank EXCEPT ![e.pre] = rank[e.dep] + 1] ELSE rank,
           [n \in Topics |-> 0], edges)

\* The next target: least rank, then priority; the counts of evidence that
\* come next are not modelled, so any of the rest may be first.
NextTargets ==
  {n \in targets : \A m \in targets \ {n} :
     \/ Rank[n] < Rank[m]
     \/ Rank[n] = Rank[m] /\ Priority[profile[n]] <= Priority[profile[m]]}

\* _order_required_prereq_nodes: depth first, a node after its prerequisites.
RECURSIVE Visit(_)
Visit(n) ==
  LET pres == SelectSeq(edges, LAMBDA e : e.dep = n /\ e.type = "REQUIRED")
  IN  FlattenSeq([i \in DOMAIN pres |-> Visit(pres[i].pre)]) \o <<n>>
DependencyFirst(t) ==
  FoldLeft(LAMBDA ns, n : IF n = t \/ Contains(ns, n) THEN ns ELSE Append(ns, n), << >>, Visit(t))

RequiredSteps(t) ==
  LET toDo == SelectSeq(DependencyFirst(t), LAMBDA n : Weak(n) \/ profile[n] = "none")
  IN  [i \in DOMAIN toDo |->
        [node |-> toDo[i], kind |-> IF Weak(toDo[i]) THEN "PREREQUISITE" ELSE "MASTERY_CHECK",
         rel |-> "REQUIRED"]]

\* The recommended prerequisites that are weak, in the order of their codes.
Codes == SetToSeq(Topics)
RecommendedSteps(t) ==
  LET weak == SelectSeq(Codes, LAMBDA n : Weak(n)
                                          /\ n \in Prerequisites(Of(edges, "RECOMMENDED"), t))
  IN  [i \in DOMAIN weak |-> [node |-> weak[i], kind |-> "PREREQUISITE", rel |-> "RECOMMENDED"]]

TargetStep(t) == <<[node |-> t, kind |-> Kinds[profile[t]], rel |-> "TARGET"]>>

\* A target that has a step already is skipped.
Skipped(t) == \E i \in DOMAIN path : path[i].node = t

Extend(t) ==
  /\ phase = "building" /\ t \in NextTargets
  /\ targets' = targets \ {t}
  /\ path' = IF Skipped(t) THEN path
             ELSE path \o SelectSeq(RequiredSteps(t) \o RecommendedSteps(t) \o TargetStep(t),
                                    LAMBDA step : ~Contains(path, step))
  /\ UNCHANGED <<edges, editor, profile, phase, psetting>>

\* The recommendation of t has one link to n for each recommended edge by which
\* it reaches n; the table takes one (uq_learning_recommendation_prerequisites_edge).
Links(t, n) == {e \in Of(edges, "RECOMMENDED") :
                  e.pre = n /\ e.dep \in {t} \cup Prerequisites(Of(edges, "RECOMMENDED"), t)}
LinksAreUnique == \A t, n \in WeakAll : Cardinality(Links(t, n)) <= 1

\* The rows are written, or the plan FAILED.
Finish ==
  /\ phase = "building" /\ targets = {}
  /\ phase' = IF LinksAreUnique THEN "done" ELSE "failed"
  /\ UNCHANGED <<edges, editor, profile, targets, path, psetting>>

PathNext ==
  \/ \E s \in Editors : (\E e \in Edge : AddRead(s, e)) \/ AddCommit(s)
  \/ \E i \in DOMAIN edges : DeleteEdge(i)
  \/ Build \/ Finish \/ \E t \in Topics : Extend(t)

Spec == PathInit /\ [][PathNext]_pathVars

-----------------------------------------------------------------------------
\* One editor never closes a cycle, so every plan of the graph is built.
OneEditorNoCycle == Cardinality(psetting.editors) = 1 => ~Cyclic(ToSet(edges)) /\ phase # "refused"

\* A step on a node, unless it is an optional one, comes after a step on every
\* one of its required prerequisites that is weak or not yet evidenced.
PrerequisitesFirst ==
  phase # "refused" => \A i \in DOMAIN path : path[i].rel # "RECOMMENDED" =>
    \A n \in Prerequisites(Of(edges, "REQUIRED"), path[i].node) :
      profile[n] # "strong" => \E j \in 1 .. i - 1 : path[j].node = n

\* No weakness is lost: at the end each weak node has a step, also when another
\* target's prerequisites came first.
EveryGapHasStep == phase = "done" => \A n \in WeakAll : \E i \in DOMAIN path : path[i].node = n

\* A recommended prerequisite is optional support: whatever a curriculum
\* recommends, it never stops a plan from being built (the comment of
\* learning_algorithm.py:521, "do not block target").
RecommendedNeverBlocks == phase # "failed"
=============================================================================
