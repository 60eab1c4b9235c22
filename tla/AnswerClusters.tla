--------------------------- MODULE AnswerClusters ---------------------------
(***************************************************************************)
(* connected_components (cluster_math.py): union-find over the pairs of    *)
(* answers whose similarity reaches the threshold, pair by pair.  Answers  *)
(* are the positions of their sorted identifiers.                          *)
(***************************************************************************)
EXTENDS Integers, FiniteSets, Relation

CONSTANT Answers      \* the number of answers
Positions == 1 .. Answers
Pairs == {p \in Positions \X Positions : p[1] < p[2]}

VARIABLES similar, parent, pending, stage   \* similar pairs; roots; pairs to look at
clusterVars == <<similar, parent, pending, stage>>

ClusterTypeOK == similar \subseteq Pairs /\ pending \subseteq Pairs
                 /\ parent \in [Positions -> Positions] /\ stage \in {"off", "union", "done"}
ClusterInit(on) ==
  /\ similar \in (IF on THEN SUBSET Pairs ELSE {{}})
  /\ parent = [x \in Positions |-> x] /\ pending = Pairs
  /\ stage = IF on THEN "union" ELSE "off"

\* find: follow the parents to a root, halving the path on the way.
RECURSIVE Find(_, _)
Find(up, x) == IF up[x] = x THEN [up |-> up, root |-> x]
               ELSE Find([up EXCEPT ![x] = up[up[x]]], up[up[x]])

\* union: the smaller of the two roots becomes the root of both.
Union(up, a, b) ==
  LET fa == Find(up, a)
      fb == Find(fa.up, b)
      low == IF fa.root < fb.root THEN fa.root ELSE fb.root
      high == IF fa.root < fb.root THEN fb.root ELSE fa.root
  IN  [fb.up EXCEPT ![high] = low]

\* The pairs are taken in lexicographic order.
NextPair == CHOOSE p \in pending : \A q \in pending :
              p[1] < q[1] \/ (p[1] = q[1] /\ p[2] <= q[2])
TakePair ==
  /\ stage = "union" /\ pending' = pending \ {NextPair}
  /\ stage' = IF pending' = {} THEN "done" ELSE "union"
  /\ parent' = IF NextPair \in similar THEN Union(parent, NextPair[1], NextPair[2]) ELSE parent
  /\ UNCHANGED similar

Root(x) == Find(parent, x).root
\* The reference: the reflexive, symmetric and transitive closure.
Joined == ReflexiveTransitiveClosure(
            [p \in Positions \X Positions |-> {p, <<p[2], p[1]>>} \cap similar # {}], Positions)

\* Two answers end in one cluster exactly if a chain of similar pairs joins
\* them, and a cluster is known by its first answer, so neither the order of
\* the input nor of the unions shows in the result.
ClustersAreComponents ==
  stage = "done" => \A x, y \in Positions :
    /\ (Root(x) = Root(y)) <=> Joined[x, y]
    /\ Joined[x, y] => Root(x) <= y
=============================================================================
