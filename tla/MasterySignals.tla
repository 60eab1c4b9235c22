--------------------------- MODULE MasterySignals ---------------------------
(***************************************************************************)
(* What a published answer says about the curriculum node it is mapped to: *)
(* the strengths derived from its final score, error codes and disposition *)
(* (mastery_derivation.py) and their aggregation (b12_algorithm.py).  One  *)
(* code stands for each of the classes of codes the derivation tells apart.*)
(***************************************************************************)
EXTENDS Integers, FiniteSets

FullMark == 2
ConceptWeak == {"CONCEPT"}         \* FORMULA, INTERPRETATION, LOGIC_REASONING
ExecutionWeak == {"SIGN"}          \* CALCULATION, ALGEBRA, SUBSTITUTION, ...
ProcedureWeak == {"METHOD"}        \* INCOMPLETE
NonConcept == {"NOTATION"}         \* PRESENTATION, DIAGRAM, VALID_ALTERNATIVE
ReviewCodes == {"UNREADABLE"}      \* OCR_TRANSCRIPTION, RUBRIC_AMBIGUITY, ...
Codes == UNION {ConceptWeak, ExecutionWeak, ProcedureWeak, NonConcept, ReviewCodes}
Kinds == {"CONCEPT", "EXECUTION", "PROCEDURE"}
Strengths == {"STRONG", "WEAK", "INCONCLUSIVE"}

Entries(nodes) == [node : nodes, score : 0 .. FullMark, codes : SUBSET Codes, blank : BOOLEAN]

Academic(e) == e.codes \ ReviewCodes
All(strength) == [k \in Kinds |-> strength]

\* A blank answer, or one that only a review can judge, decides nothing.
Undecided(e) == e.blank \/ e.codes \cap ReviewCodes # {}
WeakKinds(e) == {k \in Kinds : \/ k = "CONCEPT" /\ Academic(e) \cap ConceptWeak # {}
                               \/ k = "EXECUTION" /\ Academic(e) \cap ExecutionWeak # {}
                               \/ k = "PROCEDURE" /\ Academic(e) \cap ProcedureWeak # {}}
\* An execution slip in an answer that earned marks leaves its concept intact.
Slip(e) == WeakKinds(e) \cap {"CONCEPT", "EXECUTION"} = {"EXECUTION"} /\ e.score > 0
OnlyNonConcept(e) == Academic(e) # {} /\ Academic(e) \subseteq NonConcept

Signals(e) ==
  IF Undecided(e) THEN All("INCONCLUSIVE")
  ELSE IF e.score = FullMark /\ (WeakKinds(e) = {} \/ OnlyNonConcept(e)) THEN All("STRONG")
  ELSE [k \in Kinds |->
         IF k \in WeakKinds(e) THEN "WEAK"
         ELSE IF e.score = FullMark \/ (k = "CONCEPT" /\ Slip(e)) THEN "STRONG"
         ELSE "INCONCLUSIVE"]

-----------------------------------------------------------------------------
\* aggregate_dimension: of the answers in S (a function to entries restricted
\* to S), how many are strong and weak; the others are inconclusive.
Count(ledger, S, n, k, strength) ==
  Cardinality({r \in S : ledger[r].node = n /\ Signals(ledger[r])[k] = strength})

\* aggregate_signal: the profile of a node's evidence.
Aggregate(ledger, S, n, k) ==
  LET strong == Count(ledger, S, n, k, "STRONG")
      weak == Count(ledger, S, n, k, "WEAK")
  IN  IF strong > weak THEN "STRONG" ELSE IF weak > strong THEN "WEAK" ELSE "INCONCLUSIVE"

\* Nodes with a direct weakness: the targets of a learning plan.
WeakNodes(ledger, S, nodes) ==
  {n \in nodes : \E k \in Kinds : Aggregate(ledger, S, n, k) = "WEAK"}
=============================================================================
