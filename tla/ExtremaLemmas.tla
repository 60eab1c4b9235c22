--------------------------- MODULE ExtremaLemmas ---------------------------
(***************************************************************************)
(* The two facts about FiniteSetsExt!Min and Max that the other proofs     *)
(* use: a non-empty set of naturals has its least element, a non-empty     *)
(* subset of an interval its greatest.                                     *)
(***************************************************************************)
EXTENDS Integers, FiniteSetsExt, WellFoundedInduction, TLAPS

\* The operator Min returns the least element of a set of natural numbers
\* (func.min() and ORDER BY ... ASC LIMIT 1 over a non-empty selection).
LEMMA MinOfNats ==
  ASSUME NEW S \in SUBSET Nat, S # {}
  PROVE  Min(S) \in S /\ \A s \in S : Min(S) <= s
<1> DEFINE R == {ss \in Nat \X Nat : ss[1] < ss[2]}
<1>1. IsWellFoundedOn(R, Nat)
  BY NatLessThanWellFounded DEF OpToRel
<1>2. PICK x \in S : \A y \in S : ~ (<<y, x>> \in R)
  <2> HIDE DEF R
  <2> QED  BY <1>1, WFMin
<1>3. ASSUME NEW y \in S
      PROVE  x <= y
  <2>1. ~ (y < x)
    BY <1>2
  <2> QED  BY <2>1
<1> QED  BY <1>3 DEF Min

\* The operator Max returns the greatest element of a bounded set of natural
\* numbers (func.max() and ORDER BY ... DESC LIMIT 1).
LEMMA MaxOfInterval ==
  ASSUME NEW N \in Nat, NEW S \in SUBSET (0 .. N), S # {}
  PROVE  Max(S) \in S /\ \A s \in S : Max(S) >= s
<1> DEFINE D == {N - s : s \in S}
<1>1. D \in SUBSET Nat /\ D # {}
  <2>1. PICK s \in S : TRUE
    OBVIOUS
  <2>2. N - s \in D
    OBVIOUS
  <2> QED  BY <2>2
<1>2. PICK d \in D : \A e \in D : d <= e
  <2> HIDE DEF D
  <2> QED  BY <1>1, MinOfNats
<1>3. PICK x \in S : d = N - x
  OBVIOUS
<1>4. ASSUME NEW y \in S
      PROVE  x >= y
  <2>1. d <= N - y
    BY <1>2
  <2> QED  BY <2>1, <1>3
<1> QED  BY <1>4 DEF Max
============================================================================
