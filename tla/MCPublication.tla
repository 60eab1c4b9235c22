--------------------------- MODULE MCPublication ---------------------------
(***************************************************************************)
(* TLC instances of Publication.                                           *)
(***************************************************************************)
EXTENDS Publication, TLC

\* Requests are interchangeable, and so are workers.
SessionSymmetry == Permutations(Requests) \cup Permutations(Workers)
===========================================================================
