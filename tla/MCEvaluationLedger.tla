------------------------ MODULE MCEvaluationLedger ------------------------
(***************************************************************************)
(* TLC instances of EvaluationLedger, and the values of its constants.     *)
(***************************************************************************)
EXTENDS EvaluationLedger, TLC

\* Requests and workers are interchangeable; so are users, where the roles of
\* the moderation stages do not tell them apart.
SessionSymmetry == Permutations(Requests) \cup Permutations(Workers)
UserSymmetry == SessionSymmetry \cup Permutations(Users)

\* Everyone may decide every stage.
EveryoneModerates == [s \in Stages |-> Users]

\* What the provider, the rules engine or a failing leaf leave behind.
NullDraft == [state |-> "REVIEW_REQUIRED", proposed |-> NoScore]
LowConfidenceDraft == [state |-> "REVIEW_REQUIRED", proposed |-> MaxMark]
InterruptedDraft == [state |-> "PENDING", proposed |-> NoScore]

BlankOrUnreadable == {[state |-> "PROPOSED", proposed |-> 0], NullDraft}
ScoredOrUnreadable == {LowConfidenceDraft, NullDraft}
ProposedOrPending == {[state |-> "PROPOSED", proposed |-> MaxMark],
                      InterruptedDraft}
OneProposal == {[state |-> "PROPOSED", proposed |-> 0]}
===========================================================================
