--------------------------- MODULE WebhookOutbox ---------------------------
(***************************************************************************)
(* What services/webhooks.py promises of a delivery, whichever worker or   *)
(* operator handles it: an event recorded for an endpoint is kept until    *)
(* the endpoint has taken it at least once or the deliveries are given up, *)
(* and only an operator opens a settled delivery again.                    *)
(***************************************************************************)
EXTENDS Naturals

CONSTANTS Deliveries

VARIABLES
  phase,  \* phase[d]: ABSENT, WAITING, SUCCEEDED or FAILED
  taken   \* taken[d]: the endpoint has taken delivery d

vars == <<phase, taken>>

Init == /\ phase = [d \in Deliveries |-> "ABSENT"]
        /\ taken = [d \in Deliveries |-> FALSE]

In(p) == {d \in Deliveries : phase[d] = p}

\* An event is recorded, with a delivery for each subscriber.
Record == \E D \in SUBSET In("ABSENT") :
  /\ phase' = [d \in Deliveries |-> IF d \in D THEN "WAITING" ELSE phase[d]]
  /\ UNCHANGED taken

Take == \E d \in In("WAITING") :
  /\ taken' = [taken EXCEPT ![d] = TRUE]
  /\ UNCHANGED phase

\* A delivery succeeds only if it was taken; it may be given up at any time.
Settle == \E S, F \in SUBSET In("WAITING") :
  /\ S \cap F = {} /\ \A d \in S : taken[d]
  /\ phase' = [d \in Deliveries |-> IF d \in S THEN "SUCCEEDED"
                                    ELSE IF d \in F THEN "FAILED" ELSE phase[d]]
  /\ UNCHANGED taken

Reopen == \E d \in In("SUCCEEDED") \cup In("FAILED") :
  /\ phase' = [phase EXCEPT ![d] = "WAITING"]
  /\ UNCHANGED taken

Next == Record \/ Take \/ Settle \/ Reopen

Spec == Init /\ [][Next]_vars
=============================================================================
