------------------------------ MODULE Quality ------------------------------
(***************************************************************************)
(* Quality assurance of one assessment version (services/quality.py,       *)
(* quality_stats.py): psychometric runs over the published cohort, and one *)
(* calibration session in which raters score published answers blindly.    *)
(* Nothing is locked: a request reads, and commits later; a close keeps    *)
(* the row of the session from its first flush.                            *)
(***************************************************************************)
EXTENDS Integers, Sequences, SequencesExt, FiniteSets, FiniteSetsExt, Functions, TLC

CONSTANTS
  Published, Questions,
  Marks,         \* Marks[p][q]: final mark, or a negative number if not eligible
  MaxMark,
  MinCohort,     \* MIN_PSYCHOMETRIC_COHORT_SIZE
  MinCommon,     \* MIN_CALIBRATION_CASES; a session has its own minimum of cases
  Raters, Callers,
  QualitySettings,
  MaxPsychometrics   \* bound: rows of psychometric runs

Nothing == [phase |-> "idle"]
Final(p, q) == Marks[p][q] >= 0
Answered == {a \in Published \X Questions : Final(a[1], a[2])}

VARIABLES
  psychometric,  \* psychometric runs: their cohort, status and item metrics
  effective,     \* the results now PUBLISHED
  calibration,   \* status of the session, NONE when there is none
  cases,         \* answers frozen as cases, in the order of their codes
  raters,        \* participants
  response,      \* scores by <<answer, rater>>
  icc,           \* the session metric
  rated,         \* evaluator metrics, by rater
  caller, qsetting
qualityTables == <<psychometric, effective, calibration, cases, raters, response, icc, rated>>
qualityVars == <<qualityTables, caller, qsetting>>

NoIcc == [status |-> "NONE"]

QualityTypeOK ==
  /\ \A k \in DOMAIN psychometric :
       /\ psychometric[k].of \subseteq Published
       /\ psychometric[k].status \in {"COMPLETED", "INSUFFICIENT_SAMPLE"}
       /\ \A q \in DOMAIN psychometric[k].items : psychometric[k].items[q] \in Seq(0 .. MaxMark)
  /\ effective \subseteq Published /\ calibration \in {"NONE", "DRAFT", "ACTIVE", "CLOSED"}
  /\ ToSet(cases) \subseteq Answered /\ raters \subseteq Raters
  /\ DOMAIN response \subseteq Answered \X Raters /\ Range(response) \subseteq 0 .. MaxMark
  /\ icc.status \in {"NONE", "COMPLETED", "INSUFFICIENT_SAMPLE", "UNDEFINED"}
  /\ DOMAIN rated \subseteq Raters

QualityInit ==
  /\ qsetting \in QualitySettings
  /\ psychometric = << >> /\ effective = qsetting.cohort
  /\ calibration = qsetting.start
  /\ cases = IF calibration = "ACTIVE" THEN SetToSeq(qsetting.cases) ELSE << >>
  /\ raters = IF calibration = "ACTIVE" THEN Raters ELSE {}
  /\ response = << >> /\ icc = NoIcc /\ rated = << >> /\ caller = [s \in Callers |-> Nothing]

Asks(s, call) ==
  /\ s \in qsetting.callers /\ caller[s] = Nothing
  /\ caller' = [caller EXCEPT ![s] = call]
  /\ UNCHANGED <<qualityTables, qsetting>>
Commits(s, call) ==
  /\ caller[s].phase = call /\ caller' = [caller EXCEPT ![s] = Nothing] /\ UNCHANGED qsetting

-----------------------------------------------------------------------------
(* Psychometric runs                                                       *)

CohortMoves(ps) ==
  /\ ps \in qsetting.publishes /\ effective' = ps
  /\ UNCHANGED <<psychometric, calibration, cases, raters, response, icc, rated, caller, qsetting>>

\* Results of the cohort with at least one human-final mark.
EligibleResults == {p \in effective : \E q \in Questions : Final(p, q)}

\* The aligned score vectors of the items; their statistics follow from them.
Items(ps) ==
  [q \in {x \in Questions : \E p \in ps : Final(p, x)} |->
     LET scored == SetToSeq({p \in ps : Final(p, q)})
     IN  [i \in DOMAIN scored |-> Marks[scored[i]][q]]]

\* create_or_get_psychometric_run: a run of the same source set is returned.
\* PENDING is never committed.
PsychometricRead(s) ==
  /\ qsetting.psychometrics /\ Len(psychometric) < MaxPsychometrics
  /\ ~\E k \in DOMAIN psychometric : psychometric[k].of = EligibleResults
  /\ Asks(s, [phase |-> "psychometric", of |-> EligibleResults])

\* The unique constraint on the hash of the source set.
SourcesFree(ps) == \A k \in DOMAIN psychometric : psychometric[k].of # ps

PsychometricCommit(s) ==
  /\ Commits(s, "psychometric")
  /\ LET of == caller[s].of
         enough == Cardinality(of) >= MinCohort
         new == [of |-> of, status |-> IF enough THEN "COMPLETED" ELSE "INSUFFICIENT_SAMPLE",
                 items |-> IF enough THEN Items(of) ELSE << >>]
     IN  psychometric' = IF SourcesFree(of) THEN Append(psychometric, new) ELSE psychometric
  /\ UNCHANGED <<effective, calibration, cases, raters, response, icc, rated>>

-----------------------------------------------------------------------------
(* The calibration session                                                 *)

\* add_calibration_case: the code is the number of cases plus one.
CaseRead(s, a) ==
  /\ calibration = "DRAFT" /\ a[1] \in effective /\ a \in Answered \ ToSet(cases)
  /\ Asks(s, [phase |-> "case", answer |-> a, code |-> Len(cases) + 1])

\* A code or an answer that is taken meanwhile is CALIBRATION_CASE_CONFLICT.
CaseCommit(s) ==
  /\ Commits(s, "case")
  /\ cases' = IF caller[s].code = Len(cases) + 1 /\ caller[s].answer \notin ToSet(cases)
              THEN Append(cases, caller[s].answer) ELSE cases
  /\ UNCHANGED <<psychometric, effective, calibration, raters, response, icc, rated>>

RaterRead(s, u) ==
  /\ calibration = "DRAFT" /\ u \notin raters /\ Asks(s, [phase |-> "rater", rater |-> u])
RaterCommit(s) ==
  /\ Commits(s, "rater") /\ raters' = raters \cup {caller[s].rater}
  /\ UNCHANGED <<psychometric, effective, calibration, cases, response, icc, rated>>

\* No close holds the row of the session.
RowFree == \A s \in Callers : caller[s].phase = "close" => ~caller[s].holds

ActivateSession(s) ==
  /\ calibration = "DRAFT" /\ Len(cases) >= qsetting.minimum /\ Cardinality(raters) >= 2
  /\ Asks(s, [phase |-> "activate"])
ActivateSessionCommit(s) ==
  /\ Commits(s, "activate") /\ RowFree /\ calibration' = "ACTIVE"
  /\ UNCHANGED <<psychometric, effective, cases, raters, response, icc, rated>>

\* submit_calibration_response, while ACTIVE, once for a case.
RespondRead(s, a, u, score) ==
  /\ calibration = "ACTIVE" /\ a \in ToSet(cases) /\ u \in raters
  /\ <<a, u>> \notin DOMAIN response /\ score \in qsetting.scores
  /\ Asks(s, [phase |-> "respond", key |-> <<a, u>>, score |-> score])

\* uq_calibration_responses: CALIBRATION_RESPONSE_IMMUTABLE otherwise.
ResponseFree(key) == key \notin DOMAIN response

RespondCommit(s) ==
  /\ Commits(s, "respond")
  /\ LET new == caller[s].key :> caller[s].score
     IN  response' = IF ResponseFree(caller[s].key) THEN new @@ response ELSE response
  /\ UNCHANGED <<psychometric, effective, calibration, cases, raters, icc, rated>>

-----------------------------------------------------------------------------
(* Closing: ICC(A,1) over the common cases, and one metric per rater       *)

\* The cases every participant responded to.
Common(us, done) == {a \in ToSet(cases) : \A u \in us : <<a, u>> \in DOMAIN done}

Sum(S, term(_)) == MapThenSumSet(term, S)
Square(x) == x * x

\* icc_a1, in integers: the sums of squares times n k, and the value as a
\* fraction.  The denominator is never negative.
Agreement(as, us, done) ==
  LET n == Cardinality(as)
      k == Cardinality(us)
      RowSum(a) == Sum(us, LAMBDA u : done[<<a, u>>])
      ColumnSum(u) == Sum(as, LAMBDA a : done[<<a, u>>])
      grand == Square(Sum(as, RowSum))
      rows == n * Sum(as, LAMBDA a : Square(RowSum(a))) - grand
      columns == k * Sum(us, LAMBDA u : Square(ColumnSum(u))) - grand
      total == n * k * Sum(as \X us, LAMBDA c : Square(done[c])) - grand
      error == total - rows - columns
  IN  [num |-> n * ((k - 1) * rows - error),
       den |-> n * (k - 1) * (rows + error) + k * ((n - 1) * columns - error)]

SessionMetric(us, done) ==
  LET as == Common(us, done)
      value == Agreement(as, us, done)
      floor == Cardinality(us) >= 2 /\ Cardinality(as) >= MinCommon
  IN  [status |-> CASE ~floor -> "INSUFFICIENT_SAMPLE"
                    [] floor /\ value.den = 0 -> "UNDEFINED"
                    [] OTHER -> "COMPLETED",
       raters |-> Cardinality(us), common |-> Cardinality(as), value |-> value]

Reference(a) == Marks[a[1]][a[2]]
Distance(x, y) == IF x < y THEN y - x ELSE x - y
AnsweredBy(u, done) == {a \in ToSet(cases) : <<a, u>> \in DOMAIN done}
RaterMetric(u, done) ==
  [count |-> Cardinality(AnsweredBy(u, done)),
   error |-> Sum(AnsweredBy(u, done), LAMBDA a : Distance(done[<<a, u>>], Reference(a)))]

\* close_calibration_session, and a close that finds it CLOSED: metrics that
\* are not there are made from the rows it reads.  The first SELECT flushes the
\* change to CLOSED, which waits for another close.
CloseRead(s) ==
  /\ calibration \in {"ACTIVE", "CLOSED"} /\ (calibration = "ACTIVE" => RowFree)
  /\ Asks(s, [phase |-> "close", holds |-> calibration = "ACTIVE",
              icc |-> IF icc = NoIcc THEN SessionMetric(raters, response) ELSE icc,
              rated |-> [u \in raters \ DOMAIN rated |-> RaterMetric(u, response)]])
CloseCommit(s) ==
  /\ Commits(s, "close")
  /\ calibration' = IF caller[s].holds THEN "CLOSED" ELSE calibration
  /\ icc' = caller[s].icc /\ rated' = rated @@ caller[s].rated
  /\ UNCHANGED <<psychometric, effective, cases, raters, response>>

QualityNext ==
  \/ \E ps \in SUBSET Published : CohortMoves(ps)
  \/ \E s \in Callers :
       \/ PsychometricRead(s) \/ PsychometricCommit(s)
       \/ ActivateSession(s) \/ ActivateSessionCommit(s)
       \/ \E a \in Answered : CaseRead(s, a)
       \/ \E u \in Raters : RaterRead(s, u)
       \/ CaseCommit(s) \/ RaterCommit(s)
       \/ \E a \in Answered, u \in Raters, score \in 0 .. MaxMark : RespondRead(s, a, u, score)
       \/ RespondCommit(s) \/ CloseRead(s) \/ CloseCommit(s)

-----------------------------------------------------------------------------
OneCaller == Cardinality(qsetting.callers) = 1

\* "Idempotent on source-set hash": one run per cohort, whatever requests race,
\* and numbers only from a cohort of the minimum size.
OneRunPerCohort ==
  /\ \A j, k \in DOMAIN psychometric : psychometric[j].of = psychometric[k].of => j = k
  /\ \A k \in DOMAIN psychometric :
       DOMAIN psychometric[k].items # {} => Cardinality(psychometric[k].of) >= MinCohort

\* With one request at a time the metrics of a closed session count every
\* response, and every participant has one.
ClosedIsMeasured ==
  OneCaller /\ calibration = "CLOSED" =>
    /\ DOMAIN rated = raters
    /\ MapThenSumSet(LAMBDA u : rated[u].count, raters) = Cardinality(DOMAIN response)

\* The reliability is perfect exactly when the raters agree on every case that
\* counts, and undefined only when all their scores are the same number.
PerfectIsAgreement ==
  LET all == {a \in ToSet(cases) : \A u \in raters : <<a, u>> \in DOMAIN response}
      agree == \A a \in all, u, v \in raters : response[<<a, u>>] = response[<<a, v>>]
      same == \A a, b \in all, u, v \in raters : response[<<a, u>>] = response[<<b, v>>]
  IN  OneCaller =>
        /\ icc.status = "COMPLETED" => (icc.value.num = icc.value.den <=> agree)
        /\ icc.status = "UNDEFINED" => same

\* Two raters, a close and a late answer: a response given is never changed,
\* and neither is a metric computed from them.
CalibrationStays ==
  [][/\ \A k \in DOMAIN response : k \in DOMAIN response' /\ response'[k] = response[k]
     /\ icc # NoIcc => icc' = icc
     /\ \A u \in DOMAIN rated : rated'[u] = rated[u]]_qualityVars
=============================================================================
