--------------------------- MODULE OutcomeReports ---------------------------
(***************************************************************************)
(* Outcomes of an assessment version (services/outcome_intelligence.py):   *)
(* definitions, mapping sets from questions to outcomes, attainment        *)
(* reports and answer-cluster runs over the published results.  A request  *)
(* reads without locks and writes later; the identity hash of a report or  *)
(* a run is what it was computed from.                                     *)
(***************************************************************************)
EXTENDS Integers, Sequences, SequencesExt, FiniteSets, FiniteSetsExt, TLC

CONSTANTS
  Outcomes, Questions, Published,
  Marks,         \* Marks[p][q]: final mark, or a negative number if not eligible
  MaxMark, MinCohort,
  Clerks,
  OutcomeSettings,
  MaxReports     \* bound of this model, as are the sets and mappings of a setting

Idle == [phase |-> "idle"]
Mapping == Questions \X Outcomes

VARIABLES
  outcome,   \* outcome[o]: ACTIVE or RETIRED
  sets,      \* mapping sets: status, mappings, and those its activation hashed
  cohort,    \* results now PUBLISHED
  reports,   \* attainment reports
  clusters,  \* answer-cluster runs
  clerk, osetting
outcomeVars == <<outcome, sets, cohort, reports, clusters, clerk, osetting>>

OutcomeTypeOK ==
  /\ outcome \in [Outcomes -> {"ACTIVE", "RETIRED"}]
  /\ sets \in Seq([status : {"DRAFT", "ACTIVE", "RETIRED"}, maps : SUBSET Mapping,
                   hashed : SUBSET Mapping])
  /\ cohort \subseteq Published
  /\ clusters \in Seq([question : Questions, of : SUBSET Published,
                       status : {"COMPLETED", "INSUFFICIENT_SAMPLE"}])

OutcomeInit ==
  /\ osetting \in OutcomeSettings
  /\ outcome = [o \in Outcomes |-> "ACTIVE"] /\ sets = << >> /\ cohort = osetting.cohort
  /\ reports = << >> /\ clusters = << >> /\ clerk = [s \in Clerks |-> Idle]

Reads(s, call) ==
  /\ s \in osetting.clerks /\ clerk[s] = Idle
  /\ clerk' = [clerk EXCEPT ![s] = call]
  /\ UNCHANGED <<outcome, sets, cohort, reports, clusters, osetting>>
Doing(s, call) == clerk[s].phase = call /\ clerk' = [clerk EXCEPT ![s] = Idle]

-----------------------------------------------------------------------------
\* update_outcome_definition, create_mapping_set, and the publication of a
\* result (which may supersede another).
SetStatus(o, status) ==
  /\ osetting.edits /\ outcome' = [outcome EXCEPT ![o] = status]
  /\ UNCHANGED <<sets, cohort, reports, clusters, clerk, osetting>>
CreateSet ==
  /\ osetting.edits /\ Len(sets) < osetting.sets
  /\ sets' = Append(sets, [status |-> "DRAFT", maps |-> {}, hashed |-> {}])
  /\ UNCHANGED <<outcome, cohort, reports, clusters, clerk, osetting>>
CohortChanges(ps) ==
  /\ ps \in osetting.publishes /\ cohort' = ps
  /\ UNCHANGED <<outcome, sets, reports, clusters, clerk, osetting>>

\* Mutant: mappings are removed from any set that is not retired.
NotRetired(i) == sets[i].status # "RETIRED"
Editable(i) == sets[i].status = "DRAFT"

\* add_question_mapping and remove_question_mapping, in a DRAFT set.
AddRead(s, i, m) ==
  /\ osetting.edits /\ Editable(i) /\ outcome[m[2]] = "ACTIVE"
  /\ m \in osetting.maps \ sets[i].maps
  /\ Reads(s, [phase |-> "add", set |-> i, map |-> m])
AddCommit(s) ==
  /\ Doing(s, "add")
  /\ sets' = [sets EXCEPT ![clerk[s].set].maps = @ \cup {clerk[s].map}]
  /\ UNCHANGED <<outcome, cohort, reports, clusters, osetting>>
RemoveRead(s, i, m) ==
  /\ osetting.edits /\ Editable(i) /\ m \in sets[i].maps
  /\ Reads(s, [phase |-> "remove", set |-> i, map |-> m])
RemoveCommit(s) ==
  /\ Doing(s, "remove")
  /\ sets' = [sets EXCEPT ![clerk[s].set].maps = @ \ {clerk[s].map}]
  /\ UNCHANGED <<outcome, cohort, reports, clusters, osetting>>

ActiveSets == {i \in DOMAIN sets : sets[i].status = "ACTIVE"}

\* activate_mapping_set: every mapped outcome is ACTIVE; the sets it found
\* active are retired.
ActivateRead(s, i) ==
  /\ sets[i].status = "DRAFT" /\ sets[i].maps # {}
  /\ \A m \in sets[i].maps : outcome[m[2]] = "ACTIVE"
  /\ Reads(s, [phase |-> "activate", set |-> i, maps |-> sets[i].maps, others |-> ActiveSets])
ActivateCommit(s) ==
  /\ Doing(s, "activate")
  /\ sets' = [i \in DOMAIN sets |->
                IF i = clerk[s].set THEN [sets[i] EXCEPT !.status = "ACTIVE", !.hashed = clerk[s].maps]
                ELSE IF i \in clerk[s].others THEN [sets[i] EXCEPT !.status = "RETIRED"]
                ELSE sets[i]]
  /\ UNCHANGED <<outcome, cohort, reports, clusters, osetting>>

-----------------------------------------------------------------------------
\* The question evaluations a report counts: final marks of the cohort.
Eligible(p, q) == Marks[p][q] >= 0
Contributions(maps, ps, o) == {<<p, m>> \in ps \X maps : m[2] = o /\ Eligible(p, m[1])}

Earned(maps, ps, o) == MapThenSumSet(LAMBDA c : Marks[c[1]][c[2][1]], Contributions(maps, ps, o))
Maximum(maps, ps, o) == MaxMark * Cardinality(Contributions(maps, ps, o))

Metrics(maps, ps) ==
  [o \in {m[2] : m \in maps} |->
    [earned |-> Earned(maps, ps, o), maximum |-> Maximum(maps, ps, o),
     denom |-> IF Maximum(maps, ps, o) = 0 THEN "ZERO_DENOM" ELSE "OK"]]

\* create_attainment_report over an ACTIVE or RETIRED set, or the answer that
\* is there already.
SameReport(r, i, ps) == r.set = i /\ r.hashed = sets[i].hashed /\ r.of = ps
ReportRead(s, i) ==
  /\ sets[i].status # "DRAFT" /\ sets[i].maps # {} /\ Len(reports) < MaxReports
  /\ ~\E k \in DOMAIN reports : SameReport(reports[k], i, cohort)
  /\ Reads(s, [phase |-> "report", set |-> i, maps |-> sets[i].maps, of |-> cohort])

\* uq_outcome_attainment_runs_tenant_av_map_hash_algo.
ReportTaken(i, ps) == \E k \in DOMAIN reports : SameReport(reports[k], i, ps)

\* The row of another request collides, and the request fails.
ReportCommit(s) ==
  /\ Doing(s, "report")
  /\ LET c == clerk[s]
     IN  reports' = IF ReportTaken(c.set, c.of) THEN reports
                    ELSE Append(reports, [set |-> c.set, hashed |-> sets[c.set].hashed,
                                          of |-> c.of, metrics |-> Metrics(c.maps, c.of)])
  /\ UNCHANGED <<outcome, sets, cohort, clusters, osetting>>

EligibleAnswers(q, ps) == {p \in ps : Eligible(p, q)}

\* create_cluster_run: one run per question and set of eligible answers.
ClusterRead(s, q) ==
  /\ osetting.clusters /\ Len(clusters) < MaxReports
  /\ ~\E k \in DOMAIN clusters : clusters[k].question = q /\ clusters[k].of = EligibleAnswers(q, cohort)
  /\ Reads(s, [phase |-> "cluster", question |-> q, of |-> EligibleAnswers(q, cohort)])
ClusterCommit(s) ==
  /\ Doing(s, "cluster")
  /\ LET c == clerk[s]
         taken == \E k \in DOMAIN clusters : clusters[k].question = c.question /\ clusters[k].of = c.of
         status == IF Cardinality(c.of) < MinCohort THEN "INSUFFICIENT_SAMPLE" ELSE "COMPLETED"
     IN  clusters' = IF taken THEN clusters
                     ELSE Append(clusters, [question |-> c.question, of |-> c.of, status |-> status])
  /\ UNCHANGED <<outcome, sets, cohort, reports, osetting>>

OutcomeNext ==
  \/ CreateSet \/ \E ps \in SUBSET Published : CohortChanges(ps)
  \/ \E o \in Outcomes, status \in {"ACTIVE", "RETIRED"} : SetStatus(o, status)
  \/ \E s \in Clerks :
       \/ \E i \in DOMAIN sets : \/ \E m \in Mapping : AddRead(s, i, m) \/ RemoveRead(s, i, m)
                                 \/ ActivateRead(s, i) \/ ReportRead(s, i)
       \/ \E q \in Questions : ClusterRead(s, q)
       \/ AddCommit(s) \/ RemoveCommit(s) \/ ActivateCommit(s)
       \/ ReportCommit(s) \/ ClusterCommit(s)

-----------------------------------------------------------------------------
OneClerk == Cardinality(osetting.clerks) = 1

\* With one request at a time a version has one active mapping set.
OneActiveSet ==
  OneClerk => \A i, j \in DOMAIN sets : sets[i].status = "ACTIVE" /\ sets[j].status = "ACTIVE" => i = j

\* The numbers of a report can be computed again from what its hash names: the
\* mappings as they were activated and the results it lists, whatever was
\* mapped, retired or published since.
ReportsAreReproducible ==
  OneClerk => \A k \in DOMAIN reports : reports[k].metrics = Metrics(reports[k].hashed, reports[k].of)

\* The attainment of an outcome lies between none and all of its marks, and is
\* given unless no final mark counts towards it.
AttainmentIsARatio ==
  \A k \in DOMAIN reports, o \in Outcomes : o \in DOMAIN reports[k].metrics =>
    LET v == reports[k].metrics[o]
        final == {p \in reports[k].of : \E m \in sets[reports[k].set].hashed :
                    m[2] = o /\ Marks[p][m[1]] >= 0}
    IN  /\ 0 <= v.earned /\ v.earned <= v.maximum
        /\ OneClerk => (v.denom = "ZERO_DENOM" <=> final = {})

\* One report per mapping set and cohort, whatever requests race.
OneReportPerInput ==
  \A j, k \in DOMAIN reports : /\ reports[j].set = reports[k].set /\ reports[j].of = reports[k].of
                               /\ reports[j].hashed = reports[k].hashed
                               => j = k

\* Clusters are made only of answers with a final mark, and of enough of them.
ClustersHaveACohort ==
  \A k \in DOMAIN clusters :
    /\ \A p \in clusters[k].of : Marks[p][clusters[k].question] >= 0
    /\ clusters[k].status = "COMPLETED" => Cardinality(clusters[k].of) >= MinCohort
=============================================================================
