--------------------------- MODULE LearningProofs ---------------------------
(***************************************************************************)
(* Theorems about mastery and learning plans: what is known of a student   *)
(* follows from the published results, for every set of results, nodes and *)
(* workers, and every fault; plans and reassessments are the ones approved *)
(* and stay so.                                                            *)
(***************************************************************************)
EXTENDS LearningPlans, FiniteSetTheorems, TLAPS

---------------------------------------------------------------------------
(* The inductive invariants of mastery                                     *)

MSessions == {Idle} \cup [phase : {"claimed"}, of : Results \cup {"student"}]
               \cup [phase : {"computed"}, of : Results \cup {"student"}, seen : SUBSET Results]
Reassessments ==
  [status : {"NONE", "CREATED", "SUBMITTED", "PUBLISHED"}, submission : Attempts \cup {"none"},
   result : Results \cup {"none"}, nodes : SUBSET Nodes,
   baseline : [Nodes -> SUBSET Results], post : [Nodes -> SUBSET Results]]

MasteryType ==
  /\ MasteryTypeOK /\ rebuilds \in 0 .. MaxRebuilds
  /\ msetting \in MasterySettings /\ reassessment \in Reassessments
  /\ msession \in [Materializers -> MSessions]

\* What a session knows was published, and a result in force whose session has
\* read the evidence is among what it read.
WorkKnown ==
  \A w \in Materializers : msession[w] # Idle =>
    /\ w \in msetting.workers
    /\ Own(w) \in Results => status[Own(w)] # "NONE"
    /\ msession[w].phase = "computed" =>
         /\ \A x \in msession[w].seen : status[x] # "NONE"
         /\ Own(w) \in InForce => Own(w) \in msession[w].seen

Newest == published[Len(published)]

\* The published results have a status, one of each submission is in force, the
\* newest among them; a history row contains its own result.
HistoryKnown ==
  /\ \A r \in Results : status[r] # "NONE" <=> \E i \in DOMAIN published : published[i] = r
  /\ \A r \in Results : status[r] # "NONE" =>
       \E x \in InForce : SubmissionOf[x] = SubmissionOf[r]
  /\ published # << >> => Newest \in InForce
  /\ \A r \in Results : LET n == ledger[r].node
                        IN  snapshot[r][n] # NoRow => r \in snapshot[r][n]

OutcomeKnown ==
  reassessment.status = "PUBLISHED" =>
    LET r == reassessment.result IN
    /\ r \in Results /\ status[r] # "NONE"
    /\ reassessment.submission \in Attempts /\ SubmissionOf[r] = reassessment.submission
    /\ r \in InForce /\ ledger[r].node \in reassessment.nodes =>
         r \in reassessment.post[ledger[r].node]

Alone == Cardinality(msetting.workers) = 1

\* With one worker: a session holds a running job, and what it read is what
\* there is unless the newest result is still to come.
AloneWork ==
  /\ \A w \in Materializers : msession[w] # Idle /\ Own(w) \in Results => job[Own(w)] = "RUNNING"
  /\ \A w \in Materializers :
       /\ msession[w].phase = "computed" /\ published # << >>
       /\ Own(w) = Newest \/ job[Newest] = "SUCCEEDED"
       => msession[w].seen = EvidenceInForce(OwnRows(w))

\* With one worker: a job that succeeded has its evidence, and once that of the
\* newest result has, the state and its history are those of what is in force.
AloneState ==
  /\ \A r \in Results : job[r] = "SUCCEEDED" => r \in evidence
  /\ published # << >> /\ job[Newest] = "SUCCEEDED" =>
       /\ state = States(evidence \cap InForce)
       /\ \A n \in Nodes : state[n] # NoRow => snapshot[Newest][n] = state[n]

\* With one worker: while a superseded attempt is materialised, the one in
\* force has not been; once it has, the outcome is its own.
AloneOutcome ==
  /\ \A w \in Materializers :
       msession[w] # Idle /\ Own(w) \in Results \ InForce =>
         \A r \in InForce : SubmissionOf[r] = SubmissionOf[Own(w)] => job[r] # "SUCCEEDED"
  /\ reassessment.status = "PUBLISHED" =>
       \A r \in InForce : SubmissionOf[r] = reassessment.submission /\ job[r] = "SUCCEEDED" =>
         reassessment.result \in InForce

AloneInv == Alone => AloneWork /\ AloneState /\ AloneOutcome
MasteryInv == MasteryType /\ WorkKnown /\ HistoryKnown /\ OutcomeKnown /\ AloneInv

---------------------------------------------------------------------------
(* The inductive invariants of plans                                       *)

Plan == [facts : SUBSET Results, graph : 0 .. 1, status : PlanStates, steps : BOOLEAN]
Blueprint == [plan : 1 .. MaxPlans, version : 1 .. MaxBlueprints, status : BlueprintStates,
              items : SUBSET Nodes]
PSessions == {Idle} \cup [phase : {"begun", "generating"}, plan : Nat]
               \cup [phase : {"written"}, plan : Nat, older : SUBSET Nat]
               \cup [phase : {"drafting", "drafted", "stored"}, bp : Nat]
               \cup [phase : {"deciding"}, bp : Nat, as : {"APPROVED", "REJECTED"}]

\* The tables are typed, and what sessions and blueprints point at exists.
PlanType ==
  /\ TypeOK /\ Len(plan) <= MaxPlans /\ Len(blueprint) <= MaxBlueprints
  /\ psession \in [Planners \cup Teachers -> PSessions]
  /\ \A j \in DOMAIN blueprint : blueprint[j].plan \in DOMAIN plan
  /\ \A s \in Planners \cup Teachers :
       /\ psession[s].phase \in {"begun", "generating", "written"} => psession[s].plan \in DOMAIN plan
       /\ psession[s].phase \in {"drafting", "drafted", "stored", "deciding"} =>
            psession[s].bp \in DOMAIN blueprint

\* Who works: planners generate, teachers decide.
Planning(s) == psession[s].phase \in {"begun", "generating", "written"}
Drafting(s) == psession[s].phase \in {"drafting", "drafted", "stored"}
Deciding(s) == psession[s].phase = "deciding"
PlannersKnown ==
  \A s \in Planners \cup Teachers :
    /\ Planning(s) \/ Drafting(s) => s \in msetting.planners
    /\ Deciding(s) => s \in msetting.teachers

Goals(j) == Targets(plan[blueprint[j].plan])

\* A blueprint asks for the weaknesses of its plan, of which there are some; so
\* does one that is being decided, whatever a late delivery makes of its status.
BlueprintsKnown ==
  /\ \A j \in DOMAIN blueprint :
       /\ Goals(j) # {}
       /\ blueprint[j].status \in {"PENDING_APPROVAL", "APPROVED"} =>
            blueprint[j].items = Goals(j)
  /\ \A s \in Planners \cup Teachers :
       Deciding(s) => blueprint[psession[s].bp].items = Goals(psession[s].bp)

OnePlanner == Cardinality(msetting.planners) = 1
OneTeacher == Cardinality(msetting.teachers) = 1

\* With one planner and one teacher: nobody drafts what awaits a decision or has
\* an approval, and what is being decided awaits its decision.
DecisionsAlone ==
  OnePlanner /\ OneTeacher =>
    \A s \in Planners \cup Teachers :
      /\ Drafting(s) => ~Finished(blueprint[psession[s].bp])
      /\ Deciding(s) => blueprint[psession[s].bp].status = "PENDING_APPROVAL"

\* With one planner: nothing becomes READY between its read of the older plans
\* and its commit.
OlderKnown ==
  OnePlanner =>
    \A s \in Planners \cup Teachers : psession[s].phase = "written" =>
      \A x \in DOMAIN plan : plan[x].status = "READY" =>
        x \in psession[s].older \cup {psession[s].plan}

PlanInv == PlanType /\ PlannersKnown /\ BlueprintsKnown /\ DecisionsAlone /\ OlderKnown /\ PlansAreSound

---------------------------------------------------------------------------
(* Mastery: one step                                                       *)

Creates(nodes) ==
  CreateReassessment(nodes) /\ UNCHANGED <<tasks, rebuilds, msession, msetting>>
MasteryStep == MasteryNext \/ \E nodes \in SUBSET Nodes : Creates(nodes)

LEMMA OutcomeFields ==
  ASSUME reassessment \in Reassessments, NEW r \in Results \cup {"student"},
         NEW history \in [Results -> [Nodes -> SUBSET Results]]
  PROVE  LET o == Outcome(r, history) IN
         /\ o \in Reassessments /\ o.nodes = reassessment.nodes
         /\ o.submission = reassessment.submission /\ o.baseline = reassessment.baseline
         /\ ~IsAttempt(r) => o = reassessment
         /\ IsAttempt(r) =>
              /\ o.status = "PUBLISHED" /\ o.result = r /\ reassessment.status # "NONE"
              /\ \A n \in reassessment.nodes : history[r][n] # NoRow => o.post[n] = history[r][n]
              /\ \A n \in Nodes : o.post[n] # reassessment.post[n] =>
                                    n \in reassessment.nodes /\ history[r][n] # NoRow
<1>1. CASE ~IsAttempt(r)
  BY <1>1 DEF Outcome
<1>2. CASE IsAttempt(r)
  <2>1. r \in Results /\ reassessment.status # "NONE"
    BY <1>2 DEF IsAttempt
  <2>2. PICK post : post = [n \in Nodes |-> IF n \in reassessment.nodes /\ history[r][n] # NoRow
                                            THEN history[r][n] ELSE reassessment.post[n]]
    OBVIOUS
  <2>3. post \in [Nodes -> SUBSET Results]
    BY <2>1, <2>2 DEF Reassessments
  <2>4. Outcome(r, history) = [reassessment EXCEPT !.status = "PUBLISHED", !.result = r, !.post = post]
    BY <1>2, <2>2 DEF Outcome, Reassessments
  <2>5. PICK o : o = Outcome(r, history)
    OBVIOUS
  <2>6. /\ o \in Reassessments /\ o.nodes = reassessment.nodes
        /\ o.submission = reassessment.submission /\ o.baseline = reassessment.baseline
        /\ o.status = "PUBLISHED" /\ o.result = r /\ o.post = post
    BY <2>1, <2>3, <2>4, <2>5 DEF Reassessments
  <2>7. \A n \in reassessment.nodes : n \in Nodes
    BY DEF Reassessments
  <2>8. /\ \A n \in reassessment.nodes : history[r][n] # NoRow => post[n] = history[r][n]
        /\ \A n \in Nodes : post[n] # reassessment.post[n] =>
                              n \in reassessment.nodes /\ history[r][n] # NoRow
    BY <2>2, <2>7
  <2> QED  BY <1>2, <2>1, <2>5, <2>6, <2>8
<1> QED  BY <1>1, <1>2

LEMMA LedgerTyped ==
  ASSUME MasteryType, NEW r \in Results
  PROVE  ledger[r] \in Entries(Nodes)
BY MasteryAssumption DEF MasteryType, ledger

LEMMA ReadsTyped ==
  ASSUME MasteryType, NEW seen \in SUBSET Results
  PROVE  /\ States(seen) \in [Nodes -> SUBSET Results]
         /\ Snapshots(seen) \in [Results -> [Nodes -> SUBSET Results]]
         /\ Mistakes(seen) \subseteq Results \X Codes
<1>1. States(seen) \in [Nodes -> SUBSET Results]
  BY DEF States, OfNode
<1>2. Snapshots(seen) \in [Results -> [Nodes -> SUBSET Results]]
  BY DEF Snapshots, Earlier, OfNode, MasteryType, MasteryTypeOK
<1>3. Mistakes(seen) \subseteq Results \X Codes
  <2>1. \A r \in seen : Academic(ledger[r]) \subseteq Codes
    BY LedgerTyped DEF Entries, Academic
  <2> QED  BY <2>1 DEF Mistakes
<1> QED  BY <1>1, <1>2, <1>3

\* A session in its three forms.
LEMMA SessionForms ==
  ASSUME MasteryType, NEW w \in Materializers
  PROVE  /\ msession[w] \in MSessions
         /\ msession[w] # Idle => /\ msession[w].phase \in {"claimed", "computed"}
                                  /\ Own(w) \in Results \cup {"student"}
         /\ msession[w].phase = "computed" => msession[w].seen \in SUBSET Results /\ msession[w] # Idle
         /\ msession[w].phase = "claimed" => msession[w] # Idle
BY DEF MasteryType, MSessions, Idle, Own

LEMMA TypeKept ==
  ASSUME MasteryType, MasteryStep
  PROVE  MasteryType'
<1>0. /\ MaxTasks \in Nat \ {0} /\ MaxRebuilds \in Nat
  BY MasteryAssumption
<1> USE DEF MasteryType, MasteryTypeOK
<1>1. ASSUME NEW r \in Results, Publish(r) PROVE MasteryType'
  BY <1>0, <1>1 DEF Publish, JobStates
<1>2. ASSUME NEW r \in Results, PrepareAnalytics(r) PROVE MasteryType'
  BY <1>0, <1>2 DEF PrepareAnalytics, JobStates
<1>3. ASSUME NEW r \in Results, RebuildOutcome(r) PROVE MasteryType'
  <2>1. reassessment' \in Reassessments
    BY <1>3, OutcomeFields DEF RebuildOutcome
  <2>2. rebuilds' \in 0 .. MaxRebuilds
    BY <1>0, <1>3 DEF RebuildOutcome
  <2> QED  BY <1>3, <2>1, <2>2 DEF RebuildOutcome, Reassessments
<1>4. ASSUME NEW w \in Materializers, NEW r \in Results, TaskBegin(w, r) PROVE MasteryType'
  <2>1. tasks' \in [Results -> 0 .. MaxTasks]
    BY <1>0, <1>4 DEF TaskBegin
  <2>2. job' \in [Results -> JobStates]
    BY <1>4 DEF TaskBegin, JobStates
  <2>3. msession' \in [Materializers -> MSessions]
    BY <1>4 DEF TaskBegin, MSessions
  <2> QED  BY <1>4, <2>1, <2>2, <2>3 DEF TaskBegin
<1>5. ASSUME NEW w \in Materializers, RebuildBegin(w) PROVE MasteryType'
  <2>1. msession' \in [Materializers -> MSessions]
    BY <1>5 DEF RebuildBegin, MSessions
  <2>2. rebuilds' \in 0 .. MaxRebuilds
    BY <1>0, <1>5 DEF RebuildBegin
  <2> QED  BY <1>5, <2>1, <2>2 DEF RebuildBegin, tables
<1>6. ASSUME NEW w \in Materializers, MaterializeRead(w) PROVE MasteryType'
  <2>1. Own(w) \in Results \cup {"student"}
    BY <1>6, SessionForms DEF MaterializeRead
  <2>2. EvidenceInForce(OwnRows(w)) \in SUBSET Results
    BY DEF EvidenceInForce, InForce
  <2>3. msession' \in [Materializers -> MSessions]
    BY <1>6, <2>1, <2>2 DEF MaterializeRead, MSessions
  <2> QED  BY <1>6, <2>3 DEF MaterializeRead, tables
<1>7. ASSUME NEW w \in Materializers, MaterializeCommit(w) PROVE MasteryType'
  <2>1. /\ msession[w].seen \in SUBSET Results /\ Own(w) \in Results \cup {"student"}
    BY <1>7, SessionForms DEF MaterializeCommit
  <2>2. /\ state' \in [Nodes -> SUBSET Results]
        /\ snapshot' \in [Results -> [Nodes -> SUBSET Results]]
        /\ notebook' \subseteq Results \X Codes
    BY <1>7, <2>1, ReadsTyped DEF MaterializeCommit, CurrentState
  <2>3. reassessment' \in Reassessments
    BY <1>7, <2>1, ReadsTyped, OutcomeFields DEF MaterializeCommit
  <2>4. evidence' \subseteq Results
    BY <1>7, <2>1 DEF MaterializeCommit, OwnRows
  <2>5. job' \in [Results -> JobStates]
    BY <1>7 DEF MaterializeCommit, JobStates
  <2>6. msession' \in [Materializers -> MSessions]
    BY <1>7 DEF MaterializeCommit, MSessions
  <2> QED  BY <1>7, <2>2, <2>3, <2>4, <2>5, <2>6 DEF MaterializeCommit, Reassessments
<1>8. ASSUME NEW w \in Materializers, MaterializeFail(w) \/ WorkerCrash(w) PROVE MasteryType'
  <2>1. msession' \in [Materializers -> MSessions]
    BY <1>8 DEF MaterializeFail, WorkerCrash, MSessions
  <2>2. job' \in [Results -> JobStates]
    BY <1>8 DEF MaterializeFail, WorkerCrash, FailureKept, tables, JobStates
  <2> QED  BY <1>8, <2>1, <2>2 DEF MaterializeFail, WorkerCrash, tables
<1>9. ASSUME NEW s, BindSubmission(s) PROVE MasteryType'
  BY <1>9 DEF BindSubmission, Reassessments
<1>10. ASSUME NEW nodes \in SUBSET Nodes, Creates(nodes) PROVE MasteryType'
  <2>1. reassessment' \in Reassessments
    BY <1>10 DEF Creates, CreateReassessment, NoReassessment, Reassessments, NoRow
  <2> QED  BY <1>10, <2>1 DEF Creates, CreateReassessment, Reassessments
<1> QED
  BY <1>1, <1>2, <1>3, <1>4, <1>5, <1>6, <1>7, <1>8, <1>9, <1>10 DEF MasteryStep, MasteryNext

LEMMA PublishEffect ==
  ASSUME MasteryType, NEW r \in Results, Publish(r)
  PROVE  /\ status[r] = "NONE" /\ r \in InForce'
         /\ \A x \in Results : x # r => (status'[x] # "NONE" <=> status[x] # "NONE")
         /\ \A x \in Results : x # r =>
              (x \in InForce' <=> x \in InForce /\ SubmissionOf[x] # SubmissionOf[r])
         /\ published' # << >> /\ Newest' = r
         /\ DOMAIN published' = DOMAIN published \cup {Len(published) + 1}
         /\ \A i \in DOMAIN published : published'[i] = published[i]
         /\ published'[Len(published) + 1] = r
         /\ job'[r] = "QUEUED" /\ \A x \in Results : x # r => job'[x] = job[x]
         /\ UNCHANGED <<evidence, state, snapshot, notebook, reassessment, rebuilds, msession, msetting>>
<1>1. /\ published \in Seq(Results) /\ published' = Append(published, r)
  BY DEF MasteryType, MasteryTypeOK, Publish
<1>2. /\ published' # << >> /\ Newest' = r
      /\ DOMAIN published' = DOMAIN published \cup {Len(published) + 1}
      /\ \A i \in DOMAIN published : published'[i] = published[i]
      /\ published'[Len(published) + 1] = r
  BY <1>1 DEF Newest
<1>3. /\ status[r] = "NONE" /\ status'[r] = "PUBLISHED"
      /\ \A x \in Results : x # r =>
           status'[x] = IF status[x] = "PUBLISHED" /\ SubmissionOf[x] = SubmissionOf[r]
                        THEN "SUPERSEDED" ELSE status[x]
  BY DEF Publish
<1>4. /\ r \in InForce'
      /\ \A x \in Results : x # r => (status'[x] # "NONE" <=> status[x] # "NONE")
      /\ \A x \in Results : x # r =>
           (x \in InForce' <=> x \in InForce /\ SubmissionOf[x] # SubmissionOf[r])
  BY <1>3 DEF InForce
<1>5. job'[r] = "QUEUED" /\ \A x \in Results : x # r => job'[x] = job[x]
  BY DEF Publish, MasteryType, MasteryTypeOK
<1> QED  BY <1>2, <1>3, <1>4, <1>5 DEF Publish

\* Every other step leaves the publications alone.
LEMMA PublishedSame ==
  ASSUME MasteryStep, ~\E r \in Results : Publish(r)
  PROVE  published' = published /\ status' = status /\ msetting' = msetting /\ InForce' = InForce
<1>1. published' = published /\ status' = status /\ msetting' = msetting
  BY DEF MasteryStep, MasteryNext, PrepareAnalytics, RebuildOutcome, TaskBegin, RebuildBegin,
         MaterializeRead, MaterializeCommit, MaterializeFail, WorkerCrash, BindSubmission,
         Creates, CreateReassessment, tables
<1> QED  BY <1>1 DEF InForce

LEMMA WorkKept ==
  ASSUME MasteryType, WorkKnown, MasteryStep
  PROVE  WorkKnown'
<1> DEFINE Knows(w) == msession[w] # Idle =>
             /\ w \in msetting.workers
             /\ Own(w) \in Results => status[Own(w)] # "NONE"
             /\ msession[w].phase = "computed" =>
                  /\ \A x \in msession[w].seen : status[x] # "NONE"
                  /\ Own(w) \in InForce => Own(w) \in msession[w].seen
<1>0. ASSUME NEW w \in Materializers PROVE Knows(w)
  BY DEF WorkKnown
<1>1. ASSUME NEW r \in Results, Publish(r) PROVE WorkKnown'
  <2> SUFFICES ASSUME NEW w \in Materializers, msession'[w] # Idle PROVE Knows(w)'
    BY DEF WorkKnown
  <2>1. /\ status[r] = "NONE" /\ msession' = msession /\ msetting' = msetting
        /\ \A x \in Results : x # r => (status'[x] # "NONE" <=> status[x] # "NONE")
        /\ \A x \in Results : x # r /\ x \in InForce' => x \in InForce
    BY <1>1, PublishEffect
  <2>2. Own(w)' = Own(w) /\ Knows(w) /\ msession[w] # Idle
    BY <1>0, <2>1 DEF Own
  <2>3. msession[w].phase = "computed" => msession[w].seen \subseteq Results
    BY SessionForms
  <2>4. InForce' \subseteq Results
    BY DEF InForce
  <2> QED  BY <2>1, <2>2, <2>3, <2>4
<1>2. CASE ~\E r \in Results : Publish(r)
  <2>1. status' = status /\ msetting' = msetting /\ InForce' = InForce
    BY <1>2, PublishedSame
  <2>2. ASSUME NEW w \in Materializers, msession'[w] = msession[w] \/ msession'[w] = Idle
        PROVE  Knows(w)'
    BY <1>0, <2>1, <2>2 DEF Own
  <2>3. ASSUME NEW w \in Materializers, NEW c, msession' = [msession EXCEPT ![w] = c],
               Knows(w)'
        PROVE  WorkKnown'
    <3>1. \A v \in Materializers : v # w => msession'[v] = msession[v]
      BY <2>3 DEF MasteryType
    <3> QED  BY <2>2, <2>3, <3>1 DEF WorkKnown
  <2> HIDE DEF Knows
  <2>4. CASE msession' = msession
    BY <2>2, <2>4 DEF WorkKnown, Knows
  <2>5. ASSUME NEW w \in Materializers, msession' = [msession EXCEPT ![w] = Idle]
        PROVE  WorkKnown'
    <3>1. msession'[w] = Idle
      BY <2>5 DEF MasteryType
    <3> QED  BY <2>2, <2>3, <2>5, <3>1
  <2>6. ASSUME NEW w \in Materializers, NEW r \in Results, TaskBegin(w, r) PROVE WorkKnown'
    <3>1. CASE status[r] = "PUBLISHED" /\ job[r] # "SUCCEEDED"
      <4>1. /\ msession' = [msession EXCEPT ![w] = [phase |-> "claimed", of |-> r]]
            /\ w \in msetting.workers
        BY <2>6, <3>1 DEF TaskBegin
      <4>2. Knows(w)'
        BY <2>1, <3>1, <4>1 DEF Knows, Own, MasteryType
      <4> QED  BY <2>3, <4>1, <4>2
    <3>2. CASE ~(status[r] = "PUBLISHED" /\ job[r] # "SUCCEEDED")
      BY <2>5, <2>6, <3>2 DEF TaskBegin
    <3> QED  BY <3>1, <3>2
  <2>7. ASSUME NEW w \in Materializers, RebuildBegin(w) PROVE WorkKnown'
    <3>1. /\ msession' = [msession EXCEPT ![w] = [phase |-> "claimed", of |-> "student"]]
          /\ w \in msetting.workers
      BY <2>7 DEF RebuildBegin
    <3>2. Knows(w)'
      BY <2>1, <3>1, MasteryAssumption DEF Knows, Own, MasteryType
    <3> QED  BY <2>3, <3>1, <3>2
  <2>8. ASSUME NEW w \in Materializers, MaterializeRead(w) PROVE WorkKnown'
    <3>1. PICK c : c = [phase |-> "computed", of |-> Own(w), seen |-> EvidenceInForce(OwnRows(w))]
      OBVIOUS
    <3>2. msession' = [msession EXCEPT ![w] = c] /\ msession[w] # Idle
      BY <2>8, <3>1, SessionForms DEF MaterializeRead
    <3>3. Knows(w)'
      <4>1. Own(w)' = Own(w) /\ msession'[w] = c
        BY <3>1, <3>2 DEF Own, MasteryType
      <4>2. w \in msetting.workers /\ (Own(w) \in Results => status[Own(w)] # "NONE")
        BY <1>0, <3>2 DEF Knows
      <4>3. \A x \in c.seen : status[x] # "NONE"
        BY <3>1 DEF EvidenceInForce, InForce
      <4>4. Own(w) \in InForce => Own(w) \in c.seen
        BY <3>1, MasteryAssumption DEF EvidenceInForce, InForce, OwnRows
      <4> QED  BY <2>1, <4>1, <4>2, <4>3, <4>4 DEF Knows
    <3> QED  BY <2>3, <3>2, <3>3
  <2> QED
    BY <1>2, <2>4, <2>5, <2>6, <2>7, <2>8
    DEF MasteryStep, MasteryNext, PrepareAnalytics, RebuildOutcome, MaterializeCommit,
        MaterializeFail, WorkerCrash, BindSubmission, Creates
<1> QED  BY <1>1, <1>2

\* The evidence a session has read makes rows that contain their own result.
LEMMA SnapshotRows ==
  ASSUME MasteryType, HistoryKnown, NEW seen \in SUBSET Results,
         \A x \in seen : status[x] # "NONE", NEW r \in Results
  PROVE  /\ r \in seen => r \in Earlier(r, seen)
         /\ LET n == ledger[r].node
            IN  Snapshots(seen)[r][n] # NoRow => r \in Snapshots(seen)[r][n]
         /\ LET n == ledger[r].node
            IN  r \in seen => r \in Snapshots(seen)[r][n]
<1>1. r \in seen => r \in Earlier(r, seen)
  <2> HAVE r \in seen
  <2>1. PICK i \in DOMAIN published : published[i] = r
    BY DEF HistoryKnown
  <2>2. i <= i
    BY <2>1 DEF MasteryType, MasteryTypeOK
  <2> QED  BY <2>1, <2>2 DEF Earlier
<1>2. PICK n \in Nodes : n = ledger[r].node
  BY LedgerTyped DEF Entries
<1>3. r \in seen => r \in OfNode(Earlier(r, seen), n)
  BY <1>1, <1>2 DEF OfNode
<1>4. Snapshots(seen)[r][n] = IF r \in seen /\ OfNode(Earlier(r, seen), n) # {}
                              THEN OfNode(Earlier(r, seen), n) ELSE snapshot[r][n]
  BY DEF Snapshots
<1>5. snapshot[r][n] # NoRow => r \in snapshot[r][n]
  BY <1>2 DEF HistoryKnown
<1> QED  BY <1>1, <1>2, <1>3, <1>4, <1>5

LEMMA HistoryKept ==
  ASSUME MasteryType, WorkKnown, HistoryKnown, MasteryStep
  PROVE  HistoryKnown'
<1>1. ASSUME NEW r \in Results, Publish(r) PROVE HistoryKnown'
  <2>1. /\ status[r] = "NONE" /\ r \in InForce' /\ published' # << >> /\ Newest' = r
        /\ \A x \in Results : x # r => (status'[x] # "NONE" <=> status[x] # "NONE")
        /\ \A x \in Results : x # r =>
              (x \in InForce' <=> x \in InForce /\ SubmissionOf[x] # SubmissionOf[r])
        /\ DOMAIN published' = DOMAIN published \cup {Len(published) + 1}
        /\ \A i \in DOMAIN published : published'[i] = published[i]
        /\ published'[Len(published) + 1] = r
        /\ snapshot' = snapshot /\ msetting' = msetting
    BY <1>1, PublishEffect
  <2>2. ASSUME NEW x \in Results
        PROVE  status'[x] # "NONE" <=> \E i \in DOMAIN published' : published'[i] = x
    <3>1. status'[r] # "NONE"
      BY <2>1 DEF InForce
    <3>2. x # r => (\E i \in DOMAIN published' : published'[i] = x) <=>
                     \E i \in DOMAIN published : published[i] = x
      BY <2>1
    <3> QED  BY <2>1, <3>1, <3>2 DEF HistoryKnown
  <2>3. ASSUME NEW x \in Results, status'[x] # "NONE"
        PROVE  \E y \in InForce' : SubmissionOf[y] = SubmissionOf[x]
    <3>1. CASE SubmissionOf[x] = SubmissionOf[r]
      BY <2>1, <3>1
    <3>2. CASE SubmissionOf[x] # SubmissionOf[r]
      <4>1. PICK y \in InForce : SubmissionOf[y] = SubmissionOf[x]
        BY <2>1, <2>3, <3>2 DEF HistoryKnown
      <4>2. y \in Results
        BY DEF InForce
      <4> QED  BY <2>1, <3>2, <4>1, <4>2
    <3> QED  BY <3>1, <3>2
  <2>4. ledger' = ledger
    BY <2>1 DEF ledger
  <2> QED  BY <2>1, <2>2, <2>3, <2>4 DEF HistoryKnown
<1>2. CASE ~\E r \in Results : Publish(r)
  <2>1. /\ published' = published /\ status' = status /\ InForce' = InForce
        /\ Newest' = Newest /\ ledger' = ledger
    BY <1>2, PublishedSame DEF Newest, ledger
  <2>2. CASE snapshot' = snapshot
    BY <2>1, <2>2 DEF HistoryKnown
  <2>3. ASSUME NEW w \in Materializers, MaterializeCommit(w) PROVE HistoryKnown'
    <3>1. PICK seen \in SUBSET Results : /\ seen = msession[w].seen
                                         /\ \A x \in seen : status[x] # "NONE"
      BY <2>3, SessionForms DEF MaterializeCommit, WorkKnown
    <3>2. snapshot' = Snapshots(seen)
      BY <2>3, <3>1 DEF MaterializeCommit
    <3>3. \A r \in Results : LET n == ledger[r].node
                             IN  Snapshots(seen)[r][n] # NoRow => r \in Snapshots(seen)[r][n]
      BY <3>1, SnapshotRows
    <3> QED  BY <2>1, <3>2, <3>3 DEF HistoryKnown
  <2> QED
    BY <1>2, <2>2, <2>3
    DEF MasteryStep, MasteryNext, PrepareAnalytics, RebuildOutcome, TaskBegin, RebuildBegin,
        MaterializeRead, MaterializeFail, WorkerCrash, BindSubmission, Creates,
        CreateReassessment, tables
<1> QED  BY <1>1, <1>2

\* The outcome is replaced by that of an attempt, and by nothing else.
LEMMA OutcomeStep ==
  ASSUME MasteryType, WorkKnown, HistoryKnown, MasteryStep, ~\E r \in Results : Publish(r),
         reassessment'.status = "PUBLISHED", reassessment' # reassessment
  PROVE  LET r == reassessment'.result IN
         /\ r \in Results /\ status[r] # "NONE" /\ SubmissionOf[r] \in Attempts
         /\ reassessment'.submission = SubmissionOf[r]
         /\ r \in InForce /\ ledger[r].node \in reassessment'.nodes =>
              r \in reassessment'.post[ledger[r].node]
         /\ \/ r \in InForce /\ job' = job
            \/ \E w \in Materializers : MaterializeCommit(w) /\ Own(w) = r
<1> DEFINE r == reassessment'.result
<1>1. ASSUME NEW w \in Materializers, MaterializeCommit(w)
      PROVE  /\ r \in Results /\ status[r] # "NONE" /\ SubmissionOf[r] \in Attempts
             /\ reassessment'.submission = SubmissionOf[r] /\ Own(w) = r
             /\ r \in InForce /\ ledger[r].node \in reassessment'.nodes =>
                  r \in reassessment'.post[ledger[r].node]
  <2>1. PICK seen \in SUBSET Results, own \in Results \cup {"student"} :
          seen = msession[w].seen /\ own = Own(w)
    BY <1>1, SessionForms DEF MaterializeCommit
  <2>2. PICK history \in [Results -> [Nodes -> SUBSET Results]] : history = Snapshots(seen)
    BY ReadsTyped
  <2>3. reassessment' = Outcome(own, history) /\ reassessment \in Reassessments
    BY <1>1, <2>1, <2>2 DEF MaterializeCommit, MasteryType
  <2>4. IsAttempt(own)
    BY <2>3, OutcomeFields
  <2>5. /\ own = r /\ reassessment'.nodes = reassessment.nodes
        /\ reassessment'.submission = reassessment.submission
        /\ \A n \in reassessment.nodes :
             history[own][n] # NoRow => reassessment'.post[n] = history[own][n]
    BY <2>3, <2>4, OutcomeFields
  <2>6. own \in Results /\ SubmissionOf[own] \in Attempts
        /\ reassessment.submission = SubmissionOf[own]
    BY <2>4 DEF IsAttempt
  <2>7. /\ status[own] # "NONE" /\ \A x \in seen : status[x] # "NONE"
        /\ own \in InForce => own \in seen
    BY <1>1, <2>1, <2>6, SessionForms DEF MaterializeCommit, WorkKnown
  <2>8. own \in InForce => own \in history[own][ledger[own].node]
    BY <2>2, <2>6, <2>7, SnapshotRows
  <2> QED  BY <2>1, <2>5, <2>6, <2>7, <2>8 DEF NoRow
<1>2. ASSUME NEW x \in Results, RebuildOutcome(x)
      PROVE  /\ r \in Results /\ status[r] # "NONE" /\ SubmissionOf[r] \in Attempts
             /\ reassessment'.submission = SubmissionOf[r] /\ r \in InForce /\ job' = job
             /\ r \in InForce /\ ledger[r].node \in reassessment'.nodes =>
                  r \in reassessment'.post[ledger[r].node]
  <2>1. /\ reassessment' = Outcome(x, snapshot) /\ IsAttempt(x) /\ x \in InForce /\ job' = job
        /\ \A n \in reassessment.nodes : snapshot[x][n] # NoRow
        /\ reassessment \in Reassessments /\ snapshot \in [Results -> [Nodes -> SUBSET Results]]
    BY <1>2 DEF RebuildOutcome, MasteryType, MasteryTypeOK
  <2>2. /\ x = r /\ reassessment'.nodes = reassessment.nodes
        /\ reassessment'.submission = reassessment.submission
        /\ \A n \in reassessment.nodes : reassessment'.post[n] = snapshot[x][n]
    BY <2>1, OutcomeFields
  <2>3. SubmissionOf[x] \in Attempts /\ reassessment.submission = SubmissionOf[x]
        /\ status[x] # "NONE"
    BY <2>1 DEF IsAttempt, InForce
  <2>4. ledger[x].node \in reassessment.nodes => x \in snapshot[x][ledger[x].node]
    BY <2>1 DEF HistoryKnown
  <2> QED  BY <2>1, <2>2, <2>3, <2>4
<1>3. ASSUME NEW s, BindSubmission(s) PROVE FALSE
  BY <1>3 DEF BindSubmission, MasteryType, Reassessments
<1>4. ASSUME NEW nodes, Creates(nodes) PROVE FALSE
  BY <1>4 DEF Creates, CreateReassessment, NoReassessment
<1> QED
  BY <1>1, <1>2, <1>3, <1>4
  DEF MasteryStep, MasteryNext, PrepareAnalytics, TaskBegin, RebuildBegin,
      MaterializeRead, MaterializeFail, WorkerCrash, tables

LEMMA OutcomeKept ==
  ASSUME MasteryType, WorkKnown, HistoryKnown, OutcomeKnown, MasteryStep
  PROVE  OutcomeKnown'
<1>1. ASSUME NEW r \in Results, Publish(r) PROVE OutcomeKnown'
  <2>1. /\ status[r] = "NONE" /\ reassessment' = reassessment /\ msetting' = msetting
        /\ \A x \in Results : x # r => (status'[x] # "NONE" <=> status[x] # "NONE")
        /\ \A x \in Results : x # r /\ x \in InForce' => x \in InForce
    BY <1>1, PublishEffect
  <2>2. ledger' = ledger
    BY <2>1 DEF ledger
  <2> QED  BY <2>1, <2>2 DEF OutcomeKnown
<1>2. CASE ~\E r \in Results : Publish(r)
  <2>1. status' = status /\ InForce' = InForce /\ ledger' = ledger
    BY <1>2, PublishedSame DEF ledger
  <2>2. CASE reassessment' = reassessment
    BY <2>1, <2>2 DEF OutcomeKnown
  <2>3. CASE reassessment' # reassessment
    <3> SUFFICES ASSUME reassessment'.status = "PUBLISHED" PROVE OutcomeKnown'
      BY DEF OutcomeKnown
    <3> QED  BY <1>2, <2>1, <2>3, OutcomeStep DEF OutcomeKnown
  <2> QED  BY <2>2, <2>3
<1> QED  BY <1>1, <1>2

---------------------------------------------------------------------------
(* Mastery with one worker                                                 *)

LEMMA OneAtWork ==
  ASSUME MasteryType, WorkKnown, Alone, NEW v \in Materializers, NEW w \in Materializers,
         msession[v] # Idle, msession[w] # Idle
  PROVE  v = w
<1>1. IsFiniteSet(msetting.workers)
  BY MasteryAssumption DEF MasteryType
<1>2. PICK x : msetting.workers = {x}
  BY <1>1, FS_Singleton DEF Alone
<1> QED  BY <1>2 DEF WorkKnown

\* The newest result has all that is in force before it.
LEMMA NewestHistory ==
  ASSUME MasteryType, HistoryKnown, published # << >>, NEW seen \in SUBSET InForce,
         Newest \in seen, NEW n \in Nodes, OfNode(seen, n) # {}
  PROVE  Snapshots(seen)[Newest][n] = OfNode(seen, n)
<1>1. Len(published) \in Nat /\ Len(published) \in DOMAIN published
      /\ DOMAIN published = 1 .. Len(published)
  BY DEF MasteryType, MasteryTypeOK
<1>2. Earlier(Newest, seen) = seen
  <2>1. ASSUME NEW x \in seen
        PROVE  \E i, j \in DOMAIN published : published[i] = x /\ published[j] = Newest /\ i <= j
    <3>1. x \in Results /\ status[x] # "NONE"
      BY DEF InForce
    <3>2. PICK i \in DOMAIN published : published[i] = x
      BY <3>1 DEF HistoryKnown
    <3>3. i <= Len(published)
      BY <1>1, <3>2
    <3> QED  BY <1>1, <3>2, <3>3 DEF Newest
  <2> QED  BY <2>1 DEF Earlier
<1>3. Newest \in Results
  BY DEF InForce
<1> QED  BY <1>2, <1>3 DEF Snapshots

LEMMA OthersIdle ==
  ASSUME MasteryType, WorkKnown, Alone, NEW w \in msetting.workers, NEW v \in Materializers, v # w
  PROVE  msession[v] = Idle
<1>1. IsFiniteSet(msetting.workers)
  BY MasteryAssumption DEF MasteryType
<1>2. PICK x : msetting.workers = {x}
  BY <1>1, FS_Singleton DEF Alone
<1> QED  BY <1>2 DEF WorkKnown

\* The kinds of steps, as one worker sees them.
LEMMA OneStep ==
  ASSUME MasteryType, WorkKnown, Alone, MasteryStep
  PROVE  \/ \E r \in Results : Publish(r)
         \/ \E r \in Results : PrepareAnalytics(r)
         \/ msession' = msession /\ UNCHANGED <<job, evidence, state, snapshot>>
         \/ \E w \in Materializers :
              /\ w \in msetting.workers
              /\ msession' = [msession EXCEPT ![w] = msession'[w]]
              /\ \A v \in Materializers : v # w => msession[v] = Idle /\ msession'[v] = Idle
              /\ \/ \E r \in Results : TaskBegin(w, r)
                 \/ RebuildBegin(w) \/ MaterializeRead(w) \/ MaterializeCommit(w)
                 \/ MaterializeFail(w) \/ WorkerCrash(w)
<1>1. ASSUME NEW w \in Materializers, NEW c, msession' = [msession EXCEPT ![w] = c],
             w \in msetting.workers
      PROVE  /\ msession' = [msession EXCEPT ![w] = msession'[w]]
             /\ \A v \in Materializers : v # w => msession[v] = Idle /\ msession'[v] = Idle
  BY <1>1, OthersIdle DEF MasteryType
<1>2. ASSUME NEW w \in Materializers, NEW r \in Results, TaskBegin(w, r)
      PROVE  w \in msetting.workers /\ \E c : msession' = [msession EXCEPT ![w] = c]
  BY <1>2 DEF TaskBegin
<1>3. ASSUME NEW w \in Materializers,
             \/ RebuildBegin(w) \/ MaterializeRead(w) \/ MaterializeCommit(w)
             \/ MaterializeFail(w) \/ WorkerCrash(w)
      PROVE  w \in msetting.workers /\ \E c : msession' = [msession EXCEPT ![w] = c]
  <2>1. RebuildBegin(w) \/ msession[w] # Idle
    BY <1>3, SessionForms DEF MaterializeRead, MaterializeCommit, MaterializeFail, WorkerCrash
  <2> QED
    BY <1>3, <2>1
    DEF RebuildBegin, MaterializeRead, MaterializeCommit, MaterializeFail, WorkerCrash, WorkKnown
<1> QED
  BY <1>1, <1>2, <1>3
  DEF MasteryStep, MasteryNext, RebuildOutcome, BindSubmission, Creates, CreateReassessment

LEMMA AloneWorkKept ==
  ASSUME MasteryType, WorkKnown, HistoryKnown, Alone, AloneWork, AloneState, MasteryStep
  PROVE  AloneWork'
<1> DEFINE Running(w) == msession[w] # Idle /\ Own(w) \in Results => job[Own(w)] = "RUNNING"
           Fresh(w) == /\ msession[w].phase = "computed" /\ published # << >>
                       /\ Own(w) = Newest \/ job[Newest] = "SUCCEEDED"
                       => msession[w].seen = EvidenceInForce(OwnRows(w))
<1>0. \A w \in Materializers : Running(w) /\ Fresh(w)
  BY DEF AloneWork
<1>1. ASSUME NEW r \in Results, Publish(r) PROVE AloneWork'
  <2>1. /\ status[r] = "NONE" /\ Newest' = r /\ msession' = msession
        /\ job'[r] = "QUEUED" /\ \A x \in Results : x # r => job'[x] = job[x]
    BY <1>1, PublishEffect
  <2>2. ASSUME NEW w \in Materializers PROVE Running(w)' /\ Fresh(w)'
    <3>1. Own(w)' = Own(w)
      BY <2>1 DEF Own
    <3>2. msession[w] # Idle => Own(w) # r
      BY <2>1 DEF WorkKnown
    <3>3. msession[w].phase = "computed" => msession[w] # Idle
      BY SessionForms
    <3> QED  BY <1>0, <2>1, <3>1, <3>2, <3>3
  <2> QED  BY <2>2 DEF AloneWork
<1>2. ASSUME ~\E r \in Results : Publish(r) PROVE AloneWork'
  <2>1. published' = published /\ InForce' = InForce /\ Newest' = Newest
    BY <1>2, PublishedSame DEF Newest
  <2>2. ASSUME NEW r \in Results, PrepareAnalytics(r) PROVE AloneWork'
    <3>1. /\ msession' = msession /\ evidence' = evidence
          /\ \A x \in Results : job'[x] = job[x] \/ (job[x] = "FAILED" /\ job'[x] = "QUEUED")
      <4>1. /\ msession' = msession /\ evidence' = evidence
            /\ job' = [job EXCEPT ![r] = IF job[r] = "FAILED" THEN "QUEUED" ELSE job[r]]
        BY <2>2 DEF PrepareAnalytics
      <4>2. job \in [Results -> JobStates]
        BY DEF MasteryType, MasteryTypeOK
      <4> QED  BY <4>1, <4>2
    <3>2. ASSUME NEW w \in Materializers PROVE Running(w)' /\ Fresh(w)'
      <4>1. /\ Own(w)' = Own(w) /\ OwnRows(w)' = OwnRows(w)
            /\ EvidenceInForce(OwnRows(w))' = EvidenceInForce(OwnRows(w))
        BY <2>1, <3>1 DEF Own, OwnRows, EvidenceInForce
      <4>2. published # << >> => Newest \in Results
        BY DEF HistoryKnown, InForce
      <4> QED  BY <1>0, <2>1, <3>1, <4>1, <4>2
    <3> QED  BY <3>2 DEF AloneWork
  <2>3. CASE msession' = msession /\ UNCHANGED <<job, evidence, state, snapshot>>
    BY <2>1, <2>3 DEF AloneWork, Own, OwnRows, EvidenceInForce
  <2>4. ASSUME NEW w \in Materializers,
               msession' = [msession EXCEPT ![w] = msession'[w]],
               \A v \in Materializers : v # w => msession[v] = Idle /\ msession'[v] = Idle,
               msession'[w] # Idle => Running(w)' /\ Fresh(w)'
        PROVE  AloneWork'
    <3>1. \A v \in Materializers : msession'[v].phase = "computed" => msession'[v] # Idle
      BY DEF Idle
    <3> QED  BY <2>4, <3>1 DEF AloneWork
  <2>5. ASSUME NEW w \in Materializers, NEW r \in Results, TaskBegin(w, r) PROVE Running(w)' /\ Fresh(w)'
    <3>1. msession'[w] = Idle \/ /\ msession'[w] = [phase |-> "claimed", of |-> r]
                                 /\ status[r] = "PUBLISHED" /\ job[r] # "SUCCEEDED"
      BY <2>5 DEF TaskBegin, MasteryType
    <3>2. CASE msession'[w] = Idle
      BY <3>2 DEF Idle
    <3>3. CASE msession'[w] # Idle
      <4>1. Own(w)' = r /\ job'[r] = "RUNNING" /\ msession'[w].phase = "claimed"
        BY <2>5, <3>1, <3>3 DEF Own, TaskBegin, MasteryType, MasteryTypeOK
      <4> QED  BY <4>1
    <3> QED  BY <3>2, <3>3
  <2>6. ASSUME NEW w \in Materializers, RebuildBegin(w) PROVE Running(w)' /\ Fresh(w)'
    <3>1. msession'[w] = [phase |-> "claimed", of |-> "student"]
      BY <2>6 DEF RebuildBegin, MasteryType
    <3> QED  BY <3>1, MasteryAssumption DEF Own
  <2>7. ASSUME NEW w \in Materializers, MaterializeRead(w) PROVE Running(w)' /\ Fresh(w)'
    <3>1. PICK c : c = [phase |-> "computed", of |-> Own(w), seen |-> EvidenceInForce(OwnRows(w))]
      OBVIOUS
    <3>2. /\ msession'[w] = c /\ msession[w] # Idle /\ Own(w)' = Own(w)
          /\ job' = job /\ evidence' = evidence
      BY <2>7, <3>1, SessionForms DEF MaterializeRead, MasteryType, tables, Own
    <3>3. EvidenceInForce(OwnRows(w))' = EvidenceInForce(OwnRows(w))
      BY <2>1, <3>2 DEF EvidenceInForce, OwnRows
    <3> QED  BY <1>0, <3>1, <3>2, <3>3
  <2>8. ASSUME NEW w \in Materializers,
               MaterializeCommit(w) \/ MaterializeFail(w) \/ WorkerCrash(w)
        PROVE  msession'[w] = Idle
    BY <2>8 DEF MaterializeCommit, MaterializeFail, WorkerCrash, MasteryType
  <2> HIDE DEF Running, Fresh
  <2> QED  BY <1>2, <2>2, <2>3, <2>4, <2>5, <2>6, <2>7, <2>8, OneStep
<1> QED  BY <1>1, <1>2

LEMMA AloneStateKept ==
  ASSUME MasteryType, WorkKnown, HistoryKnown, Alone, AloneWork, AloneState, MasteryStep
  PROVE  AloneState'
<1>1. ASSUME NEW r \in Results, Publish(r) PROVE AloneState'
  <2>1. /\ Newest' = r /\ job'[r] = "QUEUED" /\ \A x \in Results : x # r => job'[x] = job[x]
        /\ evidence' = evidence
    BY <1>1, PublishEffect
  <2> QED  BY <2>1 DEF AloneState
<1>2. ASSUME ~\E r \in Results : Publish(r) PROVE AloneState'
  <2>1. /\ published' = published /\ InForce' = InForce /\ Newest' = Newest
        /\ \A S : States(S)' = States(S)
    BY <1>2, PublishedSame DEF Newest, States, OfNode, ledger
  <2>2. published # << >> => Newest \in InForce /\ Newest \in Results
    BY DEF HistoryKnown, InForce
  <2>3. CASE /\ UNCHANGED <<evidence, state, snapshot>>
             /\ \A x \in Results : job'[x] = "SUCCEEDED" => job[x] = "SUCCEEDED"
    BY <2>1, <2>2, <2>3 DEF AloneState
  <2>4. ASSUME NEW w \in Materializers, MaterializeCommit(w) PROVE AloneState'
    <3>1. PICK seen \in SUBSET Results : seen = msession[w].seen
      BY <2>4, SessionForms DEF MaterializeCommit
    <3>2. /\ msession[w].phase = "computed" /\ msession[w] # Idle
          /\ evidence' = evidence \cup OwnRows(w) /\ state' = States(seen)
          /\ snapshot' = Snapshots(seen)
          /\ job' = [r \in Results |-> IF r = Own(w) THEN "SUCCEEDED" ELSE job[r]]
      BY <2>4, <3>1, SessionForms DEF MaterializeCommit, CurrentState
    <3>3. ASSUME NEW r \in Results, job'[r] = "SUCCEEDED" PROVE r \in evidence'
      <4>1. CASE r = Own(w)
        BY <3>2, <4>1, MasteryAssumption DEF OwnRows
      <4>2. CASE r # Own(w)
        BY <3>2, <3>3, <4>2 DEF AloneState
      <4> QED  BY <4>1, <4>2
    <3>4. ASSUME published # << >>, job'[Newest] = "SUCCEEDED"
          PROVE  /\ state' = States(evidence' \cap InForce)
                 /\ \A n \in Nodes : state'[n] # NoRow => snapshot'[Newest][n] = state'[n]
      <4>1. Own(w) = Newest \/ job[Newest] = "SUCCEEDED"
        BY <2>2, <3>2, <3>4
      <4>2. seen = EvidenceInForce(OwnRows(w))
        BY <3>1, <3>2, <3>4, <4>1 DEF AloneWork
      <4>3. seen = evidence' \cap InForce
        BY <3>2, <4>2 DEF EvidenceInForce
      <4>4. Newest \in seen
        BY <2>2, <3>3, <3>4, <4>3
      <4>5. \A n \in Nodes : OfNode(seen, n) # {} => Snapshots(seen)[Newest][n] = OfNode(seen, n)
        BY <3>4, <4>3, <4>4, NewestHistory
      <4>6. \A n \in Nodes : state'[n] = OfNode(seen, n)
        BY <3>2 DEF States
      <4> QED  BY <3>2, <4>3, <4>5, <4>6 DEF NoRow
    <3> QED  BY <2>1, <3>3, <3>4 DEF AloneState
  <2>5. ASSUME NEW r \in Results, PrepareAnalytics(r)
        PROVE  /\ UNCHANGED <<evidence, state, snapshot>>
               /\ \A x \in Results : job'[x] = "SUCCEEDED" => job[x] = "SUCCEEDED"
    BY <2>5 DEF PrepareAnalytics, MasteryType, MasteryTypeOK
  <2>6. ASSUME NEW w \in Materializers, NEW r \in Results, TaskBegin(w, r)
        PROVE  /\ UNCHANGED <<evidence, state, snapshot>>
               /\ \A x \in Results : job'[x] = "SUCCEEDED" => job[x] = "SUCCEEDED"
    BY <2>6 DEF TaskBegin, MasteryType, MasteryTypeOK
  <2>7. ASSUME NEW w \in Materializers,
               RebuildBegin(w) \/ MaterializeRead(w) \/ MaterializeFail(w) \/ WorkerCrash(w)
        PROVE  /\ UNCHANGED <<evidence, state, snapshot>>
               /\ \A x \in Results : job'[x] = "SUCCEEDED" => job[x] = "SUCCEEDED"
    BY <2>7 DEF RebuildBegin, MaterializeRead, MaterializeFail, WorkerCrash, FailureKept, tables
  <2> QED  BY <1>2, <2>3, <2>4, <2>5, <2>6, <2>7, OneStep
<1> QED  BY <1>1, <1>2

LEMMA AloneOutcomeKept ==
  ASSUME MasteryType, WorkKnown, HistoryKnown, OutcomeKnown, Alone, AloneWork, AloneOutcome,
         MasteryStep
  PROVE  AloneOutcome'
<1> DEFINE Waits(w) == msession[w] # Idle /\ Own(w) \in Results \ InForce =>
             \A r \in InForce : SubmissionOf[r] = SubmissionOf[Own(w)] => job[r] # "SUCCEEDED"
           Right == reassessment.status = "PUBLISHED" =>
             \A r \in InForce : SubmissionOf[r] = reassessment.submission /\ job[r] = "SUCCEEDED"
                                => reassessment.result \in InForce
<1>0. Right /\ \A w \in Materializers : Waits(w)
  BY DEF AloneOutcome
<1>1. ASSUME NEW r \in Results, Publish(r) PROVE AloneOutcome'
  <2>1. /\ status[r] = "NONE" /\ msession' = msession /\ reassessment' = reassessment
        /\ \A x \in Results : x # r =>
              (x \in InForce' <=> x \in InForce /\ SubmissionOf[x] # SubmissionOf[r])
        /\ job'[r] = "QUEUED" /\ \A x \in Results : x # r => job'[x] = job[x]
    BY <1>1, PublishEffect
  <2>2. InForce \subseteq Results /\ InForce' \subseteq Results
    BY DEF InForce
  <2>3. ASSUME NEW w \in Materializers PROVE Waits(w)'
    <3>1. Own(w)' = Own(w)
      BY <2>1 DEF Own
    <3>2. msession[w] # Idle => Own(w) # r
      BY <2>1 DEF WorkKnown
    <3> QED  BY <1>0, <2>1, <2>2, <3>1, <3>2
  <2>4. Right'
    <3> SUFFICES ASSUME reassessment.status = "PUBLISHED", NEW x \in InForce',
                        SubmissionOf[x] = reassessment.submission, job'[x] = "SUCCEEDED"
                 PROVE  reassessment.result \in InForce'
      BY <2>1
    <3>1. x # r /\ x \in InForce /\ SubmissionOf[x] # SubmissionOf[r] /\ job[x] = "SUCCEEDED"
      BY <2>1, <2>2
    <3>2. /\ reassessment.result \in InForce /\ reassessment.result # r
          /\ SubmissionOf[reassessment.result] = reassessment.submission
      BY <1>0, <2>1, <3>1 DEF OutcomeKnown
    <3> QED  BY <2>1, <2>2, <3>1, <3>2
  <2> QED  BY <2>3, <2>4 DEF AloneOutcome
<1>2. ASSUME ~\E r \in Results : Publish(r) PROVE AloneOutcome'
  <2>1. status' = status /\ InForce' = InForce /\ InForce \subseteq Results
    BY <1>2, PublishedSame DEF InForce
  <2>2. ASSUME \A x \in Results : job'[x] = "SUCCEEDED" => job[x] = "SUCCEEDED" PROVE Right'
    <3>1. CASE reassessment' = reassessment
      BY <1>0, <2>1, <2>2, <3>1
    <3>2. CASE reassessment' # reassessment
      <4> SUFFICES ASSUME reassessment'.status = "PUBLISHED" PROVE Right'
        OBVIOUS
      <4>1. \/ reassessment'.result \in InForce
            \/ \E w \in Materializers : MaterializeCommit(w) /\ Own(w) = reassessment'.result
        BY <1>2, <3>2, OutcomeStep
      <4>2. ASSUME NEW w \in Materializers, MaterializeCommit(w), Own(w) = reassessment'.result
            PROVE  reassessment'.result \in InForce
        <5>1. msession[w] # Idle /\ Own(w) \in Results
          BY <1>2, <3>2, <4>2, SessionForms, OutcomeStep DEF MaterializeCommit
        <5>2. job[Own(w)] = "RUNNING" /\ job'[Own(w)] = "SUCCEEDED"
          BY <4>2, <5>1 DEF AloneWork, MaterializeCommit
        <5> QED  BY <2>2, <5>1, <5>2
      <4> QED  BY <2>1, <4>1, <4>2
    <3> QED  BY <3>1, <3>2
  <2>3. CASE msession' = msession /\ UNCHANGED <<job, evidence, state, snapshot>>
    <3>1. \A w \in Materializers : Waits(w)'
      BY <1>0, <2>1, <2>3 DEF Own
    <3> QED  BY <2>2, <2>3, <3>1 DEF AloneOutcome
  <2>4. ASSUME NEW r \in Results, PrepareAnalytics(r) PROVE AloneOutcome'
    <3>1. /\ msession' = msession
          /\ \A x \in Results : job'[x] = "SUCCEEDED" => job[x] = "SUCCEEDED"
      BY <2>4 DEF PrepareAnalytics, MasteryType, MasteryTypeOK
    <3>2. \A w \in Materializers : Waits(w)'
      BY <1>0, <2>1, <3>1 DEF Own
    <3> QED  BY <2>2, <3>1, <3>2 DEF AloneOutcome
  <2>5. ASSUME NEW w \in Materializers,
               \A v \in Materializers : v # w => msession[v] = Idle /\ msession'[v] = Idle,
               Waits(w)', Right'
        PROVE  AloneOutcome'
    BY <2>5 DEF AloneOutcome
  <2>6. ASSUME NEW w \in Materializers, NEW r \in Results, TaskBegin(w, r) PROVE Waits(w)' /\ Right'
    <3>1. \A x \in Results : job'[x] = "SUCCEEDED" => job[x] = "SUCCEEDED"
      BY <2>6 DEF TaskBegin, MasteryType, MasteryTypeOK
    <3>2. msession'[w] # Idle => Own(w)' \in InForce
      BY <2>6 DEF TaskBegin, MasteryType, Own, InForce
    <3> QED  BY <2>1, <2>2, <3>1, <3>2
  <2>7. ASSUME NEW w \in Materializers, RebuildBegin(w) PROVE Waits(w)' /\ Right'
    <3>1. msession'[w] = [phase |-> "claimed", of |-> "student"] /\ job' = job
      BY <2>7 DEF RebuildBegin, MasteryType, tables
    <3>2. Own(w)' \notin Results
      BY <3>1, MasteryAssumption DEF Own
    <3> QED  BY <2>2, <3>1, <3>2
  <2>8. ASSUME NEW w \in Materializers, MaterializeRead(w) PROVE Waits(w)' /\ Right'
    <3>1. msession[w] # Idle /\ Own(w)' = Own(w) /\ job' = job
      BY <2>8, SessionForms DEF MaterializeRead, MasteryType, tables, Own
    <3> QED  BY <1>0, <2>1, <2>2, <3>1
  <2>9. ASSUME NEW w \in Materializers, MaterializeFail(w) \/ WorkerCrash(w) PROVE Waits(w)' /\ Right'
    <3>1. /\ msession'[w] = Idle
          /\ \A x \in Results : job'[x] = "SUCCEEDED" => job[x] = "SUCCEEDED"
      BY <2>9 DEF MaterializeFail, WorkerCrash, FailureKept, MasteryType, tables
    <3> QED  BY <2>2, <3>1
  <2>10. ASSUME NEW w \in Materializers, MaterializeCommit(w) PROVE Waits(w)' /\ Right'
    <3>1. /\ msession'[w] = Idle /\ msession[w] # Idle
          /\ job' = [r \in Results |-> IF r = Own(w) THEN "SUCCEEDED" ELSE job[r]]
      BY <2>10, SessionForms DEF MaterializeCommit, MasteryType
    <3>2. Right'
      <4> SUFFICES ASSUME reassessment'.status = "PUBLISHED", NEW r \in InForce,
                          SubmissionOf[r] = reassessment'.submission, job'[r] = "SUCCEEDED"
                   PROVE  reassessment'.result \in InForce
        BY <2>1
      <4>1. CASE r = Own(w)
        <5>1. SubmissionOf[r] \in Attempts
          <6>1. CASE reassessment' = reassessment
            BY <6>1 DEF OutcomeKnown
          <6>2. CASE reassessment' # reassessment
            BY <1>2, <6>2, OutcomeStep
          <6> QED  BY <6>1, <6>2
        <5>2. PICK history \in [Results -> [Nodes -> SUBSET Results]] :
                reassessment' = Outcome(r, history)
          BY <2>10, <4>1, SessionForms, ReadsTyped DEF MaterializeCommit
        <5>3. r \in Results /\ reassessment \in Reassessments
          BY <2>1 DEF MasteryType
        <5>4. IsAttempt(r)
          <6>1. reassessment.submission = reassessment'.submission
            BY <5>2, <5>3, OutcomeFields
          <6>2. reassessment.status # "NONE"
            BY <5>2, <5>3, OutcomeFields DEF Outcome
          <6> QED  BY <5>1, <5>3, <6>1, <6>2 DEF IsAttempt
        <5>5. reassessment'.result = r
          BY <5>2, <5>3, <5>4, OutcomeFields
        <5> QED  BY <5>5
      <4>2. CASE r # Own(w)
        <5>1. job[r] = "SUCCEEDED"
          BY <2>1, <3>1, <4>2
        <5>2. CASE reassessment' = reassessment
          BY <1>0, <5>1, <5>2
        <5>3. CASE reassessment' # reassessment
          <6>1. /\ reassessment'.submission = SubmissionOf[reassessment'.result]
                /\ reassessment'.result \in Results
                /\ \/ reassessment'.result \in InForce
                   \/ \E v \in Materializers : MaterializeCommit(v) /\ Own(v) = reassessment'.result
            BY <1>2, <5>3, OutcomeStep
          <6>2. ASSUME NEW v \in Materializers, MaterializeCommit(v),
                       Own(v) = reassessment'.result
                PROVE  reassessment'.result \in InForce
            <7>1. msession[v] # Idle
              BY <6>2, SessionForms DEF MaterializeCommit
            <7> QED  BY <1>0, <5>1, <6>1, <6>2, <7>1
          <6> QED  BY <6>1, <6>2
        <5> QED  BY <5>2, <5>3
      <4> QED  BY <4>1, <4>2
    <3> QED  BY <3>1, <3>2
  <2> HIDE DEF Waits, Right
  <2> QED  BY <1>2, <2>3, <2>4, <2>5, <2>6, <2>7, <2>8, <2>9, <2>10, OneStep
<1> QED  BY <1>1, <1>2

---------------------------------------------------------------------------
(* Plans                                                                   *)

\* What the steps of mastery leave to the plans: the setting, and of the
\* reassessment whether there is one, its nodes and its baseline.
MasteryFrame ==
  /\ UNCHANGED msetting
  /\ reassessment'.nodes = reassessment.nodes /\ reassessment'.baseline = reassessment.baseline
  /\ (reassessment'.status # "NONE") <=> (reassessment.status # "NONE")

LEMMA FrameKept ==
  ASSUME MasteryType, MasteryNext
  PROVE  MasteryFrame
<1>1. ASSUME NEW r \in Results, RebuildOutcome(r) PROVE MasteryFrame
  <2>1. reassessment' = Outcome(r, snapshot) /\ msetting' = msetting
    BY <1>1 DEF RebuildOutcome
  <2>2. /\ reassessment \in Reassessments /\ snapshot \in [Results -> [Nodes -> SUBSET Results]]
    BY DEF MasteryType, MasteryTypeOK
  <2> QED  BY <2>1, <2>2, OutcomeFields DEF MasteryFrame
<1>2. ASSUME NEW w \in Materializers, MaterializeCommit(w) PROVE MasteryFrame
  <2>1. PICK history \in [Results -> [Nodes -> SUBSET Results]], own \in Results \cup {"student"} :
          reassessment' = Outcome(own, history) /\ msetting' = msetting
    BY <1>2, SessionForms, ReadsTyped DEF MaterializeCommit
  <2>2. reassessment \in Reassessments
    BY DEF MasteryType
  <2> QED  BY <2>1, <2>2, OutcomeFields DEF MasteryFrame
<1>3. ASSUME NEW s, BindSubmission(s) PROVE MasteryFrame
  BY <1>3 DEF BindSubmission, MasteryFrame, MasteryType, Reassessments
<1> QED
  BY <1>1, <1>2, <1>3
  DEF MasteryNext, Publish, PrepareAnalytics, TaskBegin, RebuildBegin, MaterializeRead,
      MaterializeFail, WorkerCrash, tables, MasteryFrame

\* A step of Next is one of mastery or of the plans.
Makes == \E j \in DOMAIN blueprint : Instantiate(j)
PlanStep ==
  \/ EditGraph \/ PreparePlan \/ \E i \in DOMAIN plan : PrepareBlueprint(i)
  \/ \E w \in Planners :
       \/ \E i \in DOMAIN plan : PlanBegin(w, i)
       \/ PlanGenerate(w) \/ PlanWrite(w) \/ PlanCommit(w) \/ PlanFail(w)
       \/ \E j \in DOMAIN blueprint : BlueprintBegin(w, j)
       \/ BlueprintDraft(w) \/ BlueprintStore(w) \/ BlueprintCommit(w) \/ BlueprintFail(w)
  \/ \E s \in Teachers :
       \/ \E j \in DOMAIN blueprint, d \in {"APPROVED", "REJECTED"} : DecisionRead(s, j, d)
       \/ DecisionCommit(s)

LEMMA NextForms ==
  ASSUME Next
  PROVE  \/ MasteryNext /\ UNCHANGED planVars
         \/ Makes
         \/ PlanStep /\ UNCHANGED masteryVars
BY DEF Next, Makes, PlanStep, EditGraph, PreparePlan, PrepareBlueprint, PlanBegin, PlanGenerate,
       PlanWrite, PlanCommit, PlanFail, BlueprintBegin, BlueprintDraft, BlueprintStore, BlueprintCommit,
       BlueprintFail, DecisionRead, DecisionCommit

LEMMA PlanFields ==
  ASSUME PlanType
  PROVE  /\ plan \in Seq(Plan) /\ blueprint \in Seq(Blueprint)
         /\ Len(plan) \in Nat /\ DOMAIN plan = 1 .. Len(plan)
         /\ Len(blueprint) \in Nat /\ DOMAIN blueprint = 1 .. Len(blueprint)
         /\ \A i \in DOMAIN plan : plan[i] \in Plan
         /\ \A j \in DOMAIN blueprint : blueprint[j] \in Blueprint
<1>1. plan \in Seq(Plan) /\ blueprint \in Seq(Blueprint)
  BY DEF PlanType, TypeOK, Plan, Blueprint
<1>2. /\ Len(plan) \in Nat /\ DOMAIN plan = 1 .. Len(plan)
      /\ Len(blueprint) \in Nat /\ DOMAIN blueprint = 1 .. Len(blueprint)
  BY <1>1
<1> QED  BY <1>1, <1>2

\* What a step may do to the tables of plans and blueprints: rows are appended,
\* keep what they were made from, and change in their status, steps and items.
PlansGrow ==
  /\ plan' \in Seq(Plan) /\ Len(plan') <= MaxPlans /\ DOMAIN plan \subseteq DOMAIN plan'
  /\ \A i \in DOMAIN plan : plan'[i].facts = plan[i].facts
BlueprintsGrow ==
  /\ blueprint' \in Seq(Blueprint) /\ Len(blueprint') <= MaxBlueprints
  /\ DOMAIN blueprint \subseteq DOMAIN blueprint'
  /\ \A j \in DOMAIN blueprint : blueprint'[j].plan = blueprint[j].plan

\* A row in its sequence replaced by one of the same type.
LEMMA RowReplaced ==
  ASSUME NEW T, NEW s \in Seq(T), NEW new \in [DOMAIN s -> T]
  PROVE  /\ new \in Seq(T) /\ Len(new) = Len(s) /\ DOMAIN new = DOMAIN s
<1>1. Len(s) \in Nat /\ DOMAIN s = 1 .. Len(s)
  OBVIOUS
<1>2. new \in Seq(T)
  BY <1>1
<1> QED  BY <1>1, <1>2

LEMMA PlanGoesEffect ==
  ASSUME PlanType, NEW i \in DOMAIN plan, NEW st \in PlanStates, PlanGoes(i, st)
  PROVE  /\ PlansGrow /\ DOMAIN plan' = DOMAIN plan
         /\ plan'[i].status = st
         /\ \A x \in DOMAIN plan : x # i => plan'[x] = plan[x]
<1>1. plan \in Seq(Plan) /\ plan[i] \in Plan /\ plan \in [DOMAIN plan -> Plan]
  BY PlanFields
<1>2. PICK row : row = [plan[i] EXCEPT !.status = st]
  OBVIOUS
<1>3. row \in Plan /\ row.facts = plan[i].facts /\ row.status = st
  BY <1>1, <1>2 DEF Plan
<1>4. plan' = [plan EXCEPT ![i] = row]
  BY <1>2 DEF PlanGoes
<1>5. plan' \in [DOMAIN plan -> Plan]
  BY <1>1, <1>3, <1>4
<1>6. plan' \in Seq(Plan) /\ Len(plan') = Len(plan) /\ DOMAIN plan' = DOMAIN plan
  BY <1>1, <1>5, RowReplaced
<1>7. plan'[i] = row /\ \A x \in DOMAIN plan : x # i => plan'[x] = plan[x]
  BY <1>1, <1>4
<1> QED  BY <1>3, <1>6, <1>7 DEF PlansGrow, PlanType

LEMMA BlueprintGoesEffect ==
  ASSUME PlanType, NEW j \in DOMAIN blueprint, NEW st \in BlueprintStates, BlueprintGoes(j, st)
  PROVE  /\ BlueprintsGrow /\ DOMAIN blueprint' = DOMAIN blueprint
         /\ blueprint'[j].status = st /\ blueprint'[j].items = blueprint[j].items
         /\ \A x \in DOMAIN blueprint : x # j => blueprint'[x] = blueprint[x]
<1>1. /\ blueprint \in Seq(Blueprint) /\ blueprint[j] \in Blueprint
      /\ blueprint \in [DOMAIN blueprint -> Blueprint]
  BY PlanFields
<1>2. PICK row : row = [blueprint[j] EXCEPT !.status = st]
  OBVIOUS
<1>3. /\ row \in Blueprint /\ row.plan = blueprint[j].plan /\ row.status = st
      /\ row.items = blueprint[j].items
  BY <1>1, <1>2 DEF Blueprint
<1>4. blueprint' = [blueprint EXCEPT ![j] = row]
  BY <1>2 DEF BlueprintGoes
<1>5. blueprint' \in [DOMAIN blueprint -> Blueprint]
  BY <1>1, <1>3, <1>4
<1>6. /\ blueprint' \in Seq(Blueprint) /\ Len(blueprint') = Len(blueprint)
      /\ DOMAIN blueprint' = DOMAIN blueprint
  BY <1>1, <1>5, RowReplaced
<1>7. blueprint'[j] = row /\ \A x \in DOMAIN blueprint : x # j => blueprint'[x] = blueprint[x]
  BY <1>1, <1>4
<1> QED  BY <1>3, <1>6, <1>7 DEF BlueprintsGrow, PlanType

LEMMA PlanCommitEffect ==
  ASSUME PlanType, NEW w \in Planners, PlanCommit(w)
  PROVE  /\ PlansGrow /\ DOMAIN plan' = DOMAIN plan
         /\ \A x \in DOMAIN plan : plan'[x].status = "READY" =>
              x = psession[w].plan \/ (plan[x].status = "READY" /\ x \notin psession[w].older)
<1>1. PICK i \in DOMAIN plan : i = psession[w].plan
  BY DEF PlanType, PlanCommit
<1>2. plan \in Seq(Plan) /\ \A x \in DOMAIN plan : plan[x] \in Plan
  BY PlanFields
<1>3. PICK goals \in BOOLEAN : goals = (Targets(plan[i]) # {})
  OBVIOUS
<1>4. PICK older : older = psession[w].older
  OBVIOUS
<1>5. PICK left : left = Supersede(older)
  OBVIOUS
<1>6. /\ left \in [DOMAIN plan -> Plan]
      /\ \A x \in DOMAIN plan :
           /\ left[x].facts = plan[x].facts
           /\ left[x].status = "READY" => plan[x].status = "READY" /\ x \notin older
  BY <1>2, <1>5 DEF Supersede, Plan, PlanStates
<1>7. PICK row : row = [left[i] EXCEPT !.status = "READY", !.steps = goals]
  OBVIOUS
<1>8. row \in Plan /\ row.facts = plan[i].facts
  BY <1>6, <1>7 DEF Plan, PlanStates
<1>9. plan' = [left EXCEPT ![i].status = "READY", ![i].steps = goals]
  BY <1>1, <1>3, <1>4, <1>5 DEF PlanCommit
<1>10. plan' = [left EXCEPT ![i] = row]
  BY <1>6, <1>7, <1>9
<1>11. plan' \in [DOMAIN plan -> Plan]
  BY <1>6, <1>8, <1>10
<1>12. plan' \in Seq(Plan) /\ Len(plan') = Len(plan) /\ DOMAIN plan' = DOMAIN plan
  BY <1>2, <1>11, RowReplaced
<1>13. \A x \in DOMAIN plan :
         /\ plan'[x].facts = plan[x].facts
         /\ plan'[x].status = "READY" => x = i \/ (plan[x].status = "READY" /\ x \notin older)
  BY <1>6, <1>8, <1>10
<1> QED  BY <1>1, <1>4, <1>12, <1>13 DEF PlansGrow, PlanType

LEMMA BlueprintCommitEffect ==
  ASSUME PlanType, NEW w \in Planners, BlueprintCommit(w), NEW j \in {psession[w].bp}
  PROVE  /\ j \in DOMAIN blueprint
         /\ BlueprintsGrow /\ DOMAIN blueprint' = DOMAIN blueprint
         /\ blueprint'[j].status = "PENDING_APPROVAL"
         /\ blueprint'[j].items = Targets(plan[blueprint[j].plan])
         /\ \A x \in DOMAIN blueprint : x # j => blueprint'[x] = blueprint[x]
<1>1. j \in DOMAIN blueprint
  BY DEF PlanType, BlueprintCommit
<1>2. PICK goals \in SUBSET Nodes : goals = Targets(plan[blueprint[j].plan])
  BY DEF Targets, WeakNodes
<1>3. /\ blueprint \in Seq(Blueprint) /\ blueprint[j] \in Blueprint
      /\ blueprint \in [DOMAIN blueprint -> Blueprint]
  BY <1>1, PlanFields
<1>4. PICK row : row = [blueprint[j] EXCEPT !.status = "PENDING_APPROVAL", !.items = goals]
  OBVIOUS
<1>5. /\ row \in Blueprint /\ row.plan = blueprint[j].plan
      /\ row.status = "PENDING_APPROVAL" /\ row.items = goals
  BY <1>3, <1>4 DEF Blueprint, BlueprintStates
<1>6. blueprint' = [blueprint EXCEPT ![j] = row]
  BY <1>2, <1>4 DEF BlueprintCommit
<1>7. blueprint' \in [DOMAIN blueprint -> Blueprint]
  BY <1>3, <1>5, <1>6
<1>8. /\ blueprint' \in Seq(Blueprint) /\ Len(blueprint') = Len(blueprint)
      /\ DOMAIN blueprint' = DOMAIN blueprint
  BY <1>3, <1>7, RowReplaced
<1>9. blueprint'[j] = row /\ \A x \in DOMAIN blueprint : x # j => blueprint'[x] = blueprint[x]
  BY <1>1, <1>3, <1>6
<1> QED  BY <1>1, <1>2, <1>5, <1>8, <1>9 DEF BlueprintsGrow, PlanType

\* A row at the end of a table.
LEMMA RowAppended ==
  ASSUME NEW T, NEW s \in Seq(T), NEW x \in T, NEW t, t = Append(s, x)
  PROVE  /\ t \in Seq(T) /\ Len(t) = Len(s) + 1 /\ Len(s) \in Nat
         /\ DOMAIN t = DOMAIN s \cup {Len(s) + 1} /\ t[Len(s) + 1] = x
         /\ \A i \in DOMAIN s : t[i] = s[i]
OBVIOUS

LEMMA PreparePlanEffect ==
  ASSUME MasteryType, PlanType, PreparePlan
  PROVE  \/ plan' = plan
         \/ /\ PlansGrow /\ \A i \in DOMAIN plan : plan'[i] = plan[i]
            /\ \A i \in DOMAIN plan' \ DOMAIN plan : plan'[i].status = "QUEUED"
<1> SUFFICES ASSUME plan' # plan
             PROVE  /\ PlansGrow /\ \A i \in DOMAIN plan : plan'[i] = plan[i]
                    /\ \A i \in DOMAIN plan' \ DOMAIN plan : plan'[i].status = "QUEUED"
  OBVIOUS
<1>1. PICK row : row = [facts |-> evidence, graph |-> graph, status |-> "QUEUED", steps |-> FALSE]
  OBVIOUS
<1>2. row \in Plan /\ row.status = "QUEUED"
  BY <1>1 DEF Plan, PlanStates, MasteryType, MasteryTypeOK, PlanType, TypeOK
<1>3. plan' = Append(plan, row) /\ Len(plan) < MaxPlans
  BY <1>1 DEF PreparePlan
<1>4. plan \in Seq(Plan) /\ MaxPlans \in Nat
  BY PlanFields, PlansAssumption
<1>5. /\ plan' \in Seq(Plan) /\ Len(plan') = Len(plan) + 1 /\ Len(plan) \in Nat
      /\ DOMAIN plan' = DOMAIN plan \cup {Len(plan) + 1} /\ plan'[Len(plan) + 1] = row
      /\ \A i \in DOMAIN plan : plan'[i] = plan[i]
  BY <1>2, <1>3, <1>4, RowAppended
<1>6. Len(plan') <= MaxPlans
  BY <1>3, <1>4, <1>5
<1> QED  BY <1>2, <1>5, <1>6 DEF PlansGrow

\* Fewer rows than the table has are of one plan.
LEMMA OfPlanFits ==
  ASSUME PlanType, NEW i
  PROVE  Cardinality({j \in DOMAIN blueprint : blueprint[j].plan = i}) \in 0 .. Len(blueprint)
<1>1. Len(blueprint) \in Nat /\ DOMAIN blueprint = 1 .. Len(blueprint)
  BY PlanFields
<1>2. IsFiniteSet(1 .. Len(blueprint)) /\ Cardinality(1 .. Len(blueprint)) = Len(blueprint)
  <2>1. PICK N \in Nat : N = Len(blueprint)
    BY <1>1
  <2>2. IsFiniteSet(1 .. N) /\ Cardinality(1 .. N) = IF 1 > N THEN 0 ELSE N - 1 + 1
    BY 1 \in Int, N \in Int, FS_Interval
  <2> QED  BY <2>1, <2>2
<1>3. PICK S \in SUBSET (1 .. Len(blueprint)) : S = {j \in DOMAIN blueprint : blueprint[j].plan = i}
  BY <1>1
<1>4. IsFiniteSet(S) /\ Cardinality(S) <= Len(blueprint)
  BY <1>2, FS_Subset
<1>5. Cardinality(S) \in Nat
  BY <1>4, FS_CardinalityType
<1> QED  BY <1>1, <1>3, <1>4, <1>5

LEMMA PrepareBlueprintEffect ==
  ASSUME PlanType, NEW i \in DOMAIN plan, PrepareBlueprint(i)
  PROVE  \/ blueprint' = blueprint
         \/ /\ BlueprintsGrow /\ \A j \in DOMAIN blueprint : blueprint'[j] = blueprint[j]
            /\ \A j \in DOMAIN blueprint' \ DOMAIN blueprint :
                 /\ blueprint'[j].status = "DRAFT" /\ blueprint'[j].plan = i
                 /\ Targets(plan[i]) # {}
<1> SUFFICES ASSUME blueprint' # blueprint
             PROVE  /\ BlueprintsGrow /\ \A j \in DOMAIN blueprint : blueprint'[j] = blueprint[j]
                    /\ \A j \in DOMAIN blueprint' \ DOMAIN blueprint :
                         /\ blueprint'[j].status = "DRAFT" /\ blueprint'[j].plan = i
                         /\ Targets(plan[i]) # {}
  OBVIOUS
<1>1. PICK n : n = Cardinality({j \in DOMAIN blueprint : blueprint[j].plan = i})
  OBVIOUS
<1>2. PICK row : row = [plan |-> i, version |-> n + 1, status |-> "DRAFT", items |-> {}]
  OBVIOUS
<1>3. blueprint' = Append(blueprint, row) /\ Len(blueprint) < MaxBlueprints /\ Targets(plan[i]) # {}
  BY <1>1, <1>2 DEF PrepareBlueprint
<1>4. /\ blueprint \in Seq(Blueprint) /\ MaxBlueprints \in Nat /\ Len(blueprint) \in Nat
      /\ MaxPlans \in Nat
  BY PlanFields, PlansAssumption
<1>5. n \in 0 .. Len(blueprint)
  BY <1>1, OfPlanFits
<1>6. n + 1 \in 1 .. MaxBlueprints
  BY <1>3, <1>4, <1>5
<1>7. i \in 1 .. MaxPlans
  BY <1>4, PlanFields DEF PlanType
<1>8. row \in Blueprint /\ row.status = "DRAFT" /\ row.plan = i
  BY <1>2, <1>6, <1>7 DEF Blueprint, BlueprintStates
<1>9. /\ blueprint' \in Seq(Blueprint) /\ Len(blueprint') = Len(blueprint) + 1
      /\ DOMAIN blueprint' = DOMAIN blueprint \cup {Len(blueprint) + 1}
      /\ blueprint'[Len(blueprint) + 1] = row
      /\ \A j \in DOMAIN blueprint : blueprint'[j] = blueprint[j]
  BY <1>3, <1>4, <1>8, RowAppended
<1>10. Len(blueprint') <= MaxBlueprints
  BY <1>3, <1>4, <1>9
<1> QED  BY <1>3, <1>8, <1>9, <1>10 DEF BlueprintsGrow

---------------------------------------------------------------------------
(* Plans: one step                                                         *)

\* A session points at rows that exist.
Points(s) ==
  /\ psession[s].phase \in {"begun", "generating", "written"} => psession[s].plan \in DOMAIN plan
  /\ psession[s].phase \in {"drafting", "drafted", "stored", "deciding"} =>
       psession[s].bp \in DOMAIN blueprint
\* What a session may go on to, over the rows there are.
Pointer(c) ==
  /\ c \in PSessions
  /\ c.phase \in {"begun", "generating", "written"} => c.plan \in DOMAIN plan
  /\ c.phase \in {"drafting", "drafted", "stored", "deciding"} => c.bp \in DOMAIN blueprint

LEMMA PlanTypeFrom ==
  ASSUME PlanType, MasteryTypeOK', graph' \in 0 .. 1,
         store' \in [1 .. MaxBlueprints -> 0 .. MaxBlueprints],
         ptasks' \in [Tasks -> 0 .. MaxTasks],
         plan' = plan \/ PlansGrow, blueprint' = blueprint \/ BlueprintsGrow,
         \A j \in DOMAIN blueprint' \ DOMAIN blueprint : blueprint'[j].plan \in DOMAIN plan,
         \/ psession' = psession
         \/ \E s \in Planners \cup Teachers : \E c : Moves(s, c) /\ Pointer(c)
  PROVE  PlanType'
<1>1. /\ plan' \in Seq(Plan) /\ Len(plan') <= MaxPlans /\ DOMAIN plan \subseteq DOMAIN plan'
  BY PlanFields DEF PlanType, PlansGrow
<1>2. /\ blueprint' \in Seq(Blueprint) /\ Len(blueprint') <= MaxBlueprints
      /\ DOMAIN blueprint \subseteq DOMAIN blueprint'
      /\ \A j \in DOMAIN blueprint : blueprint'[j].plan = blueprint[j].plan
  BY PlanFields DEF PlanType, BlueprintsGrow
<1>3. \A j \in DOMAIN blueprint' : blueprint'[j].plan \in DOMAIN plan'
  BY <1>1, <1>2 DEF PlanType
<1>4. /\ psession' \in [Planners \cup Teachers -> PSessions]
      /\ \A s \in Planners \cup Teachers : Points(s)'
  <2>1. CASE psession' = psession
    BY <1>1, <1>2, <2>1 DEF PlanType, Points
  <2>2. CASE \E s \in Planners \cup Teachers : \E c : Moves(s, c) /\ Pointer(c)
    <3>0. PICK s \in Planners \cup Teachers : \E c : Moves(s, c) /\ Pointer(c)
      BY <2>2
    <3>1. PICK c : Moves(s, c) /\ Pointer(c)
      BY <3>0
    <3>2. psession' = [psession EXCEPT ![s] = c] /\ psession \in [Planners \cup Teachers -> PSessions]
      BY <3>1 DEF Moves, PlanType
    <3>3. psession'[s] = c /\ \A t \in Planners \cup Teachers : t # s => psession'[t] = psession[t]
      BY <3>2
    <3>4. psession' \in [Planners \cup Teachers -> PSessions]
      BY <3>1, <3>2 DEF Pointer
    <3>5. ASSUME NEW t \in Planners \cup Teachers PROVE Points(t)'
      <4>1. CASE t = s
        BY <1>1, <1>2, <3>1, <3>3, <4>1 DEF Points, Pointer
      <4>2. CASE t # s
        BY <1>1, <1>2, <3>3, <4>2 DEF Points, PlanType
      <4> QED  BY <4>1, <4>2
    <3> QED  BY <3>4, <3>5
  <2> QED  BY <2>1, <2>2
<1>5. DOMAIN psession' = Planners \cup Teachers
  BY <1>4
<1>6. TypeOK'
  BY <1>1, <1>2, <1>5 DEF TypeOK, Plan, Blueprint
<1>7. \A s \in Planners \cup Teachers :
        /\ psession'[s].phase \in {"begun", "generating", "written"} =>
             psession'[s].plan \in DOMAIN plan'
        /\ psession'[s].phase \in {"drafting", "drafted", "stored", "deciding"} =>
             psession'[s].bp \in DOMAIN blueprint'
  BY <1>4 DEF Points
<1> QED  BY <1>1, <1>2, <1>3, <1>4, <1>6, <1>7 DEF PlanType

LEMMA TaskTyped ==
  ASSUME PlanType
  PROVE  /\ \A i \in DOMAIN plan : <<"plan", i>> \in Tasks
         /\ \A j \in DOMAIN blueprint : <<"blueprint", j>> \in Tasks
         /\ ptasks \in [Tasks -> 0 .. MaxTasks]
<1>1. /\ \A i \in DOMAIN plan : i \in 1 .. MaxPlans
      /\ \A j \in DOMAIN blueprint : j \in 1 .. MaxBlueprints
  BY PlanFields, PlansAssumption DEF PlanType
<1> QED  BY <1>1 DEF Tasks, PlanType, TypeOK

LEMMA SendsTyped ==
  ASSUME MasteryType, PlanType, NEW t, Sends(t)
  PROVE  ptasks' \in [Tasks -> 0 .. MaxTasks]
<1>1. PICK sent \in {0, 1} : /\ ptasks[t] + sent <= msetting.sends
                             /\ ptasks' = [ptasks EXCEPT ![t] = ptasks[t] + sent]
  BY DEF Sends
<1>2. /\ ptasks \in [Tasks -> 0 .. MaxTasks] /\ msetting.sends \in Nat
      /\ msetting.sends <= MaxTasks /\ MaxTasks \in Nat
  BY MasteryAssumption, PlansAssumption DEF PlanType, TypeOK, MasteryType
<1>3. PICK v : v = ptasks[t] + sent
  OBVIOUS
<1>4. ptasks' = [ptasks EXCEPT ![t] = v]
  BY <1>1, <1>3
<1>5. t \in Tasks => v \in 0 .. MaxTasks
  BY <1>1, <1>2, <1>3
<1> QED  BY <1>2, <1>4, <1>5

LEMMA TakesTyped ==
  ASSUME MasteryType, PlanType, NEW t \in Tasks, ptasks[t] > 0,
         ptasks' = [ptasks EXCEPT ![t] = @ - 1]
  PROVE  ptasks' \in [Tasks -> 0 .. MaxTasks]
<1>1. ptasks \in [Tasks -> 0 .. MaxTasks] /\ MaxTasks \in Nat
  BY MasteryAssumption DEF PlanType, TypeOK
<1>2. ptasks[t] - 1 \in 0 .. MaxTasks
  BY <1>1
<1> QED  BY <1>1, <1>2

LEMMA IdlePoints == Pointer(Idle)
BY DEF Pointer, PSessions, Idle

LEMMA SessionRows ==
  ASSUME PlanType, NEW s \in Planners \cup Teachers
  PROVE  /\ psession[s].phase \in {"begun", "generating", "written"} =>
              psession[s].plan \in DOMAIN plan
         /\ psession[s].phase \in {"drafting", "drafted", "stored"} =>
              psession[s] = [phase |-> psession[s].phase, bp |-> psession[s].bp]
              /\ psession[s].bp \in DOMAIN blueprint
         /\ psession[s].phase = "deciding" =>
              psession[s].bp \in DOMAIN blueprint /\ psession[s].as \in {"APPROVED", "REJECTED"}
<1>1. psession[s] \in PSessions
  BY DEF PlanType
<1>2. Points(s)
  BY DEF PlanType, Points
<1> QED  BY <1>1, <1>2 DEF PSessions, Points, Idle

LEMMA PointersOfRows ==
  ASSUME PlanType
  PROVE  /\ \A i \in DOMAIN plan, f \in {"begun", "generating"} : Pointer([phase |-> f, plan |-> i])
         /\ \A j \in DOMAIN blueprint, f \in {"drafting", "drafted", "stored"} :
              Pointer([phase |-> f, bp |-> j])
         /\ \A i \in DOMAIN plan, older \in SUBSET (DOMAIN plan) :
              Pointer([phase |-> "written", plan |-> i, older |-> older])
         /\ \A j \in DOMAIN blueprint, d \in {"APPROVED", "REJECTED"} :
              Pointer([phase |-> "deciding", bp |-> j, as |-> d])
<1>1. (\A i \in DOMAIN plan : i \in Nat) /\ (\A j \in DOMAIN blueprint : j \in Nat)
  BY PlanFields
<1> QED  BY <1>1 DEF Pointer, PSessions

LEMMA PlanTypeKept ==
  ASSUME MasteryType, PlanType, MasteryTypeOK', Next
  PROVE  PlanType'
<1> USE IdlePoints
<1>0. /\ graph \in 0 .. 1 /\ store \in [1 .. MaxBlueprints -> 0 .. MaxBlueprints]
      /\ ptasks \in [Tasks -> 0 .. MaxTasks] /\ plan \in Seq(Plan) /\ blueprint \in Seq(Blueprint)
      /\ \A i \in DOMAIN plan : plan[i] \in Plan
      /\ \A j \in DOMAIN blueprint : blueprint[j] \in Blueprint
  BY PlanFields DEF PlanType, TypeOK
<1>1. CASE UNCHANGED planVars
  BY <1>0, <1>1, PlanTypeFrom DEF planVars, planTables
<1>2. ASSUME NEW j \in DOMAIN blueprint, Instantiate(j) PROVE PlanType'
  BY <1>0, <1>2, PlanTypeFrom DEF Instantiate, planVars, planTables
<1>3. CASE EditGraph
  BY <1>0, <1>3, PlanTypeFrom DEF EditGraph
<1>4. CASE PreparePlan
  <2>1. ptasks' \in [Tasks -> 0 .. MaxTasks]
    BY <1>4, SendsTyped DEF PreparePlan
  <2>2. plan' = plan \/ PlansGrow
    BY <1>4, PreparePlanEffect
  <2> QED  BY <1>0, <1>4, <2>1, <2>2, PlanTypeFrom DEF PreparePlan
<1>5. ASSUME NEW i \in DOMAIN plan, PrepareBlueprint(i) PROVE PlanType'
  <2>1. ptasks' \in [Tasks -> 0 .. MaxTasks]
    BY <1>5, SendsTyped DEF PrepareBlueprint
  <2>2. /\ blueprint' = blueprint \/ BlueprintsGrow
        /\ \A j \in DOMAIN blueprint' \ DOMAIN blueprint : blueprint'[j].plan \in DOMAIN plan
    BY <1>5, PrepareBlueprintEffect
  <2> QED  BY <1>0, <1>5, <2>1, <2>2, PlanTypeFrom DEF PrepareBlueprint
<1>6. ASSUME NEW w \in Planners, NEW i \in DOMAIN plan, PlanBegin(w, i) PROVE PlanType'
  <2>1. ptasks' \in [Tasks -> 0 .. MaxTasks]
    BY <1>6, TaskTyped, TakesTyped DEF PlanBegin
  <2>2. \E c : Moves(w, c) /\ Pointer(c)
    BY <1>6, PointersOfRows DEF PlanBegin
  <2> QED  BY <1>0, <1>6, <2>1, <2>2, PlanTypeFrom DEF PlanBegin, planTables
<1>7. ASSUME NEW w \in Planners, PlanGenerate(w) PROVE PlanType'
  <2>1. PICK i \in DOMAIN plan : i = psession[w].plan
    BY <1>7, SessionRows DEF PlanGenerate
  <2>2. plan' = plan \/ PlanGoes(i, "FAILED")
    BY <1>7, <2>1 DEF PlanGenerate, Refuse
  <2>3. plan' = plan \/ PlansGrow
    BY <2>2, PlanGoesEffect DEF PlanStates
  <2>4. \E c : Moves(w, c) /\ Pointer(c)
    BY <1>7, <2>1, PointersOfRows DEF PlanGenerate
  <2> QED  BY <1>0, <1>7, <2>3, <2>4, PlanTypeFrom DEF PlanGenerate
<1>17. ASSUME NEW w \in Planners, PlanWrite(w) PROVE PlanType'
  <2>1. PICK i \in DOMAIN plan : i = psession[w].plan
    BY <1>17, SessionRows DEF PlanWrite
  <2>2. plan' = plan \/ PlanGoes(i, "FAILED")
    BY <1>17, <2>1 DEF PlanWrite
  <2>3. plan' = plan \/ PlansGrow
    BY <2>2, PlanGoesEffect DEF PlanStates
  <2>4. OlderReady(i) \in SUBSET (DOMAIN plan)
    BY DEF OlderReady
  <2>5. \E c : Moves(w, c) /\ Pointer(c)
    BY <1>17, <2>1, <2>4, PointersOfRows DEF PlanWrite
  <2> QED  BY <1>0, <1>17, <2>3, <2>5, PlanTypeFrom DEF PlanWrite
<1>8. ASSUME NEW w \in Planners, PlanCommit(w) PROVE PlanType'
  BY <1>0, <1>8, PlanCommitEffect, PlanTypeFrom DEF PlanCommit
<1>9. ASSUME NEW w \in Planners, PlanFail(w) PROVE PlanType'
  <2>1. plan' = plan \/ PlanGoes(psession[w].plan, "FAILED")
    BY <1>9 DEF PlanFail
  <2>2. psession[w].plan \in DOMAIN plan
    BY <1>9, SessionRows DEF PlanFail
  <2>3. plan' = plan \/ PlansGrow
    BY <2>1, <2>2, PlanGoesEffect DEF PlanStates
  <2> QED  BY <1>0, <1>9, <2>3, PlanTypeFrom DEF PlanFail
<1>10. ASSUME NEW w \in Planners, NEW j \in DOMAIN blueprint, BlueprintBegin(w, j) PROVE PlanType'
  <2>1. ptasks' \in [Tasks -> 0 .. MaxTasks]
    BY <1>10, TaskTyped, TakesTyped DEF BlueprintBegin
  <2>2. \E c : Moves(w, c) /\ Pointer(c)
    BY <1>10, PointersOfRows DEF BlueprintBegin
  <2> QED  BY <1>0, <1>10, <2>1, <2>2, PlanTypeFrom DEF BlueprintBegin, planTables
<1>11. ASSUME NEW w \in Planners, BlueprintDraft(w) PROVE PlanType'
  <2>1. PICK j \in DOMAIN blueprint : j = psession[w].bp
    BY <1>11, SessionRows DEF BlueprintDraft
  <2>2. blueprint' = blueprint \/ BlueprintGoes(j, "FAILED")
    BY <1>11, <2>1 DEF BlueprintDraft
  <2>3. blueprint' = blueprint \/ (BlueprintsGrow /\ DOMAIN blueprint' = DOMAIN blueprint)
    BY <2>2, BlueprintGoesEffect DEF BlueprintStates
  <2>4. \E c : Moves(w, c) /\ Pointer(c)
    BY <1>11, <2>1, PointersOfRows DEF BlueprintDraft
  <2> QED  BY <1>0, <1>11, <2>3, <2>4, PlanTypeFrom DEF BlueprintDraft
<1>12. ASSUME NEW w \in Planners, BlueprintStore(w) PROVE PlanType'
  <2>0. /\ psession[w].phase = "drafted" /\ psession[w].bp \in DOMAIN blueprint
        /\ psession[w] = [phase |-> psession[w].phase, bp |-> psession[w].bp]
    BY <1>12, SessionRows DEF BlueprintStore
  <2>1. PICK j \in DOMAIN blueprint : psession[w] = [phase |-> "drafted", bp |-> j]
    BY <2>0
  <2>2. j \in 0 .. MaxBlueprints
    BY PlanFields, PlansAssumption DEF PlanType
  <2>5. PICK v : v = blueprint[j].version
    OBVIOUS
  <2>6. store' = [store EXCEPT ![v] = j]
    BY <1>12, <2>1, <2>5 DEF BlueprintStore
  <2>3. store' \in [1 .. MaxBlueprints -> 0 .. MaxBlueprints]
    BY <1>0, <2>2, <2>6
  <2>4. Moves(w, [phase |-> "stored", bp |-> j])
    BY <1>12, <2>1 DEF BlueprintStore
  <2> QED  BY <1>0, <1>12, <2>3, <2>4, PointersOfRows, PlanTypeFrom DEF BlueprintStore
<1>13. ASSUME NEW w \in Planners, BlueprintCommit(w) PROVE PlanType'
  BY <1>0, <1>13, BlueprintCommitEffect, PlanTypeFrom DEF BlueprintCommit
<1>14. ASSUME NEW w \in Planners, BlueprintFail(w) PROVE PlanType'
  <2>1. blueprint' = blueprint \/ BlueprintGoes(psession[w].bp, "FAILED")
    BY <1>14 DEF BlueprintFail
  <2>2. psession[w].bp \in DOMAIN blueprint
    BY <1>14, SessionRows DEF BlueprintFail
  <2>3. blueprint' = blueprint \/ (BlueprintsGrow /\ DOMAIN blueprint' = DOMAIN blueprint)
    BY <2>1, <2>2, BlueprintGoesEffect DEF BlueprintStates
  <2> QED  BY <1>0, <1>14, <2>3, PlanTypeFrom DEF BlueprintFail
<1>15. ASSUME NEW s \in Teachers, NEW j \in DOMAIN blueprint, NEW d \in {"APPROVED", "REJECTED"},
              DecisionRead(s, j, d)
       PROVE  PlanType'
  BY <1>0, <1>15, PointersOfRows, PlanTypeFrom DEF DecisionRead, planTables
<1>16. ASSUME NEW s \in Teachers, DecisionCommit(s) PROVE PlanType'
  <2>1. /\ psession[s].bp \in DOMAIN blueprint /\ psession[s].as \in BlueprintStates
    BY <1>16, SessionRows DEF DecisionCommit, BlueprintStates
  <2>2. BlueprintsGrow /\ DOMAIN blueprint' = DOMAIN blueprint
    BY <1>16, <2>1, BlueprintGoesEffect DEF DecisionCommit
  <2> QED  BY <1>0, <1>16, <2>2, PlanTypeFrom DEF DecisionCommit
<1> QED
  BY <1>1, <1>2, <1>3, <1>4, <1>5, <1>6, <1>7, <1>8, <1>9, <1>10, <1>11, <1>12, <1>13, <1>14,
     <1>15, <1>16, <1>17
  DEF Next

---------------------------------------------------------------------------
(* Plans: what a step does to the rows                                     *)

\* A plan becomes READY only by its own commit, which leaves no other READY of
\* those its session has read.
ReadyMoves ==
  \/ \A x \in DOMAIN plan' : plan'[x].status = "READY" => x \in DOMAIN plan /\ plan[x].status = "READY"
  \/ \E w \in Planners :
       /\ psession[w].phase = "written" /\ Moves(w, Idle)
       /\ \A x \in DOMAIN plan' : plan'[x].status = "READY" =>
            x = psession[w].plan
            \/ (x \in DOMAIN plan /\ plan[x].status = "READY" /\ x \notin psession[w].older)

LEMMA PlanRows ==
  ASSUME MasteryType, PlanType, PlanStep
  PROVE  (plan' = plan \/ PlansGrow) /\ ReadyMoves
<1>1. ASSUME NEW i \in DOMAIN plan, PlanGoes(i, "FAILED") PROVE PlansGrow /\ ReadyMoves
  BY <1>1, PlanGoesEffect DEF PlanStates, ReadyMoves
<1>2. ASSUME plan' = plan PROVE ReadyMoves
  BY <1>2 DEF ReadyMoves
<1>3. CASE PreparePlan
  BY <1>2, <1>3, PreparePlanEffect DEF ReadyMoves
<1>4. ASSUME NEW w \in Planners, PlanGenerate(w)
      PROVE  (plan' = plan \/ PlansGrow) /\ ReadyMoves
  <2>1. plan' = plan \/ PlanGoes(psession[w].plan, "FAILED")
    BY <1>4 DEF PlanGenerate, Refuse
  <2>2. psession[w].plan \in DOMAIN plan
    BY <1>4, SessionRows DEF PlanGenerate
  <2> QED  BY <1>1, <1>2, <2>1, <2>2
<1>5. ASSUME NEW w \in Planners, PlanFail(w)
      PROVE  (plan' = plan \/ PlansGrow) /\ ReadyMoves
  <2>1. plan' = plan \/ PlanGoes(psession[w].plan, "FAILED")
    BY <1>5 DEF PlanFail
  <2>2. psession[w].plan \in DOMAIN plan
    BY <1>5, SessionRows DEF PlanFail
  <2> QED  BY <1>1, <1>2, <2>1, <2>2
<1>6. ASSUME NEW w \in Planners, PlanCommit(w)
      PROVE  (plan' = plan \/ PlansGrow) /\ ReadyMoves
  BY <1>6, PlanCommitEffect DEF ReadyMoves, PlanCommit
<1>8. ASSUME NEW w \in Planners, PlanWrite(w)
      PROVE  (plan' = plan \/ PlansGrow) /\ ReadyMoves
  <2>1. plan' = plan \/ PlanGoes(psession[w].plan, "FAILED")
    BY <1>8 DEF PlanWrite
  <2>2. psession[w].plan \in DOMAIN plan
    BY <1>8, SessionRows DEF PlanWrite
  <2> QED  BY <1>1, <1>2, <2>1, <2>2
<1>7. \/ plan' = plan \/ PreparePlan
      \/ \E w \in Planners : PlanGenerate(w) \/ PlanWrite(w) \/ PlanCommit(w) \/ PlanFail(w)
  BY DEF PlanStep, EditGraph, PrepareBlueprint, PlanBegin, BlueprintBegin, BlueprintDraft,
         BlueprintStore, BlueprintCommit, BlueprintFail, DecisionRead, DecisionCommit, planTables
<1> QED  BY <1>2, <1>3, <1>4, <1>5, <1>6, <1>7, <1>8, PreparePlanEffect

Drafts == {"drafting", "drafted", "stored"}
\* What a session may go on to that leaves the blueprints as they are.
Carries(s, c) ==
  \/ c.phase = "idle"
  \/ c.phase \in {"begun", "generating", "written"} /\ (Planning(s) \/ s \in msetting.planners)
  \/ Drafting(s) /\ c.phase \in Drafts /\ c.bp = psession[s].bp
  \/ /\ c.phase \in Drafts /\ c.bp \in DOMAIN blueprint
     /\ ~Finished(blueprint[c.bp]) /\ s \in msetting.planners
  \/ /\ c.phase = "deciding" /\ c.bp \in DOMAIN blueprint
     /\ blueprint[c.bp].status = "PENDING_APPROVAL" /\ s \in msetting.teachers

\* A step keeps every blueprint, appending at most a draft that has a goal ...
Steady ==
  /\ \A j \in DOMAIN blueprint : j \in DOMAIN blueprint' /\ blueprint'[j] = blueprint[j]
  /\ \A j \in DOMAIN blueprint' \ DOMAIN blueprint :
       /\ blueprint'[j].status = "DRAFT" /\ blueprint'[j].plan \in DOMAIN plan
       /\ Targets(plan[blueprint'[j].plan]) # {}
  /\ psession' = psession \/ \E s \in Planners \cup Teachers : \E c : Moves(s, c) /\ Carries(s, c)

\* ... or a session writes the row it works at, and is done.
Written(j, st) ==
  /\ DOMAIN blueprint' = DOMAIN blueprint
  /\ \A x \in DOMAIN blueprint : x # j => blueprint'[x] = blueprint[x]
  /\ blueprint'[j].plan = blueprint[j].plan /\ blueprint'[j].status = st
RowWritten(s) ==
  LET j == psession[s].bp IN
  /\ j \in DOMAIN blueprint /\ Moves(s, Idle)
  /\ \/ Drafting(s) /\ Written(j, "FAILED") /\ blueprint'[j].items = blueprint[j].items
     \/ Drafting(s) /\ Written(j, "PENDING_APPROVAL") /\ blueprint'[j].items = Goals(j)
     \/ /\ Deciding(s) /\ \E st \in {"APPROVED", "REJECTED"} : Written(j, st)
        /\ blueprint'[j].items = blueprint[j].items

LEMMA BlueprintRows ==
  ASSUME MasteryType, PlanType, PlanStep
  PROVE  Steady \/ \E s \in Planners \cup Teachers : RowWritten(s)
<1>1. ASSUME NEW s \in Planners \cup Teachers, NEW c, blueprint' = blueprint, Moves(s, c), Carries(s, c)
      PROVE  Steady
  BY <1>1 DEF Steady
<1>2. ASSUME blueprint' = blueprint, psession' = psession PROVE Steady
  BY <1>2 DEF Steady
<1>3. ASSUME NEW s \in Planners \cup Teachers, blueprint' = blueprint, Moves(s, Idle) PROVE Steady
  BY <1>1, <1>3 DEF Carries, Idle
<1>4. ASSUME NEW w \in Planners, Drafting(w), BlueprintGoes(psession[w].bp, "FAILED"), Moves(w, Idle)
      PROVE  RowWritten(w)
  <2>1. psession[w].bp \in DOMAIN blueprint
    BY <1>4, SessionRows DEF Drafting
  <2> QED  BY <1>4, <2>1, BlueprintGoesEffect DEF BlueprintStates, BlueprintsGrow, RowWritten, Written
<1>5. CASE EditGraph \/ PreparePlan
  BY <1>2, <1>5 DEF EditGraph, PreparePlan
<1>6. ASSUME NEW i \in DOMAIN plan, PrepareBlueprint(i) PROVE Steady
  <2>1. psession' = psession
    BY <1>6 DEF PrepareBlueprint
  <2> QED  BY <1>6, <2>1, PrepareBlueprintEffect DEF Steady, BlueprintsGrow
<1>7. ASSUME NEW w \in Planners, NEW i \in DOMAIN plan, PlanBegin(w, i) PROVE Steady
  <2>1. Moves(w, Idle) \/ Moves(w, [phase |-> "begun", plan |-> i])
    BY <1>7 DEF PlanBegin
  <2>2. Carries(w, [phase |-> "begun", plan |-> i]) /\ blueprint' = blueprint
    BY <1>7 DEF Carries, PlanBegin, planTables
  <2> QED  BY <1>1, <1>3, <2>1, <2>2
<1>8. ASSUME NEW w \in Planners, PlanGenerate(w) PROVE Steady
  <2>1. PICK i : Moves(w, Idle) \/ Moves(w, [phase |-> "generating", plan |-> i])
    BY <1>8 DEF PlanGenerate
  <2>2. Carries(w, [phase |-> "generating", plan |-> i]) /\ blueprint' = blueprint
    BY <1>8 DEF Carries, PlanGenerate, Planning
  <2> QED  BY <1>1, <1>3, <2>1, <2>2
<1>17. ASSUME NEW w \in Planners, PlanWrite(w) PROVE Steady
  <2>1. PICK c : c = [phase |-> "written", plan |-> psession[w].plan,
                      older |-> OlderReady(psession[w].plan)]
    OBVIOUS
  <2>2. (Moves(w, Idle) \/ Moves(w, c)) /\ blueprint' = blueprint /\ Planning(w)
    BY <1>17, <2>1 DEF PlanWrite, Planning
  <2>3. c.phase = "written"
    BY <2>1
  <2> QED  BY <1>1, <1>3, <2>2, <2>3 DEF Carries
<1>9. ASSUME NEW w \in Planners, PlanCommit(w) \/ PlanFail(w) PROVE Steady
  BY <1>3, <1>9 DEF PlanCommit, PlanFail
<1>10. ASSUME NEW w \in Planners, NEW j \in DOMAIN blueprint, BlueprintBegin(w, j) PROVE Steady
  <2>1. PICK c : c = [phase |-> "drafting", bp |-> j]
    OBVIOUS
  <2>2. blueprint' = blueprint /\ (Moves(w, Idle) \/ (Moves(w, c) /\ ~Finished(blueprint[j])))
    BY <1>10, <2>1 DEF BlueprintBegin, planTables
  <2>3. w \in msetting.planners /\ c.phase \in Drafts /\ c.bp = j
    BY <1>10, <2>1 DEF BlueprintBegin, Drafts
  <2> QED  BY <1>1, <1>3, <2>2, <2>3 DEF Carries
<1>11. ASSUME NEW w \in Planners, BlueprintDraft(w) PROVE Steady \/ RowWritten(w)
  <2>1. PICK c : c = [phase |-> "drafted", bp |-> psession[w].bp]
    OBVIOUS
  <2>2. \/ Moves(w, c) /\ blueprint' = blueprint
        \/ BlueprintGoes(psession[w].bp, "FAILED") /\ Moves(w, Idle)
    BY <1>11, <2>1 DEF BlueprintDraft
  <2>3. Drafting(w) /\ Carries(w, c)
    BY <1>11, <2>1 DEF BlueprintDraft, Drafting, Carries, Drafts
  <2> QED  BY <1>1, <1>4, <2>2, <2>3
<1>12. ASSUME NEW w \in Planners, BlueprintStore(w) PROVE Steady
  <2>1. /\ psession[w].phase = "drafted"
        /\ psession[w] = [phase |-> psession[w].phase, bp |-> psession[w].bp]
    BY <1>12, SessionRows DEF BlueprintStore
  <2>2. PICK c : c = [psession[w] EXCEPT !.phase = "stored"]
    OBVIOUS
  <2>3. c.phase = "stored" /\ c.bp = psession[w].bp
    BY <2>1, <2>2
  <2>4. Carries(w, c)
    BY <2>1, <2>3 DEF Carries, Drafting, Drafts
  <2>5. Moves(w, c) /\ blueprint' = blueprint
    BY <1>12, <2>2 DEF BlueprintStore
  <2> QED  BY <1>1, <2>4, <2>5
<1>13. ASSUME NEW w \in Planners, BlueprintCommit(w) PROVE RowWritten(w)
  BY <1>13, BlueprintCommitEffect
  DEF BlueprintCommit, RowWritten, Written, Drafting, Goals, BlueprintsGrow
<1>14. ASSUME NEW w \in Planners, BlueprintFail(w) PROVE Steady \/ RowWritten(w)
  BY <1>3, <1>4, <1>14 DEF BlueprintFail, Drafting
<1>15. ASSUME NEW s \in Teachers, NEW j \in DOMAIN blueprint, NEW d \in {"APPROVED", "REJECTED"},
              DecisionRead(s, j, d)
       PROVE  Steady
  <2>1. PICK c : c = [phase |-> "deciding", bp |-> j, as |-> d]
    OBVIOUS
  <2>2. /\ blueprint' = blueprint /\ Moves(s, c) /\ s \in msetting.teachers
        /\ blueprint[j].status = "PENDING_APPROVAL"
    BY <1>15, <2>1 DEF DecisionRead, planTables
  <2>3. c.phase = "deciding" /\ c.bp = j
    BY <2>1
  <2> QED  BY <1>1, <2>2, <2>3 DEF Carries
<1>16. ASSUME NEW s \in Teachers, DecisionCommit(s) PROVE RowWritten(s)
  <2>1. /\ psession[s].bp \in DOMAIN blueprint /\ psession[s].as \in {"APPROVED", "REJECTED"}
        /\ psession[s].phase = "deciding" /\ Moves(s, Idle)
        /\ BlueprintGoes(psession[s].bp, psession[s].as)
    BY <1>16, SessionRows DEF DecisionCommit
  <2>2. psession[s].as \in BlueprintStates
    BY <2>1 DEF BlueprintStates
  <2> QED  BY <2>1, <2>2, BlueprintGoesEffect DEF RowWritten, Written, Deciding, BlueprintsGrow
<1> QED
  BY <1>5, <1>6, <1>7, <1>8, <1>9, <1>10, <1>11, <1>12, <1>13, <1>14, <1>15, <1>16,
     <1>17 DEF PlanStep

---------------------------------------------------------------------------
(* Plans: the invariants are kept                                          *)

\* What a step of Next leaves of the plans' inputs: the setting, and the
\* evidence each plan was made from; so every blueprint keeps its goals.
LEMMA GoalsStay ==
  ASSUME PlanType, UNCHANGED msetting, plan' = plan \/ PlansGrow,
         \A j \in DOMAIN blueprint : blueprint'[j].plan = blueprint[j].plan
  PROVE  \A j \in DOMAIN blueprint : Goals(j)' = Goals(j)
<1> TAKE j \in DOMAIN blueprint
<1>1. blueprint[j].plan \in DOMAIN plan
  BY DEF PlanType
<1>2. plan'[blueprint[j].plan].facts = plan[blueprint[j].plan].facts
  BY <1>1 DEF PlansGrow
<1> QED  BY <1>2 DEF Goals, Targets, ledger

\* With one of them there is no second.
LEMMA NoSecond ==
  ASSUME NEW S, Cardinality(S) = 1, IsFiniteSet(S), NEW x \in S, NEW y \in S
  PROVE  x = y
BY FS_Singleton

LEMMA OnlyOne ==
  ASSUME MasteryType
  PROVE  /\ OnePlanner => \A s, t \in msetting.planners : s = t
         /\ OneTeacher => \A s, t \in msetting.teachers : s = t
<1>1. IsFiniteSet(msetting.planners) /\ IsFiniteSet(msetting.teachers)
  BY PlansAssumption DEF MasteryType
<1> QED  BY <1>1, NoSecond DEF OnePlanner, OneTeacher

\* The session of a step, and the others.
LEMMA SessionMoves ==
  ASSUME PlanType, NEW s \in Planners \cup Teachers, NEW c, Moves(s, c)
  PROVE  psession'[s] = c /\ \A t \in Planners \cup Teachers : t # s => psession'[t] = psession[t]
BY DEF Moves, PlanType

\* What the invariants say of one session.
SessionSound(t) ==
  /\ Planning(t) => t \in msetting.planners
  /\ Drafting(t) => /\ t \in msetting.planners
                    /\ OnePlanner /\ OneTeacher => ~Finished(blueprint[psession[t].bp])
  /\ Deciding(t) =>
       /\ t \in msetting.teachers
       /\ blueprint[psession[t].bp].items = Goals(psession[t].bp)
       /\ OnePlanner /\ OneTeacher => blueprint[psession[t].bp].status = "PENDING_APPROVAL"

\* The invariants of the plans that do not speak of a reassessment.
PlanCore == PlanType /\ PlannersKnown /\ BlueprintsKnown /\ DecisionsAlone

LEMMA DraftingForms ==
  ASSUME PlanType, NEW s \in Planners \cup Teachers
  PROVE  /\ Drafting(s) => psession[s].bp \in DOMAIN blueprint /\ ~Deciding(s)
         /\ Deciding(s) => psession[s].bp \in DOMAIN blueprint
BY SessionRows DEF Drafting, Deciding

LEMMA SteadyKeeps ==
  ASSUME MasteryType, PlanCore, UNCHANGED msetting, plan' = plan \/ PlansGrow, Steady
  PROVE  (PlannersKnown /\ BlueprintsKnown /\ DecisionsAlone)'
<1> USE DEF PlanCore
<1>1. /\ \A j \in DOMAIN blueprint : j \in DOMAIN blueprint' /\ blueprint'[j] = blueprint[j]
      /\ \A j \in DOMAIN blueprint : Goals(j)' = Goals(j)
  <2>1. \A j \in DOMAIN blueprint : j \in DOMAIN blueprint' /\ blueprint'[j] = blueprint[j]
    BY DEF Steady
  <2> QED  BY <2>1, GoalsStay
<1>2. ASSUME NEW j \in DOMAIN blueprint' \ DOMAIN blueprint
      PROVE  Goals(j)' # {} /\ blueprint'[j].status = "DRAFT"
  <2>1. /\ blueprint'[j].status = "DRAFT" /\ blueprint'[j].plan \in DOMAIN plan
        /\ Targets(plan[blueprint'[j].plan]) # {}
    BY <1>2 DEF Steady
  <2>2. plan'[blueprint'[j].plan].facts = plan[blueprint'[j].plan].facts
    BY <2>1 DEF PlansGrow
  <2> QED  BY <2>1, <2>2 DEF Goals, Targets, ledger
<1>3. ASSUME NEW t \in Planners \cup Teachers, psession'[t] = psession[t]
      PROVE  SessionSound(t)'
  BY <1>1, <1>3, DraftingForms
  DEF PlannersKnown, BlueprintsKnown, DecisionsAlone, Planning, Drafting, Deciding, SessionSound,
      OnePlanner, OneTeacher
<1>4. ASSUME NEW t \in Planners \cup Teachers, NEW c, Moves(t, c), Carries(t, c)
      PROVE  SessionSound(t)'
  <2>1. psession'[t] = c
    BY <1>4, SessionMoves
  <2>2. CASE \/ c.phase = "idle"
             \/ /\ c.phase \in {"begun", "generating", "written"}
                /\ Planning(t) \/ t \in msetting.planners
    BY <2>1, <2>2 DEF Planning, Drafting, Deciding, SessionSound, PlannersKnown
  <2>3. CASE Drafting(t) /\ c.phase \in Drafts /\ c.bp = psession[t].bp
    BY <1>1, <2>1, <2>3, DraftingForms
    DEF PlannersKnown, DecisionsAlone, Planning, Drafting, Deciding, Drafts, SessionSound,
        OnePlanner, OneTeacher
  <2>4. CASE /\ c.phase \in Drafts /\ c.bp \in DOMAIN blueprint
             /\ ~Finished(blueprint[c.bp]) /\ t \in msetting.planners
    BY <1>1, <2>1, <2>4 DEF Planning, Drafting, Deciding, Drafts, SessionSound
  <2>5. CASE /\ c.phase = "deciding" /\ c.bp \in DOMAIN blueprint
             /\ blueprint[c.bp].status = "PENDING_APPROVAL" /\ t \in msetting.teachers
    BY <1>1, <2>1, <2>5 DEF Planning, Drafting, Deciding, BlueprintsKnown, SessionSound
  <2> QED  BY <1>4, <2>2, <2>3, <2>4, <2>5 DEF Carries
<1>5. ASSUME NEW t \in Planners \cup Teachers
      PROVE  SessionSound(t)'
  <2>1. \/ psession' = psession
        \/ \E s \in Planners \cup Teachers : \E c : Moves(s, c) /\ Carries(s, c)
    BY DEF Steady
  <2>2. CASE psession'[t] = psession[t]
    BY <1>3, <2>2
  <2>3. CASE psession'[t] # psession[t]
    <3>1. PICK s \in Planners \cup Teachers : \E c : Moves(s, c) /\ Carries(s, c)
      BY <2>1, <2>3
    <3>2. s = t
      BY <2>3, <3>1, SessionMoves
    <3> QED  BY <1>4, <3>1, <3>2
  <2> QED  BY <2>2, <2>3
<1>6. PlannersKnown'
  BY <1>5 DEF PlannersKnown, SessionSound
<1>7. DecisionsAlone'
  BY <1>5 DEF DecisionsAlone, SessionSound, OnePlanner, OneTeacher
<1>8. ASSUME NEW j \in DOMAIN blueprint'
      PROVE  /\ Goals(j)' # {}
             /\ blueprint'[j].status \in {"PENDING_APPROVAL", "APPROVED"} =>
                  blueprint'[j].items = Goals(j)'
  <2>1. CASE j \in DOMAIN blueprint
    BY <1>1, <2>1 DEF BlueprintsKnown
  <2>2. CASE j \notin DOMAIN blueprint
    BY <1>2, <1>8, <2>2
  <2> QED  BY <2>1, <2>2
<1>9. BlueprintsKnown'
  BY <1>5, <1>8 DEF BlueprintsKnown, SessionSound
<1> QED  BY <1>6, <1>7, <1>9

LEMMA WriteKeeps ==
  ASSUME MasteryType, PlanCore, UNCHANGED msetting, plan' = plan \/ PlansGrow,
         NEW s \in Planners \cup Teachers, RowWritten(s)
  PROVE  (PlannersKnown /\ BlueprintsKnown /\ DecisionsAlone)'
<1> USE DEF PlanCore
<1>1. PICK j \in DOMAIN blueprint : j = psession[s].bp
  BY DEF RowWritten
<1>2. /\ DOMAIN blueprint' = DOMAIN blueprint
      /\ \A x \in DOMAIN blueprint : x # j => blueprint'[x] = blueprint[x]
      /\ blueprint'[j].plan = blueprint[j].plan
  BY <1>1 DEF RowWritten, Written
<1>3. \A x \in DOMAIN blueprint : Goals(x)' = Goals(x)
  BY <1>2, GoalsStay
<1>4. psession'[s] = Idle /\ \A t \in Planners \cup Teachers : t # s => psession'[t] = psession[t]
  BY SessionMoves DEF RowWritten
<1>5. ~Drafting(s)' /\ ~Deciding(s)' /\ ~Planning(s)'
  BY <1>4 DEF Planning, Drafting, Deciding, Idle
<1>6. blueprint'[j].items = blueprint[j].items \/ blueprint'[j].items = Goals(j)
  BY <1>1 DEF RowWritten
<1>7. blueprint'[j].status \in {"PENDING_APPROVAL", "APPROVED"} => blueprint'[j].items = Goals(j)
  BY <1>1 DEF RowWritten, Written, BlueprintsKnown
<1>8. ASSUME NEW t \in Planners \cup Teachers, t # s
      PROVE  /\ Planning(t)' => t \in msetting.planners
             /\ Drafting(t)' => t \in msetting.planners /\ psession'[t].bp \in DOMAIN blueprint
             /\ Deciding(t)' => /\ t \in msetting.teachers
                                /\ blueprint'[psession'[t].bp].items = Goals(psession[t].bp)'
  BY <1>2, <1>3, <1>4, <1>6, <1>8, DraftingForms
  DEF PlannersKnown, BlueprintsKnown, Planning, Drafting, Deciding
<1>9. PlannersKnown'
  BY <1>5, <1>8 DEF PlannersKnown
<1>10. BlueprintsKnown'
  <2>1. \A x \in DOMAIN blueprint' :
          /\ Goals(x)' # {}
          /\ blueprint'[x].status \in {"PENDING_APPROVAL", "APPROVED"} =>
               blueprint'[x].items = Goals(x)'
    BY <1>2, <1>3, <1>7 DEF BlueprintsKnown
  <2>2. \A t \in Planners \cup Teachers :
          Deciding(t)' => blueprint'[psession'[t].bp].items = Goals(psession[t].bp)'
    BY <1>5, <1>8
  <2> QED  BY <2>1, <2>2 DEF BlueprintsKnown
<1>11. ASSUME OnePlanner, OneTeacher, NEW t \in Planners \cup Teachers
       PROVE  /\ Drafting(t)' => ~Finished(blueprint'[psession'[t].bp])
              /\ Deciding(t)' => blueprint'[psession'[t].bp].status = "PENDING_APPROVAL"
  <2>1. CASE t = s
    BY <1>5, <2>1
  <2>2. CASE t # s
    <3>1. psession'[t] = psession[t]
      BY <1>4, <2>2
    <3>2. (Drafting(s) /\ Drafting(t)) \/ (Deciding(s) /\ Deciding(t)) => FALSE
      BY <1>11, <2>2, OnlyOne DEF PlannersKnown
    <3>3. Drafting(s) \/ Deciding(s)
      BY DEF RowWritten
    <3>4. Drafting(t) \/ Deciding(t) => psession[t].bp # j
      BY <1>1, <1>11, <3>2, <3>3 DEF DecisionsAlone, Finished
    <3>5. Drafting(t) \/ Deciding(t) => blueprint'[psession[t].bp] = blueprint[psession[t].bp]
      BY <1>2, <3>4, DraftingForms
    <3> QED  BY <1>11, <3>1, <3>5 DEF DecisionsAlone, Drafting, Deciding
  <2> QED  BY <2>1, <2>2
<1>12. DecisionsAlone'
  BY <1>11 DEF DecisionsAlone, OnePlanner, OneTeacher
<1> QED  BY <1>9, <1>10, <1>12

\* With one planner and one teacher no step touches an approved blueprint.
LEMMA ApprovedKept ==
  ASSUME MasteryType, PlanCore, OnePlanner, OneTeacher,
         Steady \/ \E s \in Planners \cup Teachers : RowWritten(s),
         NEW j \in DOMAIN blueprint, blueprint[j].status = "APPROVED"
  PROVE  j \in DOMAIN blueprint' /\ blueprint'[j] = blueprint[j]
<1>1. CASE Steady
  BY <1>1 DEF Steady
<1>2. ASSUME NEW s \in Planners \cup Teachers, RowWritten(s) PROVE j \in DOMAIN blueprint' /\ blueprint'[j] = blueprint[j]
  <2>1. Drafting(s) \/ Deciding(s)
    BY <1>2 DEF RowWritten
  <2>2. j # psession[s].bp
    BY <2>1 DEF PlanCore, DecisionsAlone, Finished
  <2> QED  BY <1>2, <2>2 DEF RowWritten, Written
<1> QED  BY <1>1, <1>2

---------------------------------------------------------------------------
(* What follows from the invariants of mastery                             *)

LEMMA MasteryKept ==
  ASSUME MasteryInv, MasteryStep
  PROVE  MasteryInv'
<1>1. MasteryType' /\ WorkKnown' /\ HistoryKnown' /\ OutcomeKnown'
  BY TypeKept, WorkKept, HistoryKept, OutcomeKept DEF MasteryInv
<1>2. msetting' = msetting
  BY DEF MasteryStep, MasteryNext, Publish, PrepareAnalytics, RebuildOutcome, TaskBegin,
         RebuildBegin, MaterializeRead, MaterializeCommit, MaterializeFail, WorkerCrash,
         BindSubmission, Creates, CreateReassessment, tables
<1>3. Alone' => Alone
  BY <1>2 DEF Alone
<1>4. Alone => AloneWork' /\ AloneState' /\ AloneOutcome'
  BY AloneWorkKept, AloneStateKept, AloneOutcomeKept DEF MasteryInv, AloneInv
<1> QED  BY <1>1, <1>3, <1>4 DEF MasteryInv, AloneInv

LEMMA MasteryStutters ==
  ASSUME MasteryInv, UNCHANGED masteryVars
  PROVE  MasteryInv'
<1> USE DEF masteryVars, tables
<1>1. InForce' = InForce /\ Newest' = Newest /\ ledger' = ledger
  BY DEF InForce, Newest, ledger
<1>2. MasteryType'
  BY DEF MasteryInv, MasteryType, MasteryTypeOK
<1>3. WorkKnown'
  BY <1>1 DEF MasteryInv, WorkKnown, Own
<1>4. HistoryKnown'
  BY <1>1 DEF MasteryInv, HistoryKnown
<1>5. OutcomeKnown'
  BY <1>1 DEF MasteryInv, OutcomeKnown
<1>6. \A S : EvidenceInForce(S)' = EvidenceInForce(S) /\ States(S)' = States(S)
  BY <1>1 DEF EvidenceInForce, States, OfNode, ledger
<1>7. Alone => AloneWork' /\ AloneState' /\ AloneOutcome'
  <2>1. Alone => AloneWork'
    BY <1>1, <1>6 DEF MasteryInv, AloneInv, AloneWork, Own, OwnRows, EvidenceInForce
  <2>2. Alone => AloneState'
    BY <1>1, <1>6 DEF MasteryInv, AloneInv, AloneState, States, OfNode, ledger
  <2>3. Alone => AloneOutcome'
    BY <1>1 DEF MasteryInv, AloneInv, AloneOutcome, Own
  <2> QED  BY <2>1, <2>2, <2>3
<1> QED  BY <1>2, <1>3, <1>4, <1>5, <1>7 DEF MasteryInv, AloneInv, Alone

LEMMA MasteryStarts == MasteryInit => MasteryInv
<1> SUFFICES ASSUME MasteryInit PROVE MasteryInv
  OBVIOUS
<1> USE DEF MasteryInit
<1>1. /\ MaxTasks \in Nat \ {0} /\ MaxRebuilds \in Nat
  BY MasteryAssumption
<1>2. /\ published \in Seq(Results) /\ DOMAIN published = {} /\ published = << >>
  OBVIOUS
<1>3. reassessment \in Reassessments /\ reassessment.status = "NONE"
  BY DEF NoReassessment, Reassessments, NoRow
<1>4. MasteryTypeOK
  BY <1>1, <1>2, <1>3 DEF MasteryTypeOK, JobStates, NoRow
<1>5. MasteryType
  BY <1>1, <1>3, <1>4 DEF MasteryType, MSessions
<1>6. WorkKnown
  BY DEF WorkKnown
<1>7. HistoryKnown
  BY <1>2, <1>5, LedgerTyped DEF HistoryKnown, Entries, NoRow
<1>8. OutcomeKnown
  BY <1>3 DEF OutcomeKnown
<1>9. AloneWork /\ AloneState /\ AloneOutcome
  BY <1>2, <1>3 DEF AloneWork, AloneState, AloneOutcome, Idle
<1> QED  BY <1>5, <1>6, <1>7, <1>8, <1>9 DEF MasteryInv, AloneInv

\* A dimension is weak only for an answer that was decided and carries an error
\* of it (derive_dimension_signals).
LEMMA WeakIsEvidenced ==
  ASSUME NEW e \in Entries(Nodes), NEW k \in Kinds, Signals(e)[k] = "WEAK"
  PROVE  /\ ~e.blank /\ "UNREADABLE" \notin e.codes
         /\ \/ k = "CONCEPT" /\ "CONCEPT" \in e.codes
            \/ k = "EXECUTION" /\ "SIGN" \in e.codes
            \/ k = "PROCEDURE" /\ "METHOD" \in e.codes
<1>1. ~Undecided(e)
  BY DEF Signals, All
<1>2. k \in WeakKinds(e)
  BY <1>1 DEF Signals, All
<1>3. ~e.blank /\ "UNREADABLE" \notin e.codes
  BY <1>1 DEF Undecided, ReviewCodes
<1>4. \/ k = "CONCEPT" /\ "CONCEPT" \in e.codes
      \/ k = "EXECUTION" /\ "SIGN" \in e.codes
      \/ k = "PROCEDURE" /\ "METHOD" \in e.codes
  BY <1>2 DEF WeakKinds, Academic, ConceptWeak, ExecutionWeak, ProcedureWeak
<1> QED  BY <1>3, <1>4

LEMMA Evidenced ==
  ASSUME MasteryType
  PROVE  WeaknessIsEvidenced
<1> SUFFICES ASSUME NEW n \in Nodes, NEW k \in Kinds, Count(ledger, state[n], n, k, "WEAK") > 0
             PROVE  \E r \in state[n] :
                      /\ ~ledger[r].blank /\ "UNREADABLE" \notin ledger[r].codes
                      /\ \/ k = "CONCEPT" /\ "CONCEPT" \in ledger[r].codes
                         \/ k = "EXECUTION" /\ "SIGN" \in ledger[r].codes
                         \/ k = "PROCEDURE" /\ "METHOD" \in ledger[r].codes
  BY DEF WeaknessIsEvidenced
<1>1. PICK weak : weak = {r \in state[n] : ledger[r].node = n /\ Signals(ledger[r])[k] = "WEAK"}
  OBVIOUS
<1>2. weak # {}
  <2>1. Count(ledger, state[n], n, k, "WEAK") = Cardinality(weak)
    BY <1>1 DEF Count
  <2>2. Cardinality({}) = 0
    BY FS_EmptySet
  <2> QED  BY <2>1, <2>2
<1>3. PICK r \in state[n] : Signals(ledger[r])[k] = "WEAK"
  BY <1>1, <1>2
<1>4. r \in Results
  BY DEF MasteryType, MasteryTypeOK
<1> QED  BY <1>3, <1>4, LedgerTyped, WeakIsEvidenced

\* The last of the published results in force is the newest one.
LEMMA NewestIsLast ==
  ASSUME MasteryType, HistoryKnown, published # << >>
  PROVE  SelectLastInSubSeq(published, 1, Len(published), LAMBDA r : status[r] = "PUBLISHED")
           = Len(published)
<1>1. Len(published) \in 1 .. Len(published) /\ Len(published) \in Nat
  BY DEF MasteryType, MasteryTypeOK
<1>2. PICK I : I = {i \in 1 .. Len(published) : status[published[i]] = "PUBLISHED"}
  OBVIOUS
<1>3. Len(published) \in I /\ \A i \in I : i \in Nat /\ i <= Len(published)
  BY <1>1, <1>2 DEF HistoryKnown, Newest, InForce
<1>4. Max(I) = Len(published)
  <2>1. \E x \in I : \A y \in I : x >= y
    BY <1>3
  <2>2. Max(I) \in I /\ \A y \in I : Max(I) >= y
    BY <2>1 DEF Max
  <2> QED  BY <1>1, <1>3, <2>2
<1> QED  BY <1>2, <1>3, <1>4 DEF SelectLastInSubSeq

LEMMA MasteryImplies ==
  ASSUME MasteryInv
  PROVE  MasteryFollowsEvidence
<1> USE DEF MasteryInv
<1>1. Settled => Alone /\ published # << >> /\ Newest \in InForce /\ job[Newest] = "SUCCEEDED"
  BY DEF Settled, Ready, Alone, HistoryKnown, InForce
<1>2. Settled => state = States(InForce)
  <2>1. Settled => evidence \cap InForce = InForce
    BY <1>1 DEF AloneInv, AloneState, Settled, Ready, InForce
  <2> QED  BY <1>1, <2>1 DEF AloneInv, AloneState
<1>3. Settled => \A n \in Nodes : state[n] # NoRow => snapshot[Newest][n] = state[n]
  BY <1>1 DEF AloneInv, AloneState
<1>4. TrendEndsAtState
  BY <1>1, <1>3, NewestIsLast DEF TrendEndsAtState, Newest
<1>5. OutcomeIsOfAttempt
  <2> SUFFICES ASSUME reassessment.status = "PUBLISHED"
               PROVE  /\ SubmissionOf[reassessment.result] = reassessment.submission
                      /\ LET n == ledger[reassessment.result].node
                         IN  reassessment.result \in InForce /\ n \in reassessment.nodes
                             => reassessment.result \in reassessment.post[n]
                      /\ Settled => reassessment.result \in InForce
    BY DEF OutcomeIsOfAttempt
  <2>1. /\ reassessment.result \in Results /\ status[reassessment.result] # "NONE"
        /\ SubmissionOf[reassessment.result] = reassessment.submission
        /\ LET n == ledger[reassessment.result].node
           IN  reassessment.result \in InForce /\ n \in reassessment.nodes
               => reassessment.result \in reassessment.post[n]
    BY DEF OutcomeKnown
  <2>2. PICK x \in InForce : SubmissionOf[x] = reassessment.submission
    BY <2>1 DEF HistoryKnown
  <2>3. Settled => reassessment.result \in InForce
    BY <1>1, <2>2 DEF AloneInv, AloneOutcome, Settled, Ready
  <2> QED  BY <2>1, <2>3
<1> QED  BY <1>2, <1>4, <1>5, Evidenced DEF MasteryFollowsEvidence, StateFollowsResults

---------------------------------------------------------------------------
(* What follows from the invariants of plans                               *)

\* Of the steps of a session two have something read in them: the write of a
\* plan and a decision.
LEMMA SessionSteps ==
  ASSUME PlanType, PlanStep
  PROVE  \/ psession' = psession
         \/ \E s \in Planners \cup Teachers : \E c :
              Moves(s, c) /\ c.phase \notin {"written", "deciding"}
         \/ \E w \in Planners : PlanWrite(w)
         \/ \E s \in Teachers : \E j \in DOMAIN blueprint, d \in {"APPROVED", "REJECTED"} :
              DecisionRead(s, j, d)
<1> DEFINE Plain == \E s \in Planners \cup Teachers : \E c :
                      Moves(s, c) /\ c.phase \notin {"written", "deciding"}
<1>1. ASSUME NEW s \in Planners \cup Teachers, NEW c, Moves(s, c),
             c.phase \notin {"written", "deciding"}
      PROVE  Plain
  BY <1>1
<1>2. ASSUME NEW s \in Planners \cup Teachers, Moves(s, Idle) PROVE Plain
  BY <1>1, <1>2 DEF Idle
<1> HIDE DEF Plain
<1>3. EditGraph \/ PreparePlan \/ (\E i \in DOMAIN plan : PrepareBlueprint(i)) => psession' = psession
  BY DEF EditGraph, PreparePlan, PrepareBlueprint
<1>4. ASSUME NEW w \in Planners, NEW i \in DOMAIN plan, PlanBegin(w, i) PROVE Plain
  <2>1. Moves(w, Idle) \/ Moves(w, [phase |-> "begun", plan |-> i])
    BY <1>4 DEF PlanBegin
  <2> QED  BY <1>1, <1>2, <2>1
<1>5. ASSUME NEW w \in Planners, PlanGenerate(w) PROVE Plain
  <2>1. PICK i : Moves(w, Idle) \/ Moves(w, [phase |-> "generating", plan |-> i])
    BY <1>5 DEF PlanGenerate
  <2> QED  BY <1>1, <1>2, <2>1
<1>6. ASSUME NEW w \in Planners, NEW j \in DOMAIN blueprint, BlueprintBegin(w, j) PROVE Plain
  <2>1. Moves(w, Idle) \/ Moves(w, [phase |-> "drafting", bp |-> j])
    BY <1>6 DEF BlueprintBegin
  <2> QED  BY <1>1, <1>2, <2>1
<1>7. ASSUME NEW w \in Planners, BlueprintDraft(w) PROVE Plain
  <2>1. PICK j : Moves(w, Idle) \/ Moves(w, [phase |-> "drafted", bp |-> j])
    BY <1>7 DEF BlueprintDraft
  <2> QED  BY <1>1, <1>2, <2>1
<1>8. ASSUME NEW w \in Planners, BlueprintStore(w) PROVE Plain
  <2>1. /\ psession[w].phase = "drafted"
        /\ psession[w] = [phase |-> psession[w].phase, bp |-> psession[w].bp]
    BY <1>8, SessionRows DEF BlueprintStore
  <2>2. PICK c : c = [psession[w] EXCEPT !.phase = "stored"]
    OBVIOUS
  <2>3. c.phase = "stored" /\ Moves(w, c)
    BY <1>8, <2>1, <2>2 DEF BlueprintStore
  <2> QED  BY <1>1, <2>3
<1>9. ASSUME NEW w \in Planners,
             PlanCommit(w) \/ PlanFail(w) \/ BlueprintCommit(w) \/ BlueprintFail(w)
      PROVE  Plain
  BY <1>2, <1>9 DEF PlanCommit, PlanFail, BlueprintCommit, BlueprintFail
<1>10. ASSUME NEW s \in Teachers, DecisionCommit(s) PROVE Plain
  BY <1>2, <1>10 DEF DecisionCommit
<1>11. \/ psession' = psession \/ Plain
       \/ \E w \in Planners : PlanWrite(w)
       \/ \E s \in Teachers : \E j \in DOMAIN blueprint, d \in {"APPROVED", "REJECTED"} :
            DecisionRead(s, j, d)
  BY <1>3, <1>4, <1>5, <1>6, <1>7, <1>8, <1>9, <1>10 DEF PlanStep
<1> QED  BY <1>11 DEF Plain

\* A session comes to a decision only by reading the blueprint.
LEMMA OnlyReadDecides ==
  ASSUME PlanType, PlanStep, NEW s \in Teachers, psession[s] = Idle,
         psession'[s].phase = "deciding"
  PROVE  \E j \in DOMAIN blueprint, d \in {"APPROVED", "REJECTED"} : DecisionRead(s, j, d)
<1>1. psession' # psession
  BY DEF Idle
<1>2. ASSUME NEW w \in Planners \cup Teachers, NEW c, Moves(w, c),
             c.phase \notin {"written", "deciding"}
      PROVE  FALSE
  BY <1>2, SessionMoves DEF Idle
<1>3. ASSUME NEW w \in Planners, PlanWrite(w) PROVE FALSE
  <2>1. PICK c : Moves(w, c) /\ c.phase # "deciding"
    BY <1>3 DEF PlanWrite, Idle
  <2> QED  BY <2>1, SessionMoves DEF Idle
<1>4. PICK t \in Teachers : \E j \in DOMAIN blueprint, d \in {"APPROVED", "REJECTED"} : DecisionRead(t, j, d)
  BY <1>1, <1>2, <1>3, SessionSteps
<1>5. t = s
  <2>1. PICK c : Moves(t, c)
    BY <1>4 DEF DecisionRead
  <2> QED  BY <2>1, SessionMoves DEF Idle
<1> QED  BY <1>4, <1>5

\* What a session about to commit a plan knows of the older ones it has read.
LEMMA OlderWasRead ==
  ASSUME PlanType, PlanStep, NEW s \in Planners \cup Teachers,
         psession'[s].phase = "written", psession'[s] # psession[s]
  PROVE  plan' = plan /\ psession'[s].older = OlderReady(psession'[s].plan)
<1>1. psession' # psession
  OBVIOUS
<1>2. ASSUME NEW w \in Planners \cup Teachers, NEW c, Moves(w, c),
             c.phase \notin {"written", "deciding"}
      PROVE  FALSE
  BY <1>2, SessionMoves
<1>3. ASSUME NEW t \in Teachers, NEW j \in DOMAIN blueprint, NEW d \in {"APPROVED", "REJECTED"},
             DecisionRead(t, j, d)
      PROVE  FALSE
  <2>1. Moves(t, [phase |-> "deciding", bp |-> j, as |-> d])
    BY <1>3 DEF DecisionRead
  <2> QED  BY <2>1, SessionMoves
<1>4. PICK w \in Planners : PlanWrite(w)
  BY <1>1, <1>2, <1>3, SessionSteps
<1>5. PICK i : i = psession[w].plan
  OBVIOUS
<1>6. \/ Moves(w, Idle)
      \/ plan' = plan /\ Moves(w, [phase |-> "written", plan |-> i, older |-> OlderReady(i)])
  BY <1>4, <1>5 DEF PlanWrite
<1>7. plan' = plan /\ Moves(w, [phase |-> "written", plan |-> i, older |-> OlderReady(i)])
  BY <1>2, <1>6 DEF Idle
<1> QED  BY <1>7, SessionMoves

LEMMA OlderKept ==
  ASSUME MasteryType, PlanType, PlannersKnown, OlderKnown, UNCHANGED msetting, PlanStep,
         plan' = plan \/ PlansGrow, ReadyMoves
  PROVE  OlderKnown'
<1> SUFFICES ASSUME OnePlanner, NEW s \in Planners \cup Teachers, psession'[s].phase = "written",
                    NEW x \in DOMAIN plan', plan'[x].status = "READY"
             PROVE  x \in psession'[s].older \cup {psession'[s].plan}
  BY DEF OlderKnown, OnePlanner
<1>1. CASE psession'[s] # psession[s]
  BY <1>1, OlderWasRead DEF OlderReady
<1>2. CASE psession'[s] = psession[s]
  <2>1. CASE x \in DOMAIN plan /\ plan[x].status = "READY"
    BY <1>2, <2>1 DEF OlderKnown
  <2>2. CASE \E w \in Planners : psession[w].phase = "written" /\ Moves(w, Idle)
    <3>1. PICK w \in Planners : psession[w].phase = "written" /\ Moves(w, Idle)
      BY <2>2
    <3>2. w = s
      BY <1>2, <3>1, OnlyOne DEF PlannersKnown, Planning
    <3> QED  BY <3>1, <3>2, SessionMoves DEF Idle
  <2> QED  BY <2>1, <2>2 DEF ReadyMoves
<1> QED  BY <1>1, <1>2

LEMMA PlanStepKeeps ==
  ASSUME MasteryInv, PlanInv, MasteryTypeOK', Next, PlanStep, UNCHANGED masteryVars
  PROVE  PlanInv'
<1> USE DEF MasteryInv
<1>0. PlanCore
  BY DEF PlanInv, PlanCore
<1>1. UNCHANGED msetting /\ reassessment' = reassessment
  BY DEF masteryVars, tables
<1>2. PlanType'
  BY PlanTypeKept DEF PlanInv
<1>3. (plan' = plan \/ PlansGrow) /\ ReadyMoves
  BY PlanRows DEF PlanInv
<1>4. Steady \/ \E s \in Planners \cup Teachers : RowWritten(s)
  BY BlueprintRows DEF PlanInv
<1>5. (PlannersKnown /\ BlueprintsKnown /\ DecisionsAlone)'
  BY <1>0, <1>1, <1>3, <1>4, SteadyKeeps, WriteKeeps
<1>6. OneReadyPlan'
  <2> SUFFICES ASSUME OnePlanner, NEW x \in DOMAIN plan', NEW y \in DOMAIN plan',
                      plan'[x].status = "READY", plan'[y].status = "READY"
               PROVE  x = y
    BY <1>1 DEF OneReadyPlan, OnePlanner
  <2>1. CASE /\ x \in DOMAIN plan /\ plan[x].status = "READY"
             /\ y \in DOMAIN plan /\ plan[y].status = "READY"
    BY <2>1 DEF PlanInv, PlansAreSound, OneReadyPlan, OnePlanner
  <2>2. ASSUME NEW w \in Planners, psession[w].phase = "written",
               \A z \in DOMAIN plan' : plan'[z].status = "READY" =>
                 z = psession[w].plan
                 \/ (z \in DOMAIN plan /\ plan[z].status = "READY" /\ z \notin psession[w].older)
        PROVE  x = y
    BY <2>2 DEF PlanInv, OlderKnown
  <2> QED  BY <1>3, <2>1, <2>2 DEF ReadyMoves
<1>10. OlderKnown'
  BY <1>1, <1>3, OlderKept DEF PlanInv
<1>7. \A j \in DOMAIN blueprint : blueprint'[j].plan = blueprint[j].plan
  <2>1. CASE Steady
    BY <2>1 DEF Steady
  <2>2. ASSUME NEW s \in Planners \cup Teachers, RowWritten(s)
        PROVE  \A j \in DOMAIN blueprint : blueprint'[j].plan = blueprint[j].plan
    BY <2>2 DEF RowWritten, Written
  <2> QED  BY <1>4, <2>1, <2>2
<1>8. \A j \in DOMAIN blueprint : Goals(j)' = Goals(j)
  BY <1>1, <1>3, <1>7, GoalsStay DEF PlanInv
<1>9. ReassessmentIsApproved'
  <2> SUFFICES ASSUME reassessment.status # "NONE", OnePlanner, OneTeacher
               PROVE  \E j \in DOMAIN blueprint' :
                        /\ blueprint'[j].status = "APPROVED"
                        /\ blueprint'[j].items = reassessment.nodes
                        /\ reassessment.nodes = Goals(j)' /\ reassessment.nodes # {}
    BY <1>1 DEF ReassessmentIsApproved, OnePlanner, OneTeacher, Goals
  <2>1. PICK j \in DOMAIN blueprint :
          /\ blueprint[j].status = "APPROVED" /\ blueprint[j].items = reassessment.nodes
          /\ reassessment.nodes = Goals(j) /\ reassessment.nodes # {}
    BY DEF PlanInv, PlansAreSound, ReassessmentIsApproved, OnePlanner, OneTeacher, Goals
  <2>2. j \in DOMAIN blueprint' /\ blueprint'[j] = blueprint[j]
    BY <1>0, <1>4, <2>1, ApprovedKept
  <2> QED  BY <1>8, <2>1, <2>2
<1> QED  BY <1>2, <1>5, <1>6, <1>9, <1>10 DEF PlanInv, PlansAreSound

\* The reassessment is the same to the plans, or has just been made from an
\* approved blueprint.
LEMMA PlansUnmoved ==
  ASSUME MasteryType, PlanInv, MasteryTypeOK', UNCHANGED planVars, UNCHANGED msetting,
         \/ /\ (reassessment'.status # "NONE") <=> (reassessment.status # "NONE")
            /\ reassessment'.nodes = reassessment.nodes
         \/ \E j \in DOMAIN blueprint : /\ blueprint[j].status = "APPROVED"
                                        /\ reassessment'.nodes = blueprint[j].items
  PROVE  PlanInv'
<1> USE DEF planVars, planTables
<1>0. PlanCore
  BY DEF PlanInv, PlanCore
<1>1. PlanType'
  BY DEF PlanInv, PlanType, TypeOK, Plan, Blueprint
<1>2. Steady
  BY DEF Steady
<1>3. (PlannersKnown /\ BlueprintsKnown /\ DecisionsAlone)'
  BY <1>0, <1>2, SteadyKeeps
<1>4. OneReadyPlan'
  BY DEF PlanInv, PlansAreSound, OneReadyPlan
<1>7. OlderKnown'
  BY DEF PlanInv, OlderKnown, OnePlanner
<1>5. \A j \in DOMAIN blueprint : Goals(j)' = Goals(j)
  BY GoalsStay DEF PlanInv
<1>6. ReassessmentIsApproved'
  <2> SUFFICES ASSUME reassessment'.status # "NONE", OnePlanner, OneTeacher
               PROVE  \E j \in DOMAIN blueprint :
                        /\ blueprint[j].status = "APPROVED"
                        /\ blueprint[j].items = reassessment'.nodes
                        /\ reassessment'.nodes = Goals(j)' /\ reassessment'.nodes # {}
    BY DEF ReassessmentIsApproved, OnePlanner, OneTeacher, Goals
  <2>1. CASE /\ reassessment.status # "NONE" /\ reassessment'.nodes = reassessment.nodes
    BY <1>5, <2>1 DEF PlanInv, PlansAreSound, ReassessmentIsApproved, OnePlanner, OneTeacher, Goals
  <2>2. CASE \E j \in DOMAIN blueprint : /\ blueprint[j].status = "APPROVED"
                                         /\ reassessment'.nodes = blueprint[j].items
    BY <1>5, <2>2 DEF PlanInv, BlueprintsKnown
  <2> QED  BY <2>1, <2>2
<1> QED  BY <1>1, <1>3, <1>4, <1>6, <1>7 DEF PlanInv, PlansAreSound

LEMMA MakesForms ==
  ASSUME PlanType, Makes
  PROVE  /\ MasteryStep /\ UNCHANGED planVars /\ UNCHANGED msetting
         /\ reassessment = NoReassessment
         /\ \E j \in DOMAIN blueprint : /\ blueprint[j].status = "APPROVED"
                                        /\ reassessment'.nodes = blueprint[j].items
<1>1. PICK j \in DOMAIN blueprint : Instantiate(j)
  BY DEF Makes
<1>2. blueprint[j].items \in SUBSET Nodes
  BY PlanFields DEF Blueprint
<1>3. Creates(blueprint[j].items) /\ UNCHANGED planVars
  BY <1>1 DEF Instantiate, Creates, planVars
<1>4. PICK base : reassessment' = [NoReassessment EXCEPT !.status = "CREATED",
                                     !.nodes = blueprint[j].items, !.baseline = base]
  BY <1>3 DEF Creates, CreateReassessment
<1>5. reassessment'.nodes = blueprint[j].items
  BY <1>4 DEF NoReassessment
<1>6. MasteryStep /\ UNCHANGED msetting /\ reassessment = NoReassessment
  BY <1>2, <1>3 DEF MasteryStep, Creates, CreateReassessment
<1> QED  BY <1>1, <1>3, <1>5, <1>6 DEF Instantiate, Instantiable

LEMMA InvKept ==
  ASSUME MasteryInv, PlanInv, [Next]_vars
  PROVE  MasteryInv' /\ PlanInv'
<1>1. CASE UNCHANGED vars
  <2>1. UNCHANGED masteryVars /\ UNCHANGED planVars /\ UNCHANGED <<msetting, reassessment>>
    BY <1>1 DEF vars, masteryVars, tables
  <2>2. MasteryInv' /\ MasteryTypeOK'
    BY <2>1, MasteryStutters DEF MasteryInv, MasteryType
  <2> QED  BY <2>1, <2>2, PlansUnmoved DEF MasteryInv
<1>2. CASE MasteryNext /\ UNCHANGED planVars
  <2>1. MasteryInv' /\ MasteryTypeOK'
    BY <1>2, MasteryKept DEF MasteryStep, MasteryInv, MasteryType
  <2>2. MasteryFrame
    BY <1>2, FrameKept DEF MasteryInv
  <2> QED  BY <1>2, <2>1, <2>2, PlansUnmoved DEF MasteryInv, MasteryFrame
<1>3. CASE Makes
  <2>1. /\ MasteryStep /\ UNCHANGED planVars /\ UNCHANGED msetting
        /\ \E j \in DOMAIN blueprint : /\ blueprint[j].status = "APPROVED"
                                       /\ reassessment'.nodes = blueprint[j].items
    BY <1>3, MakesForms DEF PlanInv
  <2>2. MasteryInv' /\ MasteryTypeOK'
    BY <2>1, MasteryKept DEF MasteryInv, MasteryType
  <2> QED  BY <2>1, <2>2, PlansUnmoved DEF MasteryInv
<1>4. CASE Next /\ PlanStep /\ UNCHANGED masteryVars
  <2>1. MasteryInv' /\ MasteryTypeOK'
    BY <1>4, MasteryStutters DEF MasteryInv, MasteryType
  <2> QED  BY <1>4, <2>1, PlanStepKeeps
<1> QED  BY <1>1, <1>2, <1>3, <1>4, NextForms

LEMMA InvStarts == Init => MasteryInv /\ PlanInv
<1> SUFFICES ASSUME Init PROVE MasteryInv /\ PlanInv
  OBVIOUS
<1>1. MasteryInv
  BY MasteryStarts DEF Init
<1>2. /\ MaxPlans \in Nat /\ MaxBlueprints \in Nat /\ MaxTasks \in Nat
  BY PlansAssumption, MasteryAssumption
<1>3. /\ plan = << >> /\ blueprint = << >> /\ DOMAIN plan = {} /\ DOMAIN blueprint = {}
      /\ Len(plan) = 0 /\ Len(blueprint) = 0
  BY DEF Init
<1>4. reassessment.status = "NONE"
  BY DEF Init, MasteryInit, NoReassessment
<1>5. \A s \in Planners \cup Teachers : psession[s] = Idle /\ psession[s].phase = "idle"
  BY DEF Init, Idle
<1>6. TypeOK
  BY <1>1, <1>2, <1>3 DEF Init, TypeOK, MasteryInv, MasteryType
<1>7. PlanType
  BY <1>2, <1>3, <1>5, <1>6 DEF Init, PlanType, PSessions
<1>8. PlannersKnown /\ BlueprintsKnown /\ DecisionsAlone /\ OlderKnown
  BY <1>3, <1>5 DEF PlannersKnown, BlueprintsKnown, DecisionsAlone, OlderKnown, Planning, Drafting,
                    Deciding
<1>9. PlansAreSound
  BY <1>3, <1>4 DEF PlansAreSound, OneReadyPlan, ReassessmentIsApproved
<1> QED  BY <1>1, <1>7, <1>8, <1>9 DEF PlanInv

LEMMA InvAlways == Spec => [](MasteryInv /\ PlanInv)
<1>1. Init => MasteryInv /\ PlanInv
  BY InvStarts
<1>2. MasteryInv /\ PlanInv /\ [Next]_vars => (MasteryInv /\ PlanInv)'
  BY InvKept
<1> QED  BY <1>1, <1>2, PTL DEF Spec

---------------------------------------------------------------------------
(* Theorems                                                                *)

\* Every table and session of mastery, plans and blueprints keeps its type:
\* no column, counter or session leaves the values the code gives it.
THEOREM LearningTypeCorrect == Spec => []TypeOK
<1>1. PlanInv => TypeOK
  BY DEF PlanInv, PlanType
<1> QED  BY <1>1, InvAlways, PTL

\* What is known of a student follows from the published results, whatever is
\* sent twice, fails, crashes or is rebuilt: once everything in force is
\* materialised by one worker, the state of every node is computed from exactly
\* the results in force and its history ends there; a weakness always has its
\* evidence; the outcome of a reassessment is the history of its own attempt
\* (materialize_b12_for_student, materialize_b14_for_published_result).
THEOREM MasteryFollows == Spec => []MasteryFollowsEvidence
<1>1. MasteryInv => MasteryFollowsEvidence
  BY MasteryImplies
<1> QED  BY <1>1, InvAlways, PTL

\* A student has one READY plan, and with one planner and one teacher a
\* reassessment covers the weaknesses an approved blueprint asked for
\* (run_learning_plan_pipeline, instantiate_reassessment).
THEOREM PlansSound == Spec => []PlansAreSound
<1>1. PlanInv => PlansAreSound
  BY DEF PlanInv
<1> QED  BY <1>1, InvAlways, PTL

\* The baseline of a reassessment is the mastery of the moment it was made, for
\* good: no outcome, rebuild or later result changes it (reassessment.py).
THEOREM BaselineKept == Spec => BaselineStays
<1>1. ASSUME MasteryInv, PlanInv, [Next]_vars
      PROVE  [reassessment # NoReassessment =>
                reassessment'.baseline = reassessment.baseline]_masteryVars
  <2>1. CASE UNCHANGED masteryVars
    BY <2>1
  <2>2. CASE MasteryNext
    BY <1>1, <2>2, FrameKept DEF MasteryInv, MasteryFrame
  <2>3. CASE Makes
    BY <1>1, <2>3, MakesForms DEF PlanInv
  <2> QED  BY <1>1, <2>1, <2>2, <2>3, NextForms DEF vars
<1> QED  BY <1>1, InvAlways, PTL DEF Spec, BaselineStays

\* With one planner and one teacher nothing undoes an approval: not a second
\* delivery of the task, its failure or a later plan (approve_blueprint,
\* run_blueprint_pipeline).
THEOREM ApprovalsStay == Spec => ApprovedStays
<1>1. ASSUME MasteryInv, PlanInv, [Next]_vars
      PROVE  [Cardinality(msetting.planners) = 1 /\ Cardinality(msetting.teachers) = 1 =>
               \A j \in DOMAIN blueprint :
                 blueprint[j].status = "APPROVED" => blueprint'[j].status = "APPROVED"]_vars
  <2>1. CASE UNCHANGED planVars
    BY <2>1 DEF planVars, planTables
  <2>2. CASE PlanStep
    <3>1. PlanCore /\ MasteryType
      BY <1>1 DEF PlanInv, PlanCore, MasteryInv
    <3>2. Steady \/ \E s \in Planners \cup Teachers : RowWritten(s)
      BY <2>2, <3>1, BlueprintRows DEF PlanCore
    <3> QED  BY <3>1, <3>2, ApprovedKept DEF OnePlanner, OneTeacher
  <2> QED  BY <1>1, <2>1, <2>2, NextForms, MakesForms DEF PlanInv
<1> QED  BY <1>1, InvAlways, PTL DEF Spec, ApprovedStays

\* Whoever approves a blueprint has compared its own artifact with its digest,
\* though blueprints of different plans write the same key (approve_blueprint).
THEOREM ApprovedOwn == Spec => ApprovedWasOwn
<1>1. ASSUME PlanInv, [Next]_vars
      PROVE  [\A s \in Teachers :
                psession[s] = Idle /\ psession'[s].phase = "deciding"
                  /\ psession'[s].as = "APPROVED" =>
                  store[blueprint[psession'[s].bp].version] = psession'[s].bp]_vars
  <2>1. CASE UNCHANGED planVars
    BY <2>1 DEF planVars, Idle
  <2>2. CASE PlanStep
    <3> SUFFICES ASSUME NEW s \in Teachers, psession[s] = Idle, psession'[s].phase = "deciding",
                        psession'[s].as = "APPROVED"
                 PROVE  store[blueprint[psession'[s].bp].version] = psession'[s].bp
      OBVIOUS
    <3>1. PICK j \in DOMAIN blueprint, d \in {"APPROVED", "REJECTED"} : DecisionRead(s, j, d)
      BY <1>1, <2>2, OnlyReadDecides DEF PlanInv
    <3>2. psession'[s] = [phase |-> "deciding", bp |-> j, as |-> d]
      BY <1>1, <3>1, SessionMoves DEF DecisionRead, PlanInv
    <3> QED  BY <3>1, <3>2 DEF DecisionRead, ArtifactIsOwn
  <2> QED  BY <1>1, <2>1, <2>2, NextForms, MakesForms DEF PlanInv
<1> QED  BY <1>1, InvAlways, PTL DEF Spec, ApprovedWasOwn
============================================================================
