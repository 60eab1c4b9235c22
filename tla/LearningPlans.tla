--------------------------- MODULE LearningPlans ---------------------------
(***************************************************************************)
(* Learning plans and improvement blueprints (services/learning.py) for    *)
(* one student and curriculum, over the mastery evidence of Mastery, up to *)
(* the reassessment made from an approved blueprint (reassessment.py).  A  *)
(* plan and its blueprints are bound to the hash of their input: here, to  *)
(* the evidence and the curriculum graph themselves.                       *)
(***************************************************************************)
EXTENDS Mastery

CONSTANTS Planners, Teachers, MaxPlans, MaxBlueprints

\* A setting has finitely many planners and teachers, and its own bound on the
\* deliveries of a task.
ASSUME PlansAssumption ==
  /\ MaxPlans \in Nat /\ MaxBlueprints \in Nat
  /\ \A s \in MasterySettings :
       /\ IsFiniteSet(s.planners) /\ IsFiniteSet(s.teachers)
       /\ s.sends \in Nat /\ s.sends <= MaxTasks

PlanStates == {"QUEUED", "READY", "FAILED", "SUPERSEDED"}
BlueprintStates == {"DRAFT", "PENDING_APPROVAL", "APPROVED", "REJECTED", "FAILED"}

VARIABLES
  graph,      \* the curriculum graph: edited back and forth
  edits,
  plan,       \* learning plan runs, oldest first
  blueprint,  \* improvement assessments
  store,      \* store[v]: the blueprint whose artifact is at the key of version v
  ptasks,     \* ptasks[t]: deliveries of the task of a plan or blueprint
  psession

planTables == <<graph, plan, blueprint, store>>
planVars == <<planTables, edits, ptasks, psession>>
vars == <<masteryVars, planVars>>

Tasks == ({"plan"} \X (1 .. MaxPlans)) \cup ({"blueprint"} \X (1 .. MaxBlueprints))

TypeOK ==
  /\ MasteryTypeOK /\ graph \in 0 .. 1
  /\ plan \in Seq([facts : SUBSET Results, graph : 0 .. 1, status : PlanStates, steps : BOOLEAN])
  /\ blueprint \in Seq([plan : 1 .. MaxPlans, version : 1 .. MaxBlueprints,
                        status : BlueprintStates, items : SUBSET Nodes])
  /\ store \in [1 .. MaxBlueprints -> 0 .. MaxBlueprints]
  /\ ptasks \in [Tasks -> 0 .. MaxTasks] /\ DOMAIN psession = Planners \cup Teachers

Init ==
  /\ MasteryInit
  /\ graph = 0 /\ edits = 0 /\ plan = << >> /\ blueprint = << >>
  /\ store = [v \in 1 .. MaxBlueprints |-> 0] /\ ptasks = [t \in Tasks |-> 0]
  /\ psession = [s \in Planners \cup Teachers |-> Idle]

\* Mutant: the input of a plan is its evidence alone.
EvidenceOnly(p) == p.facts = evidence

\* _compute_current_hashes against the input hash of a plan.  The evidence is
\* every row of the student, those of superseded results included.
IsCurrent(p) == p.facts = evidence /\ p.graph = graph

Targets(p) == WeakNodes(ledger, p.facts, Nodes)
Sends(t) == \E sent \in {1} \cup (IF "lost" \in msetting.faults THEN {0} ELSE {}) :
              /\ ptasks[t] + sent <= msetting.sends
              /\ ptasks' = [ptasks EXCEPT ![t] = @ + sent]
Moves(s, change) == psession' = [psession EXCEPT ![s] = change]
PlanGoes(i, status_) == plan' = [plan EXCEPT ![i].status = status_]
BlueprintGoes(j, status_) == blueprint' = [blueprint EXCEPT ![j].status = status_]

EditGraph ==
  /\ edits < msetting.edits /\ edits' = edits + 1 /\ graph' = 1 - graph
  /\ UNCHANGED <<masteryVars, plan, blueprint, store, ptasks, psession>>

-----------------------------------------------------------------------------
\* prepare_learning_plan: one run per input, ever.  A queued one is sent
\* again; after a FAILED or SUPERSEDED run of the same input the insert meets
\* uq_learning_plan_runs_input_idempotency and the request fails.
PreparePlan ==
  /\ "plan" \in msetting.calls /\ Ready
  /\ \/ \E i \in DOMAIN plan :
          /\ IsCurrent(plan[i]) /\ plan[i].status = "QUEUED"
          /\ Sends(<<"plan", i>>) /\ UNCHANGED plan
     \/ /\ Len(plan) < MaxPlans /\ ~\E i \in DOMAIN plan : IsCurrent(plan[i])
        /\ plan' = Append(plan, [facts |-> evidence, graph |-> graph, status |-> "QUEUED",
                                 steps |-> FALSE])
        /\ Sends(<<"plan", Len(plan) + 1>>)
  /\ UNCHANGED <<masteryVars, graph, edits, blueprint, store, psession>>

\* run_learning_plan_pipeline.  The status is read first; RUNNING is only
\* flushed, so the row stays locked and others see the state before.
PlanBegin(w, i) ==
  /\ w \in msetting.planners /\ psession[w] = Idle /\ ptasks[<<"plan", i>>] > 0
  /\ ptasks' = [ptasks EXCEPT ![<<"plan", i>>] = @ - 1]
  /\ Moves(w, IF plan[i].status = "QUEUED" THEN [phase |-> "begun", plan |-> i] ELSE Idle)
  /\ UNCHANGED <<masteryVars, planTables, edits>>

Locked(phase, field, x) == \E w \in Planners :
  psession[w].phase = phase /\ psession[w][field] = x
Generated(i) == Locked("generating", "plan", i) \/ Locked("written", "plan", i)

\* Mutant: a plan whose input has changed is left as it was.
LeftQueued(i) == UNCHANGED plan
Refuse(i) == PlanGoes(i, "FAILED")

PlanGenerate(w) ==
  /\ psession[w].phase = "begun"
  /\ LET i == psession[w].plan
     IN  /\ ~Generated(i)
         /\ \/ /\ Ready /\ IsCurrent(plan[i])
               /\ Moves(w, [phase |-> "generating", plan |-> i]) /\ UNCHANGED plan
            \/ /\ ~(Ready /\ IsCurrent(plan[i]))
               /\ Refuse(i) /\ Moves(w, Idle)
  /\ UNCHANGED <<masteryVars, graph, edits, blueprint, store, ptasks>>

\* The rows are written, then the older READY plans of the student and
\* curriculum are read.  The steps of a run another delivery of its task has
\* already written collide with these (unique sequence).
OlderReady(i) == {x \in DOMAIN plan : x # i /\ plan[x].status = "READY"}
PlanWrite(w) ==
  /\ psession[w].phase = "generating"
  /\ LET i == psession[w].plan
     IN  \/ plan[i].steps /\ PlanGoes(i, "FAILED") /\ Moves(w, Idle)
         \/ /\ ~plan[i].steps /\ UNCHANGED plan
            /\ Moves(w, [phase |-> "written", plan |-> i, older |-> OlderReady(i)])
  /\ UNCHANGED <<masteryVars, graph, edits, blueprint, store, ptasks>>

\* Mutant: older plans get a status the table does not have.
OlderObsolete(older) == [x \in DOMAIN plan |-> IF x \in older
                                               THEN [plan[x] EXCEPT !.status = "OBSOLETE"] ELSE plan[x]]
\* Mutant: older plans are left READY.
NoneOlder(older) == plan

Supersede(older) == [x \in DOMAIN plan |-> IF x \in older
                                           THEN [plan[x] EXCEPT !.status = "SUPERSEDED"] ELSE plan[x]]

\* The commit supersedes those read, waiting for whoever has their rows locked.
PlanCommit(w) ==
  /\ psession[w].phase = "written" /\ Moves(w, Idle)
  /\ LET i == psession[w].plan
         older == psession[w].older
     IN  /\ \A x \in older : ~Generated(x)
         /\ plan' = [Supersede(older) EXCEPT ![i].status = "READY",
                                             ![i].steps = Targets(plan[i]) # {}]
  /\ UNCHANGED <<masteryVars, graph, edits, blueprint, store, ptasks>>

\* An exception: rollback, then the run is FAILED.  Or the worker dies.
PlanFail(w) ==
  /\ psession[w].phase \in {"begun", "generating", "written"} /\ Moves(w, Idle)
  /\ \/ "error" \in msetting.faults /\ PlanGoes(psession[w].plan, "FAILED")
     \/ "crash" \in msetting.faults /\ UNCHANGED plan
  /\ UNCHANGED <<masteryVars, graph, edits, blueprint, store, ptasks>>

-----------------------------------------------------------------------------
\* prepare_improvement_blueprint of a READY plan whose input is current.
Reused(i) == {j \in DOMAIN blueprint : blueprint[j].plan = i
                /\ blueprint[j].status \in {"DRAFT", "PENDING_APPROVAL", "APPROVED"}}

PrepareBlueprint(i) ==
  /\ "blueprint" \in msetting.calls
  /\ plan[i].status = "READY" /\ IsCurrent(plan[i]) /\ Targets(plan[i]) # {}
  /\ \/ \E j \in Reused(i) : blueprint[j].status = "DRAFT" /\ Sends(<<"blueprint", j>>)
                             /\ UNCHANGED blueprint
     \/ /\ Reused(i) = {} /\ Len(blueprint) < MaxBlueprints
        /\ LET of_plan == {j \in DOMAIN blueprint : blueprint[j].plan = i}
           IN  blueprint' = Append(blueprint,
                 [plan |-> i, version |-> Cardinality(of_plan) + 1, status |-> "DRAFT",
                  items |-> {}])
        /\ Sends(<<"blueprint", Len(blueprint) + 1>>)
  /\ UNCHANGED <<masteryVars, graph, edits, plan, store, psession>>

\* Only these two stop run_blueprint_pipeline.
Finished(bp) == bp.status \in {"PENDING_APPROVAL", "APPROVED"}

\* run_blueprint_pipeline: GENERATING is flushed, never committed.
BlueprintBegin(w, j) ==
  /\ w \in msetting.planners /\ psession[w] = Idle /\ ptasks[<<"blueprint", j>>] > 0
  /\ ptasks' = [ptasks EXCEPT ![<<"blueprint", j>>] = @ - 1]
  /\ Moves(w, IF Finished(blueprint[j]) THEN Idle ELSE [phase |-> "drafting", bp |-> j])
  /\ UNCHANGED <<masteryVars, planTables, edits>>

\* The items of an earlier delivery collide with those of this one; a plan
\* that is no longer READY or current fails the blueprint.
BlueprintDraft(w) ==
  /\ psession[w].phase = "drafting"
  /\ LET j == psession[w].bp
         p == plan[blueprint[j].plan]
     IN  /\ ~Locked("drafted", "bp", j) /\ ~Locked("stored", "bp", j)
         /\ \/ /\ p.status = "READY" /\ IsCurrent(p) /\ blueprint[j].items = {}
               /\ Moves(w, [phase |-> "drafted", bp |-> j]) /\ UNCHANGED blueprint
            \/ /\ ~(p.status = "READY" /\ IsCurrent(p) /\ blueprint[j].items = {})
               /\ BlueprintGoes(j, "FAILED") /\ Moves(w, Idle)
  /\ UNCHANGED <<masteryVars, graph, edits, plan, store, ptasks>>

\* The artifact is stored before the commit, over what the key held.
BlueprintStore(w) ==
  /\ psession[w].phase = "drafted"
  /\ store' = [store EXCEPT ![blueprint[psession[w].bp].version] = psession[w].bp]
  /\ Moves(w, [psession[w] EXCEPT !.phase = "stored"])
  /\ UNCHANGED <<masteryVars, graph, edits, plan, blueprint, ptasks>>

BlueprintCommit(w) ==
  /\ psession[w].phase = "stored" /\ Moves(w, Idle)
  /\ LET j == psession[w].bp
     IN  blueprint' = [blueprint EXCEPT ![j].status = "PENDING_APPROVAL",
                                        ![j].items = Targets(plan[blueprint[j].plan])]
  /\ UNCHANGED <<masteryVars, graph, edits, plan, store, ptasks>>

BlueprintFail(w) ==
  /\ psession[w].phase \in {"drafting", "drafted", "stored"} /\ Moves(w, Idle)
  /\ \/ "error" \in msetting.faults /\ BlueprintGoes(psession[w].bp, "FAILED")
     \/ "crash" \in msetting.faults /\ UNCHANGED blueprint
  /\ UNCHANGED <<masteryVars, graph, edits, plan, store, ptasks>>

\* Mutant: the artifact is not compared with the digest of the blueprint.
DigestUnchecked(j) == TRUE

\* The key of an artifact names the version of a blueprint, not its plan.
ArtifactIsOwn(j) == store[blueprint[j].version] = j

\* approve_blueprint and reject_blueprint, a read and a later commit.
DecisionRead(s, j, decision) ==
  /\ decision \in msetting.calls /\ s \in msetting.teachers /\ psession[s] = Idle
  /\ blueprint[j].status = "PENDING_APPROVAL"
  /\ decision = "APPROVED" =>
       /\ plan[blueprint[j].plan].status = "READY" /\ IsCurrent(plan[blueprint[j].plan])
       /\ ArtifactIsOwn(j)
  /\ Moves(s, [phase |-> "deciding", bp |-> j, as |-> decision])
  /\ UNCHANGED <<masteryVars, planTables, edits, ptasks>>
DecisionCommit(s) ==
  /\ psession[s].phase = "deciding" /\ Moves(s, Idle)
  /\ BlueprintGoes(psession[s].bp, psession[s].as)
  /\ UNCHANGED <<masteryVars, graph, edits, plan, store, ptasks>>

Instantiable(bp) == bp.status = "APPROVED"

\* instantiate_reassessment: the unique key of its blueprint lets one through.
Instantiate(j) ==
  /\ "instantiate" \in msetting.calls
  /\ Instantiable(blueprint[j])
  /\ plan[blueprint[j].plan].status = "READY" /\ IsCurrent(plan[blueprint[j].plan])
  /\ CreateReassessment(blueprint[j].items)
  /\ UNCHANGED <<tasks, rebuilds, msession, msetting, planVars>>

Next ==
  \/ MasteryNext /\ UNCHANGED planVars
  \/ EditGraph \/ PreparePlan
  \/ \E i \in DOMAIN plan : PrepareBlueprint(i)
  \/ \E w \in Planners :
       \/ \E i \in DOMAIN plan : PlanBegin(w, i)
       \/ PlanGenerate(w) \/ PlanWrite(w) \/ PlanCommit(w) \/ PlanFail(w)
       \/ \E j \in DOMAIN blueprint : BlueprintBegin(w, j)
       \/ BlueprintDraft(w) \/ BlueprintStore(w) \/ BlueprintCommit(w) \/ BlueprintFail(w)
  \/ \E s \in Teachers :
       \/ \E j \in DOMAIN blueprint, d \in {"APPROVED", "REJECTED"} : DecisionRead(s, j, d)
       \/ DecisionCommit(s)
  \/ \E j \in DOMAIN blueprint : Instantiate(j)

\* A worker that has begun a task carries it on.
Fairness ==
  /\ \A w \in Materializers : WF_vars(msession[w] # Idle /\ MasteryNext /\ UNCHANGED planVars
                                      /\ msession'[w] # msession[w])
  /\ \A w \in Planners : /\ WF_vars(PlanGenerate(w)) /\ WF_vars(PlanWrite(w)) /\ WF_vars(PlanCommit(w))
                         /\ WF_vars(BlueprintDraft(w)) /\ WF_vars(BlueprintStore(w))
                         /\ WF_vars(BlueprintCommit(w))
                         /\ WF_vars(\E i \in DOMAIN plan : PlanBegin(w, i))

Spec == Init /\ [][Next]_vars
FairSpec == Spec /\ Fairness

-----------------------------------------------------------------------------
\* A student has one READY plan per curriculum, the newest to be generated, when
\* one worker generates them; two that read before either commits leave both.
OneReadyPlan ==
  Cardinality(msetting.planners) = 1 =>
    \A i, j \in DOMAIN plan : plan[i].status = "READY" /\ plan[j].status = "READY" => i = j

\* An approved blueprint stays approved whatever deliveries of its task remain,
\* failures and later plans included, when one worker and one teacher serve it.
ApprovedStays ==
  [][Cardinality(msetting.planners) = 1 /\ Cardinality(msetting.teachers) = 1 =>
      \A j \in DOMAIN blueprint :
        blueprint[j].status = "APPROVED" => blueprint'[j].status = "APPROVED"]_vars

\* The artifact a teacher approves is the one of the blueprint approved, though
\* blueprints of different plans share their keys.
ApprovedWasOwn ==
  [][\A s \in Teachers :
        psession[s] = Idle /\ psession'[s].phase = "deciding" /\ psession'[s].as = "APPROVED" =>
          store[blueprint[psession'[s].bp].version] = psession'[s].bp]_vars

\* A reassessment covers what an approved blueprint of the student asked for,
\* each of its nodes a weakness in the evidence of the blueprint's plan.
ReassessmentIsApproved ==
  reassessment.status # "NONE" /\ Cardinality(msetting.planners) = 1
    /\ Cardinality(msetting.teachers) = 1 =>
    \E j \in DOMAIN blueprint :
      /\ blueprint[j].status = "APPROVED" /\ blueprint[j].items = reassessment.nodes
      /\ reassessment.nodes = Targets(plan[blueprint[j].plan]) /\ reassessment.nodes # {}

\* Plans and the reassessments made from them are the ones they should be.
PlansAreSound == OneReadyPlan /\ ReassessmentIsApproved

\* A plan is generated or fails where no task is lost and there are workers that
\* do not die: none stays QUEUED for ever.
PlanSettles ==
  \A i \in 1 .. MaxPlans :
    []<>~(/\ {"crash", "lost"} \cap msetting.faults = {} /\ msetting.planners # {}
          /\ i \in DOMAIN plan /\ plan[i].status = "QUEUED")

\* The gaps of a plan come from the evidence of published results only
\* (docs/engineering/B9_LEARNING_BLUEPRINT_REPORT.md:73).
PlanFromPublished ==
  [][\A i \in DOMAIN plan : plan'[i].status = "READY" /\ plan[i].status # "READY" =>
       plan[i].facts \subseteq InForce]_vars
=============================================================================
