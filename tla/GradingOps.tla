----------------------------- MODULE GradingOps -----------------------------
(***************************************************************************)
(* Grading pools, the work items they hand out, and grievances against a   *)
(* published result (services/enterprise_ops.py, grading_access.py).       *)
(*                                                                         *)
(* A handler reads in one step, which puts the change it is about to make  *)
(* into `request`, and commits in a later one; create and accept of a      *)
(* grievance read twice.  allocate_work and assign_work_manual hold the    *)
(* row of their pool from the read to the commit, allocate_work also the   *)
(* run's.  Moderation appears by its effect on the items of a run          *)
(* (EvaluationLedger has its stages), publication as one step.             *)
(***************************************************************************)
EXTENDS Integers, Sequences, FiniteSets

CONSTANTS
  Requests,      \* sessions of HTTP requests
  Graders,       \* users, all with a role a pool accepts
  Pools, Questions,
  GradingSettings,      \* what Init chooses from
  MaxItems, MaxRuns, MaxGrievances  \* bounds: rows of each table

\* A paper has finitely many questions and a school finitely many graders; the
\* bounds leave room for the first run, and clients are requests.
GradingConstants ==
  /\ IsFiniteSet(Questions) /\ IsFiniteSet(Graders)
  /\ MaxRuns \in Nat \ {0} /\ MaxGrievances \in Nat
  /\ \A x \in GradingSettings : /\ x.published \in BOOLEAN
                                /\ x.clients \subseteq Requests /\ IsFiniteSet(x.clients)

None == "NONE"
ActiveWork == {"QUEUED", "IN_PROGRESS", "SUBMITTED"}
Governing == ActiveWork \cup {"RETURNED"}
WorkStatus == Governing \cup {"COMPLETED"}
PoolStatus == {None, "DRAFT", "ACTIVE", "CLOSED"}
RunStatus == {"REVIEW_REQUIRED", "COMPLETED", "FAILED", "SUPERSEDED"}
GrievanceStatus == {"SUBMITTED", "RE_EVALUATING", "REJECTED", "RESOLVED"}

VARIABLES
  pool,       \* pool[p].status and .strategy
  members,    \* members[p]: its active members
  item,       \* the work items, oldest first
  run,        \* run[n]: evaluation run n of the submission
  row,        \* row[n][u]: the state of the evaluation of question u in run n
  published,  \* the published results, oldest first
  grievance,  \* the grievances, oldest first
  request,    \* request[q]: what a request is about to commit
  profile     \* the endpoints called, the clients, the pools in use

gradingTables == <<pool, members, item, run, row, published, grievance>>
gradingVars == <<gradingTables, request, profile>>

\* A request between two commits: the pool and the run it holds, and what it is
\* about to write, the status of a pool or of a row, items or a copied run.
NoChange == [op |-> "IDLE", pool |-> None, run |-> 0, target |-> None, of |-> 0,
         status |-> None, items |-> << >>, number |-> 0, original |-> 0]

GradingTypeOK ==
  /\ pool \in [Pools -> [status : PoolStatus, strategy : {"MANUAL", "ROUND_ROBIN"}]]
  /\ members \in [Pools -> SUBSET Graders]
  /\ item \in Seq([pool : Pools, run : 1 .. MaxRuns, question : Questions,
                   owner : Graders, status : WorkStatus])
  /\ run \in Seq([status : RunStatus, grievance : 0 .. MaxGrievances])
  /\ DOMAIN row = DOMAIN run
  /\ \A n \in DOMAIN row : row[n] \in
       [Questions -> {"REVIEW_REQUIRED", "ACCEPTED", "ESCALATED"}]
  /\ published \in Seq([run : 1 .. MaxRuns, status : {"PUBLISHED", "SUPERSEDED"}])
  /\ grievance \in Seq([result : Nat, status : GrievanceStatus, run : 0 .. MaxRuns])
  /\ DOMAIN request = Requests

GradingInit ==
  /\ profile \in GradingSettings
  /\ pool = [p \in Pools |-> [status |-> None, strategy |-> "ROUND_ROBIN"]]
  /\ members = [p \in Pools |-> {}]
  /\ item = << >> /\ grievance = << >>
  /\ run = <<[status |-> IF profile.published THEN "COMPLETED"
                         ELSE "REVIEW_REQUIRED", grievance |-> 0]>>
  /\ row = <<[u \in Questions |-> IF profile.published THEN "ACCEPTED"
                                  ELSE "REVIEW_REQUIRED"]>>
  /\ published = IF profile.published
                 THEN <<[run |-> 1, status |-> "PUBLISHED"]>> ELSE << >>
  /\ request = [q \in Requests |-> NoChange]

Calls(q, endpoint) == /\ endpoint \in profile.calls /\ q \in profile.clients
                      /\ request[q] = NoChange

Begins(q, change) ==
  /\ request' = [request EXCEPT ![q] = change]
  /\ UNCHANGED <<gradingTables, profile>>

\* Mutant: _get_pool without FOR UPDATE.
PoolFreeAlways(p) == TRUE
\* No other request holds the row of the pool.
PoolFree(p) == \A q \in Requests : request[q].pool # p
RunFree(n) == \A q \in Requests : request[q].run # n

---------------------------------------------------------------------------
(* Pools                                                                   *)

CreatePool(p, strategy) ==
  /\ "pools" \in profile.calls /\ p \in profile.pools
  /\ pool[p].status = None
  /\ pool' = [pool EXCEPT ![p] = [status |-> "DRAFT", strategy |-> strategy]]
  /\ UNCHANGED <<members, item, run, row, published, grievance, request, profile>>

AddMember(p, g) ==
  /\ "pools" \in profile.calls
  /\ pool[p].status \in {"DRAFT", "ACTIVE"} /\ g \notin members[p]
  /\ members' = [members EXCEPT ![p] = @ \cup {g}]
  /\ UNCHANGED <<pool, item, run, row, published, grievance, request, profile>>

ActivatePool(q, p) ==
  /\ Calls(q, "pools")
  /\ pool[p].status = "DRAFT" /\ members[p] # {}
  /\ Begins(q, [NoChange EXCEPT !.op = "POOL", !.target = p, !.status = "ACTIVE"])

ClosePool(q, p) ==
  /\ Calls(q, "pools")
  /\ pool[p].status \in {"ACTIVE", "DRAFT"}
  /\ Begins(q, [NoChange EXCEPT !.op = "POOL", !.target = p, !.status = "CLOSED"])

CommitPool(q) ==
  /\ request[q].op = "POOL" /\ PoolFree(request[q].target)
  /\ pool' = [pool EXCEPT ![request[q].target].status = request[q].status]
  /\ request' = [request EXCEPT ![q] = NoChange]
  /\ UNCHANGED <<members, item, run, row, published, grievance, profile>>

---------------------------------------------------------------------------
(* Work items                                                              *)

NewItem(p, n, u, g) ==
  [pool |-> p, run |-> n, question |-> u, owner |-> g, status |-> "QUEUED"]

\* Mutant: a question whose item is started is handed out again.
UnassignedUnlessQueued(n, u) ==
  \A i \in DOMAIN item : item[i].run = n /\ item[i].question = u =>
    item[i].status # "QUEUED"
Unassigned(n, u) ==
  \A i \in DOMAIN item : item[i].run = n /\ item[i].question = u =>
    item[i].status \notin ActiveWork

\* member = members[rr_index % len(members)], in the order of the questions.
Dealt(p, n, questions, dealt) ==
  [k \in DOMAIN questions |->
     NewItem(p, n, questions[k], dealt[((k - 1) % Len(dealt)) + 1])]

\* The orders of a set of rows.
Orders(S) == {s \in [1 .. Cardinality(S) -> S] : \A a, b \in DOMAIN s :
                a # b => s[a] # s[b]}

Allocate(q, p, n) ==
  LET fresh == {u \in Questions : Unassigned(n, u)} IN
  /\ Calls(q, "allocate")
  /\ PoolFree(p) /\ RunFree(n)
  /\ pool[p].status = "ACTIVE" /\ pool[p].strategy = "ROUND_ROBIN"
  /\ fresh # {} /\ Len(item) + Cardinality(fresh) <= MaxItems
  /\ \E questions \in Orders(fresh), dealt \in Orders(members[p]) :
       Begins(q, [NoChange EXCEPT !.op = "ITEMS", !.pool = p, !.run = n,
                              !.items = Dealt(p, n, questions, dealt)])

AssignManual(q, p, n, u, g) ==
  /\ Calls(q, "assign")
  /\ PoolFree(p)
  /\ pool[p].status = "ACTIVE" /\ g \in members[p]
  /\ Unassigned(n, u) /\ Len(item) < MaxItems
  /\ Begins(q, [NoChange EXCEPT !.op = "ITEMS", !.pool = p, !.items = <<NewItem(p, n, u, g)>>])

CommitItems(q) ==
  /\ request[q].op = "ITEMS"
  /\ item' = item \o request[q].items
  /\ request' = [request EXCEPT ![q] = NoChange]
  /\ UNCHANGED <<pool, members, run, row, published, grievance, profile>>

\* Only the assignee starts and submits an item.
StartWork(q, i) ==
  /\ Calls(q, "work")
  /\ item[i].status \in {"QUEUED", "RETURNED"}
  /\ Begins(q, [NoChange EXCEPT !.op = "ITEM", !.of = i, !.status = "IN_PROGRESS"])

Submittable(i) == /\ item[i].status \in {"IN_PROGRESS", "QUEUED", "RETURNED"}
                  /\ row[item[i].run][item[i].question] = "ACCEPTED"

SubmitWork(q, i) ==
  /\ Calls(q, "work")
  /\ Submittable(i)
  /\ Begins(q, [NoChange EXCEPT !.op = "ITEM", !.of = i, !.status = "SUBMITTED"])

CommitItem(q) ==
  /\ request[q].op = "ITEM"
  /\ item' = [item EXCEPT ![request[q].of].status = request[q].status]
  /\ request' = [request EXCEPT ![q] = NoChange]
  /\ UNCHANGED <<pool, members, run, row, published, grievance, profile>>

\* assert_question_evaluation_review_allowed; get_governing_work_item returns
\* any one of the governing items.
ReviewAllowed(n, u, g) ==
  LET governing == {i \in DOMAIN item : item[i].run = n /\ item[i].question = u
                                        /\ item[i].status \in Governing} IN
  governing = {} \/ \E i \in governing : item[i].owner = g

\* Accepting or overriding a row, or escalating it (no ownership check).
Review(n, u, g) ==
  /\ "review" \in profile.calls
  /\ row[n][u] = "REVIEW_REQUIRED" /\ ReviewAllowed(n, u, g)
  /\ row' = [row EXCEPT ![n][u] = "ACCEPTED"]
  /\ UNCHANGED <<pool, members, item, run, published, grievance, request, profile>>

Escalate(n, u) ==
  /\ "escalate" \in profile.calls
  /\ row[n][u] # "ESCALATED"
  /\ row' = [row EXCEPT ![n][u] = "ESCALATED"]
  /\ UNCHANGED <<pool, members, item, run, published, grievance, request, profile>>

\* The items of run n with status in `from` get status `to`.
Moved(n, from, to) ==
  [i \in DOMAIN item |-> IF item[i].run = n /\ item[i].status \in from
                         THEN [item[i] EXCEPT !.status = to] ELSE item[i]]

\* decide_moderation: RETURN, and the approval of the last stage.
ModerationReturns(n) ==
  /\ "moderate" \in profile.calls
  /\ run[n].status = "REVIEW_REQUIRED" /\ RunFree(n)
  /\ item' = Moved(n, {"SUBMITTED", "COMPLETED"}, "RETURNED")
  /\ item' # item
  /\ UNCHANGED <<pool, members, run, row, published, grievance, request, profile>>

ModerationApproves(n) ==
  /\ "moderate" \in profile.calls
  /\ run[n].status = "REVIEW_REQUIRED" /\ RunFree(n)
  /\ \A u \in Questions : row[n][u] # "REVIEW_REQUIRED"
  /\ item' = Moved(n, {"SUBMITTED"}, "COMPLETED")
  /\ run' = [run EXCEPT ![n].status = "COMPLETED"]
  /\ UNCHANGED <<pool, members, row, published, grievance, request, profile>>

---------------------------------------------------------------------------
(* Grievances                                                              *)

\* A completed run is published: the version before it is superseded.
Publish(n) ==
  /\ "publish" \in profile.calls
  /\ run[n].status = "COMPLETED" /\ \A v \in DOMAIN published : published[v].run # n
  /\ published' = Append([v \in DOMAIN published |->
                            [published[v] EXCEPT !.status = "SUPERSEDED"]],
                         [run |-> n, status |-> "PUBLISHED"])
  /\ UNCHANGED <<pool, members, item, run, row, grievance, request, profile>>

\* Mutant: a grievance that is being re-evaluated is not active.
ActiveGrievanceOnlyNew == {"SUBMITTED"}
ActiveGrievance == {"SUBMITTED", "RE_EVALUATING", "RESOLVED"}

CreateGrievance(q, v) ==
  /\ Calls(q, "grievance")
  /\ published[v].status = "PUBLISHED"
  /\ \A k \in DOMAIN grievance : grievance[k].result = v =>
       grievance[k].status \notin ActiveGrievance
  /\ Len(grievance) < MaxGrievances
  /\ Begins(q, [NoChange EXCEPT !.op = "GRIEVANCE", !.of = v])

CommitGrievance(q) ==
  /\ request[q].op = "GRIEVANCE" /\ Len(grievance) < MaxGrievances
  /\ grievance' = Append(grievance, [result |-> request[q].of,
                                     status |-> "SUBMITTED", run |-> 0])
  /\ request' = [request EXCEPT ![q] = NoChange]
  /\ UNCHANGED <<pool, members, item, run, row, published, profile>>

AcceptRead(q, k) ==
  /\ Calls(q, "grievance")
  /\ grievance[k].status = "SUBMITTED"
  /\ Begins(q, [NoChange EXCEPT !.op = "ACCEPT", !.of = k])

\* max(run_number) and flush(): the insert of a run whose number another
\* transaction holds waits for it, and fails if it commits.
AcceptFlush(q) ==
  LET k == request[q].of IN
  /\ request[q].op = "ACCEPT" /\ Len(run) < MaxRuns
  /\ Begins(q, [NoChange EXCEPT !.op = "COPY", !.of = k, !.number = Len(run) + 1,
                            !.original = published[grievance[k].result].run])

\* The proposals are copied, the human scores are not.
CopiedRows(original) == [u \in Questions |-> "REVIEW_REQUIRED"]

AcceptedRuns(original, k) ==
  Append([run EXCEPT ![original].status = "SUPERSEDED"],
         [status |-> "REVIEW_REQUIRED", grievance |-> k])

AcceptCommit(q) ==
  LET k == request[q].of IN
  /\ request[q].op = "COPY"
  /\ request' = [request EXCEPT ![q] = NoChange]
  /\ IF request[q].number \in DOMAIN run  \* uq_evaluation_runs_tenant_submission_run
     THEN UNCHANGED <<run, row, grievance>>
     ELSE /\ run' = AcceptedRuns(request[q].original, k)
          /\ row' = Append(row, CopiedRows(request[q].original))
          /\ grievance' = [grievance EXCEPT ![k].status = "RE_EVALUATING",
                                            ![k].run = request[q].number]
  /\ UNCHANGED <<pool, members, item, published, profile>>

RejectGrievance(q, k) ==
  /\ Calls(q, "grievance")
  /\ grievance[k].status = "SUBMITTED"
  /\ Begins(q, [NoChange EXCEPT !.op = "DECIDE", !.of = k, !.status = "REJECTED"])

\* resolve_grievance takes a grievance of any status and any published result.
ResolveGrievance(q, k) ==
  /\ Calls(q, "resolve")
  /\ \E v \in DOMAIN published : published[v].status = "PUBLISHED"
  /\ grievance[k].status # "RESOLVED"
  /\ Begins(q, [NoChange EXCEPT !.op = "DECIDE", !.of = k, !.status = "RESOLVED"])

CommitDecision(q) ==
  /\ request[q].op = "DECIDE"
  /\ grievance' = [grievance EXCEPT ![request[q].of].status = request[q].status]
  /\ request' = [request EXCEPT ![q] = NoChange]
  /\ UNCHANGED <<pool, members, item, run, row, published, profile>>

---------------------------------------------------------------------------
RequestStep(q) ==
  \/ \E p \in Pools : ActivatePool(q, p) \/ ClosePool(q, p)
  \/ \E p \in Pools, n \in DOMAIN run : Allocate(q, p, n)
  \/ \E p \in Pools, n \in DOMAIN run, u \in Questions, g \in Graders :
       AssignManual(q, p, n, u, g)
  \/ \E i \in DOMAIN item : StartWork(q, i) \/ SubmitWork(q, i)
  \/ \E v \in DOMAIN published : CreateGrievance(q, v)
  \/ \E k \in DOMAIN grievance :
       AcceptRead(q, k) \/ RejectGrievance(q, k) \/ ResolveGrievance(q, k)
  \/ AcceptFlush(q) \/ CommitPool(q) \/ CommitItems(q) \/ CommitItem(q)
  \/ CommitGrievance(q) \/ AcceptCommit(q) \/ CommitDecision(q)

GradingNext ==
  \/ \E q \in Requests : RequestStep(q)
  \/ \E p \in Pools, strategy \in {"MANUAL", "ROUND_ROBIN"} : CreatePool(p, strategy)
  \/ \E p \in Pools, g \in Graders : AddMember(p, g)
  \/ \E n \in DOMAIN run, u \in Questions, g \in Graders : Review(n, u, g)
  \/ \E n \in DOMAIN run, u \in Questions : Escalate(n, u)
  \/ \E n \in DOMAIN run :
       ModerationReturns(n) \/ ModerationApproves(n) \/ Publish(n)

GradingSpec == GradingInit /\ [][GradingNext]_gradingVars

---------------------------------------------------------------------------
Serial == Cardinality(profile.clients) = 1

ActiveItems(n, u) == {i \in DOMAIN item : item[i].run = n /\ item[i].question = u
                                          /\ item[i].status \in ActiveWork}

\* Where no moderation returns work and one pool is in use, or pools only
\* allocate, a question has at most one active work item however the requests
\* interleave: the pool's row lock covers the check and the insert, and the
\* run's row lock the allocations of two pools.
OneActiveItem ==
  "moderate" \notin profile.calls
  /\ ("assign" \notin profile.calls \/ \A p, r \in profile.pools : p = r) =>
    \A n \in DOMAIN run : \A u \in Questions : Cardinality(ActiveItems(n, u)) <= 1

\* Work is only handed out by a pool that is still active when the items are
\* committed: closing waits for the lock.
NoWorkFromClosedPool ==
  [][\A i \in DOMAIN item' \ DOMAIN item : pool[item'[i].pool].status = "ACTIVE"]_gradingVars

\* An allocation deals its questions out evenly over the members of the pool:
\* their shares differ by at most one.
SharesEven ==
  [][\A q \in Requests : request'[q] # request[q] /\ request'[q].op = "ITEMS" =>
       LET share(g) == Cardinality({k \in DOMAIN request'[q].items :
                                      request'[q].items[k].owner = g}) IN
       Len(request'[q].items) > 1 =>
         \A g, h \in members[request'[q].pool] : share(g) <= share(h) + 1]_gradingVars

\* The question of a submitted or completed item has been reviewed, even when
\* the item is submitted while the row is being escalated.
SubmittedIsReviewed ==
  \A i \in DOMAIN item : item[i].status \in {"SUBMITTED", "COMPLETED"} =>
    row[item[i].run][item[i].question] # "REVIEW_REQUIRED"

\* With one reviewer at a time the submission has one run that is not
\* superseded, through any number of grievances and regrades.
OneLiveRun ==
  Serial => Cardinality({n \in DOMAIN run : run[n].status # "SUPERSEDED"}) <= 1

\* A grievance under re-evaluation names a run that was created for it, and the
\* run of the result it is about is superseded, also when two requests accept
\* grievances at the same time.
RegradeSupersedes ==
  \A k \in DOMAIN grievance : grievance[k].run # 0 =>
    /\ run[grievance[k].run].grievance = k
    /\ run[published[grievance[k].result].run].status = "SUPERSEDED"

\* Work and runs have one owner each, through allocation, moderation and regrades.
WorkIsOwned == OneActiveItem /\ SubmittedIsReviewed /\ OneLiveRun /\ RegradeSupersedes

\* Work is dealt out evenly, and only by an active pool.
DealtWhileActive == NoWorkFromClosedPool /\ SharesEven
=============================================================================
