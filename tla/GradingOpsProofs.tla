-------------------------- MODULE GradingOpsProofs --------------------------
(***************************************************************************)
(* Proofs about GradingOps, for every set of requests, graders, pools and  *)
(* questions: the tables keep their types and their references, a question *)
(* has one active item, work comes from an active pool, what is submitted  *)
(* has been reviewed, and a regrade supersedes the run it replaces.        *)
(*                                                                         *)
(* A handler commits what an earlier step read, so each invariant also     *)
(* says what the requests under way are about to write: TypeInv that the   *)
(* rows they name exist, ReviewedInv that an item they submit is reviewed, *)
(* LockInv and OneInv that the items they hand out are nobody else's, and  *)
(* SerialInv, for one client, that the grievance they deal with is open.   *)
(***************************************************************************)
EXTENDS GradingOps, FiniteSetTheorems, TLAPS

---------------------------------------------------------------------------
(* The inductive invariants                                                *)

Items == [pool : Pools, run : Nat \ {0}, question : Questions,
          owner : Graders, status : WorkStatus]
RunRows == [status : RunStatus, grievance : Nat]
Evaluations == [Questions -> {"REVIEW_REQUIRED", "ACCEPTED", "ESCALATED"}]
Results == [run : Nat \ {0}, status : {"PUBLISHED", "SUPERSEDED"}]
Cases == [result : Nat \ {0}, status : GrievanceStatus, run : Nat]
Changes ==
  [op : {"IDLE", "POOL", "ITEMS", "ITEM", "GRIEVANCE", "ACCEPT", "COPY", "DECIDE"},
   pool : Pools \cup {None}, run : Nat, target : Pools \cup {None}, of : Nat,
   status : PoolStatus \cup WorkStatus \cup GrievanceStatus,
   items : Seq(Items), number : Nat, original : Nat]

\* The tables, and the rows their columns refer to.
TablesInv ==
  /\ pool \in [Pools -> [status : PoolStatus, strategy : {"MANUAL", "ROUND_ROBIN"}]]
  /\ members \in [Pools -> SUBSET Graders]
  /\ \A p \in Pools : pool[p].status = "ACTIVE" => members[p] # {}
  /\ item \in Seq(Items) /\ \A i \in DOMAIN item : item[i].run \in DOMAIN run
  /\ run \in Seq(RunRows) /\ Len(run) \in 1 .. MaxRuns
  /\ \A n \in DOMAIN run : run[n].grievance \in 0 .. Len(grievance)
  /\ row \in Seq(Evaluations) /\ Len(row) = Len(run)
  /\ published \in Seq(Results)
  /\ \A v \in DOMAIN published : published[v].run \in DOMAIN run
  /\ grievance \in Seq(Cases) /\ Len(grievance) <= MaxGrievances
  /\ \A k \in DOMAIN grievance : /\ grievance[k].result \in DOMAIN published
                                 /\ grievance[k].run \in 0 .. Len(run)

\* What a request with change S is about to write exists.
ChangeOK(S) ==
  /\ S \in Changes
  /\ S.op = "POOL" => S.target \in Pools /\ S.status \in {"ACTIVE", "CLOSED"}
  /\ S.op = "POOL" /\ S.status = "ACTIVE" => members[S.target] # {}
  /\ S.op = "ITEMS" => \A k \in DOMAIN S.items :
       S.items[k].run \in DOMAIN run /\ S.items[k].status = "QUEUED"
  /\ S.op = "ITEM" => S.of \in DOMAIN item /\ S.status \in {"IN_PROGRESS", "SUBMITTED"}
  /\ S.op = "GRIEVANCE" => S.of \in DOMAIN published
  /\ S.op \in {"ACCEPT", "COPY", "DECIDE"} => S.of \in DOMAIN grievance
  /\ S.op = "COPY" => /\ S.number \in 1 .. Len(run) + 1 /\ S.number <= MaxRuns
                      /\ S.original = published[grievance[S.of].result].run
  /\ S.op = "DECIDE" => S.status \in {"REJECTED", "RESOLVED"}

TypeInv ==
  /\ TablesInv
  /\ request \in [Requests -> Changes]
  /\ \A q \in Requests : ChangeOK(request[q])

\* An item is submitted with its question reviewed, also the one a request
\* is about to submit.
Reviewed(i) == row[item[i].run][item[i].question] # "REVIEW_REQUIRED"
ReviewedInv ==
  /\ SubmittedIsReviewed
  /\ \A q \in Requests : request[q].op = "ITEM" /\ request[q].status = "SUBMITTED" =>
       Reviewed(request[q].of)

\* Items are handed out under the lock of their pool, which is active, and of
\* their run when the pool allocates.
InUse(p) == pool[p].status # None => p \in profile.pools
Holds(S) == /\ S.pool \in Pools /\ pool[S.pool].status = "ACTIVE"
            /\ \A k \in DOMAIN S.items :
                 /\ S.items[k].pool = S.pool
                 /\ S.items[k].run = S.run \/ "assign" \in profile.calls
Apart(S, T) == S.pool # T.pool /\ (S.run # T.run \/ "assign" \in profile.calls)
LockInv ==
  /\ \A p \in Pools : InUse(p)
  /\ \A q \in Requests : request[q].op = "POOL" => request[q].target \in profile.pools
  /\ \A q \in Requests : request[q].op = "ITEMS" => Holds(request[q])
  /\ \A q, r \in Requests : q # r /\ request[q].op = "ITEMS" /\ request[r].op = "ITEMS" =>
       Apart(request[q], request[r])

\* Where nothing is returned, no question has an active item and another that is
\* active or about to be handed out.
OnePlace == /\ "moderate" \notin profile.calls
            /\ "assign" \notin profile.calls \/ \A p, r \in profile.pools : p = r
SameWork(x, y) == x.run = y.run /\ x.question = y.question
Fresh(S) ==
  /\ \A k, l \in DOMAIN S.items : SameWork(S.items[k], S.items[l]) => k = l
  /\ \A k \in DOMAIN S.items, i \in DOMAIN item : ~SameWork(S.items[k], item[i])
OneInv == OnePlace =>
  /\ \A i \in DOMAIN item : item[i].status \in ActiveWork
  /\ \A i, j \in DOMAIN item : SameWork(item[i], item[j]) => i = j
  /\ \A q \in Requests : request[q].op = "ITEMS" => Fresh(request[q])

\* With one client, every other request is idle; a result has at most one
\* grievance that is open or was accepted, and the run of a result without an
\* accepted grievance is not superseded, so a regrade supersedes the live run.
Only(c) == profile.clients = {c}
Live(n) == run[n].status # "SUPERSEDED"
Accepted(k) == grievance[k].run # 0
Pending(k) == grievance[k].status = "SUBMITTED"
Regrades ==
  /\ \A n, m \in DOMAIN run : Live(n) /\ Live(m) => n = m
  /\ \A v, w \in DOMAIN published : published[v].run = published[w].run => v = w
  /\ \A k \in DOMAIN grievance : Accepted(k) =>
       grievance[k].status \in {"RE_EVALUATING", "RESOLVED"}
  /\ \A k, l \in DOMAIN grievance :
       /\ grievance[k].result = grievance[l].result
       /\ Accepted(k) \/ Pending(k)
       /\ Accepted(l) \/ Pending(l)
       => k = l
  /\ \A v \in DOMAIN published : Live(published[v].run) \/
       \E k \in DOMAIN grievance : grievance[k].result = v /\ Accepted(k)
Deals(S) ==
  /\ S.op \in {"ACCEPT", "COPY"} => Pending(S.of)
  /\ S.op = "DECIDE" /\ S.status = "REJECTED" => Pending(S.of)
  /\ S.op = "GRIEVANCE" => \A k \in DOMAIN grievance :
       grievance[k].result = S.of => ~Accepted(k) /\ ~Pending(k)
SerialInv == \A c \in Requests : Only(c) =>
  /\ \A q \in Requests : q # c => request[q].op = "IDLE"
  /\ Regrades
  /\ Deals(request[c])

---------------------------------------------------------------------------
(* Rows are never lost, and keep what identifies them                      *)

Kept ==
  /\ \A p \in Pools : members[p] \subseteq members'[p]
  /\ DOMAIN item \subseteq DOMAIN item'
  /\ \A i \in DOMAIN item : /\ item'[i].run = item[i].run
                            /\ item'[i].question = item[i].question
  /\ DOMAIN run \subseteq DOMAIN run'
  /\ \A n \in DOMAIN run : /\ run'[n].grievance = run[n].grievance
                           /\ ~Live(n) => ~Live(n)'
  /\ \A n \in DOMAIN run : \A u \in Questions :
       row[n][u] # "REVIEW_REQUIRED" => row'[n][u] # "REVIEW_REQUIRED"
  /\ DOMAIN published \subseteq DOMAIN published'
  /\ \A v \in DOMAIN published : published'[v].run = published[v].run
  /\ DOMAIN grievance \subseteq DOMAIN grievance'
  /\ \A k \in DOMAIN grievance : grievance'[k].result = grievance[k].result

LEMMA IdleOK == NoChange \in Changes /\ ChangeOK(NoChange) /\ NoChange.op = "IDLE"
<1>1. NoChange \in Changes
  <2>1. << >> \in Seq(Items)
    OBVIOUS
  <2> QED  BY <2>1 DEF NoChange, Changes, PoolStatus
<1>2. NoChange.op = "IDLE"
  BY DEF NoChange
<1> QED  BY <1>1, <1>2 DEF ChangeOK

LEMMA TablesSame == ASSUME UNCHANGED gradingTables PROVE Kept
BY DEF Kept, gradingTables, Live

\* A change that names existing rows still does.
LEMMA ChangeStays ==
  ASSUME TablesInv, TablesInv', Kept, NEW S, ChangeOK(S)
  PROVE  ChangeOK(S)'
<1>1. Len(run) <= Len(run')
  <2>1. Len(run) \in Nat /\ Len(run') \in Nat
    BY DEF TablesInv
  <2>2. DOMAIN run = 1 .. Len(run) /\ DOMAIN run' = 1 .. Len(run')
    BY DEF TablesInv
  <2> QED  BY <2>1, <2>2 DEF Kept
<1>2. Len(run) \in Nat /\ Len(run') \in Nat
  BY DEF TablesInv
<1>3. S.op = "COPY" => /\ S.number \in 1 .. Len(run') + 1
                       /\ S.original = published'[grievance'[S.of].result].run
  <2> SUFFICES ASSUME S.op = "COPY"
               PROVE  /\ S.number \in 1 .. Len(run') + 1
                      /\ S.original = published'[grievance'[S.of].result].run
    OBVIOUS
  <2>1. S.of \in DOMAIN grievance
    BY DEF ChangeOK
  <2>2. grievance[S.of].result \in DOMAIN published
    BY <2>1 DEF TablesInv
  <2> QED  BY <1>1, <1>2, <2>1, <2>2 DEF ChangeOK, Kept
<1> QED  BY <1>3 DEF ChangeOK, Kept

LEMMA Stepped ==
  ASSUME TypeInv, TablesInv', Kept, NEW q \in Requests,
         request' = [request EXCEPT ![q] = request'[q]], ChangeOK(request[q])'
  PROVE  TypeInv'
<1>1. \A r \in Requests : r # q => request'[r] = request[r]
  BY DEF TypeInv
<1>2. \A r \in Requests : r # q => ChangeOK(request[r])'
  BY <1>1, ChangeStays DEF TypeInv
<1>3. (request[q] \in Changes)'
  BY DEF ChangeOK
<1> QED  BY <1>2, <1>3 DEF TypeInv

LEMMA SteppedSame ==
  ASSUME TypeInv, TablesInv', Kept, request' = request
  PROVE  TypeInv'
BY ChangeStays DEF TypeInv

\* A request that reads: the tables stay, and the change names what it read.
Begun(q) == /\ TypeInv' /\ Kept
            /\ \A r \in Requests : r # q => request'[r] = request[r]
            /\ UNCHANGED <<gradingTables, profile>>

LEMMA BeginsOK ==
  ASSUME TypeInv, NEW q \in Requests, NEW S, Begins(q, S), ChangeOK(S)
  PROVE  Begun(q) /\ request'[q] = S
<1>1. /\ request' = [request EXCEPT ![q] = S] /\ UNCHANGED <<gradingTables, profile>>
      /\ request'[q] = S /\ \A r \in Requests : r # q => request'[r] = request[r]
  BY DEF Begins, TypeInv
<1>2. Kept
  BY <1>1, TablesSame
<1>3. TablesInv'
  BY <1>1 DEF TypeInv, TablesInv, gradingTables
<1>4. ChangeOK(request[q])'
  BY <1>1 DEF ChangeOK, gradingTables
<1> QED  BY <1>1, <1>2, <1>3, <1>4, Stepped DEF Begun

---------------------------------------------------------------------------
(* What an allocation deals out                                            *)

LEMMA OrderOf ==
  ASSUME NEW S, IsFiniteSet(S), NEW s \in Orders(S)
  PROVE  /\ Cardinality(S) \in Nat /\ s \in Seq(S) /\ Len(s) = Cardinality(S)
         /\ DOMAIN s = 1 .. Len(s) /\ \A k \in DOMAIN s : s[k] \in S
         /\ \A a, b \in DOMAIN s : s[a] = s[b] => a = b
<1>1. Cardinality(S) \in Nat
  BY FS_CardinalityType
<1>2. s \in [1 .. Cardinality(S) -> S] /\ \A a, b \in DOMAIN s : a # b => s[a] # s[b]
  BY DEF Orders
<1>3. s \in Seq(S) /\ Len(s) = Cardinality(S)
  BY <1>1, <1>2
<1> QED  BY <1>1, <1>2, <1>3

LEMMA DealtItems ==
  ASSUME GradingConstants, TypeInv, NEW p \in Pools, pool[p].status = "ACTIVE",
         NEW n \in DOMAIN run, NEW fresh \in SUBSET Questions,
         NEW questions \in Orders(fresh), NEW dealt \in Orders(members[p]),
         NEW items, items = Dealt(p, n, questions, dealt)
  PROVE  /\ items \in Seq(Items) /\ DOMAIN items = 1 .. Cardinality(fresh)
         /\ Len(items) = Cardinality(fresh) /\ Len(dealt) \in Nat \ {0}
         /\ \A k \in DOMAIN items :
              /\ items[k].pool = p /\ items[k].run = n /\ items[k].status = "QUEUED"
              /\ questions[k] \in fresh /\ items[k].question = questions[k]
              /\ items[k].owner = dealt[((k - 1) % Len(dealt)) + 1]
         /\ \A k, l \in DOMAIN items : items[k].question = items[l].question => k = l
<1>1. IsFiniteSet(fresh)
  BY FS_Subset DEF GradingConstants
<1>2. /\ Cardinality(fresh) \in Nat /\ DOMAIN questions = 1 .. Cardinality(fresh)
      /\ \A k \in DOMAIN questions : questions[k] \in fresh
      /\ \A k, l \in DOMAIN questions : questions[k] = questions[l] => k = l
  BY <1>1, OrderOf
<1>3. members[p] \subseteq Graders /\ members[p] # {}
  BY DEF TypeInv, TablesInv
<1>4. IsFiniteSet(members[p])
  BY <1>3, FS_Subset DEF GradingConstants
<1>5. /\ Len(dealt) = Cardinality(members[p]) /\ Len(dealt) \in Nat
      /\ DOMAIN dealt = 1 .. Len(dealt) /\ \A j \in DOMAIN dealt : dealt[j] \in members[p]
  BY <1>4, OrderOf
<1>6. Len(dealt) # 0
  BY <1>3, <1>4, <1>5, FS_EmptySet
<1>7. n \in Nat \ {0}
  BY DEF TypeInv, TablesInv
<1>8. ASSUME NEW k \in 1 .. Cardinality(fresh)
      PROVE  dealt[((k - 1) % Len(dealt)) + 1] \in Graders
  <2>1. (k - 1) % Len(dealt) \in 0 .. Len(dealt) - 1
    BY <1>2, <1>5, <1>6
  <2>2. ((k - 1) % Len(dealt)) + 1 \in DOMAIN dealt
    BY <1>5, <2>1
  <2> QED  BY <1>3, <1>5, <2>2
<1>9. /\ items = [k \in 1 .. Cardinality(fresh) |->
                   NewItem(p, n, questions[k], dealt[((k - 1) % Len(dealt)) + 1])]
  BY <1>2 DEF Dealt
<1>10. ASSUME NEW k \in 1 .. Cardinality(fresh)
       PROVE  items[k] \in Items
  <2>1. questions[k] \in Questions /\ "QUEUED" \in WorkStatus
    BY <1>2 DEF WorkStatus, Governing, ActiveWork
  <2>2. items[k] = NewItem(p, n, questions[k], dealt[((k - 1) % Len(dealt)) + 1])
    BY <1>9
  <2> QED  BY <1>7, <1>8, <2>1, <2>2 DEF NewItem, Items
<1>11. items \in [1 .. Cardinality(fresh) -> Items]
  BY <1>9, <1>10
<1>12. items \in Seq(Items) /\ Len(items) = Cardinality(fresh) /\ DOMAIN items = 1 .. Cardinality(fresh)
  BY <1>2, <1>11
<1>13. \A k \in 1 .. Cardinality(fresh) :
         /\ items[k].pool = p /\ items[k].run = n /\ items[k].status = "QUEUED"
         /\ items[k].question = questions[k]
         /\ items[k].owner = dealt[((k - 1) % Len(dealt)) + 1]
  BY <1>9 DEF NewItem
<1> QED  BY <1>2, <1>5, <1>6, <1>12, <1>13

---------------------------------------------------------------------------
(* The requests that read                                                  *)

LEMMA ActivateReads ==
  ASSUME TypeInv, NEW q \in Requests, NEW p \in Pools, ActivatePool(q, p)
  PROVE  ChangeOK([NoChange EXCEPT !.op = "POOL", !.target = p, !.status = "ACTIVE"])
BY IdleOK DEF ActivatePool, ChangeOK, Changes, PoolStatus, NoChange

LEMMA CloseReads ==
  ASSUME TypeInv, NEW q \in Requests, NEW p \in Pools, ClosePool(q, p)
  PROVE  ChangeOK([NoChange EXCEPT !.op = "POOL", !.target = p, !.status = "CLOSED"])
BY IdleOK DEF ClosePool, ChangeOK, Changes, PoolStatus, NoChange

\* The items go to the members of pool p in turn, in one of their orders.
InTurn(p, items) ==
  \E N \in Nat, dealt \in Orders(members[p]) :
    /\ Len(dealt) \in Nat \ {0} /\ DOMAIN items = 1 .. N
    /\ \A k \in DOMAIN items : items[k].owner = dealt[((k - 1) % Len(dealt)) + 1]

LEMMA AllocateReads ==
  ASSUME GradingConstants, TypeInv, NEW q \in Requests, NEW p \in Pools, NEW n \in DOMAIN run,
         Allocate(q, p, n)
  PROVE  \E S :
           /\ ChangeOK(S) /\ Begins(q, S) /\ S.op = "ITEMS" /\ S.pool = p /\ S.run = n
           /\ \A k \in DOMAIN S.items : /\ S.items[k].pool = p /\ S.items[k].run = n
                                        /\ Unassigned(n, S.items[k].question)
           /\ \A k, l \in DOMAIN S.items : S.items[k].question = S.items[l].question => k = l
           /\ InTurn(p, S.items)
<1> DEFINE fresh == {u \in Questions : Unassigned(n, u)}
<1>1. pool[p].status = "ACTIVE"
  BY DEF Allocate
<1>2. PICK questions \in Orders(fresh), dealt \in Orders(members[p]) :
        Begins(q, [NoChange EXCEPT !.op = "ITEMS", !.pool = p, !.run = n,
                               !.items = Dealt(p, n, questions, dealt)])
  BY DEF Allocate
<1> DEFINE items == Dealt(p, n, questions, dealt)
<1>3. /\ items \in Seq(Items)
      /\ \A k \in DOMAIN items :
           /\ items[k].pool = p /\ items[k].run = n /\ items[k].status = "QUEUED"
           /\ questions[k] \in fresh /\ items[k].question = questions[k]
      /\ \A k, l \in DOMAIN items : items[k].question = items[l].question => k = l
      /\ InTurn(p, items)
  <2>1. fresh \in SUBSET Questions
    OBVIOUS
  <2> HIDE DEF fresh
  <2>2. Cardinality(fresh) \in Nat
    BY <2>1, FS_Subset, FS_CardinalityType DEF GradingConstants
  <2>3. InTurn(p, items)
    <3>1. /\ Len(dealt) \in Nat \ {0} /\ DOMAIN items = 1 .. Cardinality(fresh)
          /\ \A k \in DOMAIN items : items[k].owner = dealt[((k - 1) % Len(dealt)) + 1]
      BY <1>1, <2>1, DealtItems
    <3> HIDE DEF items
    <3> QED  BY <2>2, <3>1 DEF InTurn
  <2> QED  BY <1>1, <2>1, <2>3, DealtItems
<1>4. \A k \in DOMAIN items : Unassigned(n, items[k].question)
  BY <1>3
<1>5. PICK S : S = [NoChange EXCEPT !.op = "ITEMS", !.pool = p, !.run = n, !.items = items]
  OBVIOUS
<1>6. Begins(q, S)
  BY <1>2, <1>5
<1> HIDE DEF items, fresh
<1>7. n \in Nat
  BY DEF TypeInv, TablesInv
<1>8. S \in Changes /\ S.op = "ITEMS" /\ S.pool = p /\ S.run = n /\ S.items = items
  BY <1>3, <1>5, <1>7, IdleOK DEF Changes, NoChange
<1>9. ChangeOK(S)
  BY <1>3, <1>8 DEF ChangeOK
<1> QED  BY <1>3, <1>4, <1>6, <1>8, <1>9

LEMMA PoolBegun ==
  ASSUME TypeInv, NEW q \in Requests, NEW p \in Pools, ActivatePool(q, p) \/ ClosePool(q, p)
  PROVE  Begun(q) /\ request'[q].op = "POOL" /\ request'[q].target = p
<1>1. CASE ActivatePool(q, p)
  <2> DEFINE S == [NoChange EXCEPT !.op = "POOL", !.target = p, !.status = "ACTIVE"]
  <2>1. ChangeOK(S) /\ Begins(q, S) /\ S.op = "POOL" /\ S.target = p
    BY <1>1, ActivateReads DEF ActivatePool, NoChange
  <2> HIDE DEF S
  <2> QED  BY <2>1, BeginsOK
<1>2. CASE ClosePool(q, p)
  <2> DEFINE S == [NoChange EXCEPT !.op = "POOL", !.target = p, !.status = "CLOSED"]
  <2>1. ChangeOK(S) /\ Begins(q, S) /\ S.op = "POOL" /\ S.target = p
    BY <1>2, CloseReads DEF ClosePool, NoChange
  <2> HIDE DEF S
  <2> QED  BY <2>1, BeginsOK
<1> QED  BY <1>1, <1>2

LEMMA AllocateBegun ==
  ASSUME GradingConstants, TypeInv, NEW q \in Requests, NEW p \in Pools, NEW n \in DOMAIN run,
         Allocate(q, p, n)
  PROVE  /\ Begun(q) /\ request'[q].op = "ITEMS" /\ request'[q].pool = p
         /\ request'[q].run = n
         /\ \A k \in DOMAIN request'[q].items :
              /\ request'[q].items[k].pool = p /\ request'[q].items[k].run = n
              /\ Unassigned(n, request'[q].items[k].question)
         /\ \A k, l \in DOMAIN request'[q].items :
              request'[q].items[k].question = request'[q].items[l].question => k = l
         /\ InTurn(p, request'[q].items)
<1>1. PICK S :
        /\ ChangeOK(S) /\ Begins(q, S) /\ S.op = "ITEMS" /\ S.pool = p /\ S.run = n
        /\ \A k \in DOMAIN S.items : /\ S.items[k].pool = p /\ S.items[k].run = n
                                     /\ Unassigned(n, S.items[k].question)
        /\ \A k, l \in DOMAIN S.items : S.items[k].question = S.items[l].question => k = l
        /\ InTurn(p, S.items)
  BY AllocateReads
<1>2. Begun(q) /\ request'[q] = S
  BY <1>1, BeginsOK
<1> QED  BY <1>1, <1>2

LEMMA AssignBegun ==
  ASSUME TypeInv, NEW q \in Requests, NEW p \in Pools, NEW n \in DOMAIN run,
         NEW u \in Questions, NEW g \in Graders, AssignManual(q, p, n, u, g)
  PROVE  /\ Begun(q) /\ request'[q].op = "ITEMS" /\ request'[q].pool = p
         /\ DOMAIN request'[q].items = {1} /\ request'[q].items[1] = NewItem(p, n, u, g)
<1>1. /\ NewItem(p, n, u, g) \in Items /\ NewItem(p, n, u, g).run = n
      /\ NewItem(p, n, u, g).status = "QUEUED"
  BY DEF NewItem, Items, WorkStatus, Governing, ActiveWork, TypeInv, TablesInv
<1>2. PICK items : items = <<NewItem(p, n, u, g)>>
  OBVIOUS
<1>3. items \in Seq(Items)
      /\ \A k \in DOMAIN items : items[k].run = n /\ items[k].status = "QUEUED"
  BY <1>1, <1>2
<1>4. PICK S : S = [NoChange EXCEPT !.op = "ITEMS", !.pool = p, !.items = items]
  OBVIOUS
<1>5. S \in Changes /\ S.op = "ITEMS" /\ S.items = items /\ S.pool = p
  BY <1>3, <1>4, IdleOK DEF Changes, NoChange
<1>6. Begins(q, S)
  BY <1>2, <1>4 DEF AssignManual
<1>7. ChangeOK(S)
  BY <1>3, <1>5 DEF ChangeOK
<1>8. Begun(q) /\ request'[q] = S
  BY <1>6, <1>7, BeginsOK
<1> QED  BY <1>2, <1>5, <1>8

LEMMA ItemBegun ==
  ASSUME TypeInv, NEW q \in Requests, NEW i \in DOMAIN item,
         NEW status \in {"IN_PROGRESS", "SUBMITTED"},
         Begins(q, [NoChange EXCEPT !.op = "ITEM", !.of = i, !.status = status])
  PROVE  /\ Begun(q) /\ request'[q].op = "ITEM" /\ request'[q].of = i
         /\ request'[q].status = status
<1>1. PICK S : S = [NoChange EXCEPT !.op = "ITEM", !.of = i, !.status = status]
  OBVIOUS
<1>2. i \in Nat
  BY DEF TypeInv, TablesInv
<1>3. S \in Changes /\ S.op = "ITEM" /\ S.of = i /\ S.status = status
  BY <1>1, <1>2, IdleOK DEF Changes, NoChange, WorkStatus, Governing, ActiveWork
<1>4. ChangeOK(S)
  BY <1>3 DEF ChangeOK
<1>5. Begins(q, S)
  BY <1>1
<1> QED  BY <1>3, <1>4, <1>5, BeginsOK

LEMMA CreateBegun ==
  ASSUME TypeInv, NEW q \in Requests, NEW v \in DOMAIN published, CreateGrievance(q, v)
  PROVE  Begun(q) /\ request'[q].op = "GRIEVANCE" /\ request'[q].of = v
<1>1. PICK S : S = [NoChange EXCEPT !.op = "GRIEVANCE", !.of = v]
  OBVIOUS
<1>2. v \in Nat
  BY DEF TypeInv, TablesInv
<1>3. S \in Changes /\ S.op = "GRIEVANCE" /\ S.of = v
  BY <1>1, <1>2, IdleOK DEF Changes, NoChange
<1>4. ChangeOK(S)
  BY <1>3 DEF ChangeOK
<1>5. Begins(q, S)
  BY <1>1 DEF CreateGrievance
<1> QED  BY <1>3, <1>4, <1>5, BeginsOK

LEMMA AcceptBegun ==
  ASSUME TypeInv, NEW q \in Requests, NEW k \in DOMAIN grievance, AcceptRead(q, k)
  PROVE  Begun(q) /\ request'[q].op = "ACCEPT" /\ request'[q].of = k
<1>1. PICK S : S = [NoChange EXCEPT !.op = "ACCEPT", !.of = k]
  OBVIOUS
<1>2. k \in Nat
  BY DEF TypeInv, TablesInv
<1>3. S \in Changes /\ S.op = "ACCEPT" /\ S.of = k
  BY <1>1, <1>2, IdleOK DEF Changes, NoChange
<1>4. ChangeOK(S)
  BY <1>3 DEF ChangeOK
<1>5. Begins(q, S)
  BY <1>1 DEF AcceptRead
<1> QED  BY <1>3, <1>4, <1>5, BeginsOK

LEMMA DecideBegun ==
  ASSUME TypeInv, NEW q \in Requests, NEW k \in DOMAIN grievance,
         NEW status \in {"REJECTED", "RESOLVED"},
         Begins(q, [NoChange EXCEPT !.op = "DECIDE", !.of = k, !.status = status])
  PROVE  /\ Begun(q) /\ request'[q].op = "DECIDE" /\ request'[q].of = k
         /\ request'[q].status = status
<1>1. PICK S : S = [NoChange EXCEPT !.op = "DECIDE", !.of = k, !.status = status]
  OBVIOUS
<1>2. k \in Nat
  BY DEF TypeInv, TablesInv
<1>3. S \in Changes /\ S.op = "DECIDE" /\ S.of = k /\ S.status = status
  BY <1>1, <1>2, IdleOK DEF Changes, NoChange, GrievanceStatus
<1>4. ChangeOK(S)
  BY <1>3 DEF ChangeOK
<1>5. Begins(q, S)
  BY <1>1
<1> QED  BY <1>3, <1>4, <1>5, BeginsOK

LEMMA FlushBegun ==
  ASSUME GradingConstants, TypeInv, NEW q \in Requests, AcceptFlush(q)
  PROVE  /\ Begun(q) /\ request'[q].op = "COPY" /\ request'[q].of = request[q].of
         /\ request[q].op = "ACCEPT"
<1>1. PICK k : k = request[q].of
  OBVIOUS
<1>2. PICK S : S = [NoChange EXCEPT !.op = "COPY", !.of = k, !.number = Len(run) + 1,
                                !.original = published[grievance[k].result].run]
  OBVIOUS
<1>3. k \in DOMAIN grievance /\ Len(run) < MaxRuns /\ request[q].op = "ACCEPT" /\ Begins(q, S)
  BY <1>1, <1>2 DEF TypeInv, ChangeOK, AcceptFlush
<1>4. /\ k \in Nat /\ Len(run) \in Nat /\ Len(run) + 1 \in Nat
      /\ grievance[k].result \in DOMAIN published
  BY <1>3 DEF TypeInv, TablesInv
<1>5. published[grievance[k].result].run \in Nat
  <2>1. published[grievance[k].result] \in Results
    BY <1>4 DEF TypeInv, TablesInv
  <2> QED  BY <2>1 DEF Results
<1>6. /\ S \in Changes /\ S.op = "COPY" /\ S.of = k /\ S.number = Len(run) + 1
      /\ S.original = published[grievance[k].result].run
  BY <1>2, <1>4, <1>5, IdleOK DEF Changes, NoChange
<1>7. Len(run) + 1 <= MaxRuns
  BY <1>3, <1>4 DEF GradingConstants
<1>8. ChangeOK(S)
  BY <1>3, <1>4, <1>6, <1>7 DEF ChangeOK
<1> QED  BY <1>1, <1>3, <1>6, <1>8, BeginsOK

---------------------------------------------------------------------------
(* The requests that commit                                                *)

\* The session of a request that commits is idle again.
LEMMA Ended ==
  ASSUME TypeInv, TablesInv', Kept, NEW q \in Requests, request' = [request EXCEPT ![q] = NoChange]
  PROVE  /\ TypeInv' /\ request'[q] = NoChange
         /\ \A r \in Requests : r # q => request'[r] = request[r]
<1>1. request'[q] = NoChange /\ \A r \in Requests : r # q => request'[r] = request[r]
  BY DEF TypeInv
<1>2. ChangeOK(request[q])'
  BY <1>1, IdleOK DEF ChangeOK
<1> QED  BY <1>1, <1>2, Stepped

LEMMA CreatePoolTables ==
  ASSUME TypeInv, NEW p \in Pools, NEW strategy \in {"MANUAL", "ROUND_ROBIN"},
         CreatePool(p, strategy)
  PROVE  TablesInv' /\ Kept
<1>1. /\ pool' \in [Pools -> [status : PoolStatus, strategy : {"MANUAL", "ROUND_ROBIN"}]]
      /\ \A x \in Pools : pool'[x].status = "ACTIVE" => pool[x].status = "ACTIVE"
  BY DEF CreatePool, TypeInv, TablesInv, PoolStatus
<1> QED  BY <1>1 DEF CreatePool, TypeInv, TablesInv, Kept, Live

LEMMA AddMemberTables ==
  ASSUME TypeInv, NEW p \in Pools, NEW g \in Graders, AddMember(p, g)
  PROVE  TablesInv' /\ Kept
<1>1. /\ members' \in [Pools -> SUBSET Graders]
      /\ \A x \in Pools : members[x] \subseteq members'[x]
  BY DEF AddMember, TypeInv, TablesInv
<1> QED  BY <1>1 DEF AddMember, TypeInv, TablesInv, Kept, Live

LEMMA CommitPoolTables ==
  ASSUME TypeInv, NEW q \in Requests, CommitPool(q)
  PROVE  TablesInv' /\ Kept
<1> DEFINE p == request[q].target
<1>1. /\ p \in Pools /\ request[q].status \in {"ACTIVE", "CLOSED"}
      /\ request[q].status = "ACTIVE" => members[p] # {}
  BY DEF CommitPool, TypeInv, ChangeOK
<1>2. pool' = [pool EXCEPT ![p].status = request[q].status]
  BY DEF CommitPool
<1> HIDE DEF p
<1>3. /\ pool' \in [Pools -> [status : PoolStatus, strategy : {"MANUAL", "ROUND_ROBIN"}]]
      /\ \A x \in Pools : pool'[x].status = "ACTIVE" => members[x] # {}
  BY <1>1, <1>2 DEF TypeInv, TablesInv, PoolStatus
<1> QED  BY <1>3 DEF CommitPool, TypeInv, TablesInv, Kept, Live

\* A step that changes no table but the items.
LEMMA ItemTables ==
  ASSUME TypeInv, item' \in Seq(Items), \A i \in DOMAIN item' : item'[i].run \in DOMAIN run,
         DOMAIN item \subseteq DOMAIN item',
         \A i \in DOMAIN item : /\ item'[i].run = item[i].run
                                /\ item'[i].question = item[i].question,
         UNCHANGED <<pool, members, run, row, published, grievance>>
  PROVE  TablesInv' /\ Kept
BY DEF TypeInv, TablesInv, Kept, Live

LEMMA Appended ==
  ASSUME NEW T, NEW a \in Seq(T), NEW b \in Seq(T), NEW s, s = a \o b
  PROVE  /\ s \in Seq(T) /\ DOMAIN a \subseteq DOMAIN s
         /\ \A i \in DOMAIN a : s[i] = a[i]
         /\ \A i \in DOMAIN s \ DOMAIN a :
              i - Len(a) \in DOMAIN b /\ s[i] = b[i - Len(a)]
<1>1. s \in Seq(T) /\ Len(s) = Len(a) + Len(b)
  OBVIOUS
<1>2. \A i \in 1 .. Len(s) : s[i] = IF i <= Len(a) THEN a[i] ELSE b[i - Len(a)]
  OBVIOUS
<1>3. DOMAIN a = 1 .. Len(a) /\ DOMAIN b = 1 .. Len(b) /\ DOMAIN s = 1 .. Len(s)
  BY <1>1
<1> QED  BY <1>1, <1>2, <1>3

LEMMA CommitItemsTables ==
  ASSUME TypeInv, NEW q \in Requests, CommitItems(q)
  PROVE  TablesInv' /\ Kept
<1> DEFINE new == request[q].items
<1>1. /\ new \in Seq(Items) /\ \A k \in DOMAIN new : new[k].run \in DOMAIN run
      /\ item \in Seq(Items) /\ \A i \in DOMAIN item : item[i].run \in DOMAIN run
  BY DEF CommitItems, TypeInv, TablesInv, ChangeOK, Changes
<1>2. item' = item \o new
  BY DEF CommitItems
<1> HIDE DEF new
<1>3. /\ item' \in Seq(Items) /\ DOMAIN item \subseteq DOMAIN item'
      /\ \A i \in DOMAIN item : item'[i] = item[i]
      /\ \A i \in DOMAIN item' \ DOMAIN item :
           i - Len(item) \in DOMAIN new /\ item'[i] = new[i - Len(item)]
  BY <1>1, <1>2, Appended
<1>4. \A i \in DOMAIN item' : item'[i].run \in DOMAIN run
  BY <1>1, <1>3
<1> QED  BY <1>3, <1>4, ItemTables DEF CommitItems

\* Item i with another status.
LEMMA Restated ==
  ASSUME TypeInv, NEW changed \in SUBSET (DOMAIN item), NEW new \in [DOMAIN item -> WorkStatus],
         item' = [i \in DOMAIN item |-> item'[i]],
         \A i \in DOMAIN item : item'[i] = IF i \in changed
           THEN [item[i] EXCEPT !.status = new[i]] ELSE item[i]
  PROVE  /\ item' \in Seq(Items) /\ DOMAIN item' = DOMAIN item
         /\ \A i \in DOMAIN item :
              /\ item'[i].run = item[i].run /\ item'[i].question = item[i].question
              /\ item'[i].pool = item[i].pool /\ item'[i].owner = item[i].owner
              /\ item'[i].status = IF i \in changed THEN new[i] ELSE item[i].status
<1>1. item \in Seq(Items) /\ DOMAIN item = 1 .. Len(item) /\ Len(item) \in Nat
  BY DEF TypeInv, TablesInv
<1>2. ASSUME NEW i \in DOMAIN item
      PROVE  /\ item'[i] \in Items
             /\ item'[i].run = item[i].run /\ item'[i].question = item[i].question
             /\ item'[i].pool = item[i].pool /\ item'[i].owner = item[i].owner
             /\ item'[i].status = IF i \in changed THEN new[i] ELSE item[i].status
  <2>1. item[i] \in Items /\ new[i] \in WorkStatus
    BY <1>1
  <2>2. item'[i] = IF i \in changed THEN [item[i] EXCEPT !.status = new[i]] ELSE item[i]
    OBVIOUS
  <2> QED  BY <2>1, <2>2 DEF Items
<1>3. item' \in [1 .. Len(item) -> Items]
  BY <1>1, <1>2
<1>4. item' \in Seq(Items)
  BY <1>1, <1>3
<1> QED  BY <1>2, <1>4

LEMMA CommitItemEffect ==
  ASSUME TypeInv, NEW q \in Requests, CommitItem(q)
  PROVE  /\ TablesInv' /\ Kept /\ DOMAIN item' = DOMAIN item /\ request[q].of \in DOMAIN item
         /\ request[q].status \in {"IN_PROGRESS", "SUBMITTED"}
         /\ \A i \in DOMAIN item :
              /\ item'[i].run = item[i].run /\ item'[i].question = item[i].question
              /\ item'[i].status = IF i = request[q].of THEN request[q].status
                                   ELSE item[i].status
<1> DEFINE k == request[q].of
           new == [i \in DOMAIN item |-> request[q].status]
<1>1. k \in DOMAIN item /\ request[q].status \in {"IN_PROGRESS", "SUBMITTED"}
  BY DEF CommitItem, TypeInv, ChangeOK
<1>2. /\ item' = [i \in DOMAIN item |-> item'[i]]
      /\ \A i \in DOMAIN item : item'[i] = IF i \in {k}
           THEN [item[i] EXCEPT !.status = new[i]] ELSE item[i]
  <2>1. item' = [item EXCEPT ![k].status = request[q].status]
    BY DEF CommitItem
  <2>2. item \in [DOMAIN item -> Items]
    BY DEF TypeInv, TablesInv
  <2> QED  BY <1>1, <2>1, <2>2
<1>3. new \in [DOMAIN item -> WorkStatus]
  BY <1>1 DEF WorkStatus, Governing, ActiveWork
<1>4. \A i \in DOMAIN item : new[i] = request[q].status
  OBVIOUS
<1>5. {k} \in SUBSET (DOMAIN item)
  BY <1>1
<1> HIDE DEF k, new
<1>6. /\ item' \in Seq(Items) /\ DOMAIN item' = DOMAIN item
      /\ \A i \in DOMAIN item :
           /\ item'[i].run = item[i].run /\ item'[i].question = item[i].question
           /\ item'[i].status = IF i \in {k} THEN new[i] ELSE item[i].status
  BY <1>2, <1>3, <1>5, Restated
<1>7. TablesInv' /\ Kept
  <2>1. \A i \in DOMAIN item' : item'[i].run \in DOMAIN run
    BY <1>6 DEF TypeInv, TablesInv
  <2> QED  BY <1>6, <2>1, ItemTables DEF CommitItem
<1> QED  BY <1>1, <1>4, <1>6, <1>7 DEF k

LEMMA MovedEffect ==
  ASSUME TypeInv, NEW n, NEW from, NEW to \in WorkStatus, item' = Moved(n, from, to)
  PROVE  /\ item' \in Seq(Items) /\ DOMAIN item' = DOMAIN item
         /\ \A i \in DOMAIN item :
              /\ item'[i].run = item[i].run /\ item'[i].question = item[i].question
              /\ item'[i].status = IF item[i].run = n /\ item[i].status \in from
                                   THEN to ELSE item[i].status
<1> DEFINE changed == {i \in DOMAIN item : item[i].run = n /\ item[i].status \in from}
           new == [i \in DOMAIN item |-> to]
<1>1. /\ item' = [i \in DOMAIN item |-> item'[i]]
      /\ \A i \in DOMAIN item : item'[i] = IF i \in changed
           THEN [item[i] EXCEPT !.status = new[i]] ELSE item[i]
  BY DEF Moved
<1>2. changed \in SUBSET (DOMAIN item) /\ new \in [DOMAIN item -> WorkStatus]
  OBVIOUS
<1>3. \A i \in DOMAIN item :
        new[i] = to /\ (i \in changed <=> item[i].run = n /\ item[i].status \in from)
  OBVIOUS
<1> HIDE DEF changed, new
<1>4. /\ item' \in Seq(Items) /\ DOMAIN item' = DOMAIN item
      /\ \A i \in DOMAIN item :
           /\ item'[i].run = item[i].run /\ item'[i].question = item[i].question
           /\ item'[i].status = IF i \in changed THEN new[i] ELSE item[i].status
  BY <1>1, <1>2, Restated
<1> QED  BY <1>3, <1>4

LEMMA ReturnsEffect ==
  ASSUME TypeInv, NEW n \in DOMAIN run, ModerationReturns(n)
  PROVE  /\ TablesInv' /\ Kept /\ request' = request /\ DOMAIN item' = DOMAIN item
         /\ \A i \in DOMAIN item :
              /\ item'[i].run = item[i].run /\ item'[i].question = item[i].question
              /\ item'[i].status \in {item[i].status, "RETURNED"}
<1>1. "RETURNED" \in WorkStatus
  BY DEF WorkStatus, Governing
<1>2. /\ item' \in Seq(Items) /\ DOMAIN item' = DOMAIN item
      /\ \A i \in DOMAIN item :
           /\ item'[i].run = item[i].run /\ item'[i].question = item[i].question
           /\ item'[i].status = IF item[i].run = n /\ item[i].status \in {"SUBMITTED", "COMPLETED"}
                                THEN "RETURNED" ELSE item[i].status
  <2>1. item' = Moved(n, {"SUBMITTED", "COMPLETED"}, "RETURNED")
    BY DEF ModerationReturns
  <2> QED  BY <1>1, <2>1, MovedEffect
<1>3. \A i \in DOMAIN item' : item'[i].run \in DOMAIN run
  BY <1>2 DEF TypeInv, TablesInv
<1>4. TablesInv' /\ Kept
  BY <1>2, <1>3, ItemTables DEF ModerationReturns
<1> QED  BY <1>2, <1>4 DEF ModerationReturns

\* The run of n with another status.
LEMMA RunRestated ==
  ASSUME TypeInv, NEW n \in DOMAIN run, NEW status \in RunStatus,
         run' = [run EXCEPT ![n].status = status]
  PROVE  /\ run' \in Seq(RunRows) /\ DOMAIN run' = DOMAIN run /\ Len(run') = Len(run)
         /\ \A m \in DOMAIN run :
              /\ run'[m].grievance = run[m].grievance
              /\ run'[m].status = IF m = n THEN status ELSE run[m].status
<1>1. run \in Seq(RunRows) /\ DOMAIN run = 1 .. Len(run) /\ Len(run) \in Nat
  BY DEF TypeInv, TablesInv
<1>2. run' \in [1 .. Len(run) -> RunRows]
  <2>1. run[n] \in RunRows
    BY <1>1
  <2>2. [run[n] EXCEPT !.status = status] \in RunRows
    BY <2>1 DEF RunRows
  <2> QED  BY <1>1, <2>2
<1>3. run' \in Seq(RunRows) /\ Len(run') = Len(run) /\ DOMAIN run' = DOMAIN run
  BY <1>1, <1>2
<1>4. ASSUME NEW m \in DOMAIN run
      PROVE  /\ run'[m].grievance = run[m].grievance
             /\ run'[m].status = IF m = n THEN status ELSE run[m].status
  <2>1. run[m] \in RunRows
    BY <1>1
  <2> QED  BY <1>1, <2>1 DEF RunRows
<1> QED  BY <1>3, <1>4

LEMMA ApprovesEffect ==
  ASSUME TypeInv, NEW n \in DOMAIN run, ModerationApproves(n)
  PROVE  /\ TablesInv' /\ Kept /\ request' = request /\ DOMAIN item' = DOMAIN item
         /\ \A i \in DOMAIN item :
              /\ item'[i].run = item[i].run /\ item'[i].question = item[i].question
              /\ item'[i].status = IF item[i].run = n /\ item[i].status = "SUBMITTED"
                                   THEN "COMPLETED" ELSE item[i].status
         /\ DOMAIN run' = DOMAIN run /\ \A m \in DOMAIN run : Live(m)' <=> Live(m)
<1>1. "COMPLETED" \in WorkStatus /\ "COMPLETED" \in RunStatus
  BY DEF WorkStatus, RunStatus
<1>2. /\ item' \in Seq(Items) /\ DOMAIN item' = DOMAIN item
      /\ \A i \in DOMAIN item :
           /\ item'[i].run = item[i].run /\ item'[i].question = item[i].question
           /\ item'[i].status = IF item[i].run = n /\ item[i].status \in {"SUBMITTED"}
                                THEN "COMPLETED" ELSE item[i].status
  <2>1. item' = Moved(n, {"SUBMITTED"}, "COMPLETED")
    BY DEF ModerationApproves
  <2> QED  BY <1>1, <2>1, MovedEffect
<1>3. /\ run' \in Seq(RunRows) /\ DOMAIN run' = DOMAIN run /\ Len(run') = Len(run)
      /\ \A m \in DOMAIN run :
           /\ run'[m].grievance = run[m].grievance
           /\ run'[m].status = IF m = n THEN "COMPLETED" ELSE run[m].status
  <2>1. run' = [run EXCEPT ![n].status = "COMPLETED"]
    BY DEF ModerationApproves
  <2> QED  BY <1>1, <2>1, RunRestated
<1>4. /\ run[n].status = "REVIEW_REQUIRED"
      /\ UNCHANGED <<pool, members, row, published, grievance, request, profile>>
  BY DEF ModerationApproves
<1>5. \A m \in DOMAIN run : Live(m)' <=> Live(m)
  BY <1>3, <1>4 DEF Live
<1>6. \A i \in DOMAIN item' : item'[i].run \in DOMAIN run'
  BY <1>2, <1>3 DEF TypeInv, TablesInv
<1>7. TablesInv'
  BY <1>2, <1>3, <1>4, <1>6 DEF TypeInv, TablesInv
<1>8. Kept
  BY <1>2, <1>3, <1>4, <1>5 DEF Kept
<1> QED  BY <1>2, <1>3, <1>4, <1>5, <1>7, <1>8

\* A row of run n with another state.
LEMMA RowEffect ==
  ASSUME TypeInv, NEW n \in DOMAIN run, NEW u \in Questions, NEW state \in {"ACCEPTED", "ESCALATED"},
         row' = [row EXCEPT ![n][u] = state],
         UNCHANGED <<pool, members, item, run, published, grievance>>
  PROVE  TablesInv' /\ Kept
<1>1. /\ row \in Seq(Evaluations) /\ DOMAIN row = 1 .. Len(row) /\ Len(row) = Len(run)
      /\ DOMAIN run = DOMAIN row /\ Len(row) \in Nat
  BY DEF TypeInv, TablesInv
<1>2. row' = [row EXCEPT ![n] = [row[n] EXCEPT ![u] = state]]
  OBVIOUS
<1>3. row[n] \in Evaluations
  BY <1>1
<1>4. [row[n] EXCEPT ![u] = state] \in Evaluations
  BY <1>3 DEF Evaluations
<1>5. row' \in [1 .. Len(row) -> Evaluations]
  BY <1>1, <1>2, <1>4
<1>6. row' \in Seq(Evaluations) /\ Len(row') = Len(run')
  BY <1>1, <1>5
<1>7. ASSUME NEW m \in DOMAIN run, NEW x \in Questions, row[m][x] # "REVIEW_REQUIRED"
      PROVE  row'[m][x] # "REVIEW_REQUIRED"
  <2>1. row[m] \in Evaluations
    BY <1>1
  <2>2. CASE m = n
    BY <1>1, <1>2, <1>3, <1>7, <2>2 DEF Evaluations
  <2>3. CASE m # n
    BY <1>1, <1>2, <1>7, <2>3
  <2> QED  BY <2>2, <2>3
<1> QED  BY <1>6, <1>7 DEF TypeInv, TablesInv, Kept, Live

LEMMA PublishEffect ==
  ASSUME TypeInv, NEW n \in DOMAIN run, Publish(n)
  PROVE  /\ TablesInv' /\ Kept /\ request' = request /\ run[n].status = "COMPLETED"
         /\ \A v \in DOMAIN published : published[v].run # n
         /\ DOMAIN published' = DOMAIN published \cup {Len(published) + 1}
         /\ published'[Len(published) + 1].run = n
<1> DEFINE old == [v \in DOMAIN published |-> [published[v] EXCEPT !.status = "SUPERSEDED"]]
           new == [run |-> n, status |-> "PUBLISHED"]
<1>1. /\ published \in Seq(Results) /\ Len(published) \in Nat
      /\ DOMAIN published = 1 .. Len(published)
  BY DEF TypeInv, TablesInv
<1>2. ASSUME NEW v \in DOMAIN published
      PROVE  old[v] \in Results /\ old[v].run = published[v].run
  <2>1. published[v] \in Results
    BY <1>1
  <2> QED  BY <2>1 DEF Results
<1>3. new \in Results /\ new.run = n
  <2>1. n \in Nat \ {0}
    BY DEF TypeInv, TablesInv
  <2> QED  BY <2>1 DEF Results
<1>4. old \in [1 .. Len(published) -> Results]
  BY <1>1, <1>2
<1>5. old \in Seq(Results) /\ Len(old) = Len(published)
  BY <1>1, <1>4
<1>6. published' = Append(old, new)
  BY DEF Publish
<1> HIDE DEF old, new
<1>7. /\ published' \in Seq(Results) /\ DOMAIN published' = 1 .. Len(published) + 1
      /\ \A v \in DOMAIN published : published'[v] = old[v]
      /\ published'[Len(published) + 1] = new
  BY <1>1, <1>3, <1>5, <1>6
<1>8. /\ DOMAIN published' = DOMAIN published \cup {Len(published) + 1}
      /\ \A v \in DOMAIN published : published'[v].run = published[v].run
      /\ published'[Len(published) + 1].run = n
  BY <1>1, <1>2, <1>3, <1>7
<1>9. \A v \in DOMAIN published' : published'[v].run \in DOMAIN run
  BY <1>8 DEF TypeInv, TablesInv
<1> QED  BY <1>7, <1>8, <1>9 DEF Publish, TypeInv, TablesInv, Kept, Live

LEMMA CommitGrievanceEffect ==
  ASSUME GradingConstants, TypeInv, NEW q \in Requests, CommitGrievance(q)
  PROVE  /\ TablesInv' /\ Kept
         /\ DOMAIN grievance' = DOMAIN grievance \cup {Len(grievance) + 1}
         /\ \A k \in DOMAIN grievance : grievance'[k] = grievance[k]
         /\ grievance'[Len(grievance) + 1] =
              [result |-> request[q].of, status |-> "SUBMITTED", run |-> 0]
<1> DEFINE new == [result |-> request[q].of, status |-> "SUBMITTED", run |-> 0]
<1>1. /\ grievance \in Seq(Cases) /\ Len(grievance) \in Nat
      /\ DOMAIN grievance = 1 .. Len(grievance)
  BY DEF TypeInv, TablesInv
<1>2. request[q].of \in DOMAIN published
  BY DEF CommitGrievance, TypeInv, ChangeOK
<1>3. new \in Cases /\ new.result \in DOMAIN published /\ new.run = 0
  <2>1. request[q].of \in Nat \ {0}
    BY <1>2 DEF TypeInv, TablesInv
  <2> QED  BY <1>2, <2>1 DEF Cases, GrievanceStatus
<1>4. grievance' = Append(grievance, new)
  BY DEF CommitGrievance
<1>5. Len(grievance) < MaxGrievances
  BY DEF CommitGrievance
<1> HIDE DEF new
<1>6. /\ grievance' \in Seq(Cases) /\ DOMAIN grievance' = 1 .. Len(grievance) + 1
      /\ Len(grievance') = Len(grievance) + 1
      /\ \A k \in DOMAIN grievance : grievance'[k] = grievance[k]
      /\ grievance'[Len(grievance) + 1] = new
  BY <1>1, <1>3, <1>4
<1>7. DOMAIN grievance' = DOMAIN grievance \cup {Len(grievance) + 1}
  BY <1>1, <1>6
<1>8. /\ UNCHANGED <<pool, members, item, run, row, published>>
      /\ Len(run) \in Nat
  BY DEF CommitGrievance, TypeInv, TablesInv
<1>9. \A n \in DOMAIN run' : run'[n].grievance \in 0 .. Len(grievance')
  BY <1>1, <1>6, <1>8 DEF TypeInv, TablesInv
<1>10. \A k \in DOMAIN grievance' : /\ grievance'[k].result \in DOMAIN published'
                                    /\ grievance'[k].run \in 0 .. Len(run')
  BY <1>3, <1>6, <1>7, <1>8 DEF TypeInv, TablesInv
<1>11. TablesInv'
  <2>1. Len(grievance') <= MaxGrievances
    BY <1>1, <1>5, <1>6 DEF GradingConstants
  <2> QED  BY <1>6, <1>8, <1>9, <1>10, <2>1 DEF TypeInv, TablesInv
<1>12. Kept
  BY <1>6, <1>7, <1>8 DEF Kept, Live
<1> QED  BY <1>6, <1>7, <1>11, <1>12 DEF new

LEMMA DecisionEffect ==
  ASSUME TypeInv, NEW q \in Requests, CommitDecision(q)
  PROVE  /\ TablesInv' /\ Kept /\ DOMAIN grievance' = DOMAIN grievance
         /\ request[q].of \in DOMAIN grievance /\ request[q].status \in {"REJECTED", "RESOLVED"}
         /\ \A k \in DOMAIN grievance :
              /\ grievance'[k].result = grievance[k].result
              /\ grievance'[k].run = grievance[k].run
              /\ grievance'[k].status = IF k = request[q].of THEN request[q].status
                                        ELSE grievance[k].status
<1> DEFINE c == request[q].of
           status == request[q].status
<1>1. c \in DOMAIN grievance /\ status \in {"REJECTED", "RESOLVED"}
  BY DEF CommitDecision, TypeInv, ChangeOK
<1>2. /\ grievance \in Seq(Cases) /\ Len(grievance) \in Nat
      /\ DOMAIN grievance = 1 .. Len(grievance)
  BY DEF TypeInv, TablesInv
<1>3. grievance' = [grievance EXCEPT ![c].status = status]
  BY DEF CommitDecision
<1> HIDE DEF c, status
<1>4. grievance' \in [1 .. Len(grievance) -> Cases]
  <2>1. grievance[c] \in Cases
    BY <1>1, <1>2
  <2>2. [grievance[c] EXCEPT !.status = status] \in Cases
    BY <1>1, <2>1 DEF Cases, GrievanceStatus
  <2> QED  BY <1>1, <1>2, <1>3, <2>2
<1>5. grievance' \in Seq(Cases) /\ DOMAIN grievance' = DOMAIN grievance
      /\ Len(grievance') = Len(grievance)
  BY <1>2, <1>4
<1>6. ASSUME NEW k \in DOMAIN grievance
      PROVE  /\ grievance'[k].result = grievance[k].result
             /\ grievance'[k].run = grievance[k].run
             /\ grievance'[k].status = IF k = c THEN status ELSE grievance[k].status
  <2>1. grievance[k] \in Cases
    BY <1>2
  <2> QED  BY <1>2, <1>3, <2>1 DEF Cases
<1>7. UNCHANGED <<pool, members, item, run, row, published>>
  BY DEF CommitDecision
<1>8. TablesInv'
  BY <1>5, <1>6, <1>7 DEF TypeInv, TablesInv
<1>9. Kept
  BY <1>5, <1>6, <1>7 DEF Kept, Live
<1> QED  BY <1>1, <1>5, <1>6, <1>8, <1>9 DEF c, status

\* An accept whose run number was taken changes nothing; another supersedes the
\* run of the result and adds the run of the regrade.
Regraded(k, original) ==
  /\ k \in DOMAIN grievance /\ original = published[grievance[k].result].run
  /\ original \in DOMAIN run
  /\ DOMAIN run' = DOMAIN run \cup {Len(run) + 1} /\ Len(run) + 1 \notin DOMAIN run
  /\ \A n \in DOMAIN run :
       /\ run'[n].grievance = run[n].grievance
       /\ run'[n].status = IF n = original THEN "SUPERSEDED" ELSE run[n].status
  /\ run'[Len(run) + 1] = [status |-> "REVIEW_REQUIRED", grievance |-> k]
  /\ DOMAIN grievance' = DOMAIN grievance
  /\ \A j \in DOMAIN grievance :
       /\ grievance'[j].result = grievance[j].result
       /\ grievance'[j].status = IF j = k THEN "RE_EVALUATING" ELSE grievance[j].status
       /\ grievance'[j].run = IF j = k THEN Len(run) + 1 ELSE grievance[j].run
  /\ \A n \in DOMAIN run : row'[n] = row[n]

LEMMA AcceptCommitEffect ==
  ASSUME GradingConstants, TypeInv, NEW q \in Requests, AcceptCommit(q)
  PROVE  /\ TablesInv' /\ Kept
         /\ UNCHANGED <<run, row, grievance>> \/ Regraded(request[q].of, request[q].original)
<1> DEFINE k == request[q].of
           original == request[q].original
           number == request[q].number
<1>1. /\ k \in DOMAIN grievance /\ number \in 1 .. Len(run) + 1 /\ number <= MaxRuns
      /\ original = published[grievance[k].result].run
  BY DEF AcceptCommit, TypeInv, ChangeOK
<1>2. /\ run \in Seq(RunRows) /\ Len(run) \in Nat /\ DOMAIN run = 1 .. Len(run)
      /\ row \in Seq(Evaluations) /\ Len(row) = Len(run) /\ DOMAIN row = 1 .. Len(run)
      /\ grievance \in Seq(Cases) /\ Len(grievance) \in Nat
      /\ DOMAIN grievance = 1 .. Len(grievance)
  BY DEF TypeInv, TablesInv
<1>3. original \in DOMAIN run
  BY <1>1 DEF TypeInv, TablesInv
<1>4. UNCHANGED <<pool, members, item, published, profile>>
  BY DEF AcceptCommit
<1>5. CASE number \in DOMAIN run
  <2>1. UNCHANGED <<run, row, grievance>>
    BY <1>5 DEF AcceptCommit
  <2> QED  BY <1>4, <2>1 DEF TypeInv, TablesInv, Kept, Live
<1>6. CASE number \notin DOMAIN run
  <2>1. number = Len(run) + 1
    BY <1>1, <1>2, <1>6
  <2> DEFINE old == [run EXCEPT ![original].status = "SUPERSEDED"]
             new == [status |-> "REVIEW_REQUIRED", grievance |-> k]
             copied == CopiedRows(original)
  <2>2. run' = Append(old, new) /\ row' = Append(row, copied)
    BY <1>6 DEF AcceptCommit, AcceptedRuns
  <2>3. grievance' = [grievance EXCEPT ![k].status = "RE_EVALUATING", ![k].run = number]
    BY <1>6 DEF AcceptCommit
  <2>4. new \in RunRows /\ copied \in Evaluations /\ new.grievance = k
    BY <1>1, <1>2 DEF RunRows, RunStatus, Evaluations, CopiedRows
  <2>5. old \in [1 .. Len(run) -> RunRows]
    <3>1. run[original] \in RunRows
      BY <1>2, <1>3
    <3>2. [run[original] EXCEPT !.status = "SUPERSEDED"] \in RunRows
      BY <3>1 DEF RunRows, RunStatus
    <3> QED  BY <1>2, <1>3, <3>2
  <2>6. old \in Seq(RunRows) /\ Len(old) = Len(run)
    BY <1>2, <2>5
  <2>7. ASSUME NEW n \in DOMAIN run
        PROVE  /\ old[n].grievance = run[n].grievance
               /\ old[n].status = IF n = original THEN "SUPERSEDED" ELSE run[n].status
    <3>1. run[n] \in RunRows
      BY <1>2
    <3> QED  BY <1>2, <3>1 DEF RunRows
  <2> HIDE DEF old, new, copied, k, original, number
  <2>8. /\ run' \in Seq(RunRows) /\ Len(run') = Len(run) + 1 /\ DOMAIN run' = 1 .. Len(run) + 1
        /\ \A n \in DOMAIN run : run'[n] = old[n]
        /\ run'[Len(run) + 1] = new
    BY <1>2, <2>2, <2>4, <2>6
  <2>9. /\ row' \in Seq(Evaluations) /\ Len(row') = Len(run) + 1
        /\ \A n \in DOMAIN run : row'[n] = row[n]
    BY <1>2, <2>2, <2>4
  <2>10. grievance' \in [1 .. Len(grievance) -> Cases]
    <3>1. grievance[k] \in Cases
      BY <1>1, <1>2
    <3>2. [grievance[k] EXCEPT !.status = "RE_EVALUATING", !.run = number] \in Cases
      <4>1. number \in Nat /\ "RE_EVALUATING" \in GrievanceStatus
        BY <1>2, <2>1 DEF GrievanceStatus
      <4> QED  BY <3>1, <4>1 DEF Cases
    <3>3. grievance' = [grievance EXCEPT ![k] =
                          [grievance[k] EXCEPT !.status = "RE_EVALUATING", !.run = number]]
      BY <1>1, <1>2, <2>3
    <3> QED  BY <1>1, <1>2, <3>2, <3>3
  <2>11. /\ grievance' \in Seq(Cases) /\ Len(grievance') = Len(grievance)
         /\ DOMAIN grievance' = DOMAIN grievance
    BY <1>2, <2>10
  <2>12. ASSUME NEW j \in DOMAIN grievance
         PROVE  /\ grievance'[j].result = grievance[j].result
                /\ grievance'[j].status = IF j = k THEN "RE_EVALUATING" ELSE grievance[j].status
                /\ grievance'[j].run = IF j = k THEN number ELSE grievance[j].run
    <3>1. grievance[j] \in Cases
      BY <1>2
    <3> QED  BY <1>1, <1>2, <2>3, <3>1 DEF Cases
  <2>13. Regraded(k, original)
    <3>1. DOMAIN run' = DOMAIN run \cup {Len(run) + 1} /\ Len(run) + 1 \notin DOMAIN run
      BY <1>2, <2>8
    <3>2. \A n \in DOMAIN run :
            /\ run'[n].grievance = run[n].grievance
            /\ run'[n].status = IF n = original THEN "SUPERSEDED" ELSE run[n].status
      BY <2>7, <2>8
    <3>3. run'[Len(run) + 1] = [status |-> "REVIEW_REQUIRED", grievance |-> k]
      BY <2>8 DEF new
    <3> QED  BY <1>1, <1>3, <2>1, <2>9, <2>11, <2>12, <3>1, <3>2, <3>3 DEF Regraded
  <2>14. TablesInv'
    <3>1. Len(run') \in 1 .. MaxRuns
      BY <1>1, <1>2, <2>1, <2>8 DEF GradingConstants
    <3>2. \A n \in DOMAIN run' : run'[n].grievance \in 0 .. Len(grievance')
      <4>1. \A n \in DOMAIN run : run[n].grievance \in 0 .. Len(grievance)
        BY DEF TypeInv, TablesInv
      <4>2. k \in 0 .. Len(grievance)
        BY <1>1, <1>2
      <4> QED  BY <1>2, <2>4, <2>7, <2>8, <2>11, <4>1, <4>2
    <3>3. \A j \in DOMAIN grievance' : /\ grievance'[j].result \in DOMAIN published
                                       /\ grievance'[j].run \in 0 .. Len(run')
      <4> SUFFICES ASSUME NEW j \in DOMAIN grievance
                   PROVE  /\ grievance'[j].result \in DOMAIN published
                          /\ grievance'[j].run \in 0 .. Len(run')
        BY <2>11
      <4>1. grievance[j].result \in DOMAIN published /\ grievance[j].run \in 0 .. Len(run)
        BY DEF TypeInv, TablesInv
      <4> QED  BY <1>2, <2>1, <2>8, <2>12, <4>1
    <3>4. DOMAIN run \subseteq DOMAIN run'
      BY <1>2, <2>8
    <3>5. Len(grievance') <= MaxGrievances /\ Len(row') = Len(run')
      BY <2>8, <2>9, <2>11 DEF TypeInv, TablesInv
    <3>6. \A i \in DOMAIN item : item[i].run \in DOMAIN run'
      BY <3>4 DEF TypeInv, TablesInv
    <3>7. \A v \in DOMAIN published : published[v].run \in DOMAIN run'
      BY <3>4 DEF TypeInv, TablesInv
    <3> QED  BY <1>4, <2>8, <2>9, <2>11, <3>1, <3>2, <3>3, <3>5, <3>6, <3>7
             DEF TypeInv, TablesInv
  <2>15. Kept
    <3>1. DOMAIN run \subseteq DOMAIN run'
      BY <1>2, <2>8
    <3>2. \A n \in DOMAIN run : /\ run'[n].grievance = run[n].grievance
                                /\ ~Live(n) => ~Live(n)'
      BY <2>7, <2>8 DEF Live
    <3> QED  BY <1>4, <2>9, <2>11, <2>12, <3>1, <3>2 DEF Kept
  <2> QED  BY <2>13, <2>14, <2>15 DEF k, original
<1> QED  BY <1>5, <1>6

---------------------------------------------------------------------------
(* Types and references                                                    *)

\* Every step is a step of one action.
LEMMA NextSteps ==
  ASSUME GradingNext
  PROVE  \/ \E q \in Requests, p \in Pools : ActivatePool(q, p)
         \/ \E q \in Requests, p \in Pools : ClosePool(q, p)
         \/ \E q \in Requests, p \in Pools, n \in DOMAIN run : Allocate(q, p, n)
         \/ \E q \in Requests, p \in Pools, n \in DOMAIN run, u \in Questions, g \in Graders :
              AssignManual(q, p, n, u, g)
         \/ \E q \in Requests, i \in DOMAIN item : StartWork(q, i)
         \/ \E q \in Requests, i \in DOMAIN item : SubmitWork(q, i)
         \/ \E q \in Requests, v \in DOMAIN published : CreateGrievance(q, v)
         \/ \E q \in Requests, k \in DOMAIN grievance : AcceptRead(q, k)
         \/ \E q \in Requests, k \in DOMAIN grievance : RejectGrievance(q, k)
         \/ \E q \in Requests, k \in DOMAIN grievance : ResolveGrievance(q, k)
         \/ \E q \in Requests : AcceptFlush(q)
         \/ \E q \in Requests : CommitPool(q)
         \/ \E q \in Requests : CommitItems(q)
         \/ \E q \in Requests : CommitItem(q)
         \/ \E q \in Requests : CommitGrievance(q)
         \/ \E q \in Requests : AcceptCommit(q)
         \/ \E q \in Requests : CommitDecision(q)
         \/ \E p \in Pools, strategy \in {"MANUAL", "ROUND_ROBIN"} : CreatePool(p, strategy)
         \/ \E p \in Pools, g \in Graders : AddMember(p, g)
         \/ \E n \in DOMAIN run, u \in Questions, g \in Graders : Review(n, u, g)
         \/ \E n \in DOMAIN run, u \in Questions : Escalate(n, u)
         \/ \E n \in DOMAIN run : ModerationReturns(n)
         \/ \E n \in DOMAIN run : ModerationApproves(n)
         \/ \E n \in DOMAIN run : Publish(n)
BY Zenon DEF GradingNext, RequestStep

LEMMA SettingKept == [GradingNext]_gradingVars => profile' = profile
<1> SUFFICES ASSUME [GradingNext]_gradingVars PROVE profile' = profile
  OBVIOUS
<1>1. CASE UNCHANGED gradingVars
  BY <1>1 DEF gradingVars
<1>2. CASE GradingNext
  <2>1. ASSUME NEW q, NEW S, Begins(q, S) PROVE profile' = profile
    BY <2>1 DEF Begins
  <2> QED
    BY <1>2, <2>1, NextSteps DEF ActivatePool, ClosePool, Allocate, AssignManual, StartWork,
       SubmitWork, CreateGrievance, AcceptRead, RejectGrievance, ResolveGrievance, AcceptFlush,
       CommitPool, CommitItems, CommitItem, CommitGrievance, AcceptCommit, CommitDecision,
       CreatePool, AddMember, Review, Escalate, ModerationReturns, ModerationApproves, Publish
<1> QED  BY <1>1, <1>2

LEMMA InitTypes ==
  ASSUME GradingConstants, GradingInit
  PROVE  TypeInv
<1>1. profile.published \in BOOLEAN
  BY DEF GradingConstants, GradingInit
<1>2. run \in Seq(RunRows) /\ Len(run) = 1 /\ run[1].grievance = 0
  BY <1>1 DEF GradingInit, RunRows, RunStatus
<1>3. row \in Seq(Evaluations) /\ Len(row) = 1
  <2>1. [u \in Questions |-> IF profile.published THEN "ACCEPTED" ELSE "REVIEW_REQUIRED"]
          \in Evaluations
    BY <1>1 DEF Evaluations
  <2> QED  BY <2>1 DEF GradingInit
<1>4. published \in Seq(Results) /\ \A v \in DOMAIN published : published[v].run = 1
  <2>1. CASE profile.published
    BY <2>1 DEF GradingInit, Results
  <2>2. CASE ~profile.published
    <3>1. published = << >>
      BY <2>2 DEF GradingInit
    <3> QED  BY <3>1
  <2> QED  BY <1>1, <2>1, <2>2
<1>5. item = << >> /\ grievance = << >>
  BY DEF GradingInit
<1>6. item \in Seq(Items) /\ DOMAIN item = {} /\ grievance \in Seq(Cases)
      /\ DOMAIN grievance = {} /\ Len(grievance) = 0
  BY <1>5
<1>7. pool \in [Pools -> [status : PoolStatus, strategy : {"MANUAL", "ROUND_ROBIN"}]]
      /\ \A p \in Pools : pool[p].status # "ACTIVE"
  BY DEF GradingInit, PoolStatus, None
<1>8. DOMAIN run = {1} /\ members \in [Pools -> SUBSET Graders]
  BY <1>2 DEF GradingInit
<1>9. TablesInv
  <2>1. Len(run) \in 1 .. MaxRuns
    BY <1>2 DEF GradingConstants
  <2>2. Len(grievance) <= MaxGrievances /\ \A n \in DOMAIN run : run[n].grievance \in 0 .. Len(grievance)
    BY <1>2, <1>6, <1>8 DEF GradingConstants
  <2> QED  BY <1>2, <1>3, <1>4, <1>6, <1>7, <1>8, <2>1, <2>2 DEF TablesInv
<1>10. request \in [Requests -> Changes] /\ \A q \in Requests : request[q] = NoChange
  BY IdleOK DEF GradingInit
<1> QED  BY <1>9, <1>10, IdleOK DEF TypeInv

LEMMA TypesKept ==
  ASSUME GradingConstants, TypeInv, [GradingNext]_gradingVars
  PROVE  TypeInv' /\ Kept
<1>1. ASSUME NEW q \in Requests, NEW p \in Pools, ActivatePool(q, p) PROVE TypeInv' /\ Kept
  BY <1>1, PoolBegun DEF Begun
<1>2. ASSUME NEW q \in Requests, NEW p \in Pools, ClosePool(q, p) PROVE TypeInv' /\ Kept
  BY <1>2, PoolBegun DEF Begun
<1>3. ASSUME NEW q \in Requests, NEW p \in Pools, NEW n \in DOMAIN run, Allocate(q, p, n)
      PROVE  TypeInv' /\ Kept
  BY <1>3, AllocateBegun DEF Begun
<1>4. ASSUME NEW q \in Requests, NEW p \in Pools, NEW n \in DOMAIN run, NEW u \in Questions,
             NEW g \in Graders, AssignManual(q, p, n, u, g)
      PROVE  TypeInv' /\ Kept
  BY <1>4, AssignBegun DEF Begun
<1>5. ASSUME NEW q \in Requests, NEW i \in DOMAIN item, StartWork(q, i) PROVE TypeInv' /\ Kept
  BY <1>5, ItemBegun DEF StartWork, Begun
<1>6. ASSUME NEW q \in Requests, NEW i \in DOMAIN item, SubmitWork(q, i) PROVE TypeInv' /\ Kept
  BY <1>6, ItemBegun DEF SubmitWork, Begun
<1>7. ASSUME NEW q \in Requests, NEW v \in DOMAIN published, CreateGrievance(q, v) PROVE TypeInv' /\ Kept
  BY <1>7, CreateBegun DEF Begun
<1>8. ASSUME NEW q \in Requests, NEW k \in DOMAIN grievance, AcceptRead(q, k) PROVE TypeInv' /\ Kept
  BY <1>8, AcceptBegun DEF Begun
<1>9. ASSUME NEW q \in Requests, NEW k \in DOMAIN grievance, RejectGrievance(q, k) PROVE TypeInv' /\ Kept
  BY <1>9, DecideBegun DEF RejectGrievance, Begun
<1>10. ASSUME NEW q \in Requests, NEW k \in DOMAIN grievance, ResolveGrievance(q, k) PROVE TypeInv' /\ Kept
  BY <1>10, DecideBegun DEF ResolveGrievance, Begun
<1>11. ASSUME NEW q \in Requests, AcceptFlush(q) PROVE TypeInv' /\ Kept
  BY <1>11, FlushBegun DEF Begun
<1>12. ASSUME NEW q \in Requests, CommitPool(q) PROVE TypeInv' /\ Kept
  BY <1>12, CommitPoolTables, Ended DEF CommitPool
<1>13. ASSUME NEW q \in Requests, CommitItems(q) PROVE TypeInv' /\ Kept
  BY <1>13, CommitItemsTables, Ended DEF CommitItems
<1>14. ASSUME NEW q \in Requests, CommitItem(q) PROVE TypeInv' /\ Kept
  BY <1>14, CommitItemEffect, Ended DEF CommitItem
<1>15. ASSUME NEW q \in Requests, CommitGrievance(q) PROVE TypeInv' /\ Kept
  BY <1>15, CommitGrievanceEffect, Ended DEF CommitGrievance
<1>16. ASSUME NEW q \in Requests, AcceptCommit(q) PROVE TypeInv' /\ Kept
  BY <1>16, AcceptCommitEffect, Ended DEF AcceptCommit
<1>17. ASSUME NEW q \in Requests, CommitDecision(q) PROVE TypeInv' /\ Kept
  BY <1>17, DecisionEffect, Ended DEF CommitDecision
<1>18. ASSUME NEW p \in Pools, NEW strategy \in {"MANUAL", "ROUND_ROBIN"}, CreatePool(p, strategy)
       PROVE  TypeInv' /\ Kept
  BY <1>18, CreatePoolTables, SteppedSame DEF CreatePool
<1>19. ASSUME NEW p \in Pools, NEW g \in Graders, AddMember(p, g) PROVE TypeInv' /\ Kept
  BY <1>19, AddMemberTables, SteppedSame DEF AddMember
<1>20. ASSUME NEW n \in DOMAIN run, NEW u \in Questions, NEW g \in Graders, Review(n, u, g)
       PROVE  TypeInv' /\ Kept
  BY <1>20, RowEffect, SteppedSame DEF Review
<1>21. ASSUME NEW n \in DOMAIN run, NEW u \in Questions, Escalate(n, u) PROVE TypeInv' /\ Kept
  BY <1>21, RowEffect, SteppedSame DEF Escalate
<1>22. ASSUME NEW n \in DOMAIN run, ModerationReturns(n) PROVE TypeInv' /\ Kept
  BY <1>22, ReturnsEffect, SteppedSame
<1>23. ASSUME NEW n \in DOMAIN run, ModerationApproves(n) PROVE TypeInv' /\ Kept
  BY <1>23, ApprovesEffect, SteppedSame
<1>24. ASSUME NEW n \in DOMAIN run, Publish(n) PROVE TypeInv' /\ Kept
  BY <1>24, PublishEffect, SteppedSame
<1>25. CASE UNCHANGED gradingVars
  <2>1. TablesInv' /\ Kept /\ request' = request
    BY <1>25, TablesSame DEF gradingVars, gradingTables, TypeInv, TablesInv
  <2> QED  BY <2>1, SteppedSame
<1> QED
  BY <1>1, <1>2, <1>3, <1>4, <1>5, <1>6, <1>7, <1>8, <1>9, <1>10, <1>11, <1>12, <1>13, <1>14,
     <1>15, <1>16, <1>17, <1>18, <1>19, <1>20, <1>21, <1>22, <1>23, <1>24, <1>25, NextSteps

\* Items, runs, results and grievances keep their types, the rows their columns
\* refer to exist, and what a request is about to write refers to rows that
\* exist, however the requests interleave.
THEOREM GradingReferences ==
  ASSUME GradingConstants
  PROVE  GradingSpec => []TypeInv
<1>1. GradingInit => TypeInv
  BY InitTypes
<1>2. TypeInv /\ [GradingNext]_gradingVars => TypeInv'
  BY TypesKept
<1> QED  BY <1>1, <1>2, PTL DEF GradingSpec

LEMMA SeqOf ==
  ASSUME NEW T, NEW U, NEW s \in Seq(T), \A i \in DOMAIN s : s[i] \in U
  PROVE  s \in Seq(U)
<1>1. Len(s) \in Nat /\ s \in [1 .. Len(s) -> U]
  OBVIOUS
<1> QED  BY <1>1

\* The tables of the grading pools and of the grievances keep their types.
THEOREM GradingTypeCorrect ==
  ASSUME GradingConstants
  PROVE  GradingSpec => []GradingTypeOK
<1>1. TypeInv => GradingTypeOK
  <2> SUFFICES ASSUME TypeInv PROVE GradingTypeOK
    OBVIOUS
  <2>1. /\ run \in Seq(RunRows) /\ Len(run) \in 1 .. MaxRuns /\ DOMAIN run = 1 .. Len(run)
        /\ row \in Seq(Evaluations) /\ DOMAIN row = DOMAIN run
        /\ grievance \in Seq(Cases) /\ Len(grievance) \in Nat
        /\ DOMAIN grievance = 1 .. Len(grievance) /\ Len(grievance) <= MaxGrievances
        /\ MaxRuns \in Nat /\ MaxGrievances \in Nat
    BY DEF TypeInv, TablesInv, GradingConstants
  <2>2. item \in Seq([pool : Pools, run : 1 .. MaxRuns, question : Questions,
                      owner : Graders, status : WorkStatus])
    <3>1. item \in Seq(Items) /\ DOMAIN item = 1 .. Len(item) /\ Len(item) \in Nat
      BY DEF TypeInv, TablesInv
    <3>2. ASSUME NEW i \in DOMAIN item
          PROVE  item[i] \in [pool : Pools, run : 1 .. MaxRuns, question : Questions,
                              owner : Graders, status : WorkStatus]
      <4>1. item[i] \in Items /\ item[i].run \in 1 .. MaxRuns
        BY <2>1, <3>1 DEF TypeInv, TablesInv
      <4> QED  BY <4>1 DEF Items
    <3> QED  BY <3>1, <3>2, SeqOf
  <2>3. run \in Seq([status : RunStatus, grievance : 0 .. MaxGrievances])
    <3>1. ASSUME NEW n \in DOMAIN run
          PROVE  run[n] \in [status : RunStatus, grievance : 0 .. MaxGrievances]
      <4>1. run[n] \in RunRows /\ run[n].grievance \in 0 .. MaxGrievances
        BY <2>1 DEF TypeInv, TablesInv
      <4> QED  BY <4>1 DEF RunRows
    <3> QED  BY <2>1, <3>1, SeqOf
  <2>4. published \in Seq([run : 1 .. MaxRuns, status : {"PUBLISHED", "SUPERSEDED"}])
    <3>1. published \in Seq(Results) /\ DOMAIN published = 1 .. Len(published)
          /\ Len(published) \in Nat
      BY DEF TypeInv, TablesInv
    <3>2. ASSUME NEW v \in DOMAIN published
          PROVE  published[v] \in [run : 1 .. MaxRuns, status : {"PUBLISHED", "SUPERSEDED"}]
      <4>1. published[v] \in Results /\ published[v].run \in 1 .. MaxRuns
        BY <2>1, <3>1 DEF TypeInv, TablesInv
      <4> QED  BY <4>1 DEF Results
    <3> QED  BY <3>1, <3>2, SeqOf
  <2>5. grievance \in Seq([result : Nat, status : GrievanceStatus, run : 0 .. MaxRuns])
    <3>1. ASSUME NEW k \in DOMAIN grievance
          PROVE  grievance[k] \in [result : Nat, status : GrievanceStatus, run : 0 .. MaxRuns]
      <4>1. grievance[k] \in Cases /\ grievance[k].run \in 0 .. MaxRuns
        BY <2>1 DEF TypeInv, TablesInv
      <4> QED  BY <4>1 DEF Cases
    <3> QED  BY <2>1, <3>1, SeqOf
  <2>6. \A n \in DOMAIN row : row[n] \in
          [Questions -> {"REVIEW_REQUIRED", "ACCEPTED", "ESCALATED"}]
    BY <2>1 DEF Evaluations
  <2>7. DOMAIN request = Requests
    BY DEF TypeInv
  <2> QED  BY <2>1, <2>2, <2>3, <2>4, <2>5, <2>6, <2>7 DEF TypeInv, TablesInv, GradingTypeOK
<1> QED  BY <1>1, GradingReferences, PTL


---------------------------------------------------------------------------
(* The steps by what they touch                                            *)

\* A request that commits: its session is idle again.
Done(q) == /\ TypeInv' /\ Kept /\ request'[q] = NoChange
           /\ \A r \in Requests : r # q => request'[r] = request[r]
           /\ profile' = profile

LEMMA CommitsDone ==
  ASSUME GradingConstants, TypeInv, NEW q \in Requests,
         \/ CommitPool(q) \/ CommitItems(q) \/ CommitItem(q)
         \/ CommitGrievance(q) \/ AcceptCommit(q) \/ CommitDecision(q)
  PROVE  Done(q)
<1>1. request' = [request EXCEPT ![q] = NoChange] /\ profile' = profile
  BY DEF CommitPool, CommitItems, CommitItem, CommitGrievance, AcceptCommit, CommitDecision
<1>2. TablesInv' /\ Kept
  BY CommitPoolTables, CommitItemsTables, CommitItemEffect, CommitGrievanceEffect,
     AcceptCommitEffect, DecisionEffect
<1> QED  BY <1>1, <1>2, Ended DEF Done

\* For the pools: the steps that hand out work or change an item, a row or a
\* pool, and those that do not.
LEMMA PoolSteps ==
  ASSUME GradingConstants, TypeInv, [GradingNext]_gradingVars
  PROVE  \/ UNCHANGED <<item, pool, request>> /\ Kept
         \/ \E q \in Requests :
              Begun(q) /\ request'[q].op \in {"GRIEVANCE", "ACCEPT", "COPY", "DECIDE"}
         \/ \E q \in Requests : Done(q) /\ UNCHANGED <<item, pool>>
         \/ \E q \in Requests, p \in Pools : ActivatePool(q, p) \/ ClosePool(q, p)
         \/ \E q \in Requests, p \in Pools, n \in DOMAIN run : Allocate(q, p, n)
         \/ \E q \in Requests, p \in Pools, n \in DOMAIN run, u \in Questions, g \in Graders :
              AssignManual(q, p, n, u, g)
         \/ \E q \in Requests, i \in DOMAIN item : StartWork(q, i)
         \/ \E q \in Requests, i \in DOMAIN item : SubmitWork(q, i)
         \/ \E q \in Requests : CommitPool(q)
         \/ \E q \in Requests : CommitItems(q)
         \/ \E q \in Requests : CommitItem(q)
         \/ \E p \in Pools, strategy \in {"MANUAL", "ROUND_ROBIN"} : CreatePool(p, strategy)
         \/ \E n \in DOMAIN run : ModerationReturns(n)
         \/ \E n \in DOMAIN run : ModerationApproves(n)
<1>0. Kept
  BY TypesKept
<1>2. ASSUME NEW q \in Requests, NEW v \in DOMAIN published, CreateGrievance(q, v)
      PROVE  Begun(q) /\ request'[q].op = "GRIEVANCE"
  BY <1>2, CreateBegun
<1>3. ASSUME NEW q \in Requests, NEW k \in DOMAIN grievance, AcceptRead(q, k)
      PROVE  Begun(q) /\ request'[q].op = "ACCEPT"
  BY <1>3, AcceptBegun
<1>4. ASSUME NEW q \in Requests, NEW k \in DOMAIN grievance, RejectGrievance(q, k)
      PROVE  Begun(q) /\ request'[q].op = "DECIDE"
  BY <1>4, DecideBegun DEF RejectGrievance
<1>5. ASSUME NEW q \in Requests, NEW k \in DOMAIN grievance, ResolveGrievance(q, k)
      PROVE  Begun(q) /\ request'[q].op = "DECIDE"
  BY <1>5, DecideBegun DEF ResolveGrievance
<1>6. ASSUME NEW q \in Requests, AcceptFlush(q)
      PROVE  Begun(q) /\ request'[q].op = "COPY"
  BY <1>6, FlushBegun
<1>7. ASSUME NEW q \in Requests, CommitGrievance(q) \/ AcceptCommit(q) \/ CommitDecision(q)
      PROVE  Done(q) /\ UNCHANGED <<item, pool>>
  BY <1>7, CommitsDone DEF CommitGrievance, AcceptCommit, CommitDecision
<1>8. ASSUME NEW p \in Pools, NEW g \in Graders, AddMember(p, g)
      PROVE  UNCHANGED <<item, pool, request>>
  BY <1>8 DEF AddMember
<1>9. ASSUME NEW n \in DOMAIN run, NEW u \in Questions,
             Escalate(n, u) \/ \E g \in Graders : Review(n, u, g)
      PROVE  UNCHANGED <<item, pool, request>>
  BY <1>9 DEF Review, Escalate
<1>10. ASSUME NEW n \in DOMAIN run, Publish(n) PROVE UNCHANGED <<item, pool, request>>
  BY <1>10 DEF Publish
<1>11. CASE UNCHANGED gradingVars
  BY <1>0, <1>11 DEF gradingVars, gradingTables
<1> QED
  BY <1>0, <1>2, <1>3, <1>4, <1>5, <1>6, <1>7, <1>8, <1>9, <1>10, <1>11, NextSteps

---------------------------------------------------------------------------
(* What is submitted has been reviewed                                     *)

\* A question that has been reviewed stays reviewed, whichever item asks.
LEMMA ReviewedStays ==
  ASSUME TypeInv, Kept, NEW i \in DOMAIN item, Reviewed(i)
  PROVE  i \in DOMAIN item' /\ Reviewed(i)'
<1>1. item[i].run \in DOMAIN run /\ item[i].question \in Questions
  <2>1. item[i] \in Items
    BY DEF TypeInv, TablesInv
  <2> QED  BY <2>1 DEF TypeInv, TablesInv, Items
<1> QED  BY <1>1 DEF Kept, Reviewed

LEMMA ReviewedKept ==
  ASSUME GradingConstants, TypeInv, ReviewedInv, [GradingNext]_gradingVars
  PROVE  ReviewedInv'
<1>1. TypeInv' /\ Kept
  BY TypesKept
<1>2. ASSUME NEW q \in Requests, request'[q].op = "ITEM", request'[q].status = "SUBMITTED",
             request'[q] = request[q]
      PROVE  Reviewed(request[q].of)'
  <2>1. request[q].of \in DOMAIN item /\ Reviewed(request[q].of)
    BY <1>2 DEF TypeInv, ChangeOK, ReviewedInv
  <2> QED  BY <1>1, <1>2, <2>1, ReviewedStays DEF Reviewed
<1>3. ASSUME item' = item PROVE SubmittedIsReviewed'
  <2> SUFFICES ASSUME NEW i \in DOMAIN item, item[i].status \in {"SUBMITTED", "COMPLETED"}
               PROVE  Reviewed(i)'
    BY <1>3 DEF SubmittedIsReviewed, Reviewed
  <2> QED  BY <1>1, ReviewedStays DEF ReviewedInv, SubmittedIsReviewed, Reviewed
<1>4. ASSUME NEW q \in Requests, Begun(q),
             request'[q].op = "ITEM" /\ request'[q].status = "SUBMITTED" =>
               Reviewed(request[q].of)'
      PROVE  ReviewedInv'
  <2>1. item' = item /\ \A r \in Requests : r # q => request'[r] = request[r]
    BY <1>4 DEF Begun, gradingTables
  <2> QED  BY <1>2, <1>3, <1>4, <2>1 DEF ReviewedInv
<1>5. ASSUME SubmittedIsReviewed', request' = request PROVE ReviewedInv'
  BY <1>2, <1>5 DEF ReviewedInv
<1>6. ASSUME NEW q \in Requests, SubmittedIsReviewed', Done(q) PROVE ReviewedInv'
  <2>1. request'[q].op # "ITEM" /\ \A r \in Requests : r # q => request'[r] = request[r]
    BY <1>6, IdleOK DEF Done
  <2> QED  BY <1>2, <1>6, <2>1 DEF ReviewedInv
<1>7. ASSUME NEW q \in Requests, NEW i \in DOMAIN item, StartWork(q, i) PROVE ReviewedInv'
  <2>1. Begun(q) /\ request'[q].status = "IN_PROGRESS"
    BY <1>7, ItemBegun DEF StartWork
  <2> QED  BY <1>4, <2>1
<1>8. ASSUME NEW q \in Requests, NEW i \in DOMAIN item, SubmitWork(q, i) PROVE ReviewedInv'
  <2>1. Begun(q) /\ request'[q].of = i
    BY <1>8, ItemBegun DEF SubmitWork
  <2>2. Reviewed(i)
    BY <1>8 DEF SubmitWork, Submittable, Reviewed
  <2>3. Reviewed(i)'
    BY <1>1, <2>2, ReviewedStays
  <2> QED  BY <1>4, <2>1, <2>3 DEF Reviewed
<1>9. ASSUME NEW q \in Requests, CommitItems(q) PROVE ReviewedInv'
  <2>1. /\ item' = item \o request[q].items /\ request[q].items \in Seq(Items)
        /\ item \in Seq(Items)
        /\ \A k \in DOMAIN request[q].items : request[q].items[k].status = "QUEUED"
    BY <1>9 DEF CommitItems, TypeInv, TablesInv, ChangeOK, Changes
  <2>2. ASSUME NEW i \in DOMAIN item', item'[i].status \in {"SUBMITTED", "COMPLETED"}
        PROVE  i \in DOMAIN item /\ item'[i] = item[i]
    BY <2>1, <2>2, Appended
  <2>3. SubmittedIsReviewed'
    <3> SUFFICES ASSUME NEW i \in DOMAIN item', item'[i].status \in {"SUBMITTED", "COMPLETED"}
                 PROVE  Reviewed(i)'
      BY DEF SubmittedIsReviewed, Reviewed
    <3>1. i \in DOMAIN item /\ Reviewed(i)
      BY <2>2 DEF ReviewedInv, SubmittedIsReviewed, Reviewed
    <3> QED  BY <1>1, <3>1, ReviewedStays
  <2> QED  BY <1>6, <1>9, <2>3, CommitsDone
<1>10. ASSUME NEW q \in Requests, CommitItem(q) PROVE ReviewedInv'
  <2>1. SubmittedIsReviewed'
    <3> SUFFICES ASSUME NEW i \in DOMAIN item', item'[i].status \in {"SUBMITTED", "COMPLETED"}
                 PROVE  Reviewed(i)'
      BY DEF SubmittedIsReviewed, Reviewed
    <3>1. i \in DOMAIN item
      BY <1>10, CommitItemEffect
    <3>2. Reviewed(i)
      <4>1. item'[i].status = IF i = request[q].of THEN request[q].status ELSE item[i].status
        <5>1. \A n \in DOMAIN item :
                item'[n].status = IF n = request[q].of THEN request[q].status
                                  ELSE item[n].status
          BY <1>10, CommitItemEffect
        <5> QED  BY <3>1, <5>1
      <4>2. CASE i = request[q].of
        <5>1. request[q].status = "SUBMITTED" /\ request[q].op = "ITEM"
          BY <1>10, <4>1, <4>2, CommitItemEffect DEF CommitItem
        <5> QED  BY <4>2, <5>1 DEF ReviewedInv
      <4>3. CASE i # request[q].of
        BY <3>1, <4>1, <4>3 DEF ReviewedInv, SubmittedIsReviewed, Reviewed
      <4> QED  BY <4>2, <4>3
    <3> QED  BY <1>1, <3>1, <3>2, ReviewedStays
  <2> QED  BY <1>6, <1>10, <2>1, CommitsDone
<1>11. ASSUME NEW n \in DOMAIN run, ModerationReturns(n) \/ ModerationApproves(n)
       PROVE  ReviewedInv'
  <2>1. /\ request' = request /\ DOMAIN item' = DOMAIN item
        /\ \A i \in DOMAIN item : item'[i].status \in {"SUBMITTED", "COMPLETED"} =>
             item[i].status \in {"SUBMITTED", "COMPLETED"}
    BY <1>11, ReturnsEffect, ApprovesEffect
  <2>2. SubmittedIsReviewed'
    <3> SUFFICES ASSUME NEW i \in DOMAIN item', item'[i].status \in {"SUBMITTED", "COMPLETED"}
                 PROVE  Reviewed(i)'
      BY DEF SubmittedIsReviewed, Reviewed
    <3>1. i \in DOMAIN item /\ Reviewed(i)
      BY <2>1 DEF ReviewedInv, SubmittedIsReviewed, Reviewed
    <3> QED  BY <1>1, <3>1, ReviewedStays
  <2> QED  BY <1>5, <2>1, <2>2
<1>12. ASSUME NEW q \in Requests, CommitPool(q) PROVE ReviewedInv'
  BY <1>3, <1>6, <1>12, CommitsDone DEF CommitPool
<1>13. ASSUME NEW p \in Pools, NEW strategy \in {"MANUAL", "ROUND_ROBIN"}, CreatePool(p, strategy)
       PROVE  ReviewedInv'
  BY <1>3, <1>5, <1>13 DEF CreatePool
<1>14. ASSUME NEW q \in Requests, NEW p \in Pools, NEW n \in DOMAIN run, Allocate(q, p, n)
       PROVE  ReviewedInv'
  <2>1. Begun(q) /\ request'[q].op = "ITEMS"
    BY <1>14, AllocateBegun
  <2> QED  BY <1>4, <2>1
<1>15. ASSUME NEW q \in Requests, NEW p \in Pools, NEW n \in DOMAIN run, NEW u \in Questions,
              NEW g \in Graders, AssignManual(q, p, n, u, g)
       PROVE  ReviewedInv'
  <2>1. Begun(q) /\ request'[q].op = "ITEMS"
    BY <1>15, AssignBegun
  <2> QED  BY <1>4, <2>1
<1>16. ASSUME NEW q \in Requests, Begun(q),
              request'[q].op \in {"GRIEVANCE", "ACCEPT", "COPY", "DECIDE"}
       PROVE  ReviewedInv'
  BY <1>4, <1>16
<1>19. ASSUME NEW q \in Requests, NEW p \in Pools, ActivatePool(q, p) \/ ClosePool(q, p)
       PROVE  ReviewedInv'
  <2>1. Begun(q) /\ request'[q].op = "POOL"
    BY <1>19, PoolBegun
  <2> QED  BY <1>4, <2>1
<1>17. ASSUME NEW q \in Requests, Done(q) /\ UNCHANGED <<item, pool>> PROVE ReviewedInv'
  BY <1>3, <1>6, <1>17
<1>18. CASE UNCHANGED <<item, pool, request>>
  BY <1>3, <1>5, <1>18
<1> QED
  BY <1>7, <1>8, <1>9, <1>10, <1>11, <1>12, <1>13, <1>14, <1>15, <1>16, <1>17, <1>18, <1>19,
     PoolSteps

\* The question of a submitted or completed work item has been reviewed, however
\* the requests, the reviews, the escalations and the moderation interleave.
THEOREM GradingSubmitted ==
  ASSUME GradingConstants
  PROVE  GradingSpec => []SubmittedIsReviewed
<1>1. GradingInit => ReviewedInv
  <2> SUFFICES ASSUME GradingInit PROVE ReviewedInv
    OBVIOUS
  <2>1. item = << >> /\ \A q \in Requests : request[q].op = "IDLE"
    BY IdleOK DEF GradingInit
  <2> QED  BY <2>1 DEF ReviewedInv, SubmittedIsReviewed
<1>2. TypeInv /\ ReviewedInv /\ [GradingNext]_gradingVars => ReviewedInv'
  BY ReviewedKept
<1>3. ReviewedInv => SubmittedIsReviewed
  BY DEF ReviewedInv
<1> QED  BY <1>1, <1>2, <1>3, GradingReferences, PTL DEF GradingSpec

---------------------------------------------------------------------------
(* Work is handed out under lock, by an active pool                        *)

\* A step in which no request begins to hand out work or to change a pool, and
\* no pool that hands out work is changed.
LEMMA LocksStay ==
  ASSUME TypeInv, LockInv, profile' = profile, \A p \in Pools : InUse(p)',
         NEW q \in Requests, \A r \in Requests : r # q => request'[r] = request[r],
         request'[q].op \notin {"POOL", "ITEMS"},
         \A r \in Requests : request[r].op = "ITEMS" =>
           pool'[request[r].pool].status = pool[request[r].pool].status
  PROVE  LockInv'
<1>1. ASSUME NEW r \in Requests, request'[r].op = "ITEMS"
      PROVE  request'[r] = request[r] /\ request[r].op = "ITEMS" /\ Holds(request[r])'
  <2>1. request'[r] = request[r] /\ request[r].op = "ITEMS"
    BY <1>1
  <2>2. Holds(request[r])
    BY <2>1 DEF LockInv
  <2> QED  BY <2>1, <2>2 DEF Holds
<1>2. \A r, s \in Requests : r # s /\ request'[r].op = "ITEMS" /\ request'[s].op = "ITEMS" =>
        Apart(request[r], request[s])'
  BY <1>1 DEF LockInv, Apart
<1>3. \A r \in Requests : request'[r].op = "POOL" => request'[r].target \in profile'.pools
  BY DEF LockInv
<1> QED  BY <1>1, <1>2, <1>3 DEF LockInv

\* A request that locks a pool, and its run, before it hands out their work.
LEMMA LocksTaken ==
  ASSUME TypeInv, LockInv, NEW q \in Requests, Begun(q), request'[q].op = "ITEMS",
         Holds(request[q])',
         \A r \in Requests : r # q /\ request[r].op = "ITEMS" => Apart(request[q]', request[r])
  PROVE  LockInv'
<1>1. /\ profile' = profile /\ pool' = pool
      /\ \A r \in Requests : r # q => request'[r] = request[r]
  BY DEF Begun, gradingTables
<1>2. \A r \in Requests : request'[r].op = "ITEMS" => Holds(request[r])'
  BY <1>1 DEF LockInv, Holds
<1>3. \A r, s \in Requests : r # s /\ request'[r].op = "ITEMS" /\ request'[s].op = "ITEMS" =>
        Apart(request[r], request[s])'
  BY <1>1 DEF LockInv, Apart
<1>4. \A p \in Pools : InUse(p)'
  BY <1>1 DEF LockInv, InUse
<1>5. \A r \in Requests : request'[r].op = "POOL" => request'[r].target \in profile'.pools
  BY <1>1 DEF LockInv
<1> QED  BY <1>2, <1>3, <1>4, <1>5 DEF LockInv

LEMMA LocksKept ==
  ASSUME GradingConstants, TypeInv, LockInv, [GradingNext]_gradingVars
  PROVE  LockInv'
<1>1. profile' = profile
  BY SettingKept
<1>2. ASSUME pool' = pool PROVE \A p \in Pools : InUse(p)'
  BY <1>1, <1>2 DEF LockInv, InUse
<1>3. ASSUME NEW q \in Requests, Begun(q), request'[q].op \notin {"POOL", "ITEMS"} PROVE LockInv'
  <2>1. pool' = pool /\ \A r \in Requests : r # q => request'[r] = request[r]
    BY <1>3 DEF Begun, gradingTables
  <2> QED  BY <1>1, <1>2, <1>3, <2>1, LocksStay
<1>4. ASSUME NEW q \in Requests, Done(q), pool' = pool PROVE LockInv'
  <2>1. /\ request'[q].op \notin {"POOL", "ITEMS"}
        /\ \A r \in Requests : r # q => request'[r] = request[r]
    BY <1>4, IdleOK DEF Done
  <2> QED  BY <1>1, <1>2, <1>4, <2>1, LocksStay
<1>5. ASSUME pool' = pool, request' = request PROVE LockInv'
  BY <1>1, <1>5 DEF LockInv, InUse, Holds, Apart
<1>6. ASSUME NEW q \in Requests, NEW p \in Pools, ActivatePool(q, p) \/ ClosePool(q, p)
      PROVE  LockInv'
  <2>1. Begun(q) /\ request'[q].op = "POOL" /\ request'[q].target = p
    BY <1>6, PoolBegun
  <2>2. p \in profile.pools
    BY <1>6 DEF ActivatePool, ClosePool, LockInv, InUse, None
  <2>3. pool' = pool /\ \A r \in Requests : r # q => request'[r] = request[r]
    BY <2>1 DEF Begun, gradingTables
  <2>4. \A r \in Requests : request'[r].op = "ITEMS" =>
          request'[r] = request[r] /\ Holds(request[r])'
    BY <1>1, <2>1, <2>3 DEF LockInv, Holds
  <2>5. \A r, s \in Requests : r # s /\ request'[r].op = "ITEMS" /\ request'[s].op = "ITEMS" =>
          Apart(request[r], request[s])'
    BY <1>1, <2>4 DEF LockInv, Apart
  <2>6. \A r \in Requests : request'[r].op = "POOL" => request'[r].target \in profile'.pools
    BY <1>1, <2>1, <2>2, <2>3 DEF LockInv
  <2> QED  BY <1>2, <2>3, <2>4, <2>5, <2>6 DEF LockInv
<1>7. ASSUME NEW q \in Requests, NEW p \in Pools, NEW n \in DOMAIN run, Allocate(q, p, n)
      PROVE  LockInv'
  <2>1. /\ Begun(q) /\ request'[q].op = "ITEMS" /\ request'[q].pool = p /\ request'[q].run = n
        /\ \A k \in DOMAIN request'[q].items :
             request'[q].items[k].pool = p /\ request'[q].items[k].run = n
    BY <1>7, AllocateBegun
  <2>2. pool[p].status = "ACTIVE" /\ PoolFree(p) /\ RunFree(n)
    BY <1>7 DEF Allocate
  <2>3. Holds(request[q])'
    <3>1. pool' = pool
      BY <2>1 DEF Begun, gradingTables
    <3> QED  BY <2>1, <2>2, <3>1 DEF Holds
  <2>4. \A r \in Requests : Apart(request[q]', request[r])
    BY <2>1, <2>2 DEF Apart, PoolFree, RunFree
  <2> QED  BY <2>1, <2>3, <2>4, LocksTaken
<1>8. ASSUME NEW q \in Requests, NEW p \in Pools, NEW n \in DOMAIN run, NEW u \in Questions,
             NEW g \in Graders, AssignManual(q, p, n, u, g)
      PROVE  LockInv'
  <2>1. /\ Begun(q) /\ request'[q].op = "ITEMS" /\ request'[q].pool = p
        /\ DOMAIN request'[q].items = {1} /\ request'[q].items[1] = NewItem(p, n, u, g)
    BY <1>8, AssignBegun
  <2>2. pool[p].status = "ACTIVE" /\ PoolFree(p) /\ "assign" \in profile.calls
    BY <1>8 DEF AssignManual, Calls
  <2>3. Holds(request[q])'
    <3>1. pool' = pool
      BY <2>1 DEF Begun, gradingTables
    <3> QED  BY <1>1, <2>1, <2>2, <3>1 DEF Holds, NewItem
  <2>4. \A r \in Requests : Apart(request[q]', request[r])
    BY <2>1, <2>2 DEF Apart, PoolFree
  <2> QED  BY <2>1, <2>3, <2>4, LocksTaken
<1>9. ASSUME NEW q \in Requests, NEW i \in DOMAIN item, StartWork(q, i) \/ SubmitWork(q, i)
      PROVE  LockInv'
  <2>1. Begun(q) /\ request'[q].op = "ITEM"
    BY <1>9, ItemBegun DEF StartWork, SubmitWork
  <2> QED  BY <1>3, <2>1
<1>10. ASSUME NEW q \in Requests, CommitPool(q) PROVE LockInv'
  <2>1. /\ Done(q) /\ request[q].op = "POOL" /\ request[q].target \in Pools
        /\ \A r \in Requests : request[r].pool # request[q].target
        /\ pool' = [pool EXCEPT ![request[q].target].status = request[q].status]
    BY <1>10, CommitsDone DEF CommitPool, PoolFree, TypeInv, ChangeOK
  <2>2. request[q].target \in profile.pools
    BY <2>1 DEF LockInv
  <2>3. \A p \in Pools : p # request[q].target => pool'[p] = pool[p]
    BY <2>1 DEF TypeInv, TablesInv
  <2>4. \A p \in Pools : InUse(p)'
    BY <1>1, <2>2, <2>3 DEF LockInv, InUse
  <2>5. \A r \in Requests : request[r].op = "ITEMS" =>
          pool'[request[r].pool].status = pool[request[r].pool].status
    BY <2>1, <2>3 DEF LockInv, Holds
  <2>6. /\ request'[q].op \notin {"POOL", "ITEMS"}
        /\ \A r \in Requests : r # q => request'[r] = request[r]
    BY <2>1, IdleOK DEF Done
  <2> QED  BY <1>1, <2>4, <2>5, <2>6, LocksStay
<1>11. ASSUME NEW q \in Requests, CommitItems(q) \/ CommitItem(q) PROVE LockInv'
  BY <1>4, <1>11, CommitsDone DEF CommitItems, CommitItem
<1>12. ASSUME NEW p \in Pools, NEW strategy \in {"MANUAL", "ROUND_ROBIN"}, CreatePool(p, strategy)
       PROVE  LockInv'
  <2>1. /\ request' = request /\ p \in profile.pools /\ pool[p].status = None
        /\ \A r \in Pools : r # p => pool'[r] = pool[r]
    BY <1>12 DEF CreatePool, TypeInv, TablesInv
  <2>2. \A r \in Pools : InUse(r)'
    BY <1>1, <2>1 DEF LockInv, InUse
  <2>3. ASSUME NEW r \in Requests, request[r].op = "ITEMS" PROVE Holds(request[r])'
    BY <1>1, <2>1, <2>3 DEF LockInv, Holds, None
  <2> QED  BY <1>1, <2>1, <2>2, <2>3 DEF LockInv, Apart, Holds
<1>13. ASSUME NEW n \in DOMAIN run, ModerationReturns(n) \/ ModerationApproves(n)
       PROVE  LockInv'
  BY <1>5, <1>13 DEF ModerationReturns, ModerationApproves
<1> QED
  BY <1>3, <1>4, <1>5, <1>6, <1>7, <1>8, <1>9, <1>10, <1>11, <1>12, <1>13, PoolSteps

LEMMA InitLocks == GradingInit => LockInv
BY IdleOK DEF GradingInit, LockInv, InUse, None

\* Work is only handed out by a pool that is still active when its items are
\* committed: the pool's row is locked from the read to the commit, and closing
\* it waits for the lock.
THEOREM GradingPoolsActive ==
  ASSUME GradingConstants
  PROVE  GradingSpec => NoWorkFromClosedPool
<1> DEFINE Handed == \A i \in DOMAIN item' \ DOMAIN item : pool[item'[i].pool].status = "ACTIVE"
<1>1. TypeInv /\ LockInv /\ [GradingNext]_gradingVars => LockInv'
  BY LocksKept
<1>2. TypeInv /\ LockInv /\ [GradingNext]_gradingVars => Handed
  <2> SUFFICES ASSUME TypeInv, LockInv, [GradingNext]_gradingVars PROVE Handed
    OBVIOUS
  <2>1. ASSUME NEW q \in Requests, CommitItems(q) PROVE Handed
    <3>1. /\ item' = item \o request[q].items /\ request[q].items \in Seq(Items)
          /\ item \in Seq(Items) /\ Holds(request[q])
      BY <2>1 DEF CommitItems, TypeInv, TablesInv, ChangeOK, Changes, LockInv
    <3>2. ASSUME NEW i \in DOMAIN item' \ DOMAIN item
          PROVE  item'[i].pool = request[q].pool
      BY <3>1, Appended DEF Holds
    <3> QED  BY <3>1, <3>2 DEF Holds
  <2>2. ASSUME DOMAIN item' = DOMAIN item PROVE Handed
    BY <2>2
  <2>3. ASSUME NEW q \in Requests, Begun(q) PROVE item' = item
    BY <2>3 DEF Begun, gradingTables
  <2>4. ASSUME NEW q \in Requests, NEW p \in Pools, ActivatePool(q, p) \/ ClosePool(q, p)
        PROVE  Begun(q)
    BY <2>4, PoolBegun
  <2>5. ASSUME NEW q \in Requests, NEW p \in Pools, NEW n \in DOMAIN run, Allocate(q, p, n)
        PROVE  Begun(q)
    BY <2>5, AllocateBegun
  <2>6. ASSUME NEW q \in Requests, NEW p \in Pools, NEW n \in DOMAIN run, NEW u \in Questions,
               NEW g \in Graders, AssignManual(q, p, n, u, g)
        PROVE  Begun(q)
    BY <2>6, AssignBegun
  <2>7. ASSUME NEW q \in Requests, NEW i \in DOMAIN item, StartWork(q, i) \/ SubmitWork(q, i)
        PROVE  Begun(q)
    BY <2>7, ItemBegun DEF StartWork, SubmitWork
  <2>8. ASSUME NEW q \in Requests, CommitItem(q) PROVE Handed
    BY <2>2, <2>8, CommitItemEffect
  <2>9. ASSUME NEW n \in DOMAIN run, ModerationReturns(n) \/ ModerationApproves(n)
        PROVE  Handed
    BY <2>2, <2>9, ReturnsEffect, ApprovesEffect
  <2>10. ASSUME NEW q \in Requests, CommitPool(q) PROVE Handed
    BY <2>2, <2>10 DEF CommitPool
  <2>11. ASSUME NEW p \in Pools, NEW strategy \in {"MANUAL", "ROUND_ROBIN"}, CreatePool(p, strategy)
         PROVE  Handed
    BY <2>2, <2>11 DEF CreatePool
  <2> HIDE DEF Handed
  <2>12. CASE item' = item
    BY <2>2, <2>12
  <2> QED
    BY <2>1, <2>3, <2>4, <2>5, <2>6, <2>7, <2>8, <2>9, <2>10, <2>11, <2>12, PoolSteps
<1> QED
  BY <1>1, <1>2, GradingReferences, InitLocks, PTL DEF GradingSpec, NoWorkFromClosedPool

---------------------------------------------------------------------------
(* One active work item per question                                       *)

\* Two requests never hand out the same work.
LEMMA OthersWork ==
  ASSUME TypeInv, LockInv, OnePlace, NEW q \in Requests, NEW r \in Requests, q # r,
         request[q].op = "ITEMS", request[r].op = "ITEMS",
         NEW k \in DOMAIN request[q].items, NEW l \in DOMAIN request[r].items
  PROVE  ~SameWork(request[q].items[k], request[r].items[l])
<1>1. /\ Holds(request[q]) /\ Holds(request[r]) /\ Apart(request[q], request[r])
  BY DEF LockInv
<1>2. request[q].pool \in profile.pools /\ request[r].pool \in profile.pools
  BY <1>1 DEF LockInv, InUse, Holds, None
<1>3. "assign" \notin profile.calls
  BY <1>1, <1>2 DEF OnePlace, Apart
<1> QED  BY <1>1, <1>3 DEF Holds, Apart, SameWork

\* A step that hands out nothing and leaves the items what they are.
LEMMA OnesStay ==
  ASSUME TypeInv, OneInv, profile' = profile, DOMAIN item' = DOMAIN item,
         \A i \in DOMAIN item :
           /\ item'[i].run = item[i].run /\ item'[i].question = item[i].question
           /\ item[i].status \in ActiveWork => item'[i].status \in ActiveWork,
         \A r \in Requests : request'[r].op = "ITEMS" => request'[r] = request[r]
  PROVE  OneInv'
<1> SUFFICES ASSUME OnePlace' PROVE OneInv'
  BY DEF OneInv
<1>1. OnePlace
  BY DEF OnePlace
<1>2. \A i \in DOMAIN item' : item'[i].status \in ActiveWork
  BY <1>1 DEF OneInv
<1>3. \A i, j \in DOMAIN item' : SameWork(item'[i], item'[j]) => i = j
  BY <1>1 DEF OneInv, SameWork
<1>4. \A r \in Requests : request'[r].op = "ITEMS" => Fresh(request[r])'
  BY <1>1 DEF OneInv, Fresh, SameWork
<1> QED  BY <1>2, <1>3, <1>4 DEF OneInv

\* A request that begins to hand out work nobody has.
LEMMA OneBegins ==
  ASSUME TypeInv, OneInv, NEW q \in Requests, Begun(q), OnePlace => Fresh(request[q])'
  PROVE  OneInv'
<1> SUFFICES ASSUME OnePlace' PROVE OneInv'
  BY DEF OneInv
<1>1. item' = item /\ OnePlace /\ \A r \in Requests : r # q => request'[r] = request[r]
  BY DEF Begun, gradingTables, OnePlace
<1>2. \A r \in Requests : request'[r].op = "ITEMS" => Fresh(request[r])'
  BY <1>1 DEF OneInv, Fresh
<1> QED  BY <1>1, <1>2 DEF OneInv

LEMMA OneKept ==
  ASSUME GradingConstants, TypeInv, LockInv, OneInv, [GradingNext]_gradingVars
  PROVE  OneInv'
<1>1. profile' = profile
  BY SettingKept
<1>2. ASSUME NEW q \in Requests, Begun(q), request'[q].op # "ITEMS" PROVE OneInv'
  <2>1. item' = item /\ \A r \in Requests : r # q => request'[r] = request[r]
    BY <1>2 DEF Begun, gradingTables
  <2> QED  BY <1>1, <1>2, <2>1, OnesStay
<1>3. ASSUME NEW q \in Requests, Done(q)
      PROVE  \A r \in Requests : request'[r].op = "ITEMS" => request'[r] = request[r]
  BY <1>3, IdleOK DEF Done
<1>4. ASSUME item' = item,
             \A r \in Requests : request'[r].op = "ITEMS" => request'[r] = request[r]
      PROVE  OneInv'
  BY <1>1, <1>4, OnesStay
<1>5. ASSUME NEW q \in Requests, NEW p \in Pools, NEW n \in DOMAIN run, Allocate(q, p, n)
      PROVE  OneInv'
  <2>1. /\ Begun(q)
        /\ \A k \in DOMAIN request'[q].items :
             /\ request'[q].items[k].pool = p /\ request'[q].items[k].run = n
             /\ Unassigned(n, request'[q].items[k].question)
        /\ \A k, l \in DOMAIN request'[q].items :
             request'[q].items[k].question = request'[q].items[l].question => k = l
    BY <1>5, AllocateBegun
  <2>2. ASSUME OnePlace PROVE Fresh(request[q])'
    <3>1. item' = item /\ \A i \in DOMAIN item : item[i].status \in ActiveWork
      BY <2>1, <2>2 DEF Begun, gradingTables, OneInv
    <3> QED  BY <2>1, <3>1 DEF Fresh, SameWork, Unassigned
  <2> QED  BY <2>1, <2>2, OneBegins
<1>6. ASSUME NEW q \in Requests, NEW p \in Pools, NEW n \in DOMAIN run, NEW u \in Questions,
             NEW g \in Graders, AssignManual(q, p, n, u, g)
      PROVE  OneInv'
  <2>1. /\ Begun(q)
        /\ DOMAIN request'[q].items = {1} /\ request'[q].items[1] = NewItem(p, n, u, g)
    BY <1>6, AssignBegun
  <2>2. ASSUME OnePlace PROVE Fresh(request[q])'
    <3>1. item' = item /\ \A i \in DOMAIN item : item[i].status \in ActiveWork
      BY <2>1, <2>2 DEF Begun, gradingTables, OneInv
    <3>2. Unassigned(n, u)
      BY <1>6 DEF AssignManual
    <3> QED  BY <2>1, <3>1, <3>2 DEF Fresh, SameWork, Unassigned, NewItem
  <2> QED  BY <2>1, <2>2, OneBegins
<1>7. ASSUME NEW q \in Requests, CommitItems(q) PROVE OneInv'
  <2> SUFFICES ASSUME OnePlace' PROVE OneInv'
    BY DEF OneInv
  <2> DEFINE new == request[q].items
  <2>1. OnePlace
    BY <1>1 DEF OnePlace
  <2>2. /\ item' = item \o new /\ new \in Seq(Items) /\ item \in Seq(Items)
        /\ request[q].op = "ITEMS"
        /\ \A k \in DOMAIN new : new[k].status = "QUEUED"
    BY <1>7 DEF CommitItems, TypeInv, TablesInv, ChangeOK, Changes
  <2>3. Fresh(request[q])
    BY <2>1, <2>2 DEF OneInv
  <2>4. /\ DOMAIN item \subseteq DOMAIN item'
        /\ \A i \in DOMAIN item : item'[i] = item[i]
        /\ \A i \in DOMAIN item' \ DOMAIN item :
             i - Len(item) \in DOMAIN new /\ item'[i] = new[i - Len(item)]
    <3> HIDE DEF new
    <3> QED  BY <2>2, Appended
  <2>5. Len(item) \in Nat /\ \A i \in DOMAIN item' : i \in Nat
    <3>1. item' \in Seq(Items)
      <4> HIDE DEF new
      <4> QED  BY <2>2
    <3> QED  BY <2>2, <3>1
  <2>6. \A i \in DOMAIN item' : item'[i].status \in ActiveWork
    BY <2>1, <2>2, <2>4 DEF OneInv, ActiveWork
  <2>7. ASSUME NEW i \in DOMAIN item', NEW j \in DOMAIN item', SameWork(item'[i], item'[j])
        PROVE  i = j
    <3>1. CASE i \in DOMAIN item /\ j \in DOMAIN item
      BY <2>1, <2>4, <2>7, <3>1 DEF OneInv
    <3>2. CASE i \in DOMAIN item /\ j \notin DOMAIN item
      BY <2>3, <2>4, <2>7, <3>2 DEF Fresh, SameWork
    <3>3. CASE i \notin DOMAIN item /\ j \in DOMAIN item
      BY <2>3, <2>4, <2>7, <3>3 DEF Fresh, SameWork
    <3>4. CASE i \notin DOMAIN item /\ j \notin DOMAIN item
      <4>1. i - Len(item) = j - Len(item)
        BY <2>3, <2>4, <2>7, <3>4 DEF Fresh
      <4> QED  BY <2>5, <4>1
    <3> QED  BY <3>1, <3>2, <3>3, <3>4
  <2>8. ASSUME NEW r \in Requests, request'[r].op = "ITEMS" PROVE Fresh(request[r])'
    <3>1. r # q /\ request'[r] = request[r]
      BY <1>7, <2>8, CommitsDone, IdleOK DEF Done
    <3>2. Fresh(request[r]) /\ request[r].op = "ITEMS"
      BY <2>1, <2>8, <3>1 DEF OneInv
    <3>3. \A k \in DOMAIN request[r].items, l \in DOMAIN new : ~SameWork(request[r].items[k], new[l])
      BY <2>1, <2>2, <3>1, <3>2, OthersWork
    <3>4. \A k \in DOMAIN request[r].items, i \in DOMAIN item' : ~SameWork(request[r].items[k], item'[i])
      <4> HIDE DEF new
      <4> QED  BY <2>4, <3>2, <3>3 DEF Fresh
    <3> QED  BY <3>1, <3>2, <3>4 DEF Fresh
  <2> QED  BY <2>6, <2>7, <2>8 DEF OneInv
<1>8. ASSUME NEW q \in Requests, CommitItem(q) PROVE OneInv'
  <2>1. /\ DOMAIN item' = DOMAIN item /\ request[q].status \in ActiveWork
        /\ \A i \in DOMAIN item :
             /\ item'[i].run = item[i].run /\ item'[i].question = item[i].question
             /\ item'[i].status = IF i = request[q].of THEN request[q].status
                                  ELSE item[i].status
    BY <1>8, CommitItemEffect DEF ActiveWork
  <2>2. Done(q)
    BY <1>8, CommitsDone
  <2> QED  BY <1>1, <1>3, <2>1, <2>2, OnesStay
<1>9. ASSUME NEW n \in DOMAIN run, ModerationReturns(n) \/ ModerationApproves(n) PROVE OneInv'
  BY <1>1, <1>9 DEF ModerationReturns, ModerationApproves, OneInv, OnePlace
<1>10. ASSUME NEW q \in Requests, NEW i \in DOMAIN item, StartWork(q, i) \/ SubmitWork(q, i)
       PROVE  OneInv'
  <2>1. Begun(q) /\ request'[q].op = "ITEM"
    BY <1>10, ItemBegun DEF StartWork, SubmitWork
  <2> QED  BY <1>2, <2>1
<1>11. ASSUME NEW q \in Requests, NEW p \in Pools, ActivatePool(q, p) \/ ClosePool(q, p)
       PROVE  OneInv'
  <2>1. Begun(q) /\ request'[q].op = "POOL"
    BY <1>11, PoolBegun
  <2> QED  BY <1>2, <2>1
<1>12. ASSUME NEW q \in Requests, CommitPool(q) PROVE OneInv'
  BY <1>3, <1>4, <1>12, CommitsDone DEF CommitPool
<1>13. ASSUME NEW p \in Pools, NEW strategy \in {"MANUAL", "ROUND_ROBIN"}, CreatePool(p, strategy)
       PROVE  OneInv'
  BY <1>4, <1>13 DEF CreatePool
<1>14. ASSUME NEW q \in Requests, Begun(q),
              request'[q].op \in {"GRIEVANCE", "ACCEPT", "COPY", "DECIDE"}
       PROVE  OneInv'
  BY <1>2, <1>14
<1>15. ASSUME NEW q \in Requests, Done(q) /\ UNCHANGED <<item, pool>> PROVE OneInv'
  BY <1>3, <1>4, <1>15
<1>16. CASE UNCHANGED <<item, pool, request>>
  BY <1>4, <1>16
<1> QED
  BY <1>5, <1>6, <1>7, <1>8, <1>9, <1>10, <1>11, <1>12, <1>13, <1>14, <1>15, <1>16, PoolSteps

\* A set without two different members has at most one.
LEMMA AtMostOne ==
  ASSUME NEW S, \A x, y \in S : x = y
  PROVE  Cardinality(S) <= 1
<1>1. CASE S = {}
  BY <1>1, FS_EmptySet
<1>2. CASE S # {}
  <2>1. PICK x : x \in S
    BY <1>2
  <2>2. S = {x}
    BY <2>1
  <2> QED  BY <2>2, FS_Singleton
<1> QED  BY <1>1, <1>2

\* Where no moderation returns work and one pool is in use, or pools only
\* allocate, a question has at most one active work item however the
\* allocations, assignments and their commits interleave.
THEOREM GradingOneItem ==
  ASSUME GradingConstants
  PROVE  GradingSpec => []OneActiveItem
<1>1. GradingInit => OneInv
  BY IdleOK DEF GradingInit, OneInv
<1>2. TypeInv /\ LockInv /\ [GradingNext]_gradingVars => LockInv'
  BY LocksKept
<1>3. TypeInv /\ LockInv /\ OneInv /\ [GradingNext]_gradingVars => OneInv'
  BY OneKept
<1>4. OneInv => OneActiveItem
  <2> SUFFICES ASSUME OneInv, OnePlace, NEW n \in DOMAIN run, NEW u \in Questions
               PROVE  Cardinality(ActiveItems(n, u)) <= 1
    BY DEF OneActiveItem, OnePlace
  <2>1. \A i, j \in ActiveItems(n, u) : i = j
    BY DEF ActiveItems, OneInv, SameWork
  <2> HIDE DEF ActiveItems
  <2> QED  BY <2>1, AtMostOne
<1> QED  BY <1>1, <1>2, <1>3, <1>4, GradingReferences, InitLocks, PTL DEF GradingSpec

---------------------------------------------------------------------------
(* Regrades                                                                *)

\* For the grievances: the steps that publish, or deal with a grievance, and
\* those that do not.
LEMMA CaseSteps ==
  ASSUME GradingConstants, TypeInv, [GradingNext]_gradingVars
  PROVE  \/ UNCHANGED <<run, published, grievance, request>>
         \/ \E q \in profile.clients :
              Begun(q) /\ request'[q].op \in {"POOL", "ITEMS", "ITEM"}
         \/ \E q \in Requests : Done(q) /\ UNCHANGED <<run, published, grievance>>
         \/ \E q \in Requests, v \in DOMAIN published : CreateGrievance(q, v)
         \/ \E q \in Requests, k \in DOMAIN grievance : AcceptRead(q, k)
         \/ \E q \in Requests, k \in DOMAIN grievance : RejectGrievance(q, k)
         \/ \E q \in Requests, k \in DOMAIN grievance : ResolveGrievance(q, k)
         \/ \E q \in Requests : AcceptFlush(q)
         \/ \E q \in Requests : CommitGrievance(q)
         \/ \E q \in Requests : AcceptCommit(q)
         \/ \E q \in Requests : CommitDecision(q)
         \/ \E n \in DOMAIN run : ModerationApproves(n)
         \/ \E n \in DOMAIN run : Publish(n)
<1>1. ASSUME NEW q \in Requests, NEW p \in Pools, ActivatePool(q, p) \/ ClosePool(q, p)
      PROVE  Begun(q) /\ request'[q].op = "POOL" /\ q \in profile.clients
  BY <1>1, PoolBegun DEF ActivatePool, ClosePool, Calls
<1>2. ASSUME NEW q \in Requests, NEW p \in Pools, NEW n \in DOMAIN run, Allocate(q, p, n)
      PROVE  Begun(q) /\ request'[q].op = "ITEMS" /\ q \in profile.clients
  <2>1. q \in profile.clients
    BY <1>2 DEF Allocate, Calls
  <2> QED  BY <1>2, <2>1, AllocateBegun
<1>3. ASSUME NEW q \in Requests, NEW p \in Pools, NEW n \in DOMAIN run, NEW u \in Questions,
             NEW g \in Graders, AssignManual(q, p, n, u, g)
      PROVE  Begun(q) /\ request'[q].op = "ITEMS" /\ q \in profile.clients
  <2>1. q \in profile.clients
    BY <1>3 DEF AssignManual, Calls
  <2> QED  BY <1>3, <2>1, AssignBegun
<1>4. ASSUME NEW q \in Requests, NEW i \in DOMAIN item, StartWork(q, i) \/ SubmitWork(q, i)
      PROVE  Begun(q) /\ request'[q].op = "ITEM" /\ q \in profile.clients
  <2>1. q \in profile.clients
    BY <1>4 DEF StartWork, SubmitWork, Calls
  <2> QED  BY <1>4, <2>1, ItemBegun DEF StartWork, SubmitWork
<1>5. ASSUME NEW q \in Requests, CommitPool(q) \/ CommitItems(q) \/ CommitItem(q)
      PROVE  Done(q) /\ UNCHANGED <<run, published, grievance>>
  BY <1>5, CommitsDone DEF CommitPool, CommitItems, CommitItem
<1>6. ASSUME NEW p \in Pools, NEW strategy \in {"MANUAL", "ROUND_ROBIN"}, CreatePool(p, strategy)
      PROVE  UNCHANGED <<run, published, grievance, request>>
  BY <1>6 DEF CreatePool
<1>7. ASSUME NEW p \in Pools, NEW g \in Graders, AddMember(p, g)
      PROVE  UNCHANGED <<run, published, grievance, request>>
  BY <1>7 DEF AddMember
<1>8. ASSUME NEW n \in DOMAIN run, NEW u \in Questions,
             Escalate(n, u) \/ \E g \in Graders : Review(n, u, g)
      PROVE  UNCHANGED <<run, published, grievance, request>>
  BY <1>8 DEF Review, Escalate
<1>9. ASSUME NEW n \in DOMAIN run, ModerationReturns(n)
      PROVE  UNCHANGED <<run, published, grievance, request>>
  BY <1>9 DEF ModerationReturns
<1>10. CASE UNCHANGED gradingVars
  BY <1>10 DEF gradingVars, gradingTables
<1> QED
  BY <1>1, <1>2, <1>3, <1>4, <1>5, <1>6, <1>7, <1>8, <1>9, <1>10, NextSteps

\* The invariant of one grievance: the run that was created for it is its own,
\* and that of the result is superseded.
Replaced(k) == Accepted(k) => /\ run[grievance[k].run].grievance = k
                              /\ ~Live(published[grievance[k].result].run)

LEMMA ReplacedStays ==
  ASSUME TypeInv, Kept, NEW k \in DOMAIN grievance, Replaced(k),
         grievance'[k].run = grievance[k].run
  PROVE  Replaced(k)'
<1> SUFFICES ASSUME Accepted(k)
             PROVE  /\ run'[grievance'[k].run].grievance = k
                    /\ ~Live(published[grievance[k].result].run)'
  BY DEF Replaced, Accepted
<1>1. grievance[k].run \in DOMAIN run
  <2>1. /\ run \in Seq(RunRows) /\ Len(run) \in Nat /\ grievance[k].run \in 0 .. Len(run)
        /\ DOMAIN run = 1 .. Len(run)
    BY DEF TypeInv, TablesInv
  <2> QED  BY <2>1 DEF Accepted
<1>2. /\ grievance'[k].result = grievance[k].result
      /\ grievance[k].result \in DOMAIN published
      /\ published[grievance[k].result].run \in DOMAIN run
  BY DEF Kept, TypeInv, TablesInv
<1>3. published'[grievance[k].result].run = published[grievance[k].result].run
  BY <1>2 DEF Kept
<1>4. ~Live(published[grievance[k].result].run)
  BY DEF Replaced
<1>5. (~Live(published[grievance[k].result].run))'
  BY <1>2, <1>3, <1>4 DEF Kept, Live
<1> QED  BY <1>1, <1>5 DEF Replaced, Kept

LEMMA RegradesReplace ==
  RegradeSupersedes <=> \A k \in DOMAIN grievance : Replaced(k)
BY DEF RegradeSupersedes, Replaced, Accepted, Live

LEMMA RegradeKept ==
  ASSUME GradingConstants, TypeInv, RegradeSupersedes, [GradingNext]_gradingVars
  PROVE  RegradeSupersedes'
<1>1. Kept /\ TypeInv'
  BY TypesKept
<1>2. ASSUME DOMAIN grievance' = DOMAIN grievance,
             \A k \in DOMAIN grievance : grievance'[k].run = grievance[k].run
      PROVE  RegradeSupersedes'
  BY <1>1, <1>2, ReplacedStays, RegradesReplace DEF RegradeSupersedes, Replaced, Accepted, Live
<1>3. ASSUME NEW q \in Requests, CommitGrievance(q) PROVE RegradeSupersedes'
  <2>1. /\ DOMAIN grievance' = DOMAIN grievance \cup {Len(grievance) + 1}
        /\ \A k \in DOMAIN grievance : grievance'[k] = grievance[k]
        /\ grievance'[Len(grievance) + 1] =
             [result |-> request[q].of, status |-> "SUBMITTED", run |-> 0]
    BY <1>3, CommitGrievanceEffect
  <2>2. ASSUME NEW k \in DOMAIN grievance' PROVE Replaced(k)'
    <3>1. CASE k \in DOMAIN grievance
      BY <1>1, <2>1, <3>1, ReplacedStays, RegradesReplace
    <3>2. CASE k \notin DOMAIN grievance
      BY <2>1, <2>2, <3>2 DEF Replaced, Accepted
    <3> QED  BY <3>1, <3>2
  <2> QED  BY <2>2 DEF RegradeSupersedes, Replaced, Accepted, Live
<1>4. ASSUME NEW q \in Requests, AcceptCommit(q) PROVE RegradeSupersedes'
  <2>1. CASE UNCHANGED <<run, row, grievance>>
    BY <1>2, <2>1
  <2>2. CASE Regraded(request[q].of, request[q].original)
    <3>0. PICK g, original : g = request[q].of /\ original = request[q].original
      OBVIOUS
    <3>1. published' = published
      BY <1>4 DEF AcceptCommit
    <3>2. /\ Regraded(g, original) /\ DOMAIN grievance' = DOMAIN grievance
      BY <2>2, <3>0 DEF Regraded
    <3>3. ASSUME NEW k \in DOMAIN grievance, k # g PROVE Replaced(k)'
      <4>1. grievance'[k].run = grievance[k].run
        BY <3>2, <3>3 DEF Regraded
      <4> QED  BY <1>1, <4>1, ReplacedStays, RegradesReplace
    <3>4. Replaced(g)'
      <4>1. grievance'[g].run = Len(run) + 1 /\ run'[Len(run) + 1].grievance = g
        BY <3>2 DEF Regraded
      <4>2. published'[grievance'[g].result].run = original
        BY <3>1, <3>2 DEF Regraded
      <4>3. run'[original].status = "SUPERSEDED"
        BY <3>2 DEF Regraded
      <4> QED  BY <4>1, <4>2, <4>3 DEF Replaced, Live
    <3>5. \A k \in DOMAIN grievance' : Replaced(k)'
      BY <3>2, <3>3, <3>4
    <3> QED  BY <3>5 DEF RegradeSupersedes, Replaced, Accepted, Live
  <2> QED  BY <1>4, <2>1, <2>2, AcceptCommitEffect
<1>5. ASSUME NEW q \in Requests, CommitDecision(q) PROVE RegradeSupersedes'
  BY <1>2, <1>5, DecisionEffect
<1>6. ASSUME NEW q \in Requests, Begun(q) PROVE RegradeSupersedes'
  BY <1>2, <1>6 DEF Begun, gradingTables
<1>7. ASSUME grievance' = grievance PROVE RegradeSupersedes'
  BY <1>2, <1>7
<1>8. ASSUME NEW q \in Requests, NEW v \in DOMAIN published, CreateGrievance(q, v)
      PROVE  Begun(q)
  BY <1>8, CreateBegun
<1>9. ASSUME NEW q \in Requests, NEW k \in DOMAIN grievance, AcceptRead(q, k) PROVE Begun(q)
  BY <1>9, AcceptBegun
<1>10. ASSUME NEW q \in Requests, NEW k \in DOMAIN grievance,
              RejectGrievance(q, k) \/ ResolveGrievance(q, k)
       PROVE  Begun(q)
  BY <1>10, DecideBegun DEF RejectGrievance, ResolveGrievance
<1>11. ASSUME NEW q \in Requests, AcceptFlush(q) PROVE Begun(q)
  BY <1>11, FlushBegun
<1>12. ASSUME NEW n \in DOMAIN run, ModerationApproves(n) \/ Publish(n)
       PROVE  grievance' = grievance
  BY <1>12 DEF ModerationApproves, Publish
<1>13. ASSUME NEW q \in profile.clients, Begun(q) PROVE RegradeSupersedes'
  BY <1>2, <1>13 DEF Begun, gradingTables
<1> QED
  BY <1>3, <1>4, <1>5, <1>6, <1>7, <1>8, <1>9, <1>10, <1>11, <1>12, <1>13, CaseSteps

\* A grievance under re-evaluation names the run that was created for it, and
\* the run of the result it is about is superseded, also when two requests
\* accept grievances at the same time.
THEOREM GradingRegrades ==
  ASSUME GradingConstants
  PROVE  GradingSpec => []RegradeSupersedes
<1>1. GradingInit => RegradeSupersedes
  BY DEF GradingInit, RegradeSupersedes
<1>2. TypeInv /\ RegradeSupersedes /\ [GradingNext]_gradingVars => RegradeSupersedes'
  BY RegradeKept
<1> QED  BY <1>1, <1>2, GradingReferences, PTL DEF GradingSpec

---------------------------------------------------------------------------
(* One live run, with one client                                           *)

\* The client's request is the only one, and comes from an idle session.
LEMMA OnlyClient ==
  ASSUME TypeInv, SerialInv, NEW c \in Requests, Only(c), NEW q \in Requests,
         request[q].op # "IDLE" \/ q \in profile.clients
  PROVE  q = c
BY DEF SerialInv, Only

\* The runs are as live, and the grievances as open, as they were.
LEMMA RegradesStay ==
  ASSUME TypeInv, TypeInv', Kept, Regrades, DOMAIN run' = DOMAIN run,
         \A n \in DOMAIN run : Live(n)' <=> Live(n),
         DOMAIN published' = DOMAIN published, DOMAIN grievance' = DOMAIN grievance,
         \A k \in DOMAIN grievance :
           /\ grievance'[k].run = grievance[k].run
           /\ grievance'[k].status # grievance[k].status =>
                /\ grievance'[k].status \in {"REJECTED", "RESOLVED"}
                /\ Accepted(k) => grievance'[k].status = "RESOLVED"
  PROVE  Regrades'
<1>1. \A v \in DOMAIN published : /\ published'[v].run = published[v].run
                                  /\ published[v].run \in DOMAIN run
  BY DEF Kept, TypeInv, TablesInv
<1>2. ASSUME NEW k \in DOMAIN grievance
      PROVE  /\ grievance'[k].result = grievance[k].result
             /\ Accepted(k)' <=> Accepted(k)
             /\ Pending(k)' => Pending(k)
  BY DEF Kept, Accepted, Pending
<1>3. \A n, m \in DOMAIN run' : Live(n)' /\ Live(m)' => n = m
  BY DEF Regrades
<1>4. \A v, w \in DOMAIN published' : published'[v].run = published'[w].run => v = w
  BY <1>1 DEF Regrades
<1>5. \A k \in DOMAIN grievance' : Accepted(k)' =>
        grievance'[k].status \in {"RE_EVALUATING", "RESOLVED"}
  BY <1>2 DEF Regrades
<1>6. \A k, l \in DOMAIN grievance' :
        /\ grievance'[k].result = grievance'[l].result
        /\ Accepted(k)' \/ Pending(k)'
        /\ Accepted(l)' \/ Pending(l)'
        => k = l
  BY <1>2 DEF Regrades
<1>7. ASSUME NEW v \in DOMAIN published
      PROVE  \/ (run'[published'[v].run].status # "SUPERSEDED")
             \/ \E k \in DOMAIN grievance' : grievance'[k].result = v /\ Accepted(k)'
  <2>1. CASE Live(published[v].run)
    BY <1>1, <2>1 DEF Live
  <2>2. CASE \E k \in DOMAIN grievance : grievance[k].result = v /\ Accepted(k)
    BY <1>2, <2>2
  <2> QED  BY <2>1, <2>2 DEF Regrades
<1> QED  BY <1>3, <1>4, <1>5, <1>6, <1>7 DEF Regrades, Live, Accepted, Pending

\* Requests end, and what the client deals with is as it was.
LEMMA SerialStays ==
  ASSUME SerialInv, profile' = profile, Regrades => Regrades',
         \A q \in Requests : request'[q].op = "IDLE"
           \/ (request'[q] = request[q] /\ UNCHANGED grievance)
  PROVE  SerialInv'
<1> SUFFICES ASSUME NEW c \in Requests, Only(c)
             PROVE  /\ \A q \in Requests : q # c => request'[q].op = "IDLE"
                    /\ Regrades'
                    /\ Deals(request[c])'
  BY DEF SerialInv, Only
<1>1. \A q \in Requests : q # c => request'[q].op = "IDLE"
  BY DEF SerialInv
<1>2. Deals(request[c])'
  BY DEF SerialInv, Deals, Pending, Accepted
<1>3. Regrades'
  BY DEF SerialInv
<1> QED  BY <1>1, <1>2, <1>3

\* The client begins to deal with a grievance.
LEMMA SerialBegins ==
  ASSUME TypeInv, SerialInv, NEW q \in Requests, Begun(q),
         \/ q \in profile.clients
         \/ request[q].op # "IDLE",
         Regrades /\ (Only(q) => Deals(request[q])) => Deals(request[q])'
  PROVE  SerialInv'
<1> SUFFICES ASSUME NEW c \in Requests, Only(c)
             PROVE  /\ \A r \in Requests : r # c => request'[r].op = "IDLE"
                    /\ Regrades'
                    /\ Deals(request[c])'
  BY DEF SerialInv, Only, Begun
<1>1. q = c
  BY OnlyClient
<1>2. /\ UNCHANGED <<run, published, grievance>>
      /\ \A r \in Requests : r # q => request'[r] = request[r]
  BY DEF Begun, gradingTables
<1>3. \A r \in Requests : r # c => request'[r].op = "IDLE"
  BY <1>1, <1>2 DEF SerialInv
<1>4. Regrades /\ Deals(request[c])
  BY DEF SerialInv
<1>5. Regrades'
  BY <1>2, <1>4 DEF Regrades, Live, Accepted, Pending
<1> QED  BY <1>1, <1>3, <1>4, <1>5

\* The commit of an accept: with one client the run it supersedes was the live one.
LEMMA RegradedSerial ==
  ASSUME TypeInv, Regrades, NEW k, NEW original, Regraded(k, original), Pending(k),
         published' = published
  PROVE  Regrades'
<1>1. /\ k \in DOMAIN grievance /\ original = published[grievance[k].result].run
      /\ grievance[k].result \in DOMAIN published /\ original \in DOMAIN run
      /\ ~Accepted(k)
  BY DEF Regraded, TypeInv, TablesInv, Regrades, Pending
<1>2. ASSUME NEW j \in DOMAIN grievance
      PROVE  /\ grievance'[j].result = grievance[j].result
             /\ Accepted(j)' <=> (j = k \/ Accepted(j))
             /\ Pending(j)' <=> (j # k /\ Pending(j))
  <2>1. Len(run) + 1 # 0
    BY DEF TypeInv, TablesInv
  <2> QED  BY <2>1 DEF Regraded, Accepted, Pending
<1>3. Live(original)
  <2>1. \A j \in DOMAIN grievance : grievance[j].result = grievance[k].result => ~Accepted(j)
    BY <1>1 DEF Regrades
  <2> QED  BY <1>1, <2>1 DEF Regrades
<1>4. \A n \in DOMAIN run' : Live(n)' => n = Len(run) + 1
  <2>1. \A n \in DOMAIN run : n # original => ~Live(n)
    BY <1>1, <1>3 DEF Regrades
  <2>2. \A n \in DOMAIN run : ~Live(n)'
    BY <2>1 DEF Regraded, Live
  <2> QED  BY <2>2 DEF Regraded
<1>5. ASSUME NEW v \in DOMAIN published'
      PROVE  \E j \in DOMAIN grievance' : grievance'[j].result = v /\ Accepted(j)'
  <2>1. CASE v = grievance[k].result
    BY <1>1, <1>2, <2>1 DEF Regraded
  <2>2. CASE v # grievance[k].result
    <3>1. published[v].run # original /\ published[v].run \in DOMAIN run
      BY <1>1, <2>2 DEF Regrades, TypeInv, TablesInv
    <3>2. ~Live(published[v].run)
      BY <1>1, <1>3, <3>1 DEF Regrades
    <3>3. PICK j \in DOMAIN grievance : grievance[j].result = v /\ Accepted(j)
      BY <3>2 DEF Regrades
    <3> QED  BY <1>2, <3>3 DEF Regraded
  <2> QED  BY <2>1, <2>2
<1>6. \A j \in DOMAIN grievance' : Accepted(j)' =>
        grievance'[j].status \in {"RE_EVALUATING", "RESOLVED"}
  BY <1>2 DEF Regraded, Regrades
<1>7. \A j, l \in DOMAIN grievance' :
        /\ grievance'[j].result = grievance'[l].result
        /\ Accepted(j)' \/ Pending(j)'
        /\ Accepted(l)' \/ Pending(l)'
        => j = l
  BY <1>1, <1>2 DEF Regraded, Regrades
<1>8. \A v, w \in DOMAIN published' : published'[v].run = published'[w].run => v = w
  BY DEF Regrades
<1>9. \A n, m \in DOMAIN run' : Live(n)' /\ Live(m)' => n = m
  BY <1>4
<1> QED  BY <1>5, <1>6, <1>7, <1>8, <1>9 DEF Regrades, Live, Accepted, Pending

LEMMA SerialKept ==
  ASSUME GradingConstants, TypeInv, SerialInv, [GradingNext]_gradingVars
  PROVE  SerialInv'
<1>1. profile' = profile /\ TypeInv' /\ Kept
  BY SettingKept, TypesKept
<1>2. ASSUME UNCHANGED <<run, published, grievance>> PROVE Regrades => Regrades'
  BY <1>2 DEF Regrades, Live, Accepted, Pending
<1>3. ASSUME NEW q \in Requests, Done(q), Regrades => Regrades', UNCHANGED grievance
      PROVE  SerialInv'
  <2>1. \A r \in Requests : request'[r].op = "IDLE" \/ (request'[r] = request[r] /\ UNCHANGED grievance)
    BY <1>3, IdleOK DEF Done
  <2> QED  BY <1>1, <1>3, <2>1, SerialStays
<1>4. ASSUME NEW q \in Requests, Done(q), request[q].op # "IDLE",
             Only(q) /\ Regrades => Regrades'
      PROVE  SerialInv'
  <2> SUFFICES ASSUME NEW c \in Requests, Only(c)
               PROVE  /\ \A r \in Requests : r # c => request'[r].op = "IDLE"
                      /\ Regrades'
                      /\ Deals(request[c])'
    BY <1>1 DEF SerialInv, Only
  <2>1. q = c
    BY <1>4, OnlyClient
  <2>2. \A r \in Requests : request'[r].op = "IDLE"
    BY <1>4, <2>1, IdleOK DEF Done, SerialInv
  <2>3. Deals(request[c])'
    BY <2>2 DEF Deals
  <2> QED  BY <1>4, <2>1, <2>2, <2>3 DEF SerialInv
<1>5. ASSUME request' = request, grievance' = grievance, Regrades => Regrades' PROVE SerialInv'
  BY <1>1, <1>5, SerialStays
<1>6. CASE UNCHANGED <<run, published, grievance, request>>
  BY <1>2, <1>5, <1>6
<1>7. ASSUME NEW q \in profile.clients, Begun(q), request'[q].op \in {"POOL", "ITEMS", "ITEM"}
      PROVE  SerialInv'
  <2>1. Deals(request[q])'
    BY <1>7 DEF Deals
  <2>2. ASSUME NEW c \in Requests, Only(c) PROVE q \in Requests
    BY <2>2 DEF Only
  <2>3. CASE q \in Requests
    BY <1>7, <2>1, <2>3, SerialBegins
  <2>4. CASE q \notin Requests
    BY <1>1, <2>2, <2>4 DEF SerialInv, Only
  <2> QED  BY <2>3, <2>4
<1>8. ASSUME NEW q \in Requests, Done(q) /\ UNCHANGED <<run, published, grievance>>
      PROVE  SerialInv'
  BY <1>2, <1>3, <1>8
<1>9. ASSUME NEW q \in Requests, NEW v \in DOMAIN published, CreateGrievance(q, v)
      PROVE  SerialInv'
  <2>1. /\ Begun(q) /\ request'[q].op = "GRIEVANCE" /\ request'[q].of = v
        /\ grievance' = grievance
    BY <1>9, CreateBegun DEF Begun, gradingTables
  <2>2. q \in profile.clients
    BY <1>9 DEF CreateGrievance, Calls
  <2>3. \A k \in DOMAIN grievance : grievance[k].result = v =>
          grievance[k].status \notin {"SUBMITTED", "RE_EVALUATING", "RESOLVED"}
    BY <1>9 DEF CreateGrievance, ActiveGrievance
  <2>4. Regrades => Deals(request[q])'
    BY <2>1, <2>3 DEF Deals, Regrades, Accepted, Pending
  <2> QED  BY <2>1, <2>2, <2>4, SerialBegins
<1>10. ASSUME NEW q \in Requests, NEW k \in DOMAIN grievance, AcceptRead(q, k) PROVE SerialInv'
  <2>1. /\ Begun(q) /\ request'[q].op = "ACCEPT" /\ request'[q].of = k
        /\ grievance' = grievance
    BY <1>10, AcceptBegun DEF Begun, gradingTables
  <2>2. q \in profile.clients /\ Pending(k)
    BY <1>10 DEF AcceptRead, Calls, Pending
  <2>3. Deals(request[q])'
    BY <2>1, <2>2 DEF Deals, Pending
  <2> QED  BY <2>1, <2>2, <2>3, SerialBegins
<1>11. ASSUME NEW q \in Requests, NEW k \in DOMAIN grievance, RejectGrievance(q, k)
       PROVE  SerialInv'
  <2>1. /\ Begun(q) /\ request'[q].op = "DECIDE" /\ request'[q].of = k
        /\ grievance' = grievance
    BY <1>11, DecideBegun DEF RejectGrievance, Begun, gradingTables
  <2>2. q \in profile.clients /\ Pending(k)
    BY <1>11 DEF RejectGrievance, Calls, Pending
  <2>3. Deals(request[q])'
    BY <2>1, <2>2 DEF Deals, Pending
  <2> QED  BY <2>1, <2>2, <2>3, SerialBegins
<1>12. ASSUME NEW q \in Requests, NEW k \in DOMAIN grievance, ResolveGrievance(q, k)
       PROVE  SerialInv'
  <2>1. Begun(q) /\ request'[q].op = "DECIDE" /\ request'[q].status = "RESOLVED"
    BY <1>12, DecideBegun DEF ResolveGrievance
  <2>2. q \in profile.clients
    BY <1>12 DEF ResolveGrievance, Calls
  <2>3. Deals(request[q])'
    BY <2>1 DEF Deals
  <2> QED  BY <2>1, <2>2, <2>3, SerialBegins
<1>13. ASSUME NEW q \in Requests, AcceptFlush(q) PROVE SerialInv'
  <2>1. /\ Begun(q) /\ request'[q].op = "COPY" /\ request'[q].of = request[q].of
        /\ request[q].op = "ACCEPT" /\ grievance' = grievance
    BY <1>13, FlushBegun DEF Begun, gradingTables
  <2> SUFFICES ASSUME NEW c \in Requests, Only(c) PROVE SerialInv'
    BY <1>1 DEF SerialInv, Only
  <2>2. q = c
    BY <2>1, OnlyClient
  <2>3. Deals(request[q])
    BY <2>2 DEF SerialInv
  <2>4. Deals(request[q])'
    BY <2>1, <2>3 DEF Deals, Pending
  <2> QED  BY <2>1, <2>4, SerialBegins
<1>14. ASSUME NEW q \in Requests, CommitGrievance(q) PROVE SerialInv'
  <2>1. Done(q) /\ request[q].op = "GRIEVANCE" /\ UNCHANGED <<run, published>>
    BY <1>14, CommitsDone DEF CommitGrievance
  <2>2. /\ DOMAIN grievance' = DOMAIN grievance \cup {Len(grievance) + 1}
        /\ \A k \in DOMAIN grievance : grievance'[k] = grievance[k]
        /\ grievance'[Len(grievance) + 1] =
             [result |-> request[q].of, status |-> "SUBMITTED", run |-> 0]
    BY <1>14, CommitGrievanceEffect
  <2>3. /\ grievance'[Len(grievance) + 1].result = request[q].of
        /\ grievance'[Len(grievance) + 1].status = "SUBMITTED"
        /\ grievance'[Len(grievance) + 1].run = 0
    BY <2>2
  <2>4. ASSUME Only(q), Regrades PROVE Regrades'
    <3>1. \A k \in DOMAIN grievance : grievance[k].result = request[q].of =>
            ~Accepted(k) /\ ~Pending(k)
      BY <2>1, <2>4 DEF SerialInv, Deals
    <3>2. \A k \in DOMAIN grievance' : Accepted(k)' =>
            grievance'[k].status \in {"RE_EVALUATING", "RESOLVED"}
      BY <2>2, <2>3, <2>4 DEF Regrades, Accepted
    <3>3. \A k, l \in DOMAIN grievance' :
            /\ grievance'[k].result = grievance'[l].result
            /\ Accepted(k)' \/ Pending(k)'
            /\ Accepted(l)' \/ Pending(l)'
            => k = l
      BY <2>2, <2>3, <2>4, <3>1 DEF Regrades, Accepted, Pending
    <3>4. \A v \in DOMAIN published : Live(published[v].run) \/
            \E k \in DOMAIN grievance' : grievance'[k].result = v /\ Accepted(k)'
      BY <2>2, <2>4 DEF Regrades, Accepted
    <3> QED  BY <2>1, <2>4, <3>2, <3>3, <3>4 DEF Regrades, Live, Accepted, Pending
  <2> QED  BY <1>4, <2>1, <2>4
<1>15. ASSUME NEW q \in Requests, AcceptCommit(q) PROVE SerialInv'
  <2>1. Done(q) /\ request[q].op = "COPY" /\ published' = published
    BY <1>15, CommitsDone DEF AcceptCommit
  <2>2. ASSUME Only(q), Regrades PROVE Regrades'
    <3>1. CASE UNCHANGED <<run, row, grievance>>
      BY <1>2, <2>1, <2>2, <3>1
    <3>2. CASE Regraded(request[q].of, request[q].original)
      <4>1. Pending(request[q].of)
        BY <2>1, <2>2 DEF SerialInv, Deals
      <4> QED  BY <2>1, <2>2, <3>2, <4>1, RegradedSerial
    <3> QED  BY <1>15, <3>1, <3>2, AcceptCommitEffect
  <2> QED  BY <1>4, <2>1, <2>2
<1>16. ASSUME NEW q \in Requests, CommitDecision(q) PROVE SerialInv'
  <2>1. Done(q) /\ request[q].op = "DECIDE" /\ UNCHANGED <<run, published>>
    BY <1>16, CommitsDone DEF CommitDecision
  <2>2. /\ DOMAIN grievance' = DOMAIN grievance
        /\ request[q].of \in DOMAIN grievance /\ request[q].status \in {"REJECTED", "RESOLVED"}
        /\ \A k \in DOMAIN grievance :
             /\ grievance'[k].run = grievance[k].run
             /\ grievance'[k].status = IF k = request[q].of THEN request[q].status
                                       ELSE grievance[k].status
    BY <1>16, DecisionEffect
  <2>3. ASSUME Only(q), Regrades PROVE Regrades'
    <3>1. request[q].status = "REJECTED" => ~Accepted(request[q].of)
      BY <2>1, <2>2, <2>3 DEF SerialInv, Deals, Pending, Regrades
    <3>2. \A n \in DOMAIN run : Live(n)' <=> Live(n)
      BY <2>1 DEF Live
    <3> QED  BY <1>1, <2>1, <2>2, <2>3, <3>1, <3>2, RegradesStay
  <2> QED  BY <1>4, <2>1, <2>3
<1>17. ASSUME NEW n \in DOMAIN run, ModerationApproves(n) PROVE SerialInv'
  <2>1. /\ request' = request /\ grievance' = grievance /\ published' = published
        /\ DOMAIN run' = DOMAIN run /\ \A m \in DOMAIN run : Live(m)' <=> Live(m)
    BY <1>17, ApprovesEffect DEF ModerationApproves
  <2>2. Regrades => Regrades'
    BY <1>1, <2>1, RegradesStay
  <2> QED  BY <1>5, <2>1, <2>2
<1>18. ASSUME NEW n \in DOMAIN run, Publish(n) PROVE SerialInv'
  <2>1. /\ request' = request /\ grievance' = grievance /\ run' = run
        /\ run[n].status = "COMPLETED" /\ \A v \in DOMAIN published : published[v].run # n
        /\ DOMAIN published' = DOMAIN published \cup {Len(published) + 1}
        /\ published'[Len(published) + 1].run = n
    BY <1>18, PublishEffect DEF Publish
  <2>2. \A v \in DOMAIN published : published'[v].run = published[v].run
    BY <1>1 DEF Kept
  <2>3. ASSUME Regrades PROVE Regrades'
    <3>1. \A v, w \in DOMAIN published' : published'[v].run = published'[w].run => v = w
      BY <2>1, <2>2, <2>3 DEF Regrades
    <3>2. \A v \in DOMAIN published' : Live(published'[v].run) \/
            \E k \in DOMAIN grievance : grievance[k].result = v /\ Accepted(k)
      BY <2>1, <2>2, <2>3 DEF Regrades, Live
    <3> QED  BY <2>1, <2>3, <3>1, <3>2 DEF Regrades, Live, Accepted, Pending
  <2> QED  BY <1>5, <2>1, <2>3
<1> QED
  BY <1>6, <1>7, <1>8, <1>9, <1>10, <1>11, <1>12, <1>13, <1>14, <1>15, <1>16, <1>17, <1>18,
     CaseSteps

\* With one client at a time the submission has at most one run that is not
\* superseded, through any number of grievances and regrades.
THEOREM GradingOneLiveRun ==
  ASSUME GradingConstants
  PROVE  GradingSpec => []OneLiveRun
<1>1. GradingInit => SerialInv /\ profile \in GradingSettings
  <2> SUFFICES ASSUME GradingInit PROVE SerialInv /\ profile \in GradingSettings
    OBVIOUS
  <2>1. /\ \A q \in Requests : request[q].op = "IDLE"
        /\ DOMAIN run = {1} /\ run[1].status # "SUPERSEDED" /\ grievance = << >>
        /\ DOMAIN published \subseteq {1} /\ \A v \in DOMAIN published : published[v].run = 1
    BY IdleOK DEF GradingInit
  <2>2. Regrades
    BY <2>1 DEF Regrades, Live
  <2> QED  BY <2>1, <2>2 DEF SerialInv, Deals, GradingInit
<1>2. TypeInv /\ SerialInv /\ [GradingNext]_gradingVars => SerialInv'
  BY SerialKept
<1>3. profile \in GradingSettings /\ [GradingNext]_gradingVars => (profile \in GradingSettings)'
  BY SettingKept
<1>4. profile \in GradingSettings /\ SerialInv => OneLiveRun
  <2> SUFFICES ASSUME profile \in GradingSettings, SerialInv, Serial
               PROVE  Cardinality({n \in DOMAIN run : run[n].status # "SUPERSEDED"}) <= 1
    BY DEF OneLiveRun
  <2>1. IsFiniteSet(profile.clients) /\ Cardinality(profile.clients) = 1
        /\ profile.clients \subseteq Requests
    BY DEF GradingConstants, Serial
  <2>2. PICK c \in Requests : Only(c)
    <3>1. \E c : profile.clients = {c}
      BY <2>1, FS_Singleton
    <3> QED  BY <2>1, <3>1 DEF Only
  <2> DEFINE live == {n \in DOMAIN run : run[n].status # "SUPERSEDED"}
  <2>3. \A n, m \in live : n = m
    BY <2>2 DEF SerialInv, Regrades, Live
  <2> HIDE DEF live
  <2> QED  BY <2>3, AtMostOne DEF live
<1> QED  BY <1>1, <1>2, <1>3, <1>4, GradingReferences, PTL DEF GradingSpec

---------------------------------------------------------------------------
(* An allocation is even                                                   *)

\* The remainder is the r of x = m * p + r.
LEMMA ModOf ==
  ASSUME NEW m \in Nat \ {0}, NEW x \in Nat, NEW p \in Int, NEW r \in 0 .. m - 1,
         x = m * p + r
  PROVE  x % m = r
<1>1. x = m * (x \div m) + (x % m) /\ x \div m \in Int /\ x % m \in 0 .. m - 1
  OBVIOUS
<1> DEFINE q == x \div m
           s == x % m
<1>2. m * p + r = m * q + s /\ q \in Int /\ s \in 0 .. m - 1
  BY <1>1
<1> HIDE DEF q, s
<1>3. m * (p - q) = s - r
  BY <1>2
<1>4. CASE p = q
  BY <1>2, <1>4
<1>5. CASE p > q
  <2>1. PICK d \in Nat : p - q = d + 1
    BY <1>2, <1>5
  <2>2. m * (d + 1) = m * d + m /\ m * d >= 0
    OBVIOUS
  <2> QED  BY <1>2, <1>3, <2>1, <2>2
<1>6. CASE p < q
  <2>1. PICK d \in Nat : p - q = -(d + 1)
    BY <1>2, <1>6
  <2>2. m * (-(d + 1)) = -(m * d) - m /\ m * d >= 0
    OBVIOUS
  <2> QED  BY <1>2, <1>3, <2>1, <2>2
<1> HIDE DEF q
<1>7. r = s
  BY <1>2, <1>4, <1>5, <1>6
<1> QED  BY <1>7 DEF s

\* Dealing N questions to m members in turn gives the member at place a at most
\* one more than the member at place b.
LEMMA DealtEvenly ==
  ASSUME NEW N \in Nat, NEW m \in Nat \ {0}, NEW a \in 1 .. m, NEW b \in 1 .. m
  PROVE  Cardinality({k \in 1 .. N : ((k - 1) % m) + 1 = a}) <=
           Cardinality({k \in 1 .. N : ((k - 1) % m) + 1 = b}) + 1
<1> DEFINE At(c) == {k \in 1 .. N : ((k - 1) % m) + 1 = c}
<1>1. IsFiniteSet(At(a)) /\ IsFiniteSet(At(b))
  <2>1. IsFiniteSet(1 .. N)
    BY FS_Interval
  <2>2. At(a) \in SUBSET (1 .. N) /\ At(b) \in SUBSET (1 .. N)
    OBVIOUS
  <2> HIDE DEF At
  <2> QED  BY <2>1, <2>2, FS_Subset
<1>2. Cardinality(At(a)) \in Nat /\ Cardinality(At(b)) \in Nat
  BY <1>1, FS_CardinalityType
<1>3. ASSUME NEW k \in At(a)
      PROVE  \E p \in Nat : k - 1 = m * p + (a - 1)
  <2>1. k - 1 \in Nat /\ (k - 1) % m = a - 1
    BY DEF At
  <2>2. k - 1 = m * ((k - 1) \div m) + ((k - 1) % m) /\ (k - 1) \div m \in Nat
    BY <2>1
  <2> QED  BY <2>1, <2>2
<1>4. ASSUME NEW k \in 1 .. N, NEW p \in Int, k - 1 = m * p + (b - 1)
      PROVE  k \in At(b)
  <2>1. (k - 1) % m = b - 1
    BY <1>4, ModOf
  <2> QED  BY <2>1
<1>5. CASE a >= b
  <2> DEFINE f == [k \in At(a) |-> k - (a - b)]
  <2>1. ASSUME NEW k \in At(a) PROVE k - (a - b) \in At(b)
    <3>1. PICK p \in Nat : k - 1 = m * p + (a - 1)
      BY <1>3
    <3>2. k \in 1 .. N /\ m * p \in Nat
      OBVIOUS
    <3>3. k - (a - b) \in 1 .. N /\ k - (a - b) - 1 = m * p + (b - 1)
      BY <1>5, <3>1, <3>2
    <3> QED  BY <1>4, <3>3
  <2>2. \A k, l \in At(a) : k - (a - b) = l - (a - b) => k = l
    OBVIOUS
  <2> HIDE DEF At
  <2>3. f \in Injection(At(a), At(b))
    BY <2>1, <2>2 DEF Injection, IsInjective
  <2>4. Cardinality(At(a)) <= Cardinality(At(b))
    <3> HIDE DEF f
    <3> QED  BY <1>1, <2>3, FS_Injection
  <2> QED  BY <1>2, <2>4 DEF At
<1>6. CASE a < b
  <2> DEFINE f == [k \in At(a) \ {a} |-> k - m + (b - a)]
  <2>1. ASSUME NEW k \in At(a) \ {a} PROVE k - m + (b - a) \in At(b)
    <3>1. PICK p \in Nat : k - 1 = m * p + (a - 1)
      BY <1>3
    <3>2. p # 0
      BY <3>1
    <3>3. PICK d \in Nat : p = d + 1
      BY <3>2
    <3>4. m * p = m * d + m /\ m * d \in Nat
      BY <3>3
    <3>5. k \in 1 .. N
      OBVIOUS
    <3>6. PICK j : j = k - m + (b - a)
      OBVIOUS
    <3>7. j \in 1 .. N /\ j - 1 = m * d + (b - 1) /\ d \in Int
      BY <1>6, <3>1, <3>4, <3>5, <3>6
    <3>8. j \in At(b)
      BY <1>4, <3>7
    <3> QED  BY <3>6, <3>8
  <2>2. \A k, l \in At(a) \ {a} : k - m + (b - a) = l - m + (b - a) => k = l
    OBVIOUS
  <2> HIDE DEF At
  <2>3. f \in Injection(At(a) \ {a}, At(b))
    BY <2>1, <2>2 DEF Injection, IsInjective
  <2>4. Cardinality(At(a) \ {a}) <= Cardinality(At(b))
    <3> HIDE DEF f
    <3> QED  BY <1>1, <2>3, FS_Injection
  <2>5. Cardinality(At(a)) <= Cardinality(At(a) \ {a}) + 1
    <3>1. Cardinality(At(a) \ {a}) \in {Cardinality(At(a)), Cardinality(At(a)) - 1}
      BY <1>1, FS_RemoveElement
    <3> QED  BY <1>2, <3>1
  <2>6. Cardinality(At(a) \ {a}) \in Nat
    BY <1>1, FS_RemoveElement, FS_CardinalityType
  <2> QED  BY <1>2, <2>4, <2>5, <2>6 DEF At
<1> QED  BY <1>5, <1>6

LEMMA TurnsAreEven ==
  ASSUME GradingConstants, TypeInv, NEW p \in Pools, NEW items, InTurn(p, items),
         NEW g \in members[p], NEW h \in members[p]
  PROVE  Cardinality({k \in DOMAIN items : items[k].owner = g}) <=
           Cardinality({k \in DOMAIN items : items[k].owner = h}) + 1
<1>1. PICK N \in Nat, dealt \in Orders(members[p]) :
        /\ Len(dealt) \in Nat \ {0} /\ DOMAIN items = 1 .. N
        /\ \A k \in DOMAIN items : items[k].owner = dealt[((k - 1) % Len(dealt)) + 1]
  BY DEF InTurn
<1> DEFINE m == Len(dealt)
           place(k) == ((k - 1) % m) + 1
<1>2. IsFiniteSet(members[p])
  <2>1. members[p] \in SUBSET Graders
    BY DEF TypeInv, TablesInv
  <2> QED  BY <2>1, FS_Subset DEF GradingConstants
<1>3. /\ Len(dealt) = Cardinality(members[p]) /\ DOMAIN dealt = 1 .. m
      /\ \A k \in DOMAIN dealt : dealt[k] \in members[p]
      /\ \A a, b \in DOMAIN dealt : dealt[a] = dealt[b] => a = b
  BY <1>2, OrderOf
<1>4. dealt \in Injection(1 .. m, members[p])
  <2>1. dealt \in [1 .. m -> members[p]]
    BY <1>2, <1>3 DEF Orders
  <2> QED  BY <1>3, <2>1 DEF Injection, IsInjective
<1>5. Cardinality(1 .. m) = Cardinality(members[p])
  BY <1>1, <1>3, FS_Interval
<1>6. dealt \in Surjection(1 .. m, members[p])
  BY <1>2, <1>4, <1>5, FS_Injection
<1>7. PICK a \in 1 .. m, b \in 1 .. m : dealt[a] = g /\ dealt[b] = h
  BY <1>6 DEF Surjection
<1>8. \A k \in DOMAIN items : place(k) \in 1 .. m
  BY <1>1
<1>9. ASSUME NEW c \in 1 .. m, NEW x, dealt[c] = x
      PROVE  {k \in DOMAIN items : items[k].owner = x} = {k \in 1 .. N : place(k) = c}
  <2>1. \A k \in DOMAIN items : items[k].owner = x <=> place(k) = c
    BY <1>1, <1>3, <1>8, <1>9
  <2> QED  BY <1>1, <2>1
<1>10. /\ {k \in DOMAIN items : items[k].owner = g} = {k \in 1 .. N : place(k) = a}
       /\ {k \in DOMAIN items : items[k].owner = h} = {k \in 1 .. N : place(k) = b}
  BY <1>7, <1>9
<1>11. m \in Nat \ {0}
  BY <1>1
<1> HIDE DEF m
<1>12. Cardinality({k \in 1 .. N : ((k - 1) % m) + 1 = a}) <=
         Cardinality({k \in 1 .. N : ((k - 1) % m) + 1 = b}) + 1
  BY <1>7, <1>11, DealtEvenly
<1> QED  BY <1>10, <1>12

LEMMA SeqDomain ==
  ASSUME NEW T, NEW s \in Seq(T)
  PROVE  Len(s) \in Nat /\ DOMAIN s = 1 .. Len(s)
OBVIOUS

LEMMA OneLong ==
  ASSUME NEW T, NEW s \in Seq(T), DOMAIN s = {1}
  PROVE  Len(s) = 1
<1>1. Len(s) \in Nat /\ DOMAIN s = 1 .. Len(s)
  BY SeqDomain
<1>2. 1 \in 1 .. Len(s) /\ 2 \notin 1 .. Len(s)
  BY <1>1
<1> QED  BY <1>1, <1>2

\* An allocation deals its questions out evenly over the members of the pool:
\* their shares differ by at most one, whatever the order of the members and
\* of the questions.
THEOREM GradingSharesEven ==
  ASSUME GradingConstants
  PROVE  GradingSpec => SharesEven
<1> DEFINE share(q, g) == Cardinality({k \in DOMAIN request'[q].items :
                                         request'[q].items[k].owner = g})
           Even(q) == request'[q] # request[q] /\ request'[q].op = "ITEMS" =>
                        (Len(request'[q].items) > 1 =>
                           \A g, h \in members[request'[q].pool] : share(q, g) <= share(q, h) + 1)
<1>1. TypeInv /\ [GradingNext]_gradingVars => \A q \in Requests : Even(q)
  <2> SUFFICES ASSUME TypeInv, [GradingNext]_gradingVars, NEW q \in Requests PROVE Even(q)
    OBVIOUS
  <2>1. ASSUME NEW p \in Pools, NEW n \in DOMAIN run, Allocate(q, p, n) PROVE Even(q)
    <3>1. InTurn(p, request'[q].items) /\ request'[q].pool = p
      BY <2>1, AllocateBegun
    <3>2. PICK items : items = request'[q].items
      OBVIOUS
    <3>3. InTurn(p, items)
      BY <3>1, <3>2
    <3>4. TypeInv
      OBVIOUS
    <3>5. \A g, h \in members[p] :
            Cardinality({k \in DOMAIN items : items[k].owner = g}) <=
              Cardinality({k \in DOMAIN items : items[k].owner = h}) + 1
      BY <3>3, <3>4, TurnsAreEven
    <3> QED  BY <3>1, <3>2, <3>5
  <2>2. ASSUME NEW p \in Pools, NEW n \in DOMAIN run, NEW u \in Questions, NEW g \in Graders,
               AssignManual(q, p, n, u, g)
        PROVE  Even(q)
    <3>1. DOMAIN request'[q].items = {1} /\ request'[q].items \in Seq(Items)
      BY <2>2, AssignBegun DEF Begun, TypeInv, Changes
    <3>2. Len(request'[q].items) = 1
      BY <3>1, OneLong
    <3> QED  BY <3>2
  <2>3. ASSUME request'[q] = request[q] \/ request'[q].op # "ITEMS" PROVE Even(q)
    BY <2>3
  <2> HIDE DEF Even
  <2>4. ASSUME NEW r \in Requests, Begun(r), r # q \/ request'[r].op # "ITEMS" PROVE Even(q)
    BY <2>3, <2>4 DEF Begun
  <2>5. ASSUME NEW r \in Requests, Done(r) PROVE Even(q)
    BY <2>3, <2>5, IdleOK DEF Done
  <2>6. ASSUME NEW r \in Requests, NEW p \in Pools, NEW n \in DOMAIN run, Allocate(r, p, n)
        PROVE  Even(q)
    BY <2>1, <2>4, <2>6, AllocateBegun
  <2>7. ASSUME NEW r \in Requests, NEW p \in Pools, NEW n \in DOMAIN run, NEW u \in Questions,
               NEW g \in Graders, AssignManual(r, p, n, u, g)
        PROVE  Even(q)
    BY <2>2, <2>4, <2>7, AssignBegun
  <2>8. ASSUME NEW r \in Requests, NEW i \in DOMAIN item, StartWork(r, i) \/ SubmitWork(r, i)
        PROVE  Even(q)
    <3>1. Begun(r) /\ request'[r].op = "ITEM"
      BY <2>8, ItemBegun DEF StartWork, SubmitWork
    <3> QED  BY <2>4, <3>1
  <2>9. ASSUME NEW r \in Requests, NEW p \in Pools, ActivatePool(r, p) \/ ClosePool(r, p)
        PROVE  Even(q)
    <3>1. Begun(r) /\ request'[r].op = "POOL"
      BY <2>9, PoolBegun
    <3> QED  BY <2>4, <3>1
  <2>10. ASSUME NEW r \in Requests, CommitPool(r) \/ CommitItems(r) \/ CommitItem(r)
         PROVE  Even(q)
    BY <2>5, <2>10, CommitsDone
  <2>11. ASSUME NEW n \in DOMAIN run, ModerationReturns(n) \/ ModerationApproves(n)
         PROVE  Even(q)
    BY <2>3, <2>11 DEF ModerationReturns, ModerationApproves
  <2>12. ASSUME NEW p \in Pools, NEW strategy \in {"MANUAL", "ROUND_ROBIN"}, CreatePool(p, strategy)
         PROVE  Even(q)
    BY <2>3, <2>12 DEF CreatePool
  <2>13. CASE request' = request
    BY <2>3, <2>13
  <2> QED
    BY <2>4, <2>5, <2>6, <2>7, <2>8, <2>9, <2>10, <2>11, <2>12, <2>13, PoolSteps
<1> QED  BY <1>1, GradingReferences, PTL DEF GradingSpec, SharesEven

---------------------------------------------------------------------------
(* The properties of the run                                               *)

\* Work and runs have one owner each, through allocation, moderation and
\* regrades: the four invariants above.
THEOREM GradingWorkOwned ==
  ASSUME GradingConstants
  PROVE  GradingSpec => []WorkIsOwned
<1>1. OneActiveItem /\ SubmittedIsReviewed /\ OneLiveRun /\ RegradeSupersedes => WorkIsOwned
  BY DEF WorkIsOwned
<1> QED
  BY <1>1, GradingOneItem, GradingSubmitted, GradingOneLiveRun, GradingRegrades, PTL

\* Work is dealt out evenly, and only by an active pool.
THEOREM GradingDealt ==
  ASSUME GradingConstants
  PROVE  GradingSpec => DealtWhileActive
BY GradingPoolsActive, GradingSharesEven DEF DealtWhileActive
=============================================================================
