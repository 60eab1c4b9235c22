---------------------------- MODULE GradePassback ----------------------------
(***************************************************************************)
(* Grades sent to a learning platform (services/grade_passback.py) for one *)
(* resource link and one student, the roster mapping the student needs for *)
(* it (roster.py) and the launch that gives the link its line item         *)
(* (lti.py).  A result is known by its version, and so is the score sent.  *)
(* The request leaves inside the transaction that records it.              *)
(***************************************************************************)
EXTENDS Integers, Sequences, FiniteSets, UnitOfWork

CONSTANTS
  Requests,        \* sessions of HTTP requests
  Members,         \* stable ids of the platform's roster; one is the student's
  Settings,
  MaxVersions, MaxRequests, MaxLaunches  \* bounds of this model

Ids == Members
Learner == CHOOSE x \in Ids : TRUE
NoGrade == 0
RowStates == {"NONE", "PENDING", "DELIVERED", "FAILED"}

VARIABLES
  result,     \* the published results of the student, oldest first
  student,    \* the students made by roster syncs: active or inactive
  mapping,    \* mapping[x]: student and status of roster id x
  lineitem,   \* the line item of the link, 0 for none
  row,        \* row[n]: the passback of version n
  gradebook,  \* gradebook[i]: the version the platform last took for item i
  taken,      \* the versions the platform has taken
  calls,      \* requests so far
  session, setting

tables == <<result, student, mapping, lineitem, row>>
vars == <<tables, gradebook, taken, calls, session, setting>>

Versions == 1 .. MaxVersions
Idle == [op |-> "idle"]
Unmapped == [student |-> 0, status |-> "NONE"]
NoRow == [state |-> "NONE", attempts |-> 0, lineitem |-> 0]

TypeOK ==
  /\ result \in Seq({"PUBLISHED", "SUPERSEDED"})
  /\ student \in Seq({"active", "inactive"})
  /\ mapping \in [Ids -> [student : 0 .. Len(student),
                          status : {"NONE", "ACTIVE", "INACTIVE"}]]
  /\ lineitem \in 0 .. MaxLaunches
  /\ row \in [Versions -> [state : RowStates, attempts : Nat, lineitem : Nat]]
  /\ gradebook \in [1 .. MaxLaunches -> 0 .. MaxVersions]
  /\ taken \subseteq Versions
  /\ DOMAIN session = Requests

Init ==
  /\ setting \in Settings
  /\ result = << >>
  /\ student = IF setting.enrolled THEN <<"active">> ELSE << >>
  /\ mapping = [x \in Ids |-> IF setting.enrolled /\ x = Learner
                              THEN [student |-> 1, status |-> "ACTIVE"] ELSE Unmapped]
  /\ lineitem = 0
  /\ row = [n \in Versions |-> NoRow]
  /\ gradebook = [i \in 1 .. MaxLaunches |-> NoGrade]
  /\ taken = {}
  /\ calls = [launch |-> 0, other |-> 0]
  /\ session = [s \in Requests |-> Idle]

Calls(s, endpoint) ==
  /\ endpoint \in setting.calls /\ s \in setting.clients /\ session[s] = Idle
  /\ calls.other < MaxRequests /\ calls' = [calls EXCEPT !.other = @ + 1]

Begins(s, change) == /\ session' = [session EXCEPT ![s] = change]
                     /\ UNCHANGED <<tables, gradebook, taken, setting>>

Moves(s, change) == /\ session' = [session EXCEPT ![s] = change]
                    /\ UNCHANGED <<calls, setting>>

-----------------------------------------------------------------------------
\* What passback depends on.

\* A result is published, superseding the one before.
PublishResult ==
  /\ "publish" \in setting.calls /\ Len(result) < MaxVersions
  /\ result' = Append([i \in DOMAIN result |-> IF result[i] = "PUBLISHED" THEN "SUPERSEDED"
                                               ELSE result[i]], "PUBLISHED")
  /\ UNCHANGED <<student, mapping, lineitem, row, gradebook, taken, calls, session, setting>>

\* complete_lti_launch: the line item of the first launch that names one.
LaunchRead(s) ==
  /\ "launch" \in setting.calls /\ s \in setting.clients /\ session[s] = Idle
  /\ calls.launch < MaxLaunches /\ calls' = [calls EXCEPT !.launch = @ + 1]
  /\ Begins(s, [op |-> "launch", old |-> lineitem,
                new |-> IF lineitem = 0 THEN calls.launch + 1 ELSE lineitem])
LaunchCommit(s) ==
  /\ session[s].op = "launch" /\ Moves(s, Idle)
  /\ lineitem' = FlushColumn(session[s].old, session[s].new, lineitem)
  /\ UNCHANGED <<result, student, mapping, row, gradebook, taken>>

\* upsert_roster_members, of a payload that names some members with a status.
\* What each mapping was when its member's turn came is in `old`.
SyncRead(s, payload) ==
  /\ Calls(s, "sync")
  /\ Begins(s, [op |-> "sync", payload |-> payload,
                old |-> [x \in DOMAIN payload |-> mapping[x]]])

\* The unique key of a roster identity: the sync rolls back whole.
CreatedTwice(old, x) == old[x] = Unmapped /\ mapping[x] # Unmapped

\* The status of a student whose member is ACTIVE again.
Returns(status) == "active"

SyncCommit(s) ==
  LET S == session[s]  D == DOMAIN S.payload
      fresh == {x \in D : S.old[x] = Unmapped}
      order == CHOOSE q \in [fresh -> 1 .. Cardinality(fresh)] :
                 \A x, y \in fresh : q[x] = q[y] => x = y
      of(x) == IF x \in fresh THEN Len(student) + order[x] ELSE mapping[x].student
      made == [i \in 1 .. Cardinality(fresh) |->
                 IF \E x \in fresh : order[x] = i /\ S.payload[x] = "ACTIVE"
                 THEN "active" ELSE "inactive"] IN
  /\ S.op = "sync" /\ Moves(s, Idle)
  /\ IF \E x \in D : CreatedTwice(S.old, x) THEN UNCHANGED <<student, mapping>>
     ELSE /\ mapping' = [x \in Ids |-> IF x \notin D THEN mapping[x]
               ELSE [student |-> of(x),
                     status |-> FlushColumn(S.old[x].status, S.payload[x], mapping[x].status)]]
          /\ student' = [i \in DOMAIN student |->
               IF \E x \in D \ fresh : of(x) = i /\ S.payload[x] = "ACTIVE"
               THEN Returns(student[i]) ELSE student[i]] \o made
  /\ UNCHANGED <<result, lineitem, row, gradebook, taken>>

-----------------------------------------------------------------------------
\* request_grade_passback

\* Mutant: a superseded result is passed back as well.
PassableSuperseded(n) == result[n] \in {"PUBLISHED", "SUPERSEDED"}
Passable(n) == result[n] = "PUBLISHED"

\* The checks; a row already DELIVERED is returned as it is.
PassbackRead(s, n) ==
  /\ Passable(n) /\ mapping[Learner].status = "ACTIVE" /\ lineitem # 0
  /\ row[n].state # "DELIVERED"
  /\ Calls(s, "passback")
  /\ Begins(s, [op |-> IF row[n] = NoRow THEN "insert" ELSE "send", version |-> n,
                old |-> row[n], new |-> row[n], lineitem |-> lineitem])

Inserting(n) == {s \in Requests : /\ session[s].op \in {"send", "sent"}
                                  /\ session[s].version = n /\ session[s].old = NoRow}

\* The insert of a new row waits for another request's, and fails if that
\* one has committed.
PassbackInsert(s) ==
  LET S == session[s] IN
  /\ S.op = "insert" /\ Inserting(S.version) = {}
  /\ Moves(s, IF row[S.version] # NoRow THEN Idle
              ELSE [S EXCEPT !.op = "send",
                     !.new = [NoRow EXCEPT !.state = "PENDING", !.lineitem = S.lineitem]])
  /\ UNCHANGED <<tables, gradebook, taken>>

\* The token request fails: 400, everything rolled back.
TokenFails(s) ==
  /\ "refused" \in setting.faults /\ session[s].op = "send" /\ Moves(s, Idle)
  /\ UNCHANGED <<tables, gradebook, taken>>

StateAfter(outcome) == IF outcome = "answered" THEN "DELIVERED" ELSE "FAILED"

\* The score is posted: answered; refused; or taken and the answer lost.
Send(s, outcome) ==
  LET S == session[s] IN
  /\ S.op = "send" /\ outcome \in {"answered"} \cup setting.faults
  /\ IF outcome = "refused" THEN UNCHANGED <<gradebook, taken>>
     ELSE /\ gradebook' = [gradebook EXCEPT ![S.lineitem] = S.version]
          /\ taken' = taken \cup {S.version}
  /\ Moves(s, [S EXCEPT !.op = "sent", !.new.attempts = @ + 1,
                        !.new.state = StateAfter(outcome)])
  /\ UNCHANGED tables

RowColumn(old, new, now) == FlushColumn(old, new, now)

PassbackCommit(s) ==
  LET S == session[s]  n == S.version IN
  /\ S.op = "sent" /\ Moves(s, Idle)
  /\ row' = [row EXCEPT ![n] =
       [f \in DOMAIN NoRow |-> RowColumn(S.old[f], S.new[f], row[n][f])]]
  /\ UNCHANGED <<result, student, mapping, lineitem, gradebook, taken>>

Payloads == UNION {[D -> {"ACTIVE", "INACTIVE"}] : D \in SUBSET Ids \ {{}}}

Next ==
  \/ PublishResult
  \/ \E s \in Requests :
       \/ LaunchRead(s) \/ LaunchCommit(s)
       \/ \E p \in Payloads : SyncRead(s, p)
       \/ SyncCommit(s)
       \/ \E n \in DOMAIN result : PassbackRead(s, n)
       \/ PassbackInsert(s) \/ TokenFails(s) \/ PassbackCommit(s)
       \/ \E x \in {"answered", "refused", "timeout"} : Send(s, x)

Spec == Init /\ [][Next]_vars

-----------------------------------------------------------------------------
\* Properties.

\* A passback once DELIVERED stays so: a request that had read the row FAILED
\* and fails again does not touch the state a faster one wrote.
DeliveredStays ==
  [][\A n \in Versions : row[n].state = "DELIVERED" => row'[n].state = "DELIVERED"]_vars

\* No version counts as delivered that the platform has not taken.
DeliveredWasTaken == \A n \in Versions : row[n].state = "DELIVERED" => n \in taken

\* With one client, results that are only published and one line item, the
\* platform never shows a version older than the newest it confirmed: a
\* superseded result is not sent again after its successor.  Two requests
\* may send a version and its successor in either order.
GradebookFollows ==
  Cardinality(setting.clients) = 1 => \A n \in Versions : \A i \in DOMAIN gradebook :
    row[n].state = "DELIVERED" /\ row[n].lineitem = i => gradebook[i] >= n

\* Syncs of two sources at once leave a student for each roster id and an id
\* for each student, and an active member is an active student.
RosterMatches ==
  /\ \A i \in DOMAIN student : Cardinality({x \in Ids : mapping[x].student = i}) = 1
  /\ \A x \in Ids : mapping[x].status = "ACTIVE" => student[mapping[x].student] = "active"

\* What the platform was told and what is recorded of it.
PassbackIsFaithful ==
  [](DeliveredWasTaken /\ GradebookFollows /\ RosterMatches) /\ DeliveredStays
=============================================================================
