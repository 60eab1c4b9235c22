------------------------------ MODULE Webhooks ------------------------------
(***************************************************************************)
(* The transactional outbox of services/webhooks.py and the task and the   *)
(* endpoint that drive it.  A worker locks every due delivery it can (FOR  *)
(* UPDATE SKIP LOCKED), attempts them one after another and commits once;  *)
(* an operator's retry reads its delivery without a lock, waits for the    *)
(* row when it first flushes, and attempts with what it had read.  Each    *)
(* request leaves the process before its outcome is committed.             *)
(*                                                                         *)
(* The row of an event is written without a lock held from its read; a     *)
(* wait for that row and the database's choice of a deadlock victim are    *)
(* the order of the commits and a Crash here.                              *)
(***************************************************************************)
EXTENDS Integers, Sequences, FiniteSets, UnitOfWork

CONSTANTS
  Workers, Operators,   \* celery tasks, and requests of an administrator
  Endpoints, Events,
  MAX_ATTEMPTS,
  Settings,             \* what Init chooses from
  MaxCrashes, MaxRetries, MaxUpdates  \* bounds of this model

ASSUME AttemptsAssumption == MAX_ATTEMPTS \in Nat \ {0}

Sessions == Workers \cup Operators
Deliveries == Events \X Endpoints
Free == "FREE"

\* A session is a task or a request, and a name of its own.
ASSUME SessionsAssumption == Workers \cap Operators = {} /\ Free \notin Sessions

\* A deployment runs finitely many of the workers.
ASSUME SettingsAssumption ==
  \A x \in Settings : x.workers \subseteq Workers /\ IsFiniteSet(x.workers)

Open == {"PENDING", "RETRYING"}
Statuses == {"ABSENT", "PENDING", "RETRYING", "SUCCEEDED", "FAILED"}
DispatchStates == {"PENDING", "DISPATCHING", "DELIVERED", "FAILED", "PARTIAL"}
When == {"none", "later", "due"}

VARIABLES
  endpoint,  \* endpoint[e]: enabled, and subscribed to the events recorded here
  recorded,  \* the events recorded
  event,     \* event[v]: the dispatch_state of v
  delivery,  \* delivery[d]: status, attempt_count, terminal_failure, next_attempt_at
  attempts,  \* attempts[d]: the attempt numbers logged for d, oldest first
  received,  \* received[d]: how often the endpoint processed the request
  owner,     \* owner[d]: the session whose transaction locks the row of d
  session,   \* session[s]: the transaction of s
  used,      \* crashes, retries and endpoint updates so far
  setting    \* the workers, faults and endpoints in use

tables == <<endpoint, recorded, event, delivery, attempts>>
vars == <<tables, received, owner, session, used, setting>>

Rows == [status : Statuses, count : Nat, terminal : BOOLEAN, next : When]
Absent == [status |-> "ABSENT", count |-> 0, terminal |-> FALSE, next |-> "none"]
Pending == [Absent EXCEPT !.status = "PENDING", !.next = "due"]

NoRows == [d \in {} |-> Absent]
Idle == [pc |-> "idle", todo |-> {}, loaded |-> NoRows, staged |-> NoRows,
         log |-> {}, events |-> [v \in {} |-> "PENDING"]]

TypeOK ==
  /\ endpoint \in [Endpoints -> [enabled : BOOLEAN, subscribed : BOOLEAN]]
  /\ recorded \subseteq Events
  /\ event \in [Events -> DispatchStates]
  /\ delivery \in [Deliveries -> Rows]
  /\ attempts \in [Deliveries -> Seq(Nat)]
  /\ received \in [Deliveries -> Nat]
  /\ owner \in [Deliveries -> Sessions \cup {Free}]
  /\ \A s \in Sessions :
       /\ session[s].pc \in {"idle", "wait", "open", "doomed"}
       /\ session[s].log \subseteq DOMAIN session[s].staged
       /\ \A d \in DOMAIN session[s].staged : session[s].staged[d] \in Rows

Init ==
  /\ setting \in Settings
  /\ endpoint = [e \in Endpoints |-> [enabled |-> TRUE, subscribed |-> TRUE]]
  /\ recorded = {}
  /\ event = [v \in Events |-> "PENDING"]
  /\ delivery = [d \in Deliveries |-> Absent]
  /\ attempts = [d \in Deliveries |-> << >>]
  /\ received = [d \in Deliveries |-> 0]
  /\ owner = [d \in Deliveries |-> Free]
  /\ session = [s \in Sessions |-> Idle]
  /\ used = [crash |-> 0, retry |-> 0, update |-> 0]

Counted(what, max) == /\ used[what] < max
                      /\ used' = [used EXCEPT ![what] = @ + 1]

-----------------------------------------------------------------------------
\* Endpoints and the transaction of the business change.

\* create_webhook_endpoint, update_webhook_endpoint: one flush and commit.
UpdateEndpoint(e, field) ==
  /\ "update" \in setting.calls /\ Counted("update", MaxUpdates)
  /\ endpoint' = [endpoint EXCEPT ![e][field] = ~@]
  /\ UNCHANGED <<recorded, event, delivery, attempts, received, owner, session, setting>>

Subscribers == {e \in Endpoints : endpoint[e].enabled /\ endpoint[e].subscribed}

\* record_outbound_event, in the transaction that publishes, provisions or
\* syncs: the event and its deliveries commit with the change or not at all.
RecordEvent(v) ==
  /\ v \in setting.events \ recorded
  /\ recorded' = recorded \cup {v}
  /\ delivery' = [d \in Deliveries |->
       IF d[1] = v /\ d[2] \in Subscribers THEN Pending ELSE delivery[d]]
  /\ UNCHANGED <<endpoint, event, attempts, received, owner, session, used, setting>>

\* The clock reaches next_attempt_at.
Elapse(d) ==
  /\ delivery[d].next = "later" /\ owner[d] = Free
  /\ delivery' = [delivery EXCEPT ![d].next = "due"]
  /\ UNCHANGED <<endpoint, recorded, event, attempts, received, owner, session, used, setting>>

-----------------------------------------------------------------------------
\* An attempt, of a worker or of an operator's retry.

Unlocked(d) == owner[d] = Free

\* The row of d as session s sees it.
Seen(s, d) == IF d \in DOMAIN session[s].staged THEN session[s].staged[d]
              ELSE delivery[d]

\* Mutant: DELIVERED as soon as one subscriber has the event.
DispatchStateAny(st) ==
  IF st = {} THEN "PENDING"
  ELSE IF "SUCCEEDED" \in st THEN "DELIVERED"
  ELSE IF st \cap Open # {} THEN "DISPATCHING" ELSE "FAILED"

\* _refresh_event_dispatch_state, from the statuses of the event's deliveries.
DispatchState(st) ==
  IF st = {} THEN "PENDING"
  ELSE IF st = {"SUCCEEDED"} THEN "DELIVERED"
  ELSE IF st \cap Open # {}
  THEN IF st \cap {"SUCCEEDED", "FAILED"} # {} THEN "PARTIAL" ELSE "DISPATCHING"
  ELSE IF "SUCCEEDED" \in st THEN "PARTIAL" ELSE "FAILED"

\* The statuses of the deliveries of event v, d's about to become r's.
StatusesOf(s, v, d, r) ==
  {x \in {IF c = d THEN r.status ELSE Seen(s, c).status :
          c \in {c \in Deliveries : c[1] = v}} : x # "ABSENT"}

\* Mutants: an unknown status; an error answer counts as delivered; the last
\* failure leaves the delivery RETRYING.
AfterAttemptDelivered(r, error) ==
  [r EXCEPT !.count = @ + 1, !.status = "DELIVERED", !.next = "none"]
AfterAttemptLenient(r, error) ==
  LET n == r.count + 1 IN
  [r EXCEPT !.count = n, !.status = "SUCCEEDED", !.next = "none"]
AfterAttemptNeverGivesUp(r, error) ==
  LET n == r.count + 1 IN
  IF ~error THEN [r EXCEPT !.count = n, !.status = "SUCCEEDED", !.next = "none"]
  ELSE [r EXCEPT !.count = n, !.status = "RETRYING",
                 !.next = IF n > MAX_ATTEMPTS THEN "none" ELSE "later"]

\* The delivery after an attempt that ended with or without an error.
AfterAttempt(r, error) ==
  LET n == r.count + 1 IN
  IF ~error THEN [r EXCEPT !.count = n, !.status = "SUCCEEDED", !.next = "none"]
  ELSE IF n >= MAX_ATTEMPTS
  THEN [r EXCEPT !.count = n, !.status = "FAILED", !.terminal = TRUE, !.next = "none"]
  ELSE [r EXCEPT !.count = n, !.status = "RETRYING", !.next = "later"]

\* The transaction of s after it dealt with d: what it will write, and the
\* attempts it will log, which refresh the state of the event.
Staged(s, d, r, logged) ==
  LET v == d[1]  S == session[s] IN
  session' = [session EXCEPT ![s] =
    [S EXCEPT !.todo = @ \ {d},
      !.staged = [c \in DOMAIN @ \cup {d} |-> IF c = d THEN r ELSE @[c]],
      !.log = @ \cup logged,
      !.events = IF logged = {} THEN @
                 ELSE [x \in DOMAIN @ \cup {v} |->
                       IF x = v THEN DispatchState(StatusesOf(s, v, d, r)) ELSE @[x]]]]

\* The endpoint is gone or disabled: the delivery fails, the event is not
\* looked at, and next_attempt_at keeps its value.
AttemptDisabled(s, d) ==
  /\ session[s].pc = "open" /\ d \in session[s].todo
  /\ ~endpoint[d[2]].enabled
  /\ Staged(s, d, [Seen(s, d) EXCEPT !.status = "FAILED", !.terminal = TRUE], {})
  /\ UNCHANGED <<tables, received, owner, used, setting>>

NumberTaken(d, n) == n \in {attempts[d][i] : i \in DOMAIN attempts[d]}

\* The outcomes of a request: answered; refused before it is processed;
\* processed, and the answer lost.
Attempt(s, d, outcome) ==
  LET r == Seen(s, d) IN
  /\ session[s].pc = "open" /\ d \in session[s].todo
  /\ endpoint[d[2]].enabled
  /\ outcome \in {"answered"} \cup setting.faults
  /\ outcome \in {"answered", "refused", "timeout"}
  /\ received' = [received EXCEPT ![d] = @ + IF outcome = "refused" THEN 0 ELSE 1]
  /\ IF NumberTaken(d, r.count + 1)
     THEN session' = [session EXCEPT ![s] = [Idle EXCEPT !.pc = "doomed"]]
     ELSE Staged(s, d, AfterAttempt(r, outcome # "answered"), {d})
  /\ UNCHANGED <<tables, owner, used, setting>>

\* The columns of a row the session loaded and changed; a retry has written
\* the status already, when it first flushed.
Flushed(s, d) ==
  LET l == session[s].loaded[d]  g == session[s].staged[d]  c == delivery[d] IN
  [status |-> g.status,
   count |-> FlushColumn(l.count, g.count, c.count),
   terminal |-> FlushColumn(l.terminal, g.terminal, c.terminal),
   next |-> g.next]

Commit(s) ==
  LET S == session[s]  D == DOMAIN S.staged IN
  /\ S.pc = "open" /\ S.todo = {}
  /\ delivery' = [d \in Deliveries |-> IF d \in D THEN Flushed(s, d) ELSE delivery[d]]
  /\ attempts' = [d \in Deliveries |-> IF d \in S.log
                    THEN Append(attempts[d], S.staged[d].count) ELSE attempts[d]]
  /\ event' = [v \in Events |-> IF v \in DOMAIN S.events THEN S.events[v] ELSE event[v]]
  /\ owner' = [d \in Deliveries |-> IF owner[d] = s THEN Free ELSE owner[d]]
  /\ session' = [session EXCEPT ![s] = Idle]
  /\ UNCHANGED <<endpoint, recorded, received, used, setting>>

RolledBack(s) ==
  /\ owner' = [d \in Deliveries |-> IF owner[d] = s THEN Free ELSE owner[d]]
  /\ session' = [session EXCEPT ![s] = Idle]
  /\ UNCHANGED <<tables, received, setting>>

\* The insert of the attempt failed: IntegrityError, the request answers 500.
Rollback(s) ==
  /\ session[s].pc = "doomed"
  /\ RolledBack(s) /\ UNCHANGED used

\* The process dies between a request and the commit.
Crash(s) ==
  /\ "crash" \in setting.faults /\ session[s].pc = "open"
  /\ Counted("crash", MaxCrashes) /\ RolledBack(s)

-----------------------------------------------------------------------------
\* webhooks.deliver_due: every 2 s, after each commit that recorded an event,
\* and again when the soonest retry is due.

Due == {d \in Deliveries : /\ delivery[d].status \in Open /\ ~delivery[d].terminal
                           /\ delivery[d].next = "due" /\ Unlocked(d)}

DeliverDue(w) ==
  /\ w \in setting.workers /\ session[w].pc = "idle" /\ Due # {}
  /\ owner' = [d \in Deliveries |-> IF d \in Due THEN w ELSE owner[d]]
  /\ session' = [session EXCEPT ![w] =
       [Idle EXCEPT !.pc = "open", !.todo = Due, !.loaded = [d \in Due |-> delivery[d]]]]
  /\ UNCHANGED <<tables, received, used, setting>>

\* retry_delivery: any delivery, whatever its status.
RetryRead(o, d) ==
  /\ "retry" \in setting.calls /\ session[o].pc = "idle"
  /\ delivery[d].status # "ABSENT" /\ Counted("retry", MaxRetries)
  /\ session' = [session EXCEPT ![o] =
       [Idle EXCEPT !.pc = "wait", !.todo = {d},
         !.loaded = [c \in {d} |-> delivery[d]],
         !.staged = [c \in {d} |-> [delivery[d] EXCEPT !.status = "PENDING",
                                      !.terminal = FALSE, !.next = "due"]]]]
  /\ UNCHANGED <<tables, received, owner, setting>>

\* Its first flush takes the row.
RetryLock(o) ==
  /\ session[o].pc = "wait" /\ \A d \in session[o].todo : owner[d] = Free
  /\ owner' = [d \in Deliveries |-> IF d \in session[o].todo THEN o ELSE owner[d]]
  /\ session' = [session EXCEPT ![o].pc = "open"]
  /\ UNCHANGED <<tables, received, used, setting>>

Next ==
  \/ \E v \in Events : RecordEvent(v)
  \/ \E e \in Endpoints, f \in {"enabled", "subscribed"} : UpdateEndpoint(e, f)
  \/ \E d \in Deliveries : Elapse(d)
  \/ \E w \in Workers : DeliverDue(w)
  \/ \E o \in Operators, d \in Deliveries : RetryRead(o, d)
  \/ \E o \in Operators : RetryLock(o)
  \/ \E s \in Sessions, d \in Deliveries :
       \/ AttemptDisabled(s, d)
       \/ \E x \in {"answered", "refused", "timeout"} : Attempt(s, d, x)
  \/ \E s \in Sessions : Commit(s) \/ Rollback(s) \/ Crash(s)

Spec == Init /\ [][Next]_vars

\* The beat fires for ever and a running session goes on; nothing makes an
\* operator retry or a request succeed.
Fairness ==
  /\ \A d \in Deliveries : WF_vars(Elapse(d))
  /\ \A w \in Workers : WF_vars(DeliverDue(w))
  /\ \A o \in Operators : WF_vars(RetryLock(o))
  /\ \A s \in Sessions : WF_vars(Commit(s) \/ Rollback(s)) /\ WF_vars(\E d \in Deliveries :
       AttemptDisabled(s, d) \/ \E x \in {"answered", "refused", "timeout"} : Attempt(s, d, x))

FairSpec == Spec /\ Fairness

-----------------------------------------------------------------------------
\* Properties.

\* The log of a delivery counts its attempts without gap or repetition, also
\* when a retry and a worker attempt it together: attempt_count
\* (services/webhooks.py:377) is read and incremented without a lock, and the
\* unique attempt number stops the one that comes second.
AttemptLogMatches ==
  \A d \in Deliveries : attempts[d] = [i \in 1 .. delivery[d].count |-> i]

\* Where no answer is lost, nobody dies and nobody retries by hand, no
\* endpoint processes an event twice, however many workers deliver.
ExactlyOnce ==
  setting.faults \cap {"timeout", "crash"} = {} /\ "retry" \notin setting.calls
    => \A d \in Deliveries : received[d] <= 1

\* Without manual retries, an event DELIVERED has reached every endpoint that
\* was to have it: two workers that refresh its state from what each can see
\* never agree on too much.
DeliveredMeansAll ==
  "retry" \notin setting.calls =>
    \A v \in Events : event[v] = "DELIVERED" =>
      \A d \in Deliveries : d[1] = v => delivery[d].status \in {"ABSENT", "SUCCEEDED"}

\* With one worker and endpoints nobody changes, an event some delivery of
\* which was attempted is DELIVERED or FAILED exactly when all of them are.
EventStateAgrees ==
  Cardinality(setting.workers) = 1 /\ setting.calls = {} =>
    \A v \in Events :
      LET D == {d \in Deliveries : d[1] = v /\ delivery[d].status # "ABSENT"} IN
      (\E d \in D : delivery[d].count > 0) =>
        /\ event[v] = "DELIVERED" <=> \A d \in D : delivery[d].status = "SUCCEEDED"
        /\ event[v] = "FAILED" <=> \A d \in D : delivery[d].status = "FAILED"

\* The deliveries as an outbox: one that a retry holds is waiting again.
Phase(d) ==
  IF delivery[d].status = "ABSENT" THEN "ABSENT"
  ELSE IF \E o \in Operators : owner[d] = o THEN "WAITING"
  ELSE IF delivery[d].status \in Open THEN "WAITING" ELSE delivery[d].status

Outbox == INSTANCE WebhookOutbox
            WITH phase <- [d \in Deliveries |-> Phase(d)],
                 taken <- [d \in Deliveries |-> received[d] > 0]

\* No recorded delivery is lost or counted as delivered before its endpoint
\* took it, through crashes, lost answers and racing retries.
RefinesOutbox == Outbox!Spec

\* A recorded delivery ends, delivered or given up after MAX_ATTEMPTS: none stays
\* PENDING or RETRYING for ever, and by RefinesOutbox none is unrecorded again.
\* An administrator who retries a delivery while its endpoint is disabled and
\* enabled again can leave it RETRYING with terminal_failure set.
DeliveryEnds ==
  ~({"retry", "update"} \subseteq setting.calls) =>
    \A d \in Deliveries : []<>(delivery[d].status \notin Open)

\* The log of the deliveries, what the endpoints received and the state of the
\* events tell one story.
DeliveriesAgree == AttemptLogMatches /\ ExactlyOnce /\ DeliveredMeansAll /\ EventStateAgrees
=============================================================================
