--------------------------- MODULE WebhooksProofs ---------------------------
(***************************************************************************)
(* Proofs about Webhooks, for every set of workers, operators, endpoints   *)
(* and events, every fault and every number of attempts: the log of the    *)
(* attempts has no gap, and the outbox implements WebhookOutbox.           *)
(*                                                                         *)
(* LockInv says which rows a transaction holds and what it may have read,  *)
(* so that a row a worker works on is still as it read it.  CountInv adds  *)
(* the attempt counters of what was read, and TakenInv that nothing is     *)
(* about to be counted as delivered which was not taken.                   *)
(***************************************************************************)
EXTENDS Webhooks, FiniteSetTheorems, TLAPS

---------------------------------------------------------------------------
(* The inductive invariants                                                *)

Pages == UNION {[D -> Rows] : D \in SUBSET Deliveries}
Views == UNION {[V -> DispatchStates] : V \in SUBSET Events}
Transaction ==
  [pc : {"idle", "wait", "open", "doomed"}, todo : SUBSET Deliveries,
   loaded : Pages, staged : Pages, log : SUBSET Deliveries, events : Views]

TypeInv ==
  /\ endpoint \in [Endpoints -> [enabled : BOOLEAN, subscribed : BOOLEAN]]
  /\ recorded \subseteq Events
  /\ event \in [Events -> DispatchStates]
  /\ delivery \in [Deliveries -> Rows]
  /\ attempts \in [Deliveries -> Seq(Nat)]
  /\ received \in [Deliveries -> Nat]
  /\ owner \in [Deliveries -> Sessions \cup {Free}]
  /\ session \in [Sessions -> Transaction]

\* The shape of one transaction S.
ShapeOK(S) ==
  /\ S.log \subseteq DOMAIN S.staged
  /\ DOMAIN S.staged \subseteq DOMAIN S.loaded
  /\ S.todo \subseteq DOMAIN S.loaded
  /\ S.todo \cap S.log = {}
  /\ S.pc \in {"idle", "doomed"} => DOMAIN S.loaded = {}
  /\ S.pc = "wait" => /\ S.log = {} /\ DOMAIN S.loaded = S.todo
                      /\ \E d \in Deliveries : S.todo = {d}

\* An open transaction holds every row it read; a row a worker holds is open.
LockInv ==
  /\ TypeInv
  /\ \A s \in Sessions : ShapeOK(session[s])
  /\ \A s \in Sessions : session[s].pc = "open" =>
       \A d \in DOMAIN session[s].loaded : owner[d] = s
  /\ \A s \in Sessions, d \in Deliveries : d \in DOMAIN session[s].loaded =>
       delivery[d].status # "ABSENT"
  /\ \A s \in Sessions, d \in Deliveries : d \in DOMAIN session[s].staged =>
       session[s].staged[d].status # "ABSENT"
  /\ \A s \in Workers : session[s].pc # "wait"
  /\ \A d \in Deliveries : owner[d] \in Workers => delivery[d].status \in Open
  /\ \A d \in Deliveries : delivery[d].status # "ABSENT" => d[1] \in recorded

\* What a transaction S will write over a delivery of which n attempts are
\* logged.
CountFits(S, d, n) ==
  /\ S.loaded[d].count <= n
  /\ d \in S.log => S.loaded[d].count = n /\ S.staged[d].count = n + 1
  /\ d \in (DOMAIN S.staged) \ S.log => S.staged[d].count = S.loaded[d].count

CountInv ==
  /\ AttemptLogMatches
  /\ \A d \in Deliveries : delivery[d].status = "ABSENT" => delivery[d].count = 0
  /\ \A s \in Sessions, d \in Deliveries : d \in DOMAIN session[s].loaded =>
       CountFits(session[s], d, delivery[d].count)
  /\ \A s \in Workers, d \in Deliveries : d \in DOMAIN session[s].loaded =>
       session[s].loaded[d].count = delivery[d].count
  /\ \A s \in Operators : DOMAIN session[s].loaded \subseteq DOMAIN session[s].staged

TakenInv ==
  /\ \A d \in Deliveries : delivery[d].status = "SUCCEEDED" => received[d] > 0
  /\ \A s \in Sessions, d \in Deliveries :
       d \in DOMAIN session[s].staged /\ session[s].staged[d].status = "SUCCEEDED" =>
         received[d] > 0

---------------------------------------------------------------------------
(* Pages of rows                                                           *)

LEMMA PageRows ==
  ASSUME NEW p \in Pages
  PROVE  /\ DOMAIN p \subseteq Deliveries
         /\ \A d \in DOMAIN p : p[d] \in Rows
  BY DEF Pages

LEMMA PageMade ==
  ASSUME NEW D \in SUBSET Deliveries, NEW p \in [D -> Rows]
  PROVE  p \in Pages
  BY DEF Pages

LEMMA ViewMade ==
  ASSUME NEW V \in SUBSET Events, NEW w \in [V -> DispatchStates]
  PROVE  w \in Views
  BY DEF Views

LEMMA IdleTyped ==
  /\ Idle \in Transaction /\ ShapeOK(Idle)
  /\ DOMAIN Idle.loaded = {} /\ DOMAIN Idle.staged = {} /\ Idle.pc = "idle"
  /\ [Idle EXCEPT !.pc = "doomed"] \in Transaction /\ ShapeOK([Idle EXCEPT !.pc = "doomed"])
<1>1. NoRows \in Pages /\ DOMAIN NoRows = {}
  <2>1. NoRows \in [{} -> Rows]
    BY DEF NoRows
  <2> QED  BY <2>1, PageMade
<1>2. [v \in {} |-> "PENDING"] \in Views
  <2>1. [v \in {} |-> "PENDING"] \in [{} -> DispatchStates]
    OBVIOUS
  <2> QED  BY <2>1, ViewMade
<1> QED  BY <1>1, <1>2 DEF Idle, Transaction, ShapeOK

LEMMA DeliveryPairs == \A d \in Deliveries : d[1] \in Events /\ d[2] \in Endpoints
BY DEF Deliveries

\* What putting a row into the transaction leaves behind.
LEMMA StagedEffect ==
  ASSUME TypeInv, NEW s \in Sessions, NEW d \in Deliveries, NEW r \in Rows,
         NEW logged \in SUBSET {d}, Staged(s, d, r, logged)
  PROVE  /\ session' = [session EXCEPT ![s] = session'[s]]
         /\ session'[s] \in Transaction
         /\ session'[s].pc = session[s].pc
         /\ session'[s].todo = session[s].todo \ {d}
         /\ session'[s].loaded = session[s].loaded
         /\ session'[s].log = session[s].log \cup logged
         /\ DOMAIN session'[s].staged = DOMAIN session[s].staged \cup {d}
         /\ \A c \in DOMAIN session'[s].staged :
              session'[s].staged[c] = IF c = d THEN r ELSE session[s].staged[c]
<1> DEFINE S == session[s]
           v == d[1]
           page == [c \in DOMAIN S.staged \cup {d} |-> IF c = d THEN r ELSE S.staged[c]]
           view == IF logged = {} THEN S.events
                   ELSE [x \in DOMAIN S.events \cup {v} |->
                          IF x = v THEN DispatchState(StatusesOf(s, v, d, r)) ELSE S.events[x]]
           new == [S EXCEPT !.todo = @ \ {d}, !.staged = page,
                            !.log = @ \cup logged, !.events = view]
<1>1. S \in Transaction
  BY DEF TypeInv
<1>2. session' = [session EXCEPT ![s] = new]
  BY DEF Staged
<1>3. page \in Pages
  <2>1. S.staged \in Pages
    BY <1>1 DEF Transaction
  <2>2. DOMAIN S.staged \cup {d} \in SUBSET Deliveries
    BY <2>1, PageRows
  <2>3. page \in [DOMAIN S.staged \cup {d} -> Rows]
    BY <2>1, PageRows
  <2> HIDE DEF page
  <2> QED  BY <2>2, <2>3, PageMade
<1>4. view \in Views
  <2>1. S.events \in Views
    BY <1>1 DEF Transaction
  <2>2. PICK V \in SUBSET Events : S.events \in [V -> DispatchStates]
    BY <2>1 DEF Views
  <2>3. \A st : DispatchState(st) \in DispatchStates
    BY DEF DispatchState, DispatchStates
  <2>4. v \in Events
    BY DeliveryPairs
  <2>5. CASE logged # {}
    <3> DEFINE w == [x \in DOMAIN S.events \cup {v} |->
                       IF x = v THEN DispatchState(StatusesOf(s, v, d, r)) ELSE S.events[x]]
    <3>1. w \in [V \cup {v} -> DispatchStates]
      BY <2>2, <2>3
    <3>2. V \cup {v} \in SUBSET Events
      BY <2>4
    <3>3. view = w
      BY <2>5
    <3> HIDE DEF w, view
    <3> QED  BY <3>1, <3>2, <3>3, ViewMade
  <2>6. CASE logged = {}
    BY <2>1, <2>6
  <2> QED  BY <2>5, <2>6
<1>5. /\ new \in Transaction /\ new.pc = S.pc /\ new.todo = S.todo \ {d} /\ new.loaded = S.loaded
      /\ new.log = S.log \cup logged /\ new.staged = page
  <2> HIDE DEF page, view
  <2> QED  BY <1>1, <1>3, <1>4 DEF Transaction
<1>6. session'[s] = new
  BY <1>2 DEF TypeInv
<1>7. /\ DOMAIN page = DOMAIN S.staged \cup {d}
      /\ \A c \in DOMAIN page : page[c] = IF c = d THEN r ELSE S.staged[c]
  OBVIOUS
<1> HIDE DEF new, page
<1> QED  BY <1>2, <1>5, <1>6, <1>7

\* The row an attempt starts from, and the rows it may leave.
LEMMA SeenTyped ==
  ASSUME TypeInv, NEW s \in Sessions, NEW d \in Deliveries
  PROVE  Seen(s, d) \in Rows
<1>1. session[s].staged \in Pages
  BY DEF TypeInv, Transaction
<1> QED  BY <1>1, PageRows DEF Seen, TypeInv

LEMMA AttemptedRow ==
  ASSUME NEW r \in Rows, NEW error \in BOOLEAN
  PROVE  /\ AfterAttempt(r, error) \in Rows
         /\ AfterAttempt(r, error).status \in {"SUCCEEDED", "FAILED", "RETRYING"}
         /\ AfterAttempt(r, error).status = "SUCCEEDED" <=> ~error
         /\ AfterAttempt(r, error).count = r.count + 1
<1>1. r.count + 1 \in Nat
  BY DEF Rows
<1>2. CASE ~error
  BY <1>1, <1>2 DEF AfterAttempt, Rows, Statuses, When
<1>3. CASE error /\ r.count + 1 >= MAX_ATTEMPTS
  BY <1>1, <1>3 DEF AfterAttempt, Rows, Statuses, When
<1>4. CASE error /\ ~(r.count + 1 >= MAX_ATTEMPTS)
  BY <1>1, <1>4 DEF AfterAttempt, Rows, Statuses, When
<1> QED  BY <1>2, <1>3, <1>4

LEMMA FlushedRow ==
  ASSUME TypeInv, NEW s \in Sessions, ShapeOK(session[s]), NEW d \in DOMAIN session[s].staged
  PROVE  /\ d \in Deliveries
         /\ Flushed(s, d) \in Rows
         /\ Flushed(s, d).status = session[s].staged[d].status
         /\ Flushed(s, d).count = FlushColumn(session[s].loaded[d].count,
                                      session[s].staged[d].count, delivery[d].count)
<1>1. session[s].staged \in Pages /\ session[s].loaded \in Pages
  BY DEF TypeInv, Transaction
<1>2. d \in Deliveries /\ d \in DOMAIN session[s].loaded
  BY <1>1, PageRows DEF ShapeOK
<1>3. session[s].staged[d] \in Rows /\ session[s].loaded[d] \in Rows /\ delivery[d] \in Rows
  BY <1>1, <1>2, PageRows DEF TypeInv
<1> QED  BY <1>2, <1>3 DEF Flushed, FlushColumn, Rows

---------------------------------------------------------------------------
(* Locks                                                                   *)

LEMMA InitLocks == Init => LockInv
<1> SUFFICES ASSUME Init PROVE LockInv
  OBVIOUS
<1>1. TypeInv
  BY IdleTyped DEF Init, TypeInv, Absent, Rows, Statuses, When, DispatchStates
<1> QED  BY <1>1, IdleTyped, SessionsAssumption DEF Init, LockInv, Absent, Sessions

LEMMA RecordLocks ==
  ASSUME LockInv, NEW v \in Events, RecordEvent(v)
  PROVE  LockInv'
<1>1. Pending \in Rows /\ Pending.status = "PENDING"
  BY DEF Pending, Absent, Rows, Statuses, When
<1>2. TypeInv'
  BY <1>1 DEF LockInv, TypeInv, RecordEvent
<1>3. \A d \in Deliveries : delivery'[d] = delivery[d] \/ delivery'[d].status = "PENDING"
  BY <1>1 DEF RecordEvent
<1> QED  BY <1>2, <1>3, <1>1 DEF LockInv, RecordEvent, Open

LEMMA UpdateLocks ==
  ASSUME LockInv, NEW e \in Endpoints, NEW field \in {"enabled", "subscribed"},
         UpdateEndpoint(e, field)
  PROVE  LockInv'
<1>1. endpoint' \in [Endpoints -> [enabled : BOOLEAN, subscribed : BOOLEAN]]
  <2>1. CASE field = "enabled"
    BY <2>1 DEF LockInv, TypeInv, UpdateEndpoint
  <2>2. CASE field = "subscribed"
    BY <2>2 DEF LockInv, TypeInv, UpdateEndpoint
  <2> QED  BY <2>1, <2>2
<1> QED  BY <1>1 DEF LockInv, TypeInv, UpdateEndpoint

LEMMA ElapseLocks ==
  ASSUME LockInv, NEW d \in Deliveries, Elapse(d)
  PROVE  LockInv'
<1>1. /\ delivery' \in [Deliveries -> Rows]
      /\ \A c \in Deliveries : delivery'[c].status = delivery[c].status
  BY DEF LockInv, TypeInv, Elapse, Rows, When
<1> QED  BY <1>1 DEF LockInv, TypeInv, Elapse

\* A step that changes one transaction, but no row and no lock.
LEMMA TransactionLocks ==
  ASSUME LockInv, NEW s \in Sessions,
         session' = [session EXCEPT ![s] = session'[s]], session'[s] \in Transaction,
         ShapeOK(session'[s]),
         session'[s].pc = "open" => \A d \in DOMAIN session'[s].loaded : owner[d] = s,
         s \in Workers => session'[s].pc # "wait",
         \A d \in DOMAIN session'[s].loaded : delivery[d].status # "ABSENT",
         \A d \in DOMAIN session'[s].staged : session'[s].staged[d].status # "ABSENT",
         received' \in [Deliveries -> Nat],
         UNCHANGED <<tables, owner>>
  PROVE  LockInv'
<1>1. TypeInv'
  BY DEF LockInv, TypeInv, tables
<1>2. \A t \in Sessions : t # s => session'[t] = session[t]
  BY DEF LockInv, TypeInv
<1>3. delivery' = delivery /\ recorded' = recorded /\ owner' = owner
  BY DEF tables
<1>4. \A t \in Sessions : ShapeOK(session'[t])
  BY <1>2 DEF LockInv
<1>5. \A t \in Sessions : session'[t].pc = "open" =>
        \A d \in DOMAIN session'[t].loaded : owner'[d] = t
  BY <1>2, <1>3 DEF LockInv
<1>6. \A t \in Sessions, d \in Deliveries : d \in DOMAIN session'[t].loaded =>
        delivery'[d].status # "ABSENT"
  BY <1>2, <1>3 DEF LockInv
<1>7. \A t \in Sessions, d \in Deliveries : d \in DOMAIN session'[t].staged =>
        session'[t].staged[d].status # "ABSENT"
  BY <1>2 DEF LockInv
<1>8. \A t \in Workers : session'[t].pc # "wait"
  BY <1>2 DEF LockInv, Sessions
<1> QED  BY <1>1, <1>3, <1>4, <1>5, <1>6, <1>7, <1>8 DEF LockInv

\* An attempt puts a row into an open transaction that holds it.
LEMMA StagedLocks ==
  ASSUME LockInv, NEW s \in Sessions, NEW d \in session[s].todo, NEW r \in Rows,
         NEW logged \in SUBSET {d}, Staged(s, d, r, logged), session[s].pc = "open",
         r.status # "ABSENT", received' \in [Deliveries -> Nat], UNCHANGED <<tables, owner>>
  PROVE  LockInv'
<1>1. TypeInv /\ ShapeOK(session[s]) /\ session[s] \in Transaction
  BY DEF LockInv, TypeInv
<1>2. d \in Deliveries
  BY <1>1 DEF Transaction
<1>3. /\ session' = [session EXCEPT ![s] = session'[s]]
      /\ session'[s] \in Transaction
      /\ session'[s].pc = session[s].pc
      /\ session'[s].todo = session[s].todo \ {d}
      /\ session'[s].loaded = session[s].loaded
      /\ session'[s].log = session[s].log \cup logged
      /\ DOMAIN session'[s].staged = DOMAIN session[s].staged \cup {d}
      /\ \A c \in DOMAIN session'[s].staged :
           session'[s].staged[c] = IF c = d THEN r ELSE session[s].staged[c]
  BY <1>1, <1>2, StagedEffect
<1>4. ShapeOK(session'[s])
  BY <1>1, <1>3 DEF ShapeOK
<1>5. \A c \in DOMAIN session[s].staged : c \in Deliveries
  BY <1>1, PageRows DEF Transaction
<1>6. \A c \in DOMAIN session'[s].staged : session'[s].staged[c].status # "ABSENT"
  BY <1>3, <1>5 DEF LockInv
<1>7. \A c \in DOMAIN session[s].loaded : owner[c] = s /\ delivery[c].status # "ABSENT"
  BY <1>1, PageRows DEF LockInv, Transaction
<1> QED  BY <1>3, <1>4, <1>6, <1>7, TransactionLocks

LEMMA DisabledLocks ==
  ASSUME LockInv, NEW s \in Sessions, NEW d \in Deliveries, AttemptDisabled(s, d)
  PROVE  LockInv'
<1> DEFINE r == [Seen(s, d) EXCEPT !.status = "FAILED", !.terminal = TRUE]
<1>1. TypeInv
  BY DEF LockInv
<1>2. r \in Rows /\ r.status = "FAILED"
  BY <1>1, SeenTyped DEF Rows, Statuses
<1>3. /\ session[s].pc = "open" /\ d \in session[s].todo /\ Staged(s, d, r, {})
      /\ UNCHANGED <<tables, received, owner>>
  BY DEF AttemptDisabled
<1>4. received' \in [Deliveries -> Nat]
  BY <1>1, <1>3 DEF TypeInv
<1> HIDE DEF r
<1> QED  BY <1>2, <1>3, <1>4, StagedLocks

LEMMA AttemptLocks ==
  ASSUME LockInv, NEW s \in Sessions, NEW d \in Deliveries,
         NEW outcome \in {"answered", "refused", "timeout"}, Attempt(s, d, outcome)
  PROVE  LockInv'
<1> DEFINE r == AfterAttempt(Seen(s, d), outcome # "answered")
<1>1. TypeInv
  BY DEF LockInv
<1>2. r \in Rows /\ r.status # "ABSENT"
  <2>1. (outcome # "answered") \in BOOLEAN
    OBVIOUS
  <2> QED  BY <1>1, <2>1, SeenTyped, AttemptedRow
<1>3. session[s].pc = "open" /\ d \in session[s].todo /\ UNCHANGED <<tables, owner>>
  BY DEF Attempt
<1>4. received' \in [Deliveries -> Nat]
  BY <1>1 DEF TypeInv, Attempt
<1>5. CASE NumberTaken(d, Seen(s, d).count + 1)
  <2> DEFINE doomed == [Idle EXCEPT !.pc = "doomed"]
  <2>1. session' = [session EXCEPT ![s] = doomed]
    BY <1>5 DEF Attempt
  <2>2. /\ doomed \in Transaction /\ ShapeOK(doomed) /\ doomed.pc = "doomed"
        /\ DOMAIN doomed.loaded = {} /\ DOMAIN doomed.staged = {}
    BY IdleTyped DEF Idle
  <2>3. session'[s] = doomed
    BY <1>1, <2>1 DEF TypeInv
  <2> HIDE DEF doomed
  <2> QED  BY <1>3, <1>4, <2>1, <2>2, <2>3, TransactionLocks
<1>6. CASE ~NumberTaken(d, Seen(s, d).count + 1)
  <2>1. Staged(s, d, r, {d})
    BY <1>6 DEF Attempt
  <2> HIDE DEF r
  <2> QED  BY <1>2, <1>3, <1>4, <2>1, StagedLocks
<1> QED  BY <1>5, <1>6

LEMMA RetryReadLocks ==
  ASSUME LockInv, NEW o \in Operators, NEW d \in Deliveries, RetryRead(o, d)
  PROVE  LockInv'
<1> DEFINE page == [c \in {d} |-> delivery[d]]
           next == [c \in {d} |-> [delivery[d] EXCEPT !.status = "PENDING",
                                      !.terminal = FALSE, !.next = "due"]]
           S == [Idle EXCEPT !.pc = "wait", !.todo = {d}, !.loaded = page, !.staged = next]
<1>1. TypeInv /\ o \in Sessions
  BY DEF LockInv, Sessions
<1>2. page \in Pages /\ next \in Pages
  <2>1. page \in [{d} -> Rows] /\ next \in [{d} -> Rows]
    BY <1>1 DEF TypeInv, Rows, Statuses, When
  <2> HIDE DEF page, next
  <2> QED  BY <2>1, PageMade
<1>3. /\ S \in Transaction /\ S.pc = "wait" /\ S.todo = {d} /\ S.log = {}
      /\ S.loaded = page /\ S.staged = next
  <2> HIDE DEF page, next
  <2> QED  BY <1>2, IdleTyped DEF Transaction, Idle
<1>4. ShapeOK(S)
  <2>1. DOMAIN page = {d} /\ DOMAIN next = {d}
    OBVIOUS
  <2> HIDE DEF S, page, next
  <2> QED  BY <1>3, <2>1 DEF ShapeOK
<1>5. session' = [session EXCEPT ![o] = S] /\ UNCHANGED <<tables, received, owner>>
  BY DEF RetryRead
<1>6. session'[o] = S
  BY <1>1, <1>5 DEF TypeInv
<1>7. \A c \in DOMAIN S.loaded : delivery[c].status # "ABSENT"
  <2>1. delivery[d].status # "ABSENT" /\ DOMAIN page = {d}
    BY DEF RetryRead
  <2> HIDE DEF S, page
  <2> QED  BY <1>3, <2>1
<1>8. \A c \in DOMAIN S.staged : S.staged[c].status # "ABSENT"
  <2>1. \A c \in DOMAIN next : next[c].status = "PENDING"
    BY <1>1 DEF TypeInv, Rows
  <2> HIDE DEF S, next
  <2> QED  BY <1>3, <2>1
<1>9. received' \in [Deliveries -> Nat]
  BY <1>1, <1>5 DEF TypeInv
<1>10. o \notin Workers
  BY SessionsAssumption
<1> HIDE DEF S, page, next
<1> QED  BY <1>1, <1>3, <1>4, <1>5, <1>6, <1>7, <1>8, <1>9, <1>10, TransactionLocks

\* The locks after session s ends: its rows are free, the others' are kept.
LEMMA OwnerAfter ==
  ASSUME TypeInv, NEW s \in Sessions,
         owner' = [d \in Deliveries |-> IF owner[d] = s THEN Free ELSE owner[d]]
  PROVE  /\ owner' \in [Deliveries -> Sessions \cup {Free}]
         /\ \A d \in Deliveries : owner[d] = s => owner'[d] = Free
         /\ \A d \in Deliveries : owner[d] # s => owner'[d] = owner[d]
BY DEF TypeInv

LEMMA EndedLocks ==
  ASSUME LockInv, NEW s \in Sessions, RolledBack(s)
  PROVE  LockInv'
<1>1. TypeInv /\ \A t \in Sessions : session[t].loaded \in Pages
  BY DEF LockInv, TypeInv, Transaction
<1>2. /\ owner' = [d \in Deliveries |-> IF owner[d] = s THEN Free ELSE owner[d]]
      /\ session' = [session EXCEPT ![s] = Idle] /\ delivery' = delivery
      /\ recorded' = recorded /\ UNCHANGED <<endpoint, event, attempts, received>>
  BY DEF RolledBack, tables
<1>3. TypeInv'
  BY <1>1, <1>2, OwnerAfter, IdleTyped DEF TypeInv
<1>4. session'[s] = Idle /\ \A t \in Sessions : t # s => session'[t] = session[t]
  BY <1>1, <1>2 DEF TypeInv
<1>5. \A t \in Sessions : ShapeOK(session'[t])
  BY <1>4, IdleTyped DEF LockInv
<1>6. \A t \in Sessions : session'[t].pc = "open" =>
        \A d \in DOMAIN session'[t].loaded : owner'[d] = t
  <2> SUFFICES ASSUME NEW t \in Sessions, session'[t].pc = "open",
                      NEW d \in DOMAIN session'[t].loaded
               PROVE  owner'[d] = t
    OBVIOUS
  <2>1. t # s /\ session'[t] = session[t]
    BY <1>4, IdleTyped
  <2>2. owner[d] = t /\ d \in Deliveries
    BY <1>1, <2>1, PageRows DEF LockInv
  <2> QED  BY <1>1, <1>2, <2>1, <2>2, OwnerAfter
<1>7. \A d \in Deliveries : owner'[d] \in Workers => delivery[d].status \in Open
  BY <1>1, <1>2, OwnerAfter, SessionsAssumption DEF LockInv, Sessions
<1>8. \A t \in Sessions, d \in Deliveries : d \in DOMAIN session'[t].loaded =>
        delivery'[d].status # "ABSENT"
  BY <1>2, <1>4, IdleTyped DEF LockInv
<1>9. \A t \in Sessions, d \in Deliveries : d \in DOMAIN session'[t].staged =>
        session'[t].staged[d].status # "ABSENT"
  BY <1>4, IdleTyped DEF LockInv
<1>10. \A t \in Workers : session'[t].pc # "wait"
  BY <1>4, IdleTyped DEF LockInv, Sessions
<1> QED  BY <1>2, <1>3, <1>5, <1>6, <1>7, <1>8, <1>9, <1>10 DEF LockInv

\* What a commit does to a row: what it staged is written, every other stays.
LEMMA CommittedRows ==
  ASSUME LockInv, NEW s \in Sessions, Commit(s)
  PROVE  /\ session[s].pc = "open"
         /\ DOMAIN session[s].staged \subseteq Deliveries
         /\ \A d \in DOMAIN session[s].staged :
              /\ owner[d] = s /\ delivery'[d] = Flushed(s, d) /\ delivery'[d] \in Rows
              /\ delivery[d].status # "ABSENT" /\ delivery'[d].status # "ABSENT"
              /\ delivery'[d].status = session[s].staged[d].status
         /\ \A d \in Deliveries \ DOMAIN session[s].staged : delivery'[d] = delivery[d]
         /\ delivery' \in [Deliveries -> Rows]
<1>1. TypeInv /\ ShapeOK(session[s]) /\ session[s] \in Transaction
  BY DEF LockInv, TypeInv
<1>2. DOMAIN session[s].staged \subseteq Deliveries
  BY <1>1, PageRows DEF Transaction
<1>3. session[s].pc = "open"
  BY DEF Commit
<1>4. delivery' = [d \in Deliveries |-> IF d \in DOMAIN session[s].staged
                                       THEN Flushed(s, d) ELSE delivery[d]]
  BY DEF Commit
<1>5. ASSUME NEW d \in DOMAIN session[s].staged
      PROVE  /\ owner[d] = s /\ delivery'[d] = Flushed(s, d) /\ delivery'[d] \in Rows
             /\ delivery[d].status # "ABSENT" /\ delivery'[d].status # "ABSENT"
             /\ delivery'[d].status = session[s].staged[d].status
  <2>1. delivery'[d] = Flushed(s, d) /\ d \in Deliveries
    BY <1>2, <1>4
  <2>2. Flushed(s, d) \in Rows /\ Flushed(s, d).status = session[s].staged[d].status
    BY <1>1, FlushedRow
  <2>3. d \in DOMAIN session[s].loaded
    BY <1>1 DEF ShapeOK
  <2> QED  BY <1>3, <2>1, <2>2, <2>3 DEF LockInv
<1>6. \A d \in Deliveries \ DOMAIN session[s].staged : delivery'[d] = delivery[d]
  BY <1>4
<1>7. delivery' \in [Deliveries -> Rows]
  <2>1. \A d \in Deliveries : delivery'[d] \in Rows
    BY <1>1, <1>5, <1>6 DEF TypeInv
  <2> QED  BY <1>4, <2>1
<1> QED  BY <1>2, <1>3, <1>5, <1>6, <1>7

LEMMA CommitTypes ==
  ASSUME LockInv, NEW s \in Sessions, Commit(s)
  PROVE  TypeInv'
<1> DEFINE S == session[s]
<1>1. TypeInv /\ ShapeOK(S) /\ S \in Transaction
  BY DEF LockInv, TypeInv
<1>2. attempts' \in [Deliveries -> Seq(Nat)]
  <2>1. attempts' = [d \in Deliveries |-> IF d \in S.log
                       THEN Append(attempts[d], S.staged[d].count) ELSE attempts[d]]
    BY DEF Commit
  <2>2. ASSUME NEW d \in Deliveries, d \in S.log
        PROVE  Append(attempts[d], S.staged[d].count) \in Seq(Nat)
    <3>1. S.staged[d] \in Rows
      BY <1>1, <2>2, PageRows DEF ShapeOK, Transaction
    <3> QED  BY <1>1, <3>1 DEF Rows, TypeInv
  <2>3. \A d \in Deliveries : attempts[d] \in Seq(Nat)
    BY <1>1 DEF TypeInv
  <2> QED  BY <2>1, <2>2, <2>3
<1>3. event' \in [Events -> DispatchStates]
  <2>1. event' = [v \in Events |-> IF v \in DOMAIN S.events THEN S.events[v] ELSE event[v]]
    BY DEF Commit
  <2>2. PICK V \in SUBSET Events : S.events \in [V -> DispatchStates]
    BY <1>1 DEF Transaction, Views
  <2>3. \A v \in DOMAIN S.events : S.events[v] \in DispatchStates
    BY <2>2
  <2>4. \A v \in Events : event[v] \in DispatchStates
    BY <1>1 DEF TypeInv
  <2> QED  BY <2>1, <2>3, <2>4
<1>4. delivery' \in [Deliveries -> Rows]
  BY CommittedRows
<1>5. owner' \in [Deliveries -> Sessions \cup {Free}]
  BY <1>1, OwnerAfter DEF Commit
<1>6. session' \in [Sessions -> Transaction]
  BY <1>1, IdleTyped DEF Commit, TypeInv
<1> QED  BY <1>1, <1>2, <1>3, <1>4, <1>5, <1>6 DEF TypeInv, Commit

LEMMA CommitLocks ==
  ASSUME LockInv, NEW s \in Sessions, Commit(s)
  PROVE  LockInv'
<1>1. TypeInv /\ \A t \in Sessions : session[t].loaded \in Pages
  BY DEF LockInv, TypeInv, Transaction
<1>2. /\ owner' = [d \in Deliveries |-> IF owner[d] = s THEN Free ELSE owner[d]]
      /\ session' = [session EXCEPT ![s] = Idle] /\ recorded' = recorded
  BY DEF Commit
<1>3. TypeInv'
  BY CommitTypes
<1>4. session'[s] = Idle /\ \A t \in Sessions : t # s => session'[t] = session[t]
  BY <1>1, <1>2 DEF TypeInv
<1>5. \A t \in Sessions : ShapeOK(session'[t])
  BY <1>4, IdleTyped DEF LockInv
<1>6. \A t \in Sessions : session'[t].pc = "open" =>
        \A d \in DOMAIN session'[t].loaded : owner'[d] = t
  <2> SUFFICES ASSUME NEW t \in Sessions, session'[t].pc = "open",
                      NEW d \in DOMAIN session'[t].loaded
               PROVE  owner'[d] = t
    OBVIOUS
  <2>1. t # s /\ session'[t] = session[t]
    BY <1>4, IdleTyped
  <2>2. owner[d] = t /\ d \in Deliveries
    BY <1>1, <2>1, PageRows DEF LockInv
  <2> QED  BY <1>1, <1>2, <2>1, <2>2, OwnerAfter
<1>7. \A d \in Deliveries : delivery[d].status # "ABSENT" => delivery'[d].status # "ABSENT"
  BY CommittedRows
<1>8. \A d \in Deliveries : owner'[d] \in Workers => delivery'[d].status \in Open
  <2> SUFFICES ASSUME NEW d \in Deliveries, owner'[d] \in Workers
               PROVE  delivery'[d].status \in Open
    OBVIOUS
  <2>1. owner'[d] # Free
    BY SessionsAssumption DEF Sessions
  <2>2. owner[d] # s /\ owner[d] \in Workers
    BY <1>1, <1>2, <2>1, OwnerAfter
  <2>3. delivery'[d] = delivery[d]
    BY <2>2, CommittedRows
  <2> QED  BY <2>2, <2>3 DEF LockInv
<1>9. \A d \in Deliveries : delivery'[d].status # "ABSENT" => d[1] \in recorded'
  BY <1>2, CommittedRows DEF LockInv
<1>10. \A t \in Sessions, d \in Deliveries : d \in DOMAIN session'[t].loaded =>
        delivery'[d].status # "ABSENT"
  BY <1>4, <1>7, IdleTyped DEF LockInv
<1>11. \A t \in Sessions, d \in Deliveries : d \in DOMAIN session'[t].staged =>
        session'[t].staged[d].status # "ABSENT"
  BY <1>4, IdleTyped DEF LockInv
<1>12. \A t \in Workers : session'[t].pc # "wait"
  BY <1>4, IdleTyped DEF LockInv, Sessions
<1> QED  BY <1>3, <1>5, <1>6, <1>8, <1>9, <1>10, <1>11, <1>12 DEF LockInv

LEMMA DeliverLocks ==
  ASSUME LockInv, NEW w \in Workers, DeliverDue(w)
  PROVE  LockInv'
<1> DEFINE page == [d \in Due |-> delivery[d]]
           S == [Idle EXCEPT !.pc = "open", !.todo = Due, !.loaded = page]
<1>1. TypeInv /\ w \in Sessions /\ session[w].pc = "idle"
  BY DEF LockInv, Sessions, DeliverDue
<1>2. /\ owner' = [d \in Deliveries |-> IF d \in Due THEN w ELSE owner[d]]
      /\ session' = [session EXCEPT ![w] = S] /\ delivery' = delivery /\ recorded' = recorded
      /\ UNCHANGED <<endpoint, event, attempts, received>>
  BY DEF DeliverDue, tables
<1>3. /\ Due \subseteq Deliveries
      /\ \A d \in Due : delivery[d].status \in Open /\ owner[d] = Free
  BY DEF Due, Unlocked
<1>4. page \in Pages
  <2>1. page \in [Due -> Rows]
    BY <1>1, <1>3 DEF TypeInv
  <2> HIDE DEF page
  <2> QED  BY <1>3, <2>1, PageMade
<1>5. /\ S \in Transaction /\ S.pc = "open" /\ S.todo = Due /\ S.log = {}
      /\ S.loaded = page /\ DOMAIN S.staged = {} /\ DOMAIN page = Due
  BY <1>3, <1>4, IdleTyped DEF Transaction, Idle
<1>6. ShapeOK(S)
  <2> HIDE DEF S, page
  <2> QED  BY <1>5 DEF ShapeOK
<1>7. session'[w] = S /\ \A t \in Sessions : t # w => session'[t] = session[t]
  BY <1>1, <1>2 DEF TypeInv
<1> HIDE DEF S, page
<1>8. TypeInv'
  BY <1>1, <1>2, <1>5 DEF TypeInv
<1>9. \A t \in Sessions : ShapeOK(session'[t])
  BY <1>6, <1>7 DEF LockInv
<1>10. \A t \in Sessions : session'[t].pc = "open" =>
        \A d \in DOMAIN session'[t].loaded : owner'[d] = t
  <2> SUFFICES ASSUME NEW t \in Sessions, session'[t].pc = "open",
                      NEW d \in DOMAIN session'[t].loaded
               PROVE  owner'[d] = t
    OBVIOUS
  <2>1. CASE t = w
    BY <1>2, <1>3, <1>5, <1>7, <2>1
  <2>2. CASE t # w
    <3>1. owner[d] = t /\ d \in Deliveries
      BY <1>1, <1>7, <2>2, PageRows DEF LockInv, TypeInv, Transaction
    <3> QED  BY <1>2, <1>3, <3>1, SessionsAssumption
  <2> QED  BY <2>1, <2>2
<1>11. \A d \in Deliveries : owner'[d] \in Workers => delivery[d].status \in Open
  BY <1>2, <1>3 DEF LockInv
<1>12. \A t \in Sessions, d \in Deliveries : d \in DOMAIN session'[t].loaded =>
        delivery'[d].status # "ABSENT"
  BY <1>2, <1>3, <1>5, <1>7 DEF LockInv, Open
<1>13. \A t \in Sessions, d \in Deliveries : d \in DOMAIN session'[t].staged =>
        session'[t].staged[d].status # "ABSENT"
  BY <1>5, <1>7 DEF LockInv
<1>14. \A t \in Workers : session'[t].pc # "wait"
  BY <1>5, <1>7 DEF LockInv, Sessions
<1> QED  BY <1>2, <1>8, <1>9, <1>10, <1>11, <1>12, <1>13, <1>14 DEF LockInv

LEMMA RetryLockLocks ==
  ASSUME LockInv, NEW o \in Operators, RetryLock(o)
  PROVE  LockInv'
<1>1. TypeInv /\ o \in Sessions /\ session[o].pc = "wait" /\ session[o] \in Transaction
  BY DEF LockInv, Sessions, RetryLock, TypeInv
<1>2. /\ owner' = [d \in Deliveries |-> IF d \in session[o].todo THEN o ELSE owner[d]]
      /\ session' = [session EXCEPT ![o].pc = "open"] /\ delivery' = delivery
      /\ recorded' = recorded /\ UNCHANGED <<endpoint, event, attempts, received>>
      /\ \A d \in session[o].todo : owner[d] = Free
  BY DEF RetryLock, tables
<1>3. /\ session'[o] \in Transaction /\ session'[o].pc = "open"
      /\ session'[o].todo = session[o].todo /\ session'[o].loaded = session[o].loaded
      /\ session'[o].staged = session[o].staged /\ session'[o].log = session[o].log
      /\ \A t \in Sessions : t # o => session'[t] = session[t]
  BY <1>1, <1>2 DEF TypeInv, Transaction
<1>4. TypeInv'
  <2>1. session' \in [Sessions -> Transaction]
    BY <1>1, <1>2, <1>3 DEF TypeInv
  <2> QED  BY <1>1, <1>2, <2>1 DEF TypeInv
<1>5. \A t \in Sessions : ShapeOK(session'[t])
  BY <1>1, <1>3 DEF LockInv, ShapeOK
<1>6. DOMAIN session[o].loaded \subseteq session[o].todo
  BY <1>1 DEF LockInv, ShapeOK
<1>7. \A t \in Sessions : session'[t].pc = "open" =>
        \A d \in DOMAIN session'[t].loaded : owner'[d] = t
  <2> SUFFICES ASSUME NEW t \in Sessions, session'[t].pc = "open",
                      NEW d \in DOMAIN session'[t].loaded
               PROVE  owner'[d] = t
    OBVIOUS
  <2>1. d \in Deliveries
    BY <1>1, <1>3, PageRows DEF TypeInv, Transaction
  <2>2. CASE t = o
    BY <1>2, <1>3, <1>6, <2>1, <2>2
  <2>3. CASE t # o
    <3>1. owner[d] = t
      BY <1>3, <2>3 DEF LockInv
    <3> QED  BY <1>2, <2>1, <3>1, SessionsAssumption
  <2> QED  BY <2>2, <2>3
<1>8. \A d \in Deliveries : owner'[d] \in Workers => delivery[d].status \in Open
  BY <1>2, SessionsAssumption DEF LockInv
<1>9. \A t \in Sessions, d \in Deliveries : d \in DOMAIN session'[t].loaded =>
        delivery'[d].status # "ABSENT"
  BY <1>2, <1>3 DEF LockInv
<1>10. \A t \in Sessions, d \in Deliveries : d \in DOMAIN session'[t].staged =>
        session'[t].staged[d].status # "ABSENT"
  BY <1>3 DEF LockInv
<1>11. \A t \in Workers : session'[t].pc # "wait"
  BY <1>3 DEF LockInv, Sessions
<1> QED  BY <1>2, <1>4, <1>5, <1>7, <1>8, <1>9, <1>10, <1>11 DEF LockInv

LEMMA StutterLocks ==
  ASSUME LockInv, UNCHANGED vars
  PROVE  LockInv'
BY DEF LockInv, TypeInv, ShapeOK, Open, vars, tables

\* Every step is a step of one action.
LEMMA NextSteps ==
  ASSUME Next
  PROVE  \/ \E v \in Events : RecordEvent(v)
         \/ \E e \in Endpoints, f \in {"enabled", "subscribed"} : UpdateEndpoint(e, f)
         \/ \E d \in Deliveries : Elapse(d)
         \/ \E w \in Workers : DeliverDue(w)
         \/ \E o \in Operators, d \in Deliveries : RetryRead(o, d)
         \/ \E o \in Operators : RetryLock(o)
         \/ \E s \in Sessions, d \in Deliveries : AttemptDisabled(s, d)
         \/ \E s \in Sessions, d \in Deliveries, x \in {"answered", "refused", "timeout"} :
              Attempt(s, d, x)
         \/ \E s \in Sessions : Commit(s)
         \/ \E s \in Sessions : RolledBack(s)
BY Zenon DEF Next, Rollback, Crash

LEMMA LocksKept ==
  ASSUME LockInv, [Next]_vars
  PROVE  LockInv'
<1>1. CASE \E v \in Events : RecordEvent(v)
  BY <1>1, RecordLocks
<1>2. CASE \E e \in Endpoints, f \in {"enabled", "subscribed"} : UpdateEndpoint(e, f)
  BY <1>2, UpdateLocks
<1>3. CASE \E d \in Deliveries : Elapse(d)
  BY <1>3, ElapseLocks
<1>4. CASE \E w \in Workers : DeliverDue(w)
  BY <1>4, DeliverLocks
<1>5. CASE \E o \in Operators, d \in Deliveries : RetryRead(o, d)
  BY <1>5, RetryReadLocks
<1>6. CASE \E o \in Operators : RetryLock(o)
  BY <1>6, RetryLockLocks
<1>7. CASE \E s \in Sessions, d \in Deliveries : AttemptDisabled(s, d)
  BY <1>7, DisabledLocks
<1>8. CASE \E s \in Sessions, d \in Deliveries, x \in {"answered", "refused", "timeout"} :
             Attempt(s, d, x)
  BY <1>8, AttemptLocks
<1>9. CASE \E s \in Sessions : Commit(s)
  BY <1>9, CommitLocks
<1>10. CASE \E s \in Sessions : RolledBack(s)
  BY <1>10, EndedLocks
<1>11. CASE UNCHANGED vars
  BY <1>11, StutterLocks
<1> QED
  BY <1>1, <1>2, <1>3, <1>4, <1>5, <1>6, <1>7, <1>8, <1>9, <1>10, <1>11, NextSteps

\* Every transaction that has taken its rows holds all of them until it ends,
\* and what a worker holds is still waiting to be delivered
\* (services/webhooks.py, FOR UPDATE SKIP LOCKED).
THEOREM LocksHold == Spec => []LockInv
<1>1. Init => LockInv
  BY InitLocks
<1>2. LockInv /\ [Next]_vars => LockInv'
  BY LocksKept
<1> QED  BY <1>1, <1>2, PTL DEF Spec

\* The statuses, counters and logs of the outbox keep their types.
THEOREM WebhooksTypeCorrect == Spec => []TypeOK
<1>1. LockInv => TypeOK
  <2> SUFFICES ASSUME LockInv PROVE TypeOK
    OBVIOUS
  <2>1. TypeInv
    BY DEF LockInv
  <2>2. ASSUME NEW s \in Sessions
        PROVE  /\ session[s].pc \in {"idle", "wait", "open", "doomed"}
               /\ session[s].log \subseteq DOMAIN session[s].staged
               /\ \A d \in DOMAIN session[s].staged : session[s].staged[d] \in Rows
    <3>1. session[s] \in Transaction /\ ShapeOK(session[s])
      BY DEF LockInv, TypeInv
    <3> QED  BY <3>1, PageRows DEF Transaction, ShapeOK
  <2> QED  BY <2>1, <2>2 DEF TypeInv, TypeOK
<1> QED  BY <1>1, LocksHold, PTL

---------------------------------------------------------------------------
(* The log of the attempts                                                 *)

\* A log without gaps, the next number, and the log after it.
LEMMA NextNumber ==
  ASSUME NEW n \in Nat, NEW a, a = [i \in 1 .. n |-> i]
  PROVE  /\ \A k \in Nat : k + 1 <= n => k + 1 \in {a[i] : i \in DOMAIN a}
         /\ Append(a, n + 1) = [i \in 1 .. n + 1 |-> i]
<1>1. ASSUME NEW k \in Nat, k + 1 <= n
      PROVE  k + 1 \in {a[i] : i \in DOMAIN a}
  <2>1. k + 1 \in DOMAIN a /\ a[k + 1] = k + 1
    BY <1>1
  <2> QED  BY <2>1
<1>2. Len(a) = n /\ a \in Seq(Nat)
  OBVIOUS
<1>3. Append(a, n + 1) = [i \in 1 .. n + 1 |-> i]
  BY <1>2
<1> QED  BY <1>1, <1>3

LEMMA InitCounts == Init => CountInv
BY IdleTyped, SessionsAssumption DEF Init, CountInv, AttemptLogMatches, Absent, Sessions

\* A step after which counters, logs and what was read are as before.
LEMMA CountFrame ==
  ASSUME CountInv, attempts' = attempts,
         \A d \in Deliveries : delivery'[d].count = delivery[d].count,
         \A d \in Deliveries : delivery'[d].status = "ABSENT" => delivery[d].status = "ABSENT",
         \A t \in Sessions : /\ session'[t].loaded = session[t].loaded
                             /\ session'[t].staged = session[t].staged
                             /\ session'[t].log = session[t].log
  PROVE  CountInv'
BY DEF CountInv, CountFits, AttemptLogMatches, Sessions

\* A step that changes one transaction, but no row.
LEMMA CountSession ==
  ASSUME CountInv, NEW s \in Sessions, attempts' = attempts, delivery' = delivery,
         \A t \in Sessions : t # s => session'[t] = session[t],
         \A d \in Deliveries : d \in DOMAIN session'[s].loaded =>
           /\ CountFits(session'[s], d, delivery[d].count)
           /\ s \in Workers => session'[s].loaded[d].count = delivery[d].count,
         s \in Operators => DOMAIN session'[s].loaded \subseteq DOMAIN session'[s].staged
  PROVE  CountInv'
<1>1. \A t \in Sessions, d \in Deliveries : d \in DOMAIN session'[t].loaded =>
        CountFits(session'[t], d, delivery[d].count)
  BY DEF CountInv
<1>2. \A t \in Workers, d \in Deliveries : d \in DOMAIN session'[t].loaded =>
        session'[t].loaded[d].count = delivery[d].count
  BY DEF CountInv, Sessions
<1>3. \A t \in Operators : DOMAIN session'[t].loaded \subseteq DOMAIN session'[t].staged
  BY DEF CountInv, Sessions
<1> QED  BY <1>1, <1>2, <1>3 DEF CountInv, CountFits, AttemptLogMatches

LEMMA RecordCounts ==
  ASSUME LockInv, CountInv, NEW v \in Events, RecordEvent(v)
  PROVE  CountInv'
<1>1. Pending.count = 0 /\ Pending.status = "PENDING"
  BY DEF Pending, Absent
<1>2. \A d \in Deliveries : d[1] = v => delivery[d].count = 0
  BY DEF LockInv, CountInv, RecordEvent
<1>3. \A d \in Deliveries : \/ delivery'[d] = delivery[d]
                            \/ d[1] = v /\ delivery'[d] = Pending
  BY DEF RecordEvent
<1>4. attempts' = attempts /\ session' = session
  BY DEF RecordEvent
<1> QED  BY <1>1, <1>2, <1>3, <1>4, CountFrame

LEMMA ElapseCounts ==
  ASSUME LockInv, CountInv, NEW d \in Deliveries, Elapse(d)
  PROVE  CountInv'
<1>1. \A c \in Deliveries : /\ delivery'[c].count = delivery[c].count
                            /\ delivery'[c].status = delivery[c].status
  BY DEF LockInv, TypeInv, Elapse, Rows
<1>2. attempts' = attempts /\ session' = session
  BY DEF Elapse
<1> QED  BY <1>1, <1>2, CountFrame

LEMMA RetryLockCounts ==
  ASSUME LockInv, CountInv, NEW o \in Operators, RetryLock(o)
  PROVE  CountInv'
<1>1. attempts' = attempts /\ delivery' = delivery
  BY DEF RetryLock, tables
<1>2. session' = [session EXCEPT ![o].pc = "open"]
  BY DEF RetryLock
<1>3. \A t \in Sessions : /\ session'[t].loaded = session[t].loaded
                          /\ session'[t].staged = session[t].staged
                          /\ session'[t].log = session[t].log
  BY <1>2 DEF LockInv, TypeInv, Transaction
<1> QED  BY <1>1, <1>3, CountFrame

LEMMA EndedCounts ==
  ASSUME LockInv, CountInv, NEW s \in Sessions, RolledBack(s)
  PROVE  CountInv'
<1>1. attempts' = attempts /\ delivery' = delivery /\ session' = [session EXCEPT ![s] = Idle]
  BY DEF RolledBack, tables
<1>2. session'[s] = Idle /\ \A t \in Sessions : t # s => session'[t] = session[t]
  BY <1>1 DEF LockInv, TypeInv
<1> QED  BY <1>1, <1>2, IdleTyped, CountSession

LEMMA RetryReadCounts ==
  ASSUME LockInv, CountInv, NEW o \in Operators, NEW d \in Deliveries, RetryRead(o, d)
  PROVE  CountInv'
<1> DEFINE page == [c \in {d} |-> delivery[d]]
           next == [c \in {d} |-> [delivery[d] EXCEPT !.status = "PENDING",
                                      !.terminal = FALSE, !.next = "due"]]
           S == [Idle EXCEPT !.pc = "wait", !.todo = {d}, !.loaded = page, !.staged = next]
<1>1. /\ o \in Sessions /\ o \notin Workers /\ delivery' = delivery /\ attempts' = attempts
      /\ session' = [session EXCEPT ![o] = S]
  BY SessionsAssumption DEF RetryRead, Sessions, tables
<1>2. /\ DOMAIN page = {d} /\ DOMAIN next = {d}
      /\ page[d] = delivery[d] /\ next[d].count = delivery[d].count
  BY DEF LockInv, TypeInv, Rows
<1>3. delivery[d].count \in Nat
  BY DEF LockInv, TypeInv, Rows
<1>4. S.loaded = page /\ S.staged = next /\ S.log = {}
  <2> HIDE DEF page, next
  <2> QED  BY DEF Idle
<1>5. session'[o] = S /\ \A t \in Sessions : t # o => session'[t] = session[t]
  BY <1>1 DEF LockInv, TypeInv
<1> HIDE DEF S, page, next
<1>6. \A c \in Deliveries : c \in DOMAIN S.loaded => CountFits(S, c, delivery[c].count)
  BY <1>2, <1>3, <1>4 DEF CountFits
<1> QED  BY <1>1, <1>2, <1>4, <1>5, <1>6, CountSession

LEMMA DeliverCounts ==
  ASSUME LockInv, CountInv, NEW w \in Workers, DeliverDue(w)
  PROVE  CountInv'
<1> DEFINE page == [d \in Due |-> delivery[d]]
           S == [Idle EXCEPT !.pc = "open", !.todo = Due, !.loaded = page]
<1>1. /\ w \in Sessions /\ w \notin Operators /\ delivery' = delivery /\ attempts' = attempts
      /\ session' = [session EXCEPT ![w] = S]
  BY SessionsAssumption DEF DeliverDue, Sessions, tables
<1>2. DOMAIN page = Due /\ \A d \in Due : page[d] = delivery[d]
  OBVIOUS
<1>3. \A d \in Deliveries : delivery[d].count \in Nat
  BY DEF LockInv, TypeInv, Rows
<1>4. S.loaded = page /\ DOMAIN S.staged = {} /\ S.log = {}
  <2> HIDE DEF page
  <2> QED  BY IdleTyped DEF Idle
<1>5. session'[w] = S /\ \A t \in Sessions : t # w => session'[t] = session[t]
  BY <1>1 DEF LockInv, TypeInv
<1> HIDE DEF S, page
<1>6. \A c \in Deliveries : c \in DOMAIN S.loaded => CountFits(S, c, delivery[c].count)
  BY <1>2, <1>3, <1>4 DEF CountFits
<1> QED  BY <1>1, <1>2, <1>4, <1>5, <1>6, CountSession

\* The counter an attempt starts from is the one the transaction read.
LEMMA SeenCount ==
  ASSUME LockInv, CountInv, NEW s \in Sessions, NEW d \in session[s].todo
  PROVE  /\ d \in Deliveries /\ d \in DOMAIN session[s].loaded /\ d \notin session[s].log
         /\ session[s].loaded[d].count \in Nat /\ delivery[d].count \in Nat
         /\ session[s].loaded[d].count <= delivery[d].count
         /\ Seen(s, d).count = session[s].loaded[d].count
<1>1. TypeInv /\ ShapeOK(session[s]) /\ session[s] \in Transaction
  BY DEF LockInv, TypeInv
<1>2. d \in Deliveries /\ d \in DOMAIN session[s].loaded /\ d \notin session[s].log
  BY <1>1 DEF ShapeOK, Transaction
<1>3. session[s].loaded[d] \in Rows /\ delivery[d] \in Rows
  BY <1>1, <1>2, PageRows DEF Transaction, TypeInv
<1>4. CountFits(session[s], d, delivery[d].count)
  BY <1>2 DEF CountInv
<1>5. CASE d \in DOMAIN session[s].staged
  BY <1>2, <1>3, <1>4, <1>5 DEF Seen, CountFits, Rows
<1>6. CASE d \notin DOMAIN session[s].staged
  <2>1. s \in Workers
    BY <1>2, <1>6 DEF CountInv, Sessions
  <2> QED  BY <1>2, <1>3, <1>4, <1>6, <2>1 DEF Seen, CountFits, CountInv, Rows
<1> QED  BY <1>5, <1>6

LEMMA StagedCounts ==
  ASSUME LockInv, CountInv, NEW s \in Sessions, NEW d \in session[s].todo, NEW r \in Rows,
         NEW logged \in SUBSET {d}, Staged(s, d, r, logged), UNCHANGED tables,
         logged = {} => r.count = session[s].loaded[d].count,
         d \in logged => /\ session[s].loaded[d].count = delivery[d].count
                         /\ r.count = delivery[d].count + 1
  PROVE  CountInv'
<1>1. TypeInv /\ ShapeOK(session[s])
  BY DEF LockInv
<1>2. d \in Deliveries /\ d \in DOMAIN session[s].loaded /\ d \notin session[s].log
  BY SeenCount
<1>3. /\ session' = [session EXCEPT ![s] = session'[s]]
      /\ session'[s].loaded = session[s].loaded
      /\ session'[s].log = session[s].log \cup logged
      /\ DOMAIN session'[s].staged = DOMAIN session[s].staged \cup {d}
      /\ \A c \in DOMAIN session'[s].staged :
           session'[s].staged[c] = IF c = d THEN r ELSE session[s].staged[c]
  BY <1>1, <1>2, StagedEffect
<1>4. delivery' = delivery /\ attempts' = attempts
  BY DEF tables
<1>5. \A t \in Sessions : t # s => session'[t] = session[t]
  BY <1>1, <1>3 DEF TypeInv
<1>6. ASSUME NEW c \in Deliveries, c \in DOMAIN session'[s].loaded
      PROVE  CountFits(session'[s], c, delivery[c].count)
  <2>1. CountFits(session[s], c, delivery[c].count)
    BY <1>3, <1>6 DEF CountInv
  <2>2. CASE c # d
    <3>1. session[s].log \subseteq DOMAIN session[s].staged
      BY <1>1 DEF ShapeOK
    <3> QED  BY <1>3, <2>1, <2>2, <3>1 DEF CountFits
  <2>3. CASE c = d /\ logged = {}
    BY <1>2, <1>3, <2>1, <2>3 DEF CountFits
  <2>4. CASE c = d /\ d \in logged
    BY <1>2, <1>3, <2>1, <2>4 DEF CountFits
  <2> QED  BY <2>2, <2>3, <2>4
<1>7. \A c \in Deliveries : c \in DOMAIN session'[s].loaded /\ s \in Workers =>
        session'[s].loaded[c].count = delivery[c].count
  BY <1>3 DEF CountInv
<1>8. s \in Operators => DOMAIN session'[s].loaded \subseteq DOMAIN session'[s].staged
  BY <1>3 DEF CountInv
<1> QED  BY <1>4, <1>5, <1>6, <1>7, <1>8, CountSession

LEMMA DisabledCounts ==
  ASSUME LockInv, CountInv, NEW s \in Sessions, NEW d \in Deliveries, AttemptDisabled(s, d)
  PROVE  CountInv'
<1> DEFINE r == [Seen(s, d) EXCEPT !.status = "FAILED", !.terminal = TRUE]
<1>1. d \in session[s].todo /\ Staged(s, d, r, {}) /\ UNCHANGED tables
  BY DEF AttemptDisabled
<1>2. Seen(s, d) \in Rows
  BY SeenTyped DEF LockInv
<1>3. r \in Rows /\ r.count = Seen(s, d).count
  BY <1>2 DEF Rows, Statuses
<1> HIDE DEF r
<1> QED  BY <1>1, <1>3, SeenCount, StagedCounts

LEMMA AttemptCounts ==
  ASSUME LockInv, CountInv, NEW s \in Sessions, NEW d \in Deliveries,
         NEW outcome \in {"answered", "refused", "timeout"}, Attempt(s, d, outcome)
  PROVE  CountInv'
<1> DEFINE r == AfterAttempt(Seen(s, d), outcome # "answered")
           n == delivery[d].count
<1>1. TypeInv /\ d \in session[s].todo /\ UNCHANGED tables
  BY DEF LockInv, Attempt
<1>2. /\ session[s].loaded[d].count \in Nat /\ n \in Nat /\ session[s].loaded[d].count <= n
      /\ Seen(s, d).count = session[s].loaded[d].count
  BY <1>1, SeenCount
<1>3. r \in Rows /\ r.count = Seen(s, d).count + 1
  <2>1. (outcome # "answered") \in BOOLEAN
    OBVIOUS
  <2> QED  BY <1>1, <2>1, SeenTyped, AttemptedRow
<1>4. CASE NumberTaken(d, Seen(s, d).count + 1)
  <2>1. session' = [session EXCEPT ![s] = [Idle EXCEPT !.pc = "doomed"]]
    BY <1>4 DEF Attempt
  <2>2. /\ session'[s] = [Idle EXCEPT !.pc = "doomed"]
        /\ \A t \in Sessions : t # s => session'[t] = session[t]
    BY <1>1, <2>1 DEF TypeInv
  <2>3. DOMAIN session'[s].loaded = {} /\ delivery' = delivery /\ attempts' = attempts
    BY <1>1, <2>2, IdleTyped DEF Idle, tables
  <2> QED  BY <2>2, <2>3, CountSession
<1>5. CASE ~NumberTaken(d, Seen(s, d).count + 1)
  <2>1. Staged(s, d, r, {d})
    BY <1>5 DEF Attempt
  <2>2. attempts[d] = [i \in 1 .. n |-> i]
    BY DEF CountInv, AttemptLogMatches
  <2>3. ~(session[s].loaded[d].count + 1 <= n)
    BY <1>2, <1>5, <2>2, NextNumber DEF NumberTaken
  <2>4. session[s].loaded[d].count = n /\ r.count = n + 1
    BY <1>2, <1>3, <2>3
  <2> HIDE DEF r, n
  <2> QED  BY <1>1, <1>3, <2>1, <2>4, StagedCounts DEF n
<1> QED  BY <1>4, <1>5

\* A commit adds one attempt to the counter and the log of what it attempted,
\* and leaves every other counter alone.
LEMMA CommitCount ==
  ASSUME LockInv, CountInv, NEW s \in Sessions, Commit(s), NEW d \in Deliveries
  PROVE  /\ delivery[d].count \in Nat
         /\ attempts'[d] = [i \in 1 .. delivery'[d].count |-> i]
         /\ d \in session[s].log => delivery'[d].count = delivery[d].count + 1
         /\ d \notin session[s].log => delivery'[d].count = delivery[d].count
         /\ d \notin DOMAIN session[s].staged => delivery'[d] = delivery[d]
<1> DEFINE S == session[s]
           n == delivery[d].count
<1>1. TypeInv /\ ShapeOK(S)
  BY DEF LockInv
<1>2. n \in Nat /\ attempts[d] = [i \in 1 .. n |-> i]
  BY <1>1 DEF CountInv, AttemptLogMatches, TypeInv, Rows
<1>3. d \notin DOMAIN S.staged => delivery'[d] = delivery[d]
  BY CommittedRows
<1>4. ASSUME d \in DOMAIN S.staged
      PROVE  /\ delivery'[d].count = FlushColumn(S.loaded[d].count, S.staged[d].count, n)
             /\ CountFits(S, d, n)
  <2>1. delivery'[d] = Flushed(s, d)
    BY <1>4, CommittedRows
  <2>2. d \in DOMAIN S.loaded
    BY <1>1, <1>4 DEF ShapeOK
  <2> QED  BY <1>1, <1>4, <2>1, <2>2, FlushedRow DEF CountInv
<1>5. attempts'[d] = IF d \in S.log THEN Append(attempts[d], S.staged[d].count) ELSE attempts[d]
  BY DEF Commit
<1>6. CASE d \in S.log
  <2>1. d \in DOMAIN S.staged
    BY <1>1, <1>6 DEF ShapeOK
  <2>2. S.staged[d].count = n + 1 /\ delivery'[d].count = n + 1
    BY <1>2, <1>4, <1>6, <2>1 DEF CountFits, FlushColumn
  <2>3. Append(attempts[d], n + 1) = [i \in 1 .. n + 1 |-> i]
    BY <1>2, NextNumber
  <2> QED  BY <1>2, <1>3, <1>5, <1>6, <2>1, <2>2, <2>3
<1>7. CASE d \notin S.log
  <2>1. delivery'[d].count = n
    BY <1>2, <1>3, <1>4, <1>7 DEF CountFits, FlushColumn
  <2> QED  BY <1>2, <1>3, <1>5, <1>7, <2>1
<1> QED  BY <1>6, <1>7

LEMMA CommitCounts ==
  ASSUME LockInv, CountInv, NEW s \in Sessions, Commit(s)
  PROVE  CountInv'
<1>1. TypeInv /\ \A t \in Sessions : ShapeOK(session[t]) /\ session[t] \in Transaction
  BY DEF LockInv, TypeInv
<1>2. session'[s] = Idle /\ \A t \in Sessions : t # s => session'[t] = session[t]
  BY <1>1 DEF TypeInv, Commit
<1>3. AttemptLogMatches'
  BY CommitCount DEF AttemptLogMatches
<1>4. \A d \in Deliveries : delivery'[d].status = "ABSENT" => delivery'[d].count = 0
  <2> SUFFICES ASSUME NEW d \in Deliveries, delivery'[d].status = "ABSENT"
               PROVE  delivery'[d].count = 0
    OBVIOUS
  <2>1. d \notin DOMAIN session[s].staged
    BY CommittedRows
  <2>2. delivery'[d] = delivery[d]
    BY <2>1, CommittedRows
  <2> QED  BY <2>2 DEF CountInv
<1>5. ASSUME NEW t \in Sessions, NEW d \in Deliveries, d \in DOMAIN session'[t].loaded
      PROVE  /\ CountFits(session'[t], d, delivery'[d].count)
             /\ t \in Workers => session'[t].loaded[d].count = delivery'[d].count
  <2>1. t # s /\ session'[t] = session[t] /\ d \in DOMAIN session[t].loaded
    BY <1>2, <1>5, IdleTyped
  <2>2. CountFits(session[t], d, delivery[d].count)
    BY <2>1 DEF CountInv
  <2>3. t \in Workers => session[t].loaded[d].count = delivery[d].count
    BY <2>1 DEF CountInv
  <2>4. CASE d \in session[s].log
    <3>1. owner[d] = s
      BY <1>1, <2>4, CommittedRows DEF ShapeOK
    <3>2. session[t].pc = "wait" /\ t \notin Workers /\ session[t].log = {}
      BY <1>1, <2>1, <3>1 DEF LockInv, ShapeOK, Transaction
    <3>3. session[t].loaded[d].count \in Nat
      <4>1. session[t].loaded[d] \in Rows
        BY <1>1, <2>1, PageRows DEF Transaction
      <4> QED  BY <4>1 DEF Rows
    <3>4. delivery[d].count \in Nat /\ delivery'[d].count = delivery[d].count + 1
      BY <2>4, CommitCount
    <3>5. CountFits(session[t], d, delivery[d].count + 1)
      BY <2>2, <3>2, <3>3, <3>4 DEF CountFits
    <3> QED  BY <2>1, <3>2, <3>4, <3>5
  <2>5. CASE d \notin session[s].log
    BY <2>1, <2>2, <2>3, <2>5, CommitCount
  <2> QED  BY <2>4, <2>5
<1>6. \A t \in Operators : DOMAIN session'[t].loaded \subseteq DOMAIN session'[t].staged
  BY <1>2, IdleTyped DEF CountInv, Sessions
<1>7. \A t \in Workers : t \in Sessions
  BY DEF Sessions
<1> QED  BY <1>3, <1>4, <1>5, <1>6, <1>7 DEF CountInv

LEMMA CountsKept ==
  ASSUME LockInv, CountInv, [Next]_vars
  PROVE  CountInv'
<1>1. CASE \E v \in Events : RecordEvent(v)
  BY <1>1, RecordCounts
<1>2. CASE \E e \in Endpoints, f \in {"enabled", "subscribed"} : UpdateEndpoint(e, f)
  BY <1>2, CountFrame DEF UpdateEndpoint
<1>3. CASE \E d \in Deliveries : Elapse(d)
  BY <1>3, ElapseCounts
<1>4. CASE \E w \in Workers : DeliverDue(w)
  BY <1>4, DeliverCounts
<1>5. CASE \E o \in Operators, d \in Deliveries : RetryRead(o, d)
  BY <1>5, RetryReadCounts
<1>6. CASE \E o \in Operators : RetryLock(o)
  BY <1>6, RetryLockCounts
<1>7. CASE \E s \in Sessions, d \in Deliveries : AttemptDisabled(s, d)
  BY <1>7, DisabledCounts
<1>8. CASE \E s \in Sessions, d \in Deliveries, x \in {"answered", "refused", "timeout"} :
             Attempt(s, d, x)
  BY <1>8, AttemptCounts
<1>9. CASE \E s \in Sessions : Commit(s)
  BY <1>9, CommitCounts
<1>10. CASE \E s \in Sessions : RolledBack(s)
  BY <1>10, EndedCounts
<1>11. CASE UNCHANGED vars
  BY <1>11, CountFrame DEF vars, tables
<1> QED
  BY <1>1, <1>2, <1>3, <1>4, <1>5, <1>6, <1>7, <1>8, <1>9, <1>10, <1>11, NextSteps

\* However workers, retries, crashes and lost answers mix, the attempts logged
\* for a delivery are numbered 1, 2, 3, ... up to its attempt_count.
THEOREM AttemptsLogged == Spec => []AttemptLogMatches
<1>1. Init => CountInv
  BY InitCounts
<1>2. LockInv /\ CountInv /\ [Next]_vars => CountInv'
  BY CountsKept
<1>3. CountInv => AttemptLogMatches
  BY DEF CountInv
<1> QED  BY <1>1, <1>2, <1>3, LocksHold, PTL DEF Spec

---------------------------------------------------------------------------
(* Nothing is counted as delivered that was not taken                      *)

\* A step that changes at most the transaction of s.
LEMMA TakenSession ==
  ASSUME TakenInv, NEW s \in Sessions,
         \A t \in Sessions : t # s => session'[t] = session[t],
         \A d \in Deliveries : received[d] > 0 => received'[d] > 0,
         \A d \in Deliveries : delivery'[d].status = "SUCCEEDED" => received[d] > 0,
         \A d \in Deliveries : d \in DOMAIN session'[s].staged
             /\ session'[s].staged[d].status = "SUCCEEDED" => received'[d] > 0
  PROVE  TakenInv'
BY DEF TakenInv

\* A step that changes no transaction.
LEMMA TakenFrame ==
  ASSUME TakenInv, session' = session, received' = received,
         \A d \in Deliveries : delivery'[d].status = "SUCCEEDED"
                                 => delivery[d].status = "SUCCEEDED"
  PROVE  TakenInv'
BY DEF TakenInv

LEMMA InitTaken == Init => TakenInv
BY IdleTyped DEF Init, TakenInv, Absent

\* What an attempt stages is counted as delivered only if it was answered.
LEMMA StagedTaken ==
  ASSUME LockInv, TakenInv, NEW s \in Sessions, NEW d \in Deliveries, NEW r \in Rows,
         NEW logged \in SUBSET {d}, Staged(s, d, r, logged), UNCHANGED tables,
         \A c \in Deliveries : received[c] > 0 => received'[c] > 0,
         r.status = "SUCCEEDED" => received'[d] > 0
  PROVE  TakenInv'
<1>1. TypeInv
  BY DEF LockInv
<1>2. /\ session' = [session EXCEPT ![s] = session'[s]]
      /\ DOMAIN session'[s].staged = DOMAIN session[s].staged \cup {d}
      /\ \A c \in DOMAIN session'[s].staged :
           session'[s].staged[c] = IF c = d THEN r ELSE session[s].staged[c]
  BY <1>1, StagedEffect
<1>3. \A t \in Sessions : t # s => session'[t] = session[t]
  BY <1>1, <1>2 DEF TypeInv
<1>4. \A c \in Deliveries : delivery'[c].status = "SUCCEEDED" => received[c] > 0
  BY DEF TakenInv, tables
<1>5. \A c \in Deliveries : c \in DOMAIN session'[s].staged
        /\ session'[s].staged[c].status = "SUCCEEDED" => received'[c] > 0
  BY <1>2 DEF TakenInv
<1> QED  BY <1>3, <1>4, <1>5, TakenSession

LEMMA AttemptTaken ==
  ASSUME LockInv, TakenInv, NEW s \in Sessions, NEW d \in Deliveries,
         NEW outcome \in {"answered", "refused", "timeout"}, Attempt(s, d, outcome)
  PROVE  TakenInv'
<1> DEFINE r == AfterAttempt(Seen(s, d), outcome # "answered")
<1>1. TypeInv /\ UNCHANGED tables
  BY DEF LockInv, Attempt
<1>2. r \in Rows /\ (r.status = "SUCCEEDED" <=> outcome = "answered")
  <2>1. (outcome # "answered") \in BOOLEAN
    OBVIOUS
  <2> QED  BY <1>1, <2>1, SeenTyped, AttemptedRow
<1>3. /\ \A c \in Deliveries : received[c] > 0 => received'[c] > 0
      /\ outcome = "answered" => received'[d] > 0
  <2>1. received' = [received EXCEPT ![d] = @ + IF outcome = "refused" THEN 0 ELSE 1]
    BY DEF Attempt
  <2> QED  BY <1>1, <2>1 DEF TypeInv
<1>4. CASE NumberTaken(d, Seen(s, d).count + 1)
  <2>1. session' = [session EXCEPT ![s] = [Idle EXCEPT !.pc = "doomed"]]
    BY <1>4 DEF Attempt
  <2>2. /\ session'[s] = [Idle EXCEPT !.pc = "doomed"]
        /\ \A t \in Sessions : t # s => session'[t] = session[t]
    BY <1>1, <2>1 DEF TypeInv
  <2>3. DOMAIN session'[s].staged = {} /\ delivery' = delivery
    BY <1>1, <2>2, IdleTyped DEF Idle, tables
  <2> QED  BY <1>3, <2>2, <2>3, TakenSession DEF TakenInv
<1>5. CASE ~NumberTaken(d, Seen(s, d).count + 1)
  <2>1. Staged(s, d, r, {d})
    BY <1>5 DEF Attempt
  <2> HIDE DEF r
  <2> QED  BY <1>1, <1>2, <1>3, <2>1, StagedTaken
<1> QED  BY <1>4, <1>5

LEMMA DisabledTaken ==
  ASSUME LockInv, TakenInv, NEW s \in Sessions, NEW d \in Deliveries, AttemptDisabled(s, d)
  PROVE  TakenInv'
<1> DEFINE r == [Seen(s, d) EXCEPT !.status = "FAILED", !.terminal = TRUE]
<1>1. Staged(s, d, r, {}) /\ UNCHANGED tables /\ received' = received
  BY DEF AttemptDisabled
<1>2. Seen(s, d) \in Rows
  BY SeenTyped DEF LockInv
<1>3. r \in Rows /\ r.status = "FAILED"
  BY <1>2 DEF Rows, Statuses
<1> HIDE DEF r
<1> QED  BY <1>1, <1>3, StagedTaken

LEMMA OwnTaken ==
  ASSUME LockInv, TakenInv, NEW s \in Sessions, UNCHANGED <<delivery, received>>,
         NEW S, session' = [session EXCEPT ![s] = S],
         \A d \in DOMAIN S.staged : S.staged[d].status # "SUCCEEDED"
  PROVE  TakenInv'
<1>1. session'[s] = S /\ \A t \in Sessions : t # s => session'[t] = session[t]
  BY DEF LockInv, TypeInv
<1> QED  BY <1>1, TakenSession DEF TakenInv

LEMMA RetryReadTaken ==
  ASSUME LockInv, TakenInv, NEW o \in Operators, NEW d \in Deliveries, RetryRead(o, d)
  PROVE  TakenInv'
<1> DEFINE page == [c \in {d} |-> delivery[d]]
           next == [c \in {d} |-> [delivery[d] EXCEPT !.status = "PENDING",
                                      !.terminal = FALSE, !.next = "due"]]
           S == [Idle EXCEPT !.pc = "wait", !.todo = {d}, !.loaded = page, !.staged = next]
<1>1. \A c \in DOMAIN next : next[c].status = "PENDING"
  BY DEF LockInv, TypeInv, Rows
<1>2. S.staged = next
  <2> HIDE DEF page, next
  <2> QED  BY DEF Idle
<1>3. o \in Sessions /\ session' = [session EXCEPT ![o] = S] /\ UNCHANGED <<delivery, received>>
  BY DEF RetryRead, Sessions, tables
<1> HIDE DEF S, page, next
<1> QED  BY <1>1, <1>2, <1>3, OwnTaken

LEMMA DeliverTaken ==
  ASSUME LockInv, TakenInv, NEW w \in Workers, DeliverDue(w)
  PROVE  TakenInv'
<1> DEFINE page == [d \in Due |-> delivery[d]]
           S == [Idle EXCEPT !.pc = "open", !.todo = Due, !.loaded = page]
<1>1. DOMAIN S.staged = {}
  <2> HIDE DEF page
  <2> QED  BY IdleTyped DEF Idle
<1>2. w \in Sessions /\ session' = [session EXCEPT ![w] = S] /\ UNCHANGED <<delivery, received>>
  BY DEF DeliverDue, Sessions, tables
<1> HIDE DEF S
<1> QED  BY <1>1, <1>2, OwnTaken

LEMMA RetryLockTaken ==
  ASSUME LockInv, TakenInv, NEW o \in Operators, RetryLock(o)
  PROVE  TakenInv'
<1>1. /\ o \in Sessions /\ session' = [session EXCEPT ![o].pc = "open"]
      /\ UNCHANGED <<delivery, received>>
  BY DEF RetryLock, Sessions, tables
<1>2. session'[o].staged = session[o].staged /\ \A t \in Sessions : t # o => session'[t] = session[t]
  BY <1>1 DEF LockInv, TypeInv, Transaction
<1> QED  BY <1>1, <1>2, TakenSession DEF TakenInv

LEMMA CommitTaken ==
  ASSUME LockInv, TakenInv, NEW s \in Sessions, Commit(s)
  PROVE  TakenInv'
<1>1. session' = [session EXCEPT ![s] = Idle] /\ received' = received
  BY DEF Commit
<1>2. session'[s] = Idle /\ \A t \in Sessions : t # s => session'[t] = session[t]
  BY <1>1 DEF LockInv, TypeInv
<1>3. ASSUME NEW d \in Deliveries, delivery'[d].status = "SUCCEEDED"
      PROVE  received[d] > 0
  <2>1. CASE d \in DOMAIN session[s].staged
    BY <1>3, <2>1, CommittedRows DEF TakenInv
  <2>2. CASE d \notin DOMAIN session[s].staged
    <3>1. delivery'[d] = delivery[d]
      BY <2>2, CommittedRows
    <3> QED  BY <1>3, <3>1 DEF TakenInv
  <2> QED  BY <2>1, <2>2
<1> QED  BY <1>1, <1>2, <1>3, IdleTyped, TakenSession

LEMMA TakenKept ==
  ASSUME LockInv, TakenInv, [Next]_vars
  PROVE  TakenInv'
<1>1. CASE \E v \in Events : RecordEvent(v)
  <2>1. \A d \in Deliveries : delivery'[d].status = "SUCCEEDED"
                                => delivery[d].status = "SUCCEEDED"
    BY <1>1 DEF RecordEvent, Pending, Absent
  <2> QED  BY <1>1, <2>1, TakenFrame DEF RecordEvent
<1>2. CASE \E e \in Endpoints, f \in {"enabled", "subscribed"} : UpdateEndpoint(e, f)
  BY <1>2, TakenFrame DEF UpdateEndpoint
<1>3. CASE \E d \in Deliveries : Elapse(d)
  <2>1. \A d \in Deliveries : delivery'[d].status = delivery[d].status
    BY <1>3 DEF LockInv, TypeInv, Elapse, Rows
  <2> QED  BY <1>3, <2>1, TakenFrame DEF Elapse
<1>4. CASE \E w \in Workers : DeliverDue(w)
  BY <1>4, DeliverTaken
<1>5. CASE \E o \in Operators, d \in Deliveries : RetryRead(o, d)
  BY <1>5, RetryReadTaken
<1>6. CASE \E o \in Operators : RetryLock(o)
  BY <1>6, RetryLockTaken
<1>7. CASE \E s \in Sessions, d \in Deliveries : AttemptDisabled(s, d)
  BY <1>7, DisabledTaken
<1>8. CASE \E s \in Sessions, d \in Deliveries, x \in {"answered", "refused", "timeout"} :
             Attempt(s, d, x)
  BY <1>8, AttemptTaken
<1>9. CASE \E s \in Sessions : Commit(s)
  BY <1>9, CommitTaken
<1>10. CASE \E s \in Sessions : RolledBack(s)
  BY <1>10, IdleTyped, OwnTaken DEF RolledBack, tables
<1>11. CASE UNCHANGED vars
  BY <1>11, TakenFrame DEF vars, tables
<1> QED
  BY <1>1, <1>2, <1>3, <1>4, <1>5, <1>6, <1>7, <1>8, <1>9, <1>10, <1>11, NextSteps

\* A delivery is recorded as SUCCEEDED only after its endpoint has taken it.
THEOREM SucceededWasTaken == Spec => []TakenInv
<1>1. Init => TakenInv
  BY InitTaken
<1>2. LockInv /\ TakenInv /\ [Next]_vars => TakenInv'
  BY TakenKept
<1> QED  BY <1>1, <1>2, LocksHold, PTL DEF Spec

---------------------------------------------------------------------------
(* The refinement of WebhookOutbox, one lemma for each of its steps        *)

LEMMA OutboxStutter ==
  ASSUME \A d \in Deliveries : Phase(d)' = Phase(d), received' = received
  PROVE  UNCHANGED Outbox!vars
<1>1. [d \in Deliveries |-> Phase(d)]' = [d \in Deliveries |-> Phase(d)]
  BY Zenon
<1>2. [d \in Deliveries |-> received[d] > 0]' = [d \in Deliveries |-> received[d] > 0]
  BY Zenon
<1> QED  BY <1>1, <1>2 DEF Outbox!vars

LEMMA OutboxRecord ==
  ASSUME NEW D \in SUBSET Deliveries, received' = received,
         \A d \in D : Phase(d) = "ABSENT" /\ Phase(d)' = "WAITING",
         \A d \in Deliveries \ D : Phase(d)' = Phase(d)
  PROVE  Outbox!Record
<1> DEFINE P == [d \in Deliveries |-> Phase(d)]
<1>1. D \in SUBSET Outbox!In("ABSENT")
  BY DEF Outbox!In
<1>2. P' = [d \in Deliveries |-> IF d \in D THEN "WAITING" ELSE P[d]]
  BY Zenon
<1>3. [d \in Deliveries |-> received[d] > 0]' = [d \in Deliveries |-> received[d] > 0]
  BY Zenon
<1> QED  BY <1>1, <1>2, <1>3 DEF Outbox!Record

LEMMA OutboxTake ==
  ASSUME NEW d \in Deliveries, Phase(d) = "WAITING",
         \A c \in Deliveries : Phase(c)' = Phase(c),
         received \in [Deliveries -> Nat], received' = [received EXCEPT ![d] = @ + 1]
  PROVE  Outbox!Take
<1> DEFINE T == [c \in Deliveries |-> received[c] > 0]
<1>1. d \in Outbox!In("WAITING")
  BY DEF Outbox!In
<1>2. [c \in Deliveries |-> Phase(c)]' = [c \in Deliveries |-> Phase(c)]
  BY Zenon
<1>3. T' = [T EXCEPT ![d] = TRUE]
  <2>1. received'[d] > 0 /\ \A c \in Deliveries : c # d => received'[c] = received[c]
    OBVIOUS
  <2> QED  BY <2>1, Zenon
<1> QED  BY <1>1, <1>2, <1>3 DEF Outbox!Take

LEMMA OutboxSettle ==
  ASSUME received' = received,
         \A d \in Deliveries :
           \/ Phase(d)' = Phase(d)
           \/ /\ Phase(d) = "WAITING" /\ Phase(d)' \in {"SUCCEEDED", "FAILED"}
              /\ Phase(d)' = "SUCCEEDED" => received[d] > 0
  PROVE  Outbox!Settle
<1> DEFINE P == [d \in Deliveries |-> Phase(d)]
           S == {d \in Deliveries : Phase(d) = "WAITING" /\ Phase(d)' = "SUCCEEDED"}
           F == {d \in Deliveries : Phase(d) = "WAITING" /\ Phase(d)' = "FAILED"}
<1>1. S \in SUBSET Outbox!In("WAITING") /\ F \in SUBSET Outbox!In("WAITING")
  BY DEF Outbox!In
<1>2. S \cap F = {} /\ \A d \in S : [c \in Deliveries |-> received[c] > 0][d]
  OBVIOUS
<1>3. P' = [d \in Deliveries |-> IF d \in S THEN "SUCCEEDED"
                                 ELSE IF d \in F THEN "FAILED" ELSE P[d]]
  <2>1. \A d \in Deliveries : Phase(d)' = IF d \in S THEN "SUCCEEDED"
                                ELSE IF d \in F THEN "FAILED" ELSE Phase(d)
    OBVIOUS
  <2> HIDE DEF S, F
  <2> QED  BY <2>1, Zenon
<1>4. [d \in Deliveries |-> received[d] > 0]' = [d \in Deliveries |-> received[d] > 0]
  BY Zenon
<1> HIDE DEF S, F
<1> QED  BY <1>1, <1>2, <1>3, <1>4 DEF Outbox!Settle

LEMMA OutboxReopen ==
  ASSUME NEW d \in Deliveries, Phase(d) \in {"SUCCEEDED", "FAILED"}, Phase(d)' = "WAITING",
         \A c \in Deliveries : c # d => Phase(c)' = Phase(c), received' = received
  PROVE  Outbox!Reopen
<1> DEFINE P == [c \in Deliveries |-> Phase(c)]
<1>1. d \in Outbox!In("SUCCEEDED") \cup Outbox!In("FAILED")
  BY DEF Outbox!In
<1>2. P' = [P EXCEPT ![d] = "WAITING"]
  BY Zenon
<1>3. [c \in Deliveries |-> received[c] > 0]' = [c \in Deliveries |-> received[c] > 0]
  BY Zenon
<1> QED  BY <1>1, <1>2, <1>3 DEF Outbox!Reopen

LEMMA InitOutbox == Init => Outbox!Init
<1> SUFFICES ASSUME Init PROVE Outbox!Init
  OBVIOUS
<1>1. \A d \in Deliveries : Phase(d) = "ABSENT"
  BY DEF Init, Absent, Phase
<1>2. \A d \in Deliveries : (received[d] > 0) = FALSE
  BY DEF Init
<1>3. [d \in Deliveries |-> received[d] > 0] = [d \in Deliveries |-> FALSE]
  BY <1>2, Zenon
<1> QED  BY <1>1, <1>3 DEF Outbox!Init

\* The phase of a delivery after a step that keeps its status and its lock.
LEMMA PhaseKept ==
  ASSUME NEW d, delivery'[d].status = delivery[d].status, owner'[d] = owner[d]
  PROVE  Phase(d)' = Phase(d)
BY DEF Phase

\* A delivery whose row a transaction holds is waiting, if it exists.
LEMMA HeldWaits ==
  ASSUME LockInv, NEW s \in Sessions, NEW d \in Deliveries, owner[d] = s
  PROVE  Phase(d) = IF delivery[d].status = "ABSENT" THEN "ABSENT" ELSE "WAITING"
BY DEF LockInv, Phase, Sessions

LEMMA RecordSteps ==
  ASSUME LockInv, NEW v \in Events, RecordEvent(v)
  PROVE  Outbox!Record
<1> DEFINE D == {d \in Deliveries : d[1] = v /\ d[2] \in Subscribers}
<1>1. /\ delivery' = [d \in Deliveries |-> IF d \in D THEN Pending ELSE delivery[d]]
      /\ owner' = owner /\ received' = received /\ v \notin recorded
  BY DEF RecordEvent
<1>2. ASSUME NEW d \in D
      PROVE  Phase(d) = "ABSENT" /\ Phase(d)' = "WAITING"
  <2>1. delivery[d].status = "ABSENT"
    BY <1>1, <1>2 DEF LockInv
  <2>2. delivery'[d].status = "PENDING"
    BY <1>1, <1>2 DEF Pending, Absent
  <2> QED  BY <2>1, <2>2 DEF Phase, Open
<1>3. \A d \in Deliveries \ D : Phase(d)' = Phase(d)
  BY <1>1, PhaseKept
<1> HIDE DEF D
<1> QED  BY <1>1, <1>2, <1>3, OutboxRecord DEF D

LEMMA ElapseSteps ==
  ASSUME LockInv, NEW d \in Deliveries, Elapse(d)
  PROVE  UNCHANGED Outbox!vars
<1>1. \A c \in Deliveries : delivery'[c].status = delivery[c].status /\ owner'[c] = owner[c]
  BY DEF LockInv, TypeInv, Elapse, Rows
<1>2. received' = received
  BY DEF Elapse
<1> QED  BY <1>1, <1>2, PhaseKept, OutboxStutter

\* A step that touches no row, no lock and no endpoint.
LEMMA QuietSteps ==
  ASSUME UNCHANGED <<delivery, owner, received>>
  PROVE  UNCHANGED Outbox!vars
BY PhaseKept, OutboxStutter

LEMMA DeliverSteps ==
  ASSUME LockInv, NEW w \in Workers, DeliverDue(w)
  PROVE  UNCHANGED Outbox!vars
<1>1. /\ owner' = [d \in Deliveries |-> IF d \in Due THEN w ELSE owner[d]]
      /\ delivery' = delivery /\ received' = received
  BY DEF DeliverDue, tables
<1>2. ASSUME NEW d \in Deliveries
      PROVE  Phase(d)' = Phase(d)
  <2>1. CASE d \in Due
    BY <1>1, <2>1, SessionsAssumption DEF Due, Phase, Open
  <2>2. CASE d \notin Due
    BY <1>1, <2>2, PhaseKept
  <2> QED  BY <2>1, <2>2
<1> QED  BY <1>1, <1>2, OutboxStutter

LEMMA RetryLockSteps ==
  ASSUME LockInv, NEW o \in Operators, RetryLock(o)
  PROVE  Outbox!Reopen \/ UNCHANGED Outbox!vars
<1>1. /\ o \in Sessions /\ session[o].pc = "wait" /\ ShapeOK(session[o])
      /\ delivery' = delivery /\ received' = received
      /\ owner' = [d \in Deliveries |-> IF d \in session[o].todo THEN o ELSE owner[d]]
  BY DEF LockInv, RetryLock, Sessions, tables
<1>2. PICK d \in Deliveries : session[o].todo = {d}
  BY <1>1 DEF ShapeOK
<1>3. owner[d] = Free /\ owner'[d] = o /\ \A c \in Deliveries : c # d => owner'[c] = owner[c]
  BY <1>1, <1>2 DEF RetryLock
<1>4. delivery[d].status \in Statuses \ {"ABSENT"}
  BY <1>1, <1>2 DEF LockInv, ShapeOK, TypeInv, Rows
<1>5. Phase(d)' = "WAITING"
  BY <1>1, <1>3, <1>4 DEF Phase
<1>6. \A c \in Deliveries : c # d => Phase(c)' = Phase(c)
  BY <1>1, <1>3, PhaseKept
<1>7. CASE delivery[d].status \in Open
  <2>1. Phase(d) = "WAITING"
    BY <1>3, <1>4, <1>7 DEF Phase
  <2> QED  BY <1>1, <1>5, <1>6, <2>1, OutboxStutter
<1>8. CASE delivery[d].status \notin Open
  <2>1. Phase(d) \in {"SUCCEEDED", "FAILED"}
    BY <1>3, <1>4, <1>8, SessionsAssumption DEF Phase, Open, Statuses, Sessions
  <2> QED  BY <1>1, <1>5, <1>6, <2>1, OutboxReopen
<1> QED  BY <1>7, <1>8

LEMMA AttemptSteps ==
  ASSUME LockInv, NEW s \in Sessions, NEW d \in Deliveries,
         NEW outcome \in {"answered", "refused", "timeout"}, Attempt(s, d, outcome)
  PROVE  Outbox!Take \/ UNCHANGED Outbox!vars
<1>1. /\ session[s].pc = "open" /\ d \in session[s].todo /\ delivery' = delivery /\ owner' = owner
      /\ received' = [received EXCEPT ![d] = @ + IF outcome = "refused" THEN 0 ELSE 1]
  BY DEF Attempt, tables
<1>2. \A c \in Deliveries : Phase(c)' = Phase(c)
  BY <1>1, PhaseKept
<1>3. received \in [Deliveries -> Nat]
  BY DEF LockInv, TypeInv
<1>4. Phase(d) = "WAITING"
  <2>1. d \in DOMAIN session[s].loaded
    BY <1>1 DEF LockInv, ShapeOK
  <2>2. owner[d] = s /\ delivery[d].status # "ABSENT"
    BY <1>1, <2>1 DEF LockInv
  <2> QED  BY <2>2, HeldWaits
<1>5. CASE outcome = "refused"
  <2>1. received' = received
    BY <1>1, <1>3, <1>5
  <2> QED  BY <1>2, <2>1, OutboxStutter
<1>6. CASE outcome # "refused"
  <2>1. received' = [received EXCEPT ![d] = @ + 1]
    BY <1>1, <1>6
  <2> QED  BY <1>2, <1>3, <1>4, <2>1, OutboxTake
<1> QED  BY <1>5, <1>6

\* A transaction that ends, by a commit, a rollback or a crash, settles at most
\* the deliveries it held.
LEMMA EndedSteps ==
  ASSUME LockInv, TakenInv', NEW s \in Sessions, received' = received,
         owner' = [d \in Deliveries |-> IF owner[d] = s THEN Free ELSE owner[d]],
         delivery' \in [Deliveries -> Rows],
         \A d \in Deliveries : delivery'[d].status = "ABSENT" <=> delivery[d].status = "ABSENT",
         \A d \in Deliveries : owner[d] # s => delivery'[d] = delivery[d]
  PROVE  Outbox!Settle
<1>1. ASSUME NEW d \in Deliveries
      PROVE  \/ Phase(d)' = Phase(d)
             \/ /\ Phase(d) = "WAITING" /\ Phase(d)' \in {"SUCCEEDED", "FAILED"}
                /\ Phase(d)' = "SUCCEEDED" => received[d] > 0
  <2>1. CASE owner[d] # s
    <3>1. owner'[d] = owner[d] /\ delivery'[d] = delivery[d]
      BY <2>1
    <3> QED  BY <3>1, PhaseKept
  <2>2. CASE owner[d] = s /\ delivery[d].status = "ABSENT"
    BY <2>2 DEF Phase
  <2>3. CASE owner[d] = s /\ delivery[d].status # "ABSENT"
    <3>1. Phase(d) = "WAITING"
      BY <2>3, HeldWaits
    <3>2. owner'[d] \notin Operators
      BY <2>3, SessionsAssumption DEF Sessions
    <3>3. delivery'[d].status \in Statuses \ {"ABSENT"}
      BY <2>3 DEF Rows
    <3>4. Phase(d)' = IF delivery'[d].status \in Open THEN "WAITING" ELSE delivery'[d].status
      BY <3>2, <3>3 DEF Phase
    <3>5. delivery'[d].status = "SUCCEEDED" => received[d] > 0
      BY DEF TakenInv
    <3> QED  BY <3>1, <3>3, <3>4, <3>5 DEF Open, Statuses
  <2> QED  BY <2>1, <2>2, <2>3
<1> QED  BY <1>1, OutboxSettle

LEMMA CommitSteps ==
  ASSUME LockInv, TakenInv', NEW s \in Sessions, Commit(s)
  PROVE  Outbox!Settle
<1>1. /\ received' = received
      /\ owner' = [d \in Deliveries |-> IF owner[d] = s THEN Free ELSE owner[d]]
  BY DEF Commit
<1>2. delivery' \in [Deliveries -> Rows]
  BY CommittedRows
<1>3. ASSUME NEW d \in Deliveries
      PROVE  /\ delivery'[d].status = "ABSENT" <=> delivery[d].status = "ABSENT"
             /\ owner[d] # s => delivery'[d] = delivery[d]
  <2>1. CASE d \in DOMAIN session[s].staged
    BY <2>1, CommittedRows
  <2>2. CASE d \notin DOMAIN session[s].staged
    <3>1. delivery'[d] = delivery[d]
      BY <2>2, CommittedRows
    <3> QED  BY <3>1
  <2> QED  BY <2>1, <2>2
<1> QED  BY <1>1, <1>2, <1>3, EndedSteps

LEMMA OutboxSteps ==
  ASSUME LockInv, TakenInv, TakenInv', [Next]_vars
  PROVE  [Outbox!Next]_Outbox!vars
<1>1. CASE \E v \in Events : RecordEvent(v)
  BY <1>1, RecordSteps DEF Outbox!Next
<1>2. CASE \E e \in Endpoints, f \in {"enabled", "subscribed"} : UpdateEndpoint(e, f)
  BY <1>2, QuietSteps DEF UpdateEndpoint
<1>3. CASE \E d \in Deliveries : Elapse(d)
  BY <1>3, ElapseSteps
<1>4. CASE \E w \in Workers : DeliverDue(w)
  BY <1>4, DeliverSteps
<1>5. CASE \E o \in Operators, d \in Deliveries : RetryRead(o, d)
  BY <1>5, QuietSteps DEF RetryRead, tables
<1>6. CASE \E o \in Operators : RetryLock(o)
  BY <1>6, RetryLockSteps DEF Outbox!Next
<1>7. CASE \E s \in Sessions, d \in Deliveries : AttemptDisabled(s, d)
  BY <1>7, QuietSteps DEF AttemptDisabled, tables
<1>8. CASE \E s \in Sessions, d \in Deliveries, x \in {"answered", "refused", "timeout"} :
             Attempt(s, d, x)
  BY <1>8, AttemptSteps DEF Outbox!Next
<1>9. CASE \E s \in Sessions : Commit(s)
  BY <1>9, CommitSteps DEF Outbox!Next
<1>10. CASE \E s \in Sessions : RolledBack(s)
  <2>1. PICK s \in Sessions : RolledBack(s)
    BY <1>10
  <2>2. delivery' = delivery /\ delivery \in [Deliveries -> Rows] /\ received' = received
    BY <2>1 DEF RolledBack, tables, LockInv, TypeInv
  <2>3. owner' = [d \in Deliveries |-> IF owner[d] = s THEN Free ELSE owner[d]]
    BY <2>1 DEF RolledBack
  <2>4. Outbox!Settle
    BY <2>2, <2>3, EndedSteps
  <2> QED  BY <2>4 DEF Outbox!Next
<1>11. CASE UNCHANGED vars
  BY <1>11, QuietSteps DEF vars, tables
<1> QED
  BY <1>1, <1>2, <1>3, <1>4, <1>5, <1>6, <1>7, <1>8, <1>9, <1>10, <1>11, NextSteps

\* The deliveries, with their locks, stale reads, crashes and lost answers,
\* are an outbox: no recorded delivery is dropped, none is settled as delivered
\* before its endpoint took it, and only an operator opens a settled one.
THEOREM OutboxImplemented == Spec => RefinesOutbox
<1>1. Init => Outbox!Init
  BY InitOutbox
<1>2. LockInv /\ TakenInv /\ TakenInv' /\ [Next]_vars => [Outbox!Next]_Outbox!vars
  BY OutboxSteps
<1> QED
  BY <1>1, <1>2, LocksHold, SucceededWasTaken, PTL DEF Spec, RefinesOutbox, Outbox!Spec

---------------------------------------------------------------------------
(***************************************************************************)
(* Proof that the log of the deliveries, what the endpoints received and   *)
(* the state of the events tell one story, for every set of workers,       *)
(* operators, endpoints and events and every number of attempts.           *)
(*                                                                         *)
(* What makes it hold without manual retries is that a row is attempted    *)
(* once per transaction, under a lock held from its read to the commit     *)
(* (WorkInv): a delivery that succeeded is never open again.  OnceInv,     *)
(* DoneInv and StateInv follow that through the endpoints and the state of *)
(* the events, in what is committed and in what a worker will write.       *)
(***************************************************************************)
---------------------------------------------------------------------------
(* The inductive invariants                                                *)

NoRetry == "retry" \notin setting.calls

\* No operator is at work, and a row is dealt with once per transaction.
WorkInv == NoRetry =>
  /\ \A o \in Operators : session[o].pc = "idle"
  /\ \A s \in Sessions : session[s].todo \cap DOMAIN session[s].staged = {}

\* No answer is lost and nobody dies.
Reliable == NoRetry /\ setting.faults \cap {"timeout", "crash"} = {}

\* What an endpoint processed is delivered, or will be with the commit of the
\* worker that sent it.
OnceInv == Reliable =>
  /\ \A s \in Sessions : session[s].pc # "doomed"
  /\ \A d \in Deliveries :
       \/ received[d] = 0
       \/ /\ received[d] = 1
          /\ \/ delivery[d].status = "SUCCEEDED"
             \/ \E s \in Sessions : /\ d \in DOMAIN session[s].staged
                                    /\ session[s].staged[d].status = "SUCCEEDED"

\* An event that is DELIVERED, or that a worker will call so, has no delivery
\* that did not succeed.
Done(status) == status \in {"ABSENT", "SUCCEEDED"}
DoneInv == NoRetry =>
  /\ \A v \in Events : event[v] = "DELIVERED" =>
       v \in recorded /\ \A d \in Deliveries : d[1] = v => Done(delivery[d].status)
  /\ \A s \in Sessions : \A v \in DOMAIN session[s].events :
       session[s].events[v] = "DELIVERED" =>
         v \in recorded /\ \A d \in Deliveries : d[1] = v => Done(Seen(s, d).status)

\* The statuses of the deliveries of event v: committed, and as session s sees
\* them.
Of(v) == {c \in Deliveries : c[1] = v}
Settled(v) == {x \in {delivery[c].status : c \in Of(v)} : x # "ABSENT"}
Standing(s, v) == {x \in {Seen(s, c).status : c \in Of(v)} : x # "ABSENT"}

\* Where w is the only worker and nobody calls, what it computed is what the
\* deliveries say.
Alone(w) == setting.workers = {w} /\ setting.calls = {}
StateOf(w) ==
  /\ \A e \in Endpoints : endpoint[e].enabled
  /\ \A s \in Sessions : s # w => session[s].pc = "idle"
  /\ \A v \in Events : (\E d \in Of(v) : delivery[d].count > 0) =>
       event[v] = DispatchState(Settled(v))
  /\ \A d \in DOMAIN session[w].staged : d[1] \in DOMAIN session[w].events
  /\ \A v \in DOMAIN session[w].events :
       v \in recorded /\ session[w].events[v] = DispatchState(Standing(w, v))
StateInv == \A w \in Workers : Alone(w) => StateOf(w)

---------------------------------------------------------------------------
(* What a step does to the transactions                                    *)

LEMMA IdleBlank ==
  /\ Idle.pc = "idle" /\ Idle.todo = {}
  /\ DOMAIN Idle.staged = {} /\ DOMAIN Idle.events = {}
BY DEF Idle, NoRows

\* The steps that are left when nobody retries.
LEMMA StepsWithoutRetry ==
  ASSUME LockInv, WorkInv, NoRetry, Next
  PROVE  \/ \E v \in Events : RecordEvent(v)
         \/ \E e \in Endpoints, f \in {"enabled", "subscribed"} : UpdateEndpoint(e, f)
         \/ \E d \in Deliveries : Elapse(d)
         \/ \E w \in Workers : DeliverDue(w)
         \/ \E s \in Sessions, d \in Deliveries : AttemptDisabled(s, d)
         \/ \E s \in Sessions, d \in Deliveries, x \in {"answered", "refused", "timeout"} :
              Attempt(s, d, x)
         \/ \E s \in Sessions : Commit(s)
         \/ \E s \in Sessions : Rollback(s)
         \/ \E s \in Sessions : Crash(s)
<1>1. ~ \E o \in Operators, d \in Deliveries : RetryRead(o, d)
  BY DEF NoRetry, RetryRead
<1>2. ~ \E o \in Operators : RetryLock(o)
  BY DEF WorkInv, RetryLock
<1> QED  BY <1>1, <1>2, Zenon DEF Next

LEMMA SettingKept == [Next]_vars => setting' = setting
BY DEF Next, vars, RecordEvent, UpdateEndpoint, Elapse, DeliverDue, RetryRead, RetryLock,
       AttemptDisabled, Attempt, Commit, Rollback, Crash, RolledBack

\* Without retries a row is held by a worker, and is still as it read it.
LEMMA HeldOpen ==
  ASSUME LockInv, WorkInv, NoRetry, NEW s \in Sessions, NEW d \in DOMAIN session[s].loaded
  PROVE  /\ d \in Deliveries /\ s \in Workers /\ session[s].pc = "open"
         /\ owner[d] = s /\ delivery[d].status \in Open
<1>1. TypeInv /\ ShapeOK(session[s]) /\ session[s] \in Transaction
  BY DEF LockInv, TypeInv
<1>2. session[s].pc \notin {"idle", "doomed"}
  BY <1>1 DEF ShapeOK
<1>3. s \in Workers
  BY <1>2 DEF WorkInv, Sessions
<1>4. session[s].pc = "open"
  BY <1>1, <1>2, <1>3 DEF LockInv, Transaction
<1>5. d \in Deliveries
  BY <1>1, PageRows DEF Transaction
<1> QED  BY <1>3, <1>4, <1>5 DEF LockInv

LEMMA StagedHeld ==
  ASSUME LockInv, NEW s \in Sessions, NEW d \in DOMAIN session[s].staged
  PROVE  d \in DOMAIN session[s].loaded
BY DEF LockInv, ShapeOK

LEMMA TodoSeen ==
  ASSUME LockInv, WorkInv, NoRetry, NEW s \in Sessions, NEW d \in session[s].todo
  PROVE  /\ d \in DOMAIN session[s].loaded /\ d \notin DOMAIN session[s].staged
         /\ Seen(s, d) = delivery[d] /\ Seen(s, d).status \in Open
<1>1. d \in DOMAIN session[s].loaded
  BY DEF LockInv, ShapeOK
<1>2. d \notin DOMAIN session[s].staged
  BY DEF WorkInv
<1> QED  BY <1>1, <1>2, HeldOpen DEF Seen

\* A session that ends, or starts.
LEMMA OneChanged ==
  ASSUME TypeInv, NEW s \in Sessions, NEW S, session' = [session EXCEPT ![s] = S]
  PROVE  session'[s] = S /\ \A t \in Sessions : t # s => session'[t] = session[t]
BY DEF TypeInv

LEMMA DeliverEffect ==
  ASSUME LockInv, NEW w \in Workers, DeliverDue(w)
  PROVE  /\ w \in Sessions /\ w \in setting.workers
         /\ session'[w].pc = "open"
         /\ DOMAIN session'[w].staged = {} /\ DOMAIN session'[w].events = {}
         /\ \A t \in Sessions : t # w => session'[t] = session[t]
         /\ UNCHANGED <<endpoint, recorded, event, delivery, attempts, received>>
<1> DEFINE page == [d \in Due |-> delivery[d]]
           S == [Idle EXCEPT !.pc = "open", !.todo = Due, !.loaded = page]
<1>1. w \in Sessions /\ TypeInv
  BY DEF Sessions, LockInv
<1>2. S.pc = "open" /\ S.staged = NoRows /\ DOMAIN S.events = {} /\ DOMAIN NoRows = {}
  <2> HIDE DEF page
  <2> QED  BY DEF Idle, NoRows
<1>3. session' = [session EXCEPT ![w] = S]
  BY DEF DeliverDue
<1> HIDE DEF S
<1>4. session'[w] = S /\ \A t \in Sessions : t # w => session'[t] = session[t]
  BY <1>1, <1>3, OneChanged
<1> QED  BY <1>1, <1>2, <1>4 DEF DeliverDue, tables

LEMMA EndEffect ==
  ASSUME LockInv, NEW s \in Sessions, RolledBack(s)
  PROVE  /\ session'[s] = Idle
         /\ \A t \in Sessions : t # s => session'[t] = session[t]
         /\ UNCHANGED <<endpoint, recorded, event, delivery, attempts, received>>
BY OneChanged DEF RolledBack, tables, LockInv

LEMMA CommitEffect ==
  ASSUME LockInv, NEW s \in Sessions, Commit(s)
  PROVE  /\ session'[s] = Idle
         /\ \A t \in Sessions : t # s => session'[t] = session[t]
         /\ UNCHANGED <<endpoint, recorded, received>>
BY OneChanged DEF Commit, LockInv

\* What putting row r into the transaction does to the events it will write,
\* and to what the sessions see.
LEMMA StagedView ==
  ASSUME LockInv, NEW s \in Sessions, NEW d \in session[s].todo, NEW r \in Rows,
         NEW logged \in SUBSET {d}, Staged(s, d, r, logged), delivery' = delivery
  PROVE  /\ d \in Deliveries
         /\ \A t \in Sessions : t # s => session'[t] = session[t]
         /\ session'[s].pc = session[s].pc
         /\ session'[s].todo = session[s].todo \ {d}
         /\ DOMAIN session'[s].staged = DOMAIN session[s].staged \cup {d}
         /\ \A c \in DOMAIN session'[s].staged :
              session'[s].staged[c] = IF c = d THEN r ELSE session[s].staged[c]
         /\ session'[s].events =
              IF logged = {} THEN session[s].events
              ELSE [x \in DOMAIN session[s].events \cup {d[1]} |->
                     IF x = d[1] THEN DispatchState(StatusesOf(s, d[1], d, r))
                     ELSE session[s].events[x]]
         /\ \A c \in Deliveries : Seen(s, c)' = IF c = d THEN r ELSE Seen(s, c)
         /\ \A t \in Sessions, c \in Deliveries : t # s => Seen(t, c)' = Seen(t, c)
<1>1. TypeInv /\ session[s] \in Transaction
  BY DEF LockInv, TypeInv
<1>2. d \in Deliveries
  BY <1>1 DEF Transaction
<1>3. /\ session' = [session EXCEPT ![s] = session'[s]]
      /\ session'[s].pc = session[s].pc
      /\ session'[s].todo = session[s].todo \ {d}
      /\ DOMAIN session'[s].staged = DOMAIN session[s].staged \cup {d}
      /\ \A c \in DOMAIN session'[s].staged :
           session'[s].staged[c] = IF c = d THEN r ELSE session[s].staged[c]
  BY <1>1, <1>2, StagedEffect
<1>4. \A t \in Sessions : t # s => session'[t] = session[t]
  BY <1>1, <1>3 DEF TypeInv
<1>5. session'[s].events =
        IF logged = {} THEN session[s].events
        ELSE [x \in DOMAIN session[s].events \cup {d[1]} |->
               IF x = d[1] THEN DispatchState(StatusesOf(s, d[1], d, r))
               ELSE session[s].events[x]]
  <2> DEFINE view == IF logged = {} THEN session[s].events
                     ELSE [x \in DOMAIN session[s].events \cup {d[1]} |->
                            IF x = d[1] THEN DispatchState(StatusesOf(s, d[1], d, r))
                            ELSE session[s].events[x]]
             page == [c \in DOMAIN session[s].staged \cup {d} |->
                       IF c = d THEN r ELSE session[s].staged[c]]
  <2>1. session' = [session EXCEPT ![s] =
          [session[s] EXCEPT !.todo = session[s].todo \ {d}, !.staged = page,
                             !.log = session[s].log \cup logged, !.events = view]]
    BY DEF Staged
  <2> HIDE DEF view, page
  <2>2. session'[s].events = view
    BY <1>1, <2>1 DEF TypeInv, Transaction
  <2> QED  BY <2>2 DEF view
<1>6. \A c \in Deliveries : Seen(s, c)' = IF c = d THEN r ELSE Seen(s, c)
  BY <1>3 DEF Seen
<1>7. \A t \in Sessions, c \in Deliveries : t # s => Seen(t, c)' = Seen(t, c)
  BY <1>4 DEF Seen
<1> QED  BY <1>2, <1>3, <1>4, <1>5, <1>6, <1>7

\* The same for what the sessions see, by itself.
LEMMA StagedSeen ==
  ASSUME LockInv, NEW s \in Sessions, NEW d \in session[s].todo, NEW r \in Rows,
         NEW logged \in SUBSET {d}, Staged(s, d, r, logged), delivery' = delivery
  PROVE  \A c \in Deliveries : Seen(s, c)' = IF c = d THEN r ELSE Seen(s, c)
<1>1. /\ DOMAIN session'[s].staged = DOMAIN session[s].staged \cup {d}
      /\ \A c \in DOMAIN session'[s].staged :
           session'[s].staged[c] = IF c = d THEN r ELSE session[s].staged[c]
  <2>1. TypeInv /\ session[s] \in Transaction
    BY DEF LockInv, TypeInv
  <2>2. d \in Deliveries
    BY <2>1 DEF Transaction
  <2> QED  BY <2>1, <2>2, StagedEffect
<1>2. PICK old, new : old = session[s].staged /\ new = session'[s].staged
  OBVIOUS
<1>3. ASSUME NEW c \in Deliveries
      PROVE  /\ Seen(s, c) = IF c \in DOMAIN old THEN old[c] ELSE delivery[c]
             /\ Seen(s, c)' = IF c \in DOMAIN new THEN new[c] ELSE delivery[c]
  BY <1>2 DEF Seen
<1>4. /\ DOMAIN new = DOMAIN old \cup {d}
      /\ \A c \in DOMAIN new : new[c] = IF c = d THEN r ELSE old[c]
  BY <1>1, <1>2
<1> QED  BY <1>3, <1>4

---------------------------------------------------------------------------
(* A row is dealt with once                                                *)

LEMMA InitWork == Init => WorkInv
BY IdleBlank, SessionsAssumption DEF Init, WorkInv, Sessions

LEMMA StagedWork ==
  ASSUME LockInv, WorkInv, NEW s \in Sessions, NEW d \in session[s].todo, NEW r \in Rows,
         NEW logged \in SUBSET {d}, Staged(s, d, r, logged), delivery' = delivery,
         setting' = setting
  PROVE  WorkInv'
<1> SUFFICES ASSUME NoRetry PROVE WorkInv'
  BY DEF WorkInv, NoRetry
<1>1. /\ session'[s].pc = session[s].pc
      /\ session'[s].todo = session[s].todo \ {d}
      /\ DOMAIN session'[s].staged = DOMAIN session[s].staged \cup {d}
      /\ \A t \in Sessions : t # s => session'[t] = session[t]
  BY StagedView
<1>2. \A t \in Sessions : session'[t].todo \cap DOMAIN session'[t].staged = {}
  BY <1>1 DEF WorkInv
<1>3. \A o \in Operators : session'[o].pc = "idle"
  BY <1>1 DEF WorkInv, Sessions
<1> QED  BY <1>2, <1>3 DEF WorkInv

LEMMA WorkKept ==
  ASSUME LockInv, WorkInv, [Next]_vars
  PROVE  WorkInv'
<1>1. setting' = setting
  BY SettingKept
<1> SUFFICES ASSUME NoRetry PROVE WorkInv'
  BY <1>1 DEF WorkInv, NoRetry
<1>2. ASSUME NEW s \in Sessions, session'[s].todo = {} \/ DOMAIN session'[s].staged = {},
             \A t \in Sessions : t # s => session'[t] = session[t],
             s \in Operators => session'[s].pc = "idle"
      PROVE  WorkInv'
  <2>1. \A t \in Sessions : session'[t].todo \cap DOMAIN session'[t].staged = {}
    BY <1>2 DEF WorkInv
  <2>2. \A o \in Operators : session'[o].pc = "idle"
    BY <1>2 DEF WorkInv, Sessions
  <2> QED  BY <2>1, <2>2 DEF WorkInv
<1>3. CASE session' = session
  BY <1>1, <1>3 DEF WorkInv, NoRetry
<1>4. CASE \E w \in Workers : DeliverDue(w)
  <2>1. PICK w \in Workers : DeliverDue(w)
    BY <1>4
  <2> QED  BY <1>2, <2>1, DeliverEffect, SessionsAssumption
<1>5. CASE \E s \in Sessions, d \in Deliveries : AttemptDisabled(s, d)
  <2>1. PICK s \in Sessions, d \in Deliveries : AttemptDisabled(s, d)
    BY <1>5
  <2> DEFINE r == [Seen(s, d) EXCEPT !.status = "FAILED", !.terminal = TRUE]
  <2>2. Seen(s, d) \in Rows
    BY SeenTyped DEF LockInv
  <2>3. r \in Rows
    BY <2>2 DEF Rows, Statuses
  <2>4. d \in session[s].todo /\ Staged(s, d, r, {}) /\ delivery' = delivery
    BY <2>1 DEF AttemptDisabled, tables
  <2> HIDE DEF r
  <2> QED  BY <1>1, <2>3, <2>4, StagedWork
<1>6. CASE \E s \in Sessions, d \in Deliveries, x \in {"answered", "refused", "timeout"} :
             Attempt(s, d, x)
  <2>1. PICK s \in Sessions, d \in Deliveries, x \in {"answered", "refused", "timeout"} :
               Attempt(s, d, x)
    BY <1>6
  <2> DEFINE r == AfterAttempt(Seen(s, d), x # "answered")
  <2>2. r \in Rows
    <3>1. (x # "answered") \in BOOLEAN
      OBVIOUS
    <3> QED  BY <3>1, SeenTyped, AttemptedRow DEF LockInv
  <2>3. d \in session[s].todo /\ delivery' = delivery
    BY <2>1 DEF Attempt, tables
  <2>4. CASE NumberTaken(d, Seen(s, d).count + 1)
    <3> DEFINE doomed == [Idle EXCEPT !.pc = "doomed"]
    <3>1. session' = [session EXCEPT ![s] = doomed]
      BY <2>1, <2>4 DEF Attempt
    <3>2. doomed.todo = {}
      BY DEF Idle
    <3> HIDE DEF doomed
    <3>3. s \notin Operators
      BY <2>1 DEF WorkInv, Attempt
    <3> QED  BY <1>2, <3>1, <3>2, <3>3, OneChanged DEF LockInv
  <2>5. CASE ~NumberTaken(d, Seen(s, d).count + 1)
    <3>1. Staged(s, d, r, {d})
      BY <2>1, <2>5 DEF Attempt
    <3> HIDE DEF r
    <3> QED  BY <1>1, <2>2, <2>3, <3>1, StagedWork
  <2> QED  BY <2>4, <2>5
<1>7. CASE \E s \in Sessions : Commit(s)
  BY <1>2, <1>7, CommitEffect, IdleBlank
<1>8. CASE \E s \in Sessions : RolledBack(s)
  BY <1>2, <1>8, EndEffect, IdleBlank
<1>9. CASE UNCHANGED vars
  BY <1>3, <1>9 DEF vars
<1>10. CASE Next
  <2>1. ASSUME NEW v \in Events, RecordEvent(v) PROVE WorkInv'
    BY <1>3, <2>1 DEF RecordEvent
  <2>2. ASSUME NEW e \in Endpoints, NEW f \in {"enabled", "subscribed"}, UpdateEndpoint(e, f)
        PROVE  WorkInv'
    BY <1>3, <2>2 DEF UpdateEndpoint
  <2>3. ASSUME NEW d \in Deliveries, Elapse(d) PROVE WorkInv'
    BY <1>3, <2>3 DEF Elapse
  <2> QED  BY <1>4, <1>5, <1>6, <1>7, <1>8, <1>10, <2>1, <2>2, <2>3, StepsWithoutRetry
           DEF Rollback, Crash
<1> QED  BY <1>9, <1>10

\* Without manual retries a transaction deals with each of its rows once.
THEOREM RowsDealtWithOnce == Spec => [](LockInv /\ CountInv /\ WorkInv)
<1>1. Init => WorkInv
  BY InitWork
<1>2. LockInv /\ WorkInv /\ [Next]_vars => WorkInv'
  BY WorkKept
<1>3. Init => CountInv
  BY InitCounts
<1>4. LockInv /\ CountInv /\ [Next]_vars => CountInv'
  BY CountsKept
<1> QED  BY <1>1, <1>2, <1>3, <1>4, LocksHold, PTL DEF Spec

---------------------------------------------------------------------------
(* Nothing is sent twice                                                   *)

LEMMA InitOnce == Init => OnceInv
BY IdleBlank DEF Init, OnceInv

\* Where OnceInv says what it says.
Taken(d) == \/ delivery[d].status = "SUCCEEDED"
            \/ \E s \in Sessions : /\ d \in DOMAIN session[s].staged
                                   /\ session[s].staged[d].status = "SUCCEEDED"

\* A delivery that is to be attempted was not processed.
LEMMA TodoNotTaken ==
  ASSUME LockInv, WorkInv, NoRetry, NEW s \in Sessions, NEW d \in session[s].todo
  PROVE  ~Taken(d)
<1>1. d \in DOMAIN session[s].loaded /\ d \notin DOMAIN session[s].staged
  BY TodoSeen
<1>2. owner[d] = s /\ delivery[d].status \in Open
  BY <1>1, HeldOpen
<1>3. \A t \in Sessions : d \in DOMAIN session[t].staged => owner[d] = t
  BY StagedHeld, HeldOpen
<1> QED  BY <1>1, <1>2, <1>3 DEF Taken, Open

\* A worker's number is never taken: it holds the row it counts from.
LEMMA NumberFree ==
  ASSUME LockInv, CountInv, WorkInv, NoRetry, NEW s \in Sessions, NEW d \in session[s].todo
  PROVE  ~NumberTaken(d, Seen(s, d).count + 1)
<1>1. d \in Deliveries /\ Seen(s, d) = delivery[d]
  BY TodoSeen, HeldOpen
<1>2. attempts[d] = [i \in 1 .. delivery[d].count |-> i] /\ delivery[d].count \in Nat
  BY <1>1 DEF CountInv, AttemptLogMatches, LockInv, TypeInv, Rows
<1> QED  BY <1>1, <1>2 DEF NumberTaken

\* A step after which what was taken still is.
LEMMA OnceFrame ==
  ASSUME OnceInv, Reliable, setting' = setting, received' = received,
         \A s \in Sessions : session'[s].pc # "doomed",
         \A d \in Deliveries : Taken(d) => Taken(d)'
  PROVE  OnceInv'
BY DEF OnceInv, Taken

\* The endpoint of d is not reached, or answers and the delivery succeeds.
Answered(d, status) ==
  \/ received' = received
  \/ /\ received' = [received EXCEPT ![d] = @ + 1]
     /\ status = "SUCCEEDED"

LEMMA StagedOnce ==
  ASSUME LockInv, WorkInv, OnceInv, Reliable, NEW s \in Sessions, NEW d \in session[s].todo,
         NEW r \in Rows, NEW logged \in SUBSET {d}, Staged(s, d, r, logged),
         delivery' = delivery, setting' = setting, Answered(d, r.status)
  PROVE  OnceInv'
<1>1. NoRetry
  BY DEF Reliable
<1>2. /\ d \in Deliveries /\ session'[s].pc = session[s].pc
      /\ \A t \in Sessions : t # s => session'[t] = session[t]
      /\ DOMAIN session'[s].staged = DOMAIN session[s].staged \cup {d}
      /\ \A c \in DOMAIN session'[s].staged :
           session'[s].staged[c] = IF c = d THEN r ELSE session[s].staged[c]
  <2>1. d \in Deliveries /\ session'[s].pc = session[s].pc
    BY StagedView
  <2>2. \A t \in Sessions : t # s => session'[t] = session[t]
    BY StagedView
  <2>3. DOMAIN session'[s].staged = DOMAIN session[s].staged \cup {d}
    BY StagedView
  <2>4. \A c \in DOMAIN session'[s].staged :
           session'[s].staged[c] = IF c = d THEN r ELSE session[s].staged[c]
    BY <2>1, StagedEffect DEF LockInv
  <2> QED  BY <2>1, <2>2, <2>3, <2>4, Zenon
<1>3. ~Taken(d) /\ received[d] = 0
  BY <1>1, <1>2, TodoNotTaken DEF OnceInv, Taken
<1>4. \A c \in Deliveries : Taken(c) => Taken(c)'
  <2> SUFFICES ASSUME NEW c \in Deliveries, Taken(c) PROVE Taken(c)'
    OBVIOUS
  <2>1. c # d
    BY <1>3
  <2>2. CASE delivery[c].status = "SUCCEEDED"
    BY <2>2 DEF Taken
  <2>3. CASE \E t \in Sessions : c \in DOMAIN session[t].staged
                                 /\ session[t].staged[c].status = "SUCCEEDED"
    BY <1>2, <2>1, <2>3 DEF Taken
  <2> QED  BY <2>2, <2>3 DEF Taken
<1>5. \A t \in Sessions : session'[t].pc # "doomed"
  BY <1>2 DEF OnceInv
<1>6. CASE received' = received
  BY <1>4, <1>5, <1>6, OnceFrame
<1>7. CASE received' = [received EXCEPT ![d] = @ + 1] /\ r.status = "SUCCEEDED"
  <2>1. received'[d] = 1 /\ \A c \in Deliveries : c # d => received'[c] = received[c]
    BY <1>2, <1>3, <1>7 DEF LockInv, TypeInv
  <2>2. Taken(d)'
    BY <1>2, <1>7 DEF Taken
  <2>3. \A c \in Deliveries : received'[c] = 0 \/ (received'[c] = 1 /\ Taken(c)')
    BY <1>4, <2>1, <2>2 DEF OnceInv, Taken
  <2> QED  BY <1>5, <2>3 DEF OnceInv, Taken
<1> QED  BY <1>6, <1>7 DEF Answered

LEMMA CommitOnce ==
  ASSUME LockInv, WorkInv, OnceInv, Reliable, setting' = setting,
         NEW s \in Sessions, Commit(s)
  PROVE  OnceInv'
<1>1. /\ session'[s] = Idle /\ received' = received
      /\ \A t \in Sessions : t # s => session'[t] = session[t]
  BY CommitEffect
<1>2. \A t \in Sessions : session'[t].pc # "doomed"
  BY <1>1, IdleBlank DEF OnceInv
<1>3. ASSUME NEW c \in Deliveries, Taken(c)
      PROVE  Taken(c)'
  <2>1. CASE c \in DOMAIN session[s].staged
    <3>1. /\ owner[c] = s /\ delivery[c].status \in Open
          /\ delivery'[c].status = session[s].staged[c].status
      BY <2>1, StagedHeld, HeldOpen, CommittedRows DEF Reliable
    <3>2. \A t \in Sessions : c \in DOMAIN session[t].staged => t = s
      BY <3>1, StagedHeld, HeldOpen DEF Reliable
    <3> QED  BY <1>3, <3>1, <3>2 DEF Taken, Open
  <2>2. CASE c \notin DOMAIN session[s].staged
    <3>1. delivery'[c] = delivery[c]
      BY <2>2, CommittedRows
    <3> QED  BY <1>1, <1>3, <2>2, <3>1 DEF Taken
  <2> QED  BY <2>1, <2>2
<1> QED  BY <1>1, <1>2, <1>3, OnceFrame

LEMMA AttemptOnce ==
  ASSUME LockInv, CountInv, WorkInv, OnceInv, Reliable, setting' = setting,
         NEW s \in Sessions, NEW d \in Deliveries,
         NEW x \in {"answered", "refused", "timeout"}, Attempt(s, d, x)
  PROVE  OnceInv'
<1> DEFINE r == AfterAttempt(Seen(s, d), x # "answered")
<1>1. d \in session[s].todo /\ delivery' = delivery /\ NoRetry
  BY DEF Attempt, tables, Reliable
<1>2. r \in Rows /\ (x = "answered" => r.status = "SUCCEEDED")
  <2>1. (x # "answered") \in BOOLEAN
    OBVIOUS
  <2> QED  BY <2>1, SeenTyped, AttemptedRow DEF LockInv
<1>3. Staged(s, d, r, {d})
  BY <1>1, NumberFree DEF Attempt
<1>4. x \in {"answered", "refused"}
  BY DEF Attempt, Reliable
<1>5. received' = received \/ (received' = [received EXCEPT ![d] = @ + 1] /\ x = "answered")
  <2>1. received \in [Deliveries -> Nat]
    BY DEF LockInv, TypeInv
  <2>2. received' = [received EXCEPT ![d] = @ + IF x = "refused" THEN 0 ELSE 1]
    BY DEF Attempt
  <2>3. CASE x = "refused"
    BY <2>1, <2>2, <2>3
  <2>4. CASE x = "answered"
    BY <2>2, <2>4
  <2> QED  BY <1>4, <2>3, <2>4
<1> HIDE DEF r
<1> QED  BY <1>1, <1>2, <1>3, <1>5, StagedOnce DEF Answered

LEMMA OnceKept ==
  ASSUME LockInv, CountInv, WorkInv, OnceInv, [Next]_vars
  PROVE  OnceInv'
<1>1. setting' = setting
  BY SettingKept
<1> SUFFICES ASSUME Reliable PROVE OnceInv'
  BY <1>1 DEF OnceInv, Reliable, NoRetry
<1>2. NoRetry
  BY DEF Reliable
<1>3. CASE received' = received /\ session' = session /\ \A d \in Deliveries :
             delivery[d].status = "SUCCEEDED" => delivery'[d].status = "SUCCEEDED"
  <2>1. \A s \in Sessions : session'[s].pc # "doomed"
    BY <1>3 DEF OnceInv
  <2>2. \A d \in Deliveries : Taken(d) => Taken(d)'
    BY <1>3 DEF Taken
  <2> QED  BY <1>1, <1>3, <2>1, <2>2, OnceFrame
<1>4. CASE \E w \in Workers : DeliverDue(w)
  <2>1. PICK w \in Workers : DeliverDue(w)
    BY <1>4
  <2>2. /\ w \in Sessions /\ session'[w].pc = "open" /\ session[w].pc = "idle"
        /\ \A t \in Sessions : t # w => session'[t] = session[t]
        /\ delivery' = delivery /\ received' = received
    BY <2>1, DeliverEffect DEF DeliverDue
  <2>3. DOMAIN session[w].staged = {}
    BY <2>2 DEF LockInv, ShapeOK
  <2>4. \A d \in Deliveries : Taken(d) => Taken(d)'
    BY <2>2, <2>3 DEF Taken
  <2>5. \A s \in Sessions : session'[s].pc # "doomed"
    BY <2>2 DEF OnceInv
  <2> QED  BY <1>1, <2>2, <2>4, <2>5, OnceFrame
<1>5. CASE \E s \in Sessions, d \in Deliveries : AttemptDisabled(s, d)
  <2>1. PICK s \in Sessions, d \in Deliveries : AttemptDisabled(s, d)
    BY <1>5
  <2> DEFINE r == [Seen(s, d) EXCEPT !.status = "FAILED", !.terminal = TRUE]
  <2>2. Seen(s, d) \in Rows
    BY SeenTyped DEF LockInv
  <2>3. r \in Rows
    BY <2>2 DEF Rows, Statuses
  <2>4. d \in session[s].todo /\ Staged(s, d, r, {}) /\ delivery' = delivery /\ Answered(d, r.status)
    BY <2>1 DEF AttemptDisabled, tables, Answered
  <2> HIDE DEF r
  <2> QED  BY <1>1, <2>3, <2>4, StagedOnce
<1>6. CASE \E s \in Sessions, d \in Deliveries, x \in {"answered", "refused", "timeout"} :
             Attempt(s, d, x)
  BY <1>1, <1>6, AttemptOnce
<1>7. CASE \E s \in Sessions : Commit(s)
  BY <1>1, <1>7, CommitOnce
<1>8. ~ \E s \in Sessions : Rollback(s) \/ Crash(s)
  BY DEF Rollback, Crash, OnceInv, Reliable
<1>9. CASE UNCHANGED vars
  BY <1>3, <1>9 DEF vars, tables
<1>10. CASE Next
  <2>1. ASSUME NEW v \in Events, RecordEvent(v) PROVE OnceInv'
    <3>1. \A d \in Deliveries : delivery[d].status = "SUCCEEDED" => d[1] # v
      BY <2>1 DEF LockInv, RecordEvent
    <3>2. \A d \in Deliveries :
            delivery[d].status = "SUCCEEDED" => delivery'[d].status = "SUCCEEDED"
      BY <2>1, <3>1 DEF RecordEvent
    <3> QED  BY <1>3, <2>1, <3>2 DEF RecordEvent
  <2>2. ASSUME NEW e \in Endpoints, NEW f \in {"enabled", "subscribed"}, UpdateEndpoint(e, f)
        PROVE  OnceInv'
    BY <1>3, <2>2 DEF UpdateEndpoint
  <2>3. ASSUME NEW d \in Deliveries, Elapse(d) PROVE OnceInv'
    <3>1. \A c \in Deliveries : delivery'[c].status = delivery[c].status
      BY <2>3 DEF Elapse, LockInv, TypeInv, Rows
    <3> QED  BY <1>3, <2>3, <3>1 DEF Elapse
  <2> QED  BY <1>2, <1>4, <1>5, <1>6, <1>7, <1>8, <1>10, <2>1, <2>2, <2>3, StepsWithoutRetry
<1> QED  BY <1>9, <1>10

\* Where no answer is lost, nobody dies and nobody retries by hand, however
\* many workers deliver, no endpoint processes an event twice.
THEOREM DeliveredOnce == Spec => []ExactlyOnce
<1>1. Init => OnceInv
  BY InitOnce
<1>2. LockInv /\ CountInv /\ WorkInv /\ OnceInv /\ [Next]_vars => OnceInv'
  BY OnceKept
<1>3. OnceInv => ExactlyOnce
  BY DEF OnceInv, ExactlyOnce, Reliable, NoRetry
<1> QED  BY <1>1, <1>2, <1>3, RowsDealtWithOnce, PTL DEF Spec

---------------------------------------------------------------------------
(* DELIVERED means all                                                     *)

LEMMA DispatchDelivered ==
  ASSUME NEW st, DispatchState(st) = "DELIVERED"
  PROVE  st = {"SUCCEEDED"}
BY DEF DispatchState

\* A commit makes what its session sees what everybody sees.
LEMMA CommitSeen ==
  ASSUME LockInv, NEW s \in Sessions, Commit(s), NEW c \in Deliveries
  PROVE  delivery'[c].status = Seen(s, c).status
BY CommittedRows DEF Seen

\* What a session sees of the rows it did not stage is what is committed.
LEMMA SeenAfter ==
  ASSUME NEW t \in Sessions, session'[t] = session[t], NEW c \in Deliveries
  PROVE  Seen(t, c)' = IF c \in DOMAIN session[t].staged THEN Seen(t, c) ELSE delivery'[c]
BY DEF Seen

EventDone(v) ==
  v \in recorded /\ \A d \in Deliveries : d[1] = v => Done(delivery[d].status)
SeenDone(s, v) ==
  v \in recorded /\ \A d \in Deliveries : d[1] = v => Done(Seen(s, d).status)

LEMMA DoneParts ==
  DoneInv <=> (NoRetry =>
    /\ \A v \in Events : event[v] = "DELIVERED" => EventDone(v)
    /\ \A s \in Sessions : \A v \in DOMAIN session[s].events :
         session[s].events[v] = "DELIVERED" => SeenDone(s, v))
BY DEF DoneInv, EventDone, SeenDone

LEMMA InitDone == Init => DoneInv
BY IdleBlank DEF Init, DoneInv

\* A step that adds no event to what is DELIVERED.
LEMMA DoneFrame ==
  ASSUME DoneInv, NoRetry, setting' = setting,
         \A v \in Events : event'[v] = "DELIVERED" =>
           event[v] = "DELIVERED" /\ (EventDone(v) => EventDone(v)'),
         \A s \in Sessions : \A v \in DOMAIN session'[s].events :
           session'[s].events[v] = "DELIVERED" =>
             /\ v \in DOMAIN session[s].events /\ session[s].events[v] = "DELIVERED"
             /\ SeenDone(s, v) => SeenDone(s, v)'
  PROVE  DoneInv'
<1>1. \A v \in Events : event'[v] = "DELIVERED" => EventDone(v)'
  BY DoneParts
<1>2. \A s \in Sessions : \A v \in DOMAIN session'[s].events :
        session'[s].events[v] = "DELIVERED" => SeenDone(s, v)'
  BY DoneParts
<1> QED  BY <1>1, <1>2 DEF DoneInv, EventDone, SeenDone

\* A step that changes no status and no event.
LEMMA DoneQuiet ==
  ASSUME DoneInv, NoRetry, setting' = setting, event' = event, recorded' = recorded,
         \A d \in Deliveries : delivery'[d].status = delivery[d].status,
         \A t \in Sessions : \/ session'[t] = session[t]
                             \/ DOMAIN session'[t].events = {}
  PROVE  DoneInv'
<1>1. \A v \in Events : EventDone(v) => EventDone(v)'
  BY DEF EventDone
<1>2. ASSUME NEW s \in Sessions, NEW v \in DOMAIN session'[s].events
      PROVE  /\ v \in DOMAIN session[s].events /\ session'[s].events[v] = session[s].events[v]
             /\ SeenDone(s, v) => SeenDone(s, v)'
  <2>1. session'[s] = session[s]
    BY <1>2
  <2>2. \A d \in Deliveries : Seen(s, d)'.status = Seen(s, d).status
    BY <2>1 DEF Seen
  <2> QED  BY <1>2, <2>1, <2>2 DEF SeenDone
<1> QED  BY <1>1, <1>2, DoneFrame

LEMMA RecordDone ==
  ASSUME LockInv, DoneInv, NoRetry, setting' = setting, NEW v \in Events, RecordEvent(v)
  PROVE  DoneInv'
<1>1. /\ v \notin recorded /\ recorded' = recorded \cup {v}
      /\ event' = event /\ session' = session
  BY DEF RecordEvent
<1>2. \A d \in Deliveries : d[1] # v => delivery'[d] = delivery[d]
  BY DEF RecordEvent
<1>3. \A x \in Events : EventDone(x) => EventDone(x)'
  BY <1>1, <1>2 DEF EventDone
<1>4. \A s \in Sessions : \A x : SeenDone(s, x) => SeenDone(s, x)'
  <2> SUFFICES ASSUME NEW s \in Sessions, NEW x, SeenDone(s, x) PROVE SeenDone(s, x)'
    OBVIOUS
  <2>1. x # v
    BY <1>1 DEF SeenDone
  <2>2. \A d \in Deliveries : d[1] = x => Seen(s, d)' = Seen(s, d)
    BY <1>1, <1>2, <2>1 DEF Seen
  <2> QED  BY <1>1, <2>2 DEF SeenDone
<1> QED  BY <1>1, <1>3, <1>4, DoneFrame

LEMMA StagedDone ==
  ASSUME LockInv, WorkInv, DoneInv, NoRetry, setting' = setting,
         NEW s \in Sessions, NEW d \in session[s].todo, NEW r \in Rows,
         NEW logged \in SUBSET {d}, Staged(s, d, r, logged), UNCHANGED tables
  PROVE  DoneInv'
<1>1. delivery' = delivery /\ event' = event /\ recorded' = recorded
  BY DEF tables
<1>2. d \in Deliveries /\ \A t \in Sessions : t # s => session'[t] = session[t]
  BY <1>1, StagedView
<1>3. session'[s].events =
        IF logged = {} THEN session[s].events
        ELSE [x \in DOMAIN session[s].events \cup {d[1]} |->
               IF x = d[1] THEN DispatchState(StatusesOf(s, d[1], d, r))
               ELSE session[s].events[x]]
  BY <1>1, StagedView
<1>4. \A c \in Deliveries : Seen(s, c)' = IF c = d THEN r ELSE Seen(s, c)
  BY <1>1, StagedSeen
<1>5. \A t \in Sessions, c \in Deliveries : t # s => Seen(t, c)' = Seen(t, c)
  BY <1>1, StagedView
<1>6. \A v \in Events : event'[v] = "DELIVERED" => EventDone(v)'
  BY <1>1, DoneParts DEF EventDone
<1>7. ASSUME NEW t \in Sessions, t # s, NEW v \in DOMAIN session'[t].events,
             session'[t].events[v] = "DELIVERED"
      PROVE  SeenDone(t, v)'
  <2>1. SeenDone(t, v)
    BY <1>2, <1>7, DoneParts
  <2> QED  BY <1>1, <1>5, <1>7, <2>1 DEF SeenDone
<1>8. ASSUME NEW v \in DOMAIN session'[s].events, session'[s].events[v] = "DELIVERED"
      PROVE  SeenDone(s, v)'
  <2>1. CASE v = d[1] /\ logged # {}
    <3>1. session'[s].events[v] = DispatchState(StatusesOf(s, v, d, r))
      BY <1>3, <2>1
    <3>2. StatusesOf(s, v, d, r) = {"SUCCEEDED"}
      BY <1>8, <3>1, DispatchDelivered
    <3>3. \A c \in Deliveries : c[1] = v =>
            Done(IF c = d THEN r.status ELSE Seen(s, c).status)
      BY <3>2 DEF StatusesOf, Done
    <3>4. v \in recorded
      <4>1. d \in DOMAIN session[s].loaded
        BY TodoSeen
      <4> QED  BY <1>2, <2>1, <4>1 DEF LockInv
    <3> QED  BY <1>1, <1>4, <3>3, <3>4 DEF SeenDone
  <2>2. CASE ~(v = d[1] /\ logged # {})
    <3>1. v \in DOMAIN session[s].events /\ session[s].events[v] = "DELIVERED"
      BY <1>3, <1>8, <2>2
    <3>2. SeenDone(s, v)
      BY <3>1, DoneParts
    <3>3. Seen(s, d).status \in Open
      BY TodoSeen
    <3>4. v # d[1]
      BY <1>2, <3>2, <3>3 DEF SeenDone, Done, Open
    <3> QED  BY <1>1, <1>4, <3>2, <3>4 DEF SeenDone
  <2> QED  BY <2>1, <2>2
<1>9. \A t \in Sessions : \A v \in DOMAIN session'[t].events :
        session'[t].events[v] = "DELIVERED" => SeenDone(t, v)'
  BY <1>7, <1>8
<1> QED  BY <1>6, <1>9 DEF DoneInv, EventDone, SeenDone

LEMMA CommitDone ==
  ASSUME LockInv, WorkInv, DoneInv, NoRetry, setting' = setting,
         NEW s \in Sessions, Commit(s)
  PROVE  DoneInv'
<1>1. /\ session'[s] = Idle /\ \A t \in Sessions : t # s => session'[t] = session[t]
      /\ recorded' = recorded
  BY CommitEffect
<1>2. event' = [v \in Events |-> IF v \in DOMAIN session[s].events
                                 THEN session[s].events[v] ELSE event[v]]
  BY DEF Commit
<1>3. \A c \in DOMAIN session[s].staged :
        c \in Deliveries /\ owner[c] = s /\ delivery[c].status \in Open
  BY StagedHeld, HeldOpen
<1>4. \A c \in Deliveries : Done(delivery[c].status) => delivery'[c] = delivery[c]
  BY <1>3, CommittedRows DEF Done, Open
<1>5. ASSUME NEW v \in Events, event'[v] = "DELIVERED"
      PROVE  EventDone(v)'
  <2>1. CASE v \in DOMAIN session[s].events
    <3>1. session[s].events[v] = "DELIVERED"
      BY <1>2, <1>5, <2>1
    <3>2. SeenDone(s, v)
      BY <2>1, <3>1, DoneParts
    <3> QED  BY <1>1, <3>2, CommitSeen DEF SeenDone, EventDone
  <2>2. CASE v \notin DOMAIN session[s].events
    <3>1. EventDone(v)
      BY <1>2, <1>5, <2>2, DoneParts
    <3> QED  BY <1>1, <1>4, <3>1 DEF EventDone
  <2> QED  BY <2>1, <2>2
<1>6. ASSUME NEW t \in Sessions, NEW v \in DOMAIN session'[t].events,
             session'[t].events[v] = "DELIVERED"
      PROVE  SeenDone(t, v)'
  <2>1. t # s /\ session'[t] = session[t]
    BY <1>1, <1>6, IdleBlank
  <2>2. SeenDone(t, v)
    BY <1>6, <2>1, DoneParts
  <2>3. ASSUME NEW c \in Deliveries, c[1] = v
        PROVE  Done(Seen(t, c)'.status)
    <3>1. Done(Seen(t, c).status)
      BY <2>2, <2>3 DEF SeenDone
    <3>2. CASE c \in DOMAIN session[t].staged
      BY <2>1, <3>1, <3>2, SeenAfter
    <3>3. CASE c \notin DOMAIN session[t].staged
      <4>1. Seen(t, c) = delivery[c] /\ Seen(t, c)' = delivery'[c]
        BY <2>1, <3>3 DEF Seen
      <4> QED  BY <1>4, <3>1, <4>1
    <3> QED  BY <3>2, <3>3
  <2> QED  BY <1>1, <2>2, <2>3 DEF SeenDone
<1> QED  BY <1>5, <1>6 DEF DoneInv, EventDone, SeenDone

LEMMA DoneKept ==
  ASSUME LockInv, CountInv, WorkInv, DoneInv, [Next]_vars
  PROVE  DoneInv'
<1>1. setting' = setting
  BY SettingKept
<1> SUFFICES ASSUME NoRetry PROVE DoneInv'
  BY <1>1 DEF DoneInv, NoRetry
<1>2. ASSUME NEW v \in Events, RecordEvent(v) PROVE DoneInv'
  BY <1>1, <1>2, RecordDone
<1>3. ASSUME NEW e \in Endpoints, NEW f \in {"enabled", "subscribed"}, UpdateEndpoint(e, f)
      PROVE  DoneInv'
  BY <1>1, <1>3, DoneQuiet DEF UpdateEndpoint
<1>4. ASSUME NEW d \in Deliveries, Elapse(d) PROVE DoneInv'
  <2>1. \A c \in Deliveries : delivery'[c].status = delivery[c].status
    BY <1>4 DEF Elapse, LockInv, TypeInv, Rows
  <2> QED  BY <1>1, <1>4, <2>1, DoneQuiet DEF Elapse
<1>5. ASSUME NEW w \in Workers, DeliverDue(w) PROVE DoneInv'
  BY <1>1, <1>5, DeliverEffect, DoneQuiet
<1>6. ASSUME NEW s \in Sessions, NEW d \in Deliveries, AttemptDisabled(s, d) PROVE DoneInv'
  <2> DEFINE r == [Seen(s, d) EXCEPT !.status = "FAILED", !.terminal = TRUE]
  <2>1. Seen(s, d) \in Rows
    BY SeenTyped DEF LockInv
  <2>2. r \in Rows
    BY <2>1 DEF Rows, Statuses
  <2>3. d \in session[s].todo /\ Staged(s, d, r, {}) /\ UNCHANGED tables
    BY <1>6 DEF AttemptDisabled
  <2> HIDE DEF r
  <2> QED  BY <1>1, <2>2, <2>3, StagedDone
<1>7. ASSUME NEW s \in Sessions, NEW d \in Deliveries,
             NEW x \in {"answered", "refused", "timeout"}, Attempt(s, d, x)
      PROVE  DoneInv'
  <2> DEFINE r == AfterAttempt(Seen(s, d), x # "answered")
  <2>1. r \in Rows
    <3>1. (x # "answered") \in BOOLEAN
      OBVIOUS
    <3> QED  BY <3>1, SeenTyped, AttemptedRow DEF LockInv
  <2>2. d \in session[s].todo /\ UNCHANGED tables
    BY <1>7 DEF Attempt
  <2>3. Staged(s, d, r, {d})
    BY <1>7, <2>2, NumberFree DEF Attempt
  <2> HIDE DEF r
  <2> QED  BY <1>1, <2>1, <2>2, <2>3, StagedDone
<1>8. ASSUME NEW s \in Sessions, Commit(s) PROVE DoneInv'
  BY <1>1, <1>8, CommitDone
<1>9. ASSUME NEW s \in Sessions, RolledBack(s) PROVE DoneInv'
  BY <1>1, <1>9, EndEffect, IdleBlank, DoneQuiet
<1>10. CASE UNCHANGED vars
  BY <1>1, <1>10, DoneQuiet DEF vars, tables
<1>11. CASE Next
  BY <1>2, <1>3, <1>4, <1>5, <1>6, <1>7, <1>8, <1>9, <1>11, StepsWithoutRetry
     DEF Rollback, Crash
<1> QED  BY <1>10, <1>11

\* Without manual retries, an event DELIVERED has reached every endpoint that
\* was to have it, however many workers refresh its state from what each sees.
THEOREM DeliveredReachedAll == Spec => []DeliveredMeansAll
<1>1. Init => DoneInv
  BY InitDone
<1>2. LockInv /\ CountInv /\ WorkInv /\ DoneInv /\ [Next]_vars => DoneInv'
  BY DoneKept
<1>3. DoneInv => DeliveredMeansAll
  BY DEF DoneInv, DeliveredMeansAll, Done, NoRetry
<1> QED  BY <1>1, <1>2, <1>3, RowsDealtWithOnce, PTL DEF Spec

---------------------------------------------------------------------------
(* The state of an event is what its deliveries say                        *)

LEMMA InitState == Init => StateInv
BY IdleBlank DEF Init, StateInv, StateOf, Absent, Of, Sessions

\* Sets of statuses depend on nothing but the statuses.
LEMMA SettledKept ==
  ASSUME NEW v, \A c \in Of(v) : delivery'[c].status = delivery[c].status
  PROVE  Settled(v)' = Settled(v)
BY DEF Settled, Of

LEMMA StandingKept ==
  ASSUME NEW s, NEW v, \A c \in Of(v) : Seen(s, c)'.status = Seen(s, c).status
  PROVE  Standing(s, v)' = Standing(s, v)
<1>1. Standing(s, v)' = {x \in {Seen(s, c)'.status : c \in Of(v)} : x # "ABSENT"}
  BY DEF Standing, Of
<1>2. {Seen(s, c)'.status : c \in Of(v)} = {Seen(s, c).status : c \in Of(v)}
  OBVIOUS
<1> QED  BY <1>1, <1>2 DEF Standing

\* A step that changes no status, no counter and no event, and ends or starts
\* at most a transaction of w.
LEMMA StateQuiet ==
  ASSUME NEW w \in Workers, StateOf(w), event' = event, recorded' = recorded,
         endpoint' = endpoint,
         \A d \in Deliveries : /\ delivery'[d].status = delivery[d].status
                               /\ delivery'[d].count = delivery[d].count,
         \A t \in Sessions : t # w => session'[t].pc = "idle",
         \/ session'[w] = session[w]
         \/ DOMAIN session'[w].staged = {} /\ DOMAIN session'[w].events = {}
  PROVE  StateOf(w)'
<1>1. \A v \in Events : Settled(v)' = Settled(v)
  BY SettledKept DEF Of
<1>2. \A v \in Events : (\E d \in Of(v) : delivery'[d].count > 0) =>
        event'[v] = DispatchState(Settled(v)')
  BY <1>1 DEF StateOf, Of
<1>3. \A v \in Events : (\E d \in Of(v) : delivery'[d].count > 0) =>
        event'[v] = DispatchState(Settled(v))'
  BY <1>2 DEF DispatchState, Open
<1>4. \A d \in DOMAIN session'[w].staged : d[1] \in DOMAIN session'[w].events
  BY DEF StateOf
<1>5. ASSUME NEW v \in DOMAIN session'[w].events
      PROVE  v \in recorded' /\ session'[w].events[v] = DispatchState(Standing(w, v))'
  <2>1. session'[w] = session[w]
    BY <1>5
  <2>2. \A c \in Of(v) : Seen(w, c)'.status = Seen(w, c).status
    BY <2>1 DEF Seen, Of
  <2>3. Standing(w, v)' = Standing(w, v)
    BY <2>2, StandingKept
  <2>4. v \in recorded /\ session[w].events[v] = DispatchState(Standing(w, v))
    BY <1>5, <2>1 DEF StateOf
  <2> QED  BY <2>1, <2>3, <2>4 DEF DispatchState, Open
<1>6. (\A e \in Endpoints : endpoint[e].enabled)'
  BY DEF StateOf
<1> QED  BY <1>3, <1>4, <1>5, <1>6 DEF StateOf, Of

LEMMA RecordState ==
  ASSUME LockInv, CountInv, NEW w \in Workers, StateOf(w), NEW x \in Events, RecordEvent(x)
  PROVE  StateOf(w)'
<1>1. /\ x \notin recorded /\ recorded' = recorded \cup {x}
      /\ event' = event /\ session' = session /\ endpoint' = endpoint
  BY DEF RecordEvent
<1>2. \A d \in Deliveries : d[1] # x => delivery'[d] = delivery[d]
  BY DEF RecordEvent
<1>3. \A d \in Deliveries : d[1] = x => delivery'[d].count = 0
  <2>1. \A d \in Deliveries : d[1] = x => delivery[d].count = 0
    BY <1>1 DEF LockInv, CountInv
  <2>2. Pending.count = 0
    BY DEF Pending, Absent
  <2> QED  BY <2>1, <2>2 DEF RecordEvent
<1>4. ASSUME NEW v \in Events, NEW d \in Of(v), delivery'[d].count > 0
      PROVE  event'[v] = DispatchState(Settled(v))'
  <2>1. v # x
    BY <1>3, <1>4 DEF Of
  <2>2. Settled(v)' = Settled(v)
    BY <1>2, <2>1, SettledKept DEF Of
  <2>3. event[v] = DispatchState(Settled(v))
    BY <1>2, <1>4, <2>1 DEF StateOf, Of
  <2> QED  BY <1>1, <2>2, <2>3 DEF DispatchState, Open
<1>5. ASSUME NEW v \in DOMAIN session[w].events
      PROVE  v \in recorded' /\ session'[w].events[v] = DispatchState(Standing(w, v))'
  <2>1. v \in recorded /\ session[w].events[v] = DispatchState(Standing(w, v))
    BY DEF StateOf
  <2>2. \A c \in Of(v) : Seen(w, c)'.status = Seen(w, c).status
    BY <1>1, <1>2, <2>1 DEF Seen, Of
  <2>3. Standing(w, v)' = Standing(w, v)
    BY <2>2, StandingKept
  <2> QED  BY <1>1, <2>1, <2>3 DEF DispatchState, Open
<1> QED  BY <1>1, <1>4, <1>5 DEF StateOf, Of

LEMMA StagedState ==
  ASSUME LockInv, WorkInv, NoRetry, NEW w \in Workers, StateOf(w),
         NEW d \in session[w].todo, NEW r \in Rows, Staged(w, d, r, {d}),
         UNCHANGED tables
  PROVE  StateOf(w)'
<1>1. /\ w \in Sessions /\ delivery' = delivery /\ event' = event
      /\ recorded' = recorded /\ endpoint' = endpoint
  BY DEF tables, Sessions
<1>2. d \in Deliveries /\ \A t \in Sessions : t # w => session'[t] = session[t]
  BY <1>1, StagedView
<1>3. session'[w].events =
        [x \in DOMAIN session[w].events \cup {d[1]} |->
          IF x = d[1] THEN DispatchState(StatusesOf(w, d[1], d, r)) ELSE session[w].events[x]]
  BY <1>1, StagedView
<1>4. \A c \in Deliveries : Seen(w, c)' = IF c = d THEN r ELSE Seen(w, c)
  BY <1>1, StagedSeen
<1>5. DOMAIN session'[w].staged = DOMAIN session[w].staged \cup {d}
  BY <1>1, StagedView
<1>6. \A v \in Events : (\E c \in Of(v) : delivery'[c].count > 0) =>
        event'[v] = DispatchState(Settled(v))'
  <2>1. \A v \in Events : Settled(v)' = Settled(v)
    BY <1>1, SettledKept
  <2>2. \A v \in Events : (\E c \in Of(v) : delivery'[c].count > 0) =>
          event'[v] = DispatchState(Settled(v)')
    BY <1>1, <2>1 DEF StateOf
  <2> QED  BY <2>2 DEF DispatchState, Open
<1>7. \A c \in DOMAIN session'[w].staged : c[1] \in DOMAIN session'[w].events
  BY <1>3, <1>5 DEF StateOf
<1>8. ASSUME NEW v \in DOMAIN session'[w].events
      PROVE  v \in recorded' /\ session'[w].events[v] = DispatchState(Standing(w, v))'
  <2>1. CASE v = d[1]
    <3>1. d \in DOMAIN session[w].loaded
      BY <1>1, TodoSeen
    <3>2. v \in recorded
      BY <1>1, <1>2, <2>1, <3>1 DEF LockInv
    <3>3. Standing(w, v)' = StatusesOf(w, v, d, r)
      <4>1. Standing(w, v)' = {x \in {Seen(w, c)'.status : c \in Of(v)} : x # "ABSENT"}
        BY DEF Standing, Of
      <4>2. {Seen(w, c)'.status : c \in Of(v)}
              = {IF c = d THEN r.status ELSE Seen(w, c).status : c \in Of(v)}
        <5>1. \A c \in Of(v) :
                Seen(w, c)'.status = IF c = d THEN r.status ELSE Seen(w, c).status
          BY <1>4 DEF Of
        <5> QED  BY <5>1
      <4> QED  BY <4>1, <4>2 DEF StatusesOf, Of
    <3>4. session'[w].events[v] = DispatchState(StatusesOf(w, v, d, r))
      BY <1>3, <2>1
    <3> QED  BY <1>1, <3>2, <3>3, <3>4 DEF DispatchState, Open
  <2>2. CASE v # d[1]
    <3>1. v \in DOMAIN session[w].events /\ session'[w].events[v] = session[w].events[v]
      BY <1>3, <2>2
    <3>2. v \in recorded /\ session[w].events[v] = DispatchState(Standing(w, v))
      BY <3>1 DEF StateOf
    <3>3. \A c \in Of(v) : Seen(w, c)'.status = Seen(w, c).status
      BY <1>4, <2>2 DEF Of
    <3>4. Standing(w, v)' = Standing(w, v)
      BY <3>3, StandingKept
    <3> QED  BY <1>1, <3>1, <3>2, <3>4 DEF DispatchState, Open
  <2> QED  BY <2>1, <2>2
<1>9. \A s \in Sessions : s # w => session'[s].pc = "idle"
  BY <1>2 DEF StateOf
<1>10. \A e \in Endpoints : endpoint'[e].enabled
  BY <1>1 DEF StateOf
<1> QED  BY <1>6, <1>7, <1>8, <1>9, <1>10 DEF StateOf, Of

LEMMA CommitState ==
  ASSUME LockInv, NEW w \in Workers, StateOf(w), Commit(w)
  PROVE  StateOf(w)'
<1>1. /\ w \in Sessions /\ session'[w] = Idle
      /\ \A t \in Sessions : t # w => session'[t] = session[t]
      /\ recorded' = recorded /\ endpoint' = endpoint
  BY CommitEffect DEF Sessions
<1>2. event' = [v \in Events |-> IF v \in DOMAIN session[w].events
                                 THEN session[w].events[v] ELSE event[v]]
  BY DEF Commit
<1>3. ASSUME NEW v \in Events, NEW d \in Of(v), delivery'[d].count > 0
      PROVE  event'[v] = DispatchState(Settled(v))'
  <2>1. CASE v \in DOMAIN session[w].events
    <3>1. Settled(v)' = Standing(w, v)
      <4>1. Settled(v)' = {x \in {delivery'[c].status : c \in Of(v)} : x # "ABSENT"}
        BY DEF Settled, Of
      <4>2. \A c \in Of(v) : delivery'[c].status = Seen(w, c).status
        BY <1>1, CommitSeen DEF Of
      <4>3. {delivery'[c].status : c \in Of(v)} = {Seen(w, c).status : c \in Of(v)}
        BY <4>2
      <4> QED  BY <4>1, <4>3 DEF Standing
    <3>2. event'[v] = DispatchState(Standing(w, v))
      BY <1>2, <2>1 DEF StateOf
    <3> QED  BY <3>1, <3>2 DEF DispatchState, Open
  <2>2. CASE v \notin DOMAIN session[w].events
    <3>1. \A c \in Of(v) : c \notin DOMAIN session[w].staged
      BY <2>2 DEF StateOf, Of
    <3>2. \A c \in Of(v) : delivery'[c] = delivery[c]
      BY <1>1, <3>1, CommittedRows DEF Of
    <3>3. Settled(v)' = Settled(v)
      BY <3>2, SettledKept
    <3>4. event[v] = DispatchState(Settled(v))
      BY <1>3, <3>2 DEF StateOf
    <3> QED  BY <1>2, <2>2, <3>3, <3>4 DEF DispatchState, Open
  <2> QED  BY <2>1, <2>2
<1>4. \A s \in Sessions : s # w => session'[s].pc = "idle"
  BY <1>1 DEF StateOf
<1>5. \A e \in Endpoints : endpoint'[e].enabled
  BY <1>1 DEF StateOf
<1> QED  BY <1>1, <1>3, <1>4, <1>5, IdleBlank DEF StateOf, Of

LEMMA StateKept ==
  ASSUME LockInv, CountInv, WorkInv, StateInv, [Next]_vars
  PROVE  StateInv'
<1>1. setting' = setting
  BY SettingKept
<1> SUFFICES ASSUME NEW w \in Workers, Alone(w) PROVE StateOf(w)'
  BY <1>1 DEF StateInv, Alone
<1>2. NoRetry /\ StateOf(w) /\ w \in Sessions
  BY DEF StateInv, Alone, NoRetry, Sessions
<1>3. \A t \in Sessions : t # w => session[t].pc = "idle"
  BY <1>2 DEF StateOf
<1>4. ASSUME NEW v \in Events, RecordEvent(v) PROVE StateOf(w)'
  BY <1>2, <1>4, RecordState
<1>5. ~ \E e \in Endpoints, f \in {"enabled", "subscribed"} : UpdateEndpoint(e, f)
  BY DEF UpdateEndpoint, Alone
<1>6. ASSUME NEW d \in Deliveries, Elapse(d) PROVE StateOf(w)'
  <2>1. \A c \in Deliveries : /\ delivery'[c].status = delivery[c].status
                              /\ delivery'[c].count = delivery[c].count
    BY <1>6 DEF Elapse, LockInv, TypeInv, Rows
  <2> QED  BY <1>2, <1>3, <1>6, <2>1, StateQuiet DEF Elapse
<1>7. ASSUME NEW u \in Workers, DeliverDue(u) PROVE StateOf(w)'
  <2>1. u = w
    BY <1>7, DeliverEffect DEF Alone
  <2> QED  BY <1>2, <1>3, <1>7, <2>1, DeliverEffect, StateQuiet
<1>8. ~ \E s \in Sessions, d \in Deliveries : AttemptDisabled(s, d)
  BY <1>2, DeliveryPairs DEF AttemptDisabled, StateOf
<1>9. ASSUME NEW s \in Sessions, NEW d \in Deliveries,
             NEW x \in {"answered", "refused", "timeout"}, Attempt(s, d, x)
      PROVE  StateOf(w)'
  <2> DEFINE r == AfterAttempt(Seen(s, d), x # "answered")
  <2>1. r \in Rows
    <3>1. (x # "answered") \in BOOLEAN
      OBVIOUS
    <3> QED  BY <3>1, SeenTyped, AttemptedRow DEF LockInv
  <2>2. d \in session[s].todo /\ UNCHANGED tables /\ s = w
    BY <1>3, <1>9 DEF Attempt
  <2>3. Staged(s, d, r, {d})
    BY <1>2, <1>9, <2>2, NumberFree DEF Attempt
  <2> HIDE DEF r
  <2> QED  BY <1>2, <2>1, <2>2, <2>3, StagedState
<1>10. ASSUME NEW s \in Sessions, Commit(s) PROVE StateOf(w)'
  <2>1. s = w
    BY <1>3, <1>10 DEF Commit
  <2> QED  BY <1>2, <1>10, <2>1, CommitState
<1>11. ASSUME NEW s \in Sessions, RolledBack(s) PROVE StateOf(w)'
  <2>1. /\ session'[s] = Idle /\ \A t \in Sessions : t # s => session'[t] = session[t]
        /\ UNCHANGED <<endpoint, recorded, event, delivery>>
    BY <1>11, EndEffect
  <2>2. \A t \in Sessions : t # w => session'[t].pc = "idle"
    BY <1>3, <2>1, IdleBlank
  <2>3. \/ session'[w] = session[w]
        \/ DOMAIN session'[w].staged = {} /\ DOMAIN session'[w].events = {}
    BY <1>2, <2>1, IdleBlank
  <2> QED  BY <1>2, <2>1, <2>2, <2>3, StateQuiet
<1>12. CASE UNCHANGED vars
  BY <1>2, <1>3, <1>12, StateQuiet DEF vars, tables
<1>13. CASE Next
  BY <1>2, <1>4, <1>5, <1>6, <1>7, <1>8, <1>9, <1>10, <1>11, <1>13, StepsWithoutRetry
     DEF Rollback, Crash
<1> QED  BY <1>12, <1>13

LEMMA StateAgrees ==
  ASSUME StateInv, LockInv, setting \in Settings
  PROVE  EventStateAgrees
<1> SUFFICES ASSUME Cardinality(setting.workers) = 1, setting.calls = {}, NEW v \in Events,
                    NEW d \in Deliveries, d[1] = v, delivery[d].status # "ABSENT",
                    delivery[d].count > 0
             PROVE  LET D == {c \in Deliveries : c[1] = v /\ delivery[c].status # "ABSENT"} IN
                    /\ event[v] = "DELIVERED" <=> \A c \in D : delivery[c].status = "SUCCEEDED"
                    /\ event[v] = "FAILED" <=> \A c \in D : delivery[c].status = "FAILED"
  BY Zenon DEF EventStateAgrees
<1> DEFINE D == {c \in Deliveries : c[1] = v /\ delivery[c].status # "ABSENT"}
<1>1. PICK w : setting.workers = {w}
  BY SettingsAssumption, FS_Singleton
<1>2. w \in Workers
  BY <1>1, SettingsAssumption
<1>3. StateOf(w)
  BY <1>1, <1>2 DEF StateInv, Alone
<1>4. event[v] = DispatchState(Settled(v))
  BY <1>3 DEF StateOf, Of
<1>5. Settled(v) = {delivery[c].status : c \in D}
  BY DEF Settled, Of
<1>6. d \in D
  OBVIOUS
<1>7. \A c \in D : delivery[c].status \in {"PENDING", "RETRYING", "SUCCEEDED", "FAILED"}
  BY DEF LockInv, TypeInv, Rows, Statuses
<1>8. Settled(v) = {"SUCCEEDED"} <=> \A c \in D : delivery[c].status = "SUCCEEDED"
  BY <1>5, <1>6
<1>9. Settled(v) = {"FAILED"} <=> \A c \in D : delivery[c].status = "FAILED"
  BY <1>5, <1>6
<1>10. Settled(v) # {} /\ Settled(v) \subseteq {"PENDING", "RETRYING", "SUCCEEDED", "FAILED"}
  BY <1>5, <1>6, <1>7
<1>11. event[v] = "DELIVERED" <=> Settled(v) = {"SUCCEEDED"}
  BY <1>4, <1>10 DEF DispatchState
<1>12. event[v] = "FAILED" <=> Settled(v) = {"FAILED"}
  <2>1. event[v] = "FAILED" <=> Settled(v) \cap Open = {} /\ "SUCCEEDED" \notin Settled(v)
    BY <1>4, <1>10 DEF DispatchState
  <2> QED  BY <1>10, <2>1 DEF Open
<1> QED  BY <1>8, <1>9, <1>11, <1>12

\* With one worker and endpoints nobody changes, an event some delivery of
\* which was attempted is DELIVERED or FAILED exactly when all of them are.
THEOREM EventStatesAgree == Spec => []EventStateAgrees
<1>1. Init => StateInv /\ setting \in Settings
  BY InitState DEF Init
<1>2. LockInv /\ CountInv /\ WorkInv /\ StateInv /\ [Next]_vars => StateInv'
  BY StateKept
<1>3. setting \in Settings /\ [Next]_vars => (setting \in Settings)'
  BY SettingKept
<1>4. StateInv /\ LockInv /\ setting \in Settings => EventStateAgrees
  BY StateAgrees
<1> QED  BY <1>1, <1>2, <1>3, <1>4, RowsDealtWithOnce, PTL DEF Spec

\* The log of the attempts, what the endpoints processed and the state of the
\* events tell one story.
THEOREM DeliveriesTellOneStory == Spec => []DeliveriesAgree
<1>1. AttemptLogMatches /\ ExactlyOnce /\ DeliveredMeansAll /\ EventStateAgrees
        => DeliveriesAgree
  BY DEF DeliveriesAgree
<1> QED  BY <1>1, AttemptsLogged, DeliveredOnce, DeliveredReachedAll, EventStatesAgree, PTL
============================================================================
