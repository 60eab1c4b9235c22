------------------------ MODULE ResourceAssignments ------------------------
(***************************************************************************)
(* Learning resources and their assignment to a student (services/         *)
(* resources.py): a resource is drafted with the nodes it teaches,         *)
(* approved, activated and deactivated; an active one is assigned to the   *)
(* student, on its own or for a recommendation.  Requests read without     *)
(* locks and write later.                                                  *)
(***************************************************************************)
EXTENDS Integers, Sequences, FiniteSets, TLC

CONSTANTS
  Resources, Topics, Requests,
  TargetOf,     \* TargetOf[g]: the node of each recommendation
  LibrarySettings,
  MaxRows       \* bound of this model

\* An assignment is made for a recommendation, or for none.
Grains == DOMAIN TargetOf \cup {"none"}
Idle == [phase |-> "idle"]

VARIABLES
  resource,    \* resource[x]: status, content and mapped nodes
  assigned,    \* the assignments, in the order of their rows
  request,     \* what each request has read and is about to write
  answers,     \* assignment requests that passed their checks and then failed
  lsetting

libraryVars == <<resource, assigned, request, answers, lsetting>>

States == {"ABSENT", "DRAFT", "APPROVED", "ACTIVE", "DEACTIVATED"}
LibraryTypeOK ==
  /\ resource \in [Resources -> [status : States, content : 0 .. 1, nodes : SUBSET Topics]]
  /\ assigned \in Seq([of : Resources, for : Grains, status : {"ASSIGNED", "CANCELLED"}])
  /\ DOMAIN request = Requests /\ answers \in SUBSET Requests

LibraryInit ==
  /\ lsetting \in LibrarySettings
  /\ resource = [x \in Resources |-> [status |-> "ABSENT", content |-> 0, nodes |-> {}]]
  /\ assigned = << >> /\ answers = {} /\ request = [q \in Requests |-> Idle]

Reads(q, plan) ==
  /\ q \in lsetting.requests /\ request[q] = Idle
  /\ request' = [request EXCEPT ![q] = plan @@ [phase |-> "write"]]
  /\ UNCHANGED <<resource, assigned, answers, lsetting>>
Ends(q) == request' = [request EXCEPT ![q] = Idle]
Becomes(x, status) == resource' = [resource EXCEPT ![x].status = status]

-----------------------------------------------------------------------------
\* create_resource: the unique code lets one request create it.
Create(q, x, nodes) ==
  /\ q \in lsetting.requests /\ request[q] = Idle
  /\ resource[x].status = "ABSENT" /\ nodes # {}
  /\ resource' = [resource EXCEPT ![x] = [status |-> "DRAFT", content |-> 0, nodes |-> nodes]]
  /\ UNCHANGED <<assigned, request, answers, lsetting>>

\* update_resource: the content changes in DRAFT only.
EditRead(q, x) == lsetting.edits /\ resource[x].status = "DRAFT" /\ Reads(q, [call |-> "edit", x |-> x])
EditWrite(q) ==
  /\ request[q].call = "edit" /\ Ends(q)
  /\ resource' = [resource EXCEPT ![request[q].x].content = 1 - @]
  /\ UNCHANGED <<assigned, answers, lsetting>>

\* replace_resource_nodes: the rows it saw are deleted, its own are inserted;
\* a row of another request that is also its own collides, and it fails.
NodesRead(q, x, nodes) ==
  /\ lsetting.edits /\ resource[x].status \in {"DRAFT", "APPROVED", "ACTIVE"} /\ nodes # {}
  /\ Reads(q, [call |-> "nodes", x |-> x, seen |-> resource[x].nodes, nodes |-> nodes])
NodesWrite(q) ==
  /\ request[q].call = "nodes" /\ Ends(q)
  /\ LET kept == resource[request[q].x].nodes \ request[q].seen
     IN  resource' = IF kept \cap request[q].nodes # {} THEN resource
                     ELSE [resource EXCEPT ![request[q].x].nodes = kept \cup request[q].nodes]
  /\ UNCHANGED <<assigned, answers, lsetting>>

\* approve_resource, activate_resource, deactivate_resource.
Moves == [APPROVED |-> {"DRAFT"}, ACTIVE |-> {"APPROVED"}, DEACTIVATED |-> {"ACTIVE", "APPROVED"}]
MoveRead(q, x, to) ==
  /\ resource[x].status \in Moves[to] /\ (to = "APPROVED" => resource[x].nodes # {})
  /\ Reads(q, [call |-> "move", x |-> x, to |-> to])
MoveWrite(q) ==
  /\ request[q].call = "move" /\ Ends(q) /\ Becomes(request[q].x, request[q].to)
  /\ UNCHANGED <<assigned, answers, lsetting>>

-----------------------------------------------------------------------------
Held(x, g) == {i \in DOMAIN assigned : assigned[i].of = x /\ assigned[i].for = g
                                       /\ assigned[i].status = "ASSIGNED"}

Assignable(x, g) ==
  resource[x].status = "ACTIVE" /\ (g # "none" => TargetOf[g] \in resource[x].nodes)

\* The partial unique index over the ASSIGNED rows, NULLS NOT DISTINCT.
GrainTaken(x, g) == Held(x, g) # {}

\* A request that lost the race answers with the row of the winner, if it is
\* still there.
LoserFailsToAnswer(q, x, g) == Held(x, g) = {}

\* create_assignment: a row there already is the answer.  (It also asks for an
\* ACTIVE recommendation, and no code takes one out of ACTIVE.)
AssignRead(q, x, g) ==
  /\ Held(x, g) = {} /\ Assignable(x, g) /\ Len(assigned) < MaxRows
  /\ Reads(q, [call |-> "assign", x |-> x, for |-> g])
AssignWrite(q) ==
  /\ request[q].call = "assign" /\ Ends(q)
  /\ LET x == request[q].x
         g == request[q].for
     IN  IF GrainTaken(x, g)
         THEN /\ answers' = IF LoserFailsToAnswer(q, x, g) THEN answers \cup {q} ELSE answers
              /\ UNCHANGED assigned
         ELSE /\ assigned' = Append(assigned, [of |-> x, for |-> g, status |-> "ASSIGNED"])
              /\ UNCHANGED answers
  /\ UNCHANGED <<resource, lsetting>>

\* cancel_assignment.
CancelRead(q, i) == assigned[i].status = "ASSIGNED" /\ Reads(q, [call |-> "cancel", row |-> i])
CancelWrite(q) ==
  /\ request[q].call = "cancel" /\ Ends(q)
  /\ assigned' = [assigned EXCEPT ![request[q].row].status = "CANCELLED"]
  /\ UNCHANGED <<resource, answers, lsetting>>

LibraryNext ==
  \E q \in Requests :
    \/ \E x \in Resources :
         \/ EditRead(q, x)
         \/ \E nodes \in SUBSET Topics : Create(q, x, nodes) \/ NodesRead(q, x, nodes)
         \/ \E to \in DOMAIN Moves : MoveRead(q, x, to)
         \/ \E g \in Grains : AssignRead(q, x, g)
    \/ \E i \in DOMAIN assigned : CancelRead(q, i)
    \/ request[q] # Idle /\ \/ EditWrite(q) \/ NodesWrite(q) \/ MoveWrite(q)
                            \/ AssignWrite(q) \/ CancelWrite(q)

-----------------------------------------------------------------------------
\* A student holds a resource at most once for a recommendation and at most
\* once without one, whatever requests race (the grain of
\* db/models/resources.py:138).
OneAssigned == \A x \in Resources, g \in Grains : Cardinality(Held(x, g)) <= 1

\* With one request at a time an assignment is made of an active resource that
\* teaches the node of its recommendation.
AssignmentFits ==
  [][Cardinality(lsetting.requests) = 1 =>
       \A i \in DOMAIN assigned' \ DOMAIN assigned :
         /\ resource[assigned'[i].of].status = "ACTIVE"
         /\ assigned'[i].for # "none" => TargetOf[assigned'[i].for] \in resource[assigned'[i].of].nodes
    ]_libraryVars

\* Unless an assignment is cancelled meanwhile, two requests for the same one
\* are both answered: the loser of the race does not fail.
RaceIsAnswered == (\A i \in DOMAIN assigned : assigned[i].status = "ASSIGNED") => answers = {}
=============================================================================
