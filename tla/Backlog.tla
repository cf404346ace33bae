------------------------------- MODULE Backlog -------------------------------
(***************************************************************************)
(* The numbers of a project's tickets and the order of its backlog. A       *)
(* number comes from a counter that is raised in the transaction of the     *)
(* insert. A new ticket's rank is its number; owners exchange the ranks of  *)
(* neighbours under the write lock, while edits of loaded rows take tickets *)
(* out of the backlog and put them back.                                    *)
(***************************************************************************)
EXTENDS Integers

CONSTANTS
  Ticket,   \* ticket ids, each used once
  Request,  \* requests that can be in flight at once
  Null

VARIABLES
  next,  \* project.next_ticket_number
  row,   \* ticket: its rows, a deleted one as it was last, Null before its insert
  req    \* where each request stands and what it has read

vars == <<next, row, req>>

----------------------------------------------------------------------------
\* planned: whether the ticket is in a sprint
Row == [number : Nat, rank : Nat, planned : BOOLEAN, live : BOOLEAN]

Idle == [at |-> "idle"]

RequestState ==
  {Idle}
  \union [at : {"insert"}, next : Nat, planned : BOOLEAN]
  \union [at : {"move"}, ticket : Ticket]
  \union [at : {"write"}, loaded : [Ticket -> Row \union {Null}], planned : BOOLEAN]

At(r, point) == req[r].at = point

Goto(r, there) == req' = [req EXCEPT ![r] = there]

Finish(r) == Goto(r, Idle)

Made == {t \in Ticket : row[t] # Null}

Live == {t \in Made : row[t].live}

Unplanned == {t \in Live : ~row[t].planned}

\* A column after the ORM's UPDATE: it is written only where the attribute
\* differs from the value loaded, over whatever the row holds by then.
Column(now, loaded, edited) == IF edited = loaded THEN now ELSE edited

----------------------------------------------------------------------------
Init ==
  /\ next = 1
  /\ row = [t \in Ticket |-> Null]
  /\ req = [r \in Request |-> Idle]

\* A check fails, a constraint is hit, the lock times out or the server stops:
\* whatever a transaction has done is undone.
Refuse(r) ==
  /\ req[r] # Idle
  /\ Finish(r)
  /\ UNCHANGED <<next, row>>

----------------------------------------------------------------------------
(* New tickets *)

\* The access check loads the project, and with it the counter.
CreateTicket(r) ==
  /\ req[r] = Idle
  /\ \E planned \in BOOLEAN :
       Goto(r, [at |-> "insert", next |-> next, planned |-> planned])
  /\ UNCHANGED <<next, row>>

\* allocate_ticket_number: UPDATE ... RETURNING reads the counter it raises.
MutNumber(r) == req[r].next

Number(r) == next

InsertTicket(r) ==
  /\ At(r, "insert")
  /\ \E t \in Ticket \ Made :
       row' = [row EXCEPT ![t] = [number |-> Number(r), rank |-> Number(r),
                                  planned |-> req[r].planned, live |-> TRUE]]
  /\ next' = next + 1
  /\ Finish(r)

----------------------------------------------------------------------------
(* The order of the backlog *)

MoveTicket(r) ==
  /\ req[r] = Idle
  /\ \E t \in Live : Goto(r, [at |-> "move", ticket |-> t])
  /\ UNCHANGED <<next, row>>

\* The one above or below in the backlog as it is under the write lock
MutNeighbours(t, u) ==
  /\ {t, u} \subseteq Unplanned
  /\ t # u

Neighbours(t, u) ==
  /\ {t, u} \subseteq Unplanned
  /\ t # u
  /\ \A v \in Unplanned \ {t, u} : (row[v].rank < row[t].rank) = (row[v].rank < row[u].rank)

\* reorder_backlog_ticket
Reorder(r) ==
  LET t == req[r].ticket IN
  /\ At(r, "move")
  /\ \E u \in Ticket :
       /\ Neighbours(t, u)
       /\ row' = [row EXCEPT ![t].rank = row[u].rank, ![u].rank = row[t].rank]
  /\ Finish(r)
  /\ UNCHANGED next

----------------------------------------------------------------------------
(* In and out of sprints *)

Load(r, T, planned) ==
  Goto(r, [at |-> "write", planned |-> planned,
           loaded |-> [t \in Ticket |-> IF t \in T THEN row[t] ELSE Null]])

\* patch_ticket, update_ticket_form
EditTicket(r) ==
  /\ req[r] = Idle
  /\ \E t \in Live, planned \in BOOLEAN : Load(r, {t}, planned)
  /\ UNCHANGED <<next, row>>

\* plan_backlog_tickets
PlanBacklog(r) ==
  /\ req[r] = Idle
  /\ \E T \in SUBSET Unplanned : T # {} /\ Load(r, T, TRUE)
  /\ UNCHANGED <<next, row>>

MutWritten(now, loaded, planned) == [loaded EXCEPT !.planned = planned]

Written(now, loaded, planned) == [now EXCEPT !.planned = Column(@, loaded.planned, planned)]

\* One flush; a row that is gone fails all of it.
WriteTickets(r) ==
  LET loaded == req[r].loaded
      edited == {t \in Ticket : loaded[t] # Null}
  IN
  /\ At(r, "write")
  /\ edited \subseteq Live
  /\ row' = [t \in Ticket |->
       IF t \in edited THEN Written(row[t], loaded[t], req[r].planned) ELSE row[t]]
  /\ Finish(r)
  /\ UNCHANGED next

DeleteTicket ==
  /\ \E t \in Live : row' = [row EXCEPT ![t].live = FALSE]
  /\ UNCHANGED <<next, req>>

----------------------------------------------------------------------------
Step(r) ==
  \/ Refuse(r)
  \/ CreateTicket(r) \/ InsertTicket(r)
  \/ MoveTicket(r) \/ Reorder(r)
  \/ EditTicket(r) \/ PlanBacklog(r) \/ WriteTickets(r)

Next == DeleteTicket \/ \E r \in Request : Step(r)

Spec == Init /\ [][Next]_vars

----------------------------------------------------------------------------
(* Properties *)

\* The rows and what requests have loaded keep their types.
TypeOK ==
  /\ next \in Nat
  /\ row \in [Ticket -> Row \union {Null}]
  /\ req \in [Request -> RequestState]

\* The numbers given out are 1, 2, 3 and so on, each once, also to tickets created
\* at the same time and when an insert fails ("gapless, not just unique").
NumbersGapless ==
  /\ \A t, u \in Made : t # u => row[t].number # row[u].number
  /\ {row[t].number : t \in Made} = 1 .. next - 1

\* The backlog has one order, and a new ticket comes out on top of it: ranks are a
\* rearrangement of the numbers, whatever moves and edits of loaded rows overlap.
RanksRearrangeNumbers ==
  /\ \A t, u \in Made : t # u => row[t].rank # row[u].rank
  /\ {row[t].rank : t \in Made} = 1 .. next - 1

\* A move passes one ticket: of those that stay in the backlog at most two change
\* places, although the page the owner looked at may be old.
MovesPassOneTicket ==
  [][\A t, u, v \in Unplanned \intersect Unplanned' :
       LET Crossed(a, b) == (row[a].rank < row[b].rank) # (row'[a].rank < row'[b].rank) IN
       Crossed(t, u) /\ Crossed(t, v) => u = v]_vars
=============================================================================
