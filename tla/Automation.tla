----------------------------- MODULE Automation -----------------------------
(***************************************************************************)
(* What people may rely on when GitHub moves tickets for them: each event   *)
(* counts once, however often it is delivered, it moves tickets forward     *)
(* only, and whatever else moves a ticket is a request somebody made. A     *)
(* ticket starts in the backlog, and no event creates one or removes one.   *)
(***************************************************************************)
EXTENDS Naturals

CONSTANTS
  Ticket,    \* tickets of a board
  Delivery,  \* ids of events
  Request    \* requests people can have in flight

VARIABLES
  status,   \* the column of each ticket, "new" until created, "gone" once deleted
  applied,  \* the events that have counted
  asked     \* the requests waiting to move a ticket

vars == <<status, applied, asked>>

----------------------------------------------------------------------------
Status == {"BACKLOG", "SELECTED", "IN_PROGRESS", "DONE"}

\* The columns of the board from left to right.
Place == [BACKLOG |-> 0, SELECTED |-> 1, IN_PROGRESS |-> 2, DONE |-> 3]

Forward(from, to) == Place[from] < Place[to]

----------------------------------------------------------------------------
Init ==
  /\ status = [t \in Ticket |-> "new"]
  /\ applied = {}
  /\ asked = {}

Create(t) ==
  /\ status[t] = "new"
  /\ status' = [status EXCEPT ![t] = "BACKLOG"]
  /\ UNCHANGED <<applied, asked>>

Ask(r) ==
  /\ r \notin asked
  /\ asked' = asked \union {r}
  /\ UNCHANGED <<status, applied>>

Move(r) ==
  /\ r \in asked
  /\ asked' = asked \ {r}
  /\ \/ UNCHANGED status
     \/ \E t \in Ticket, s \in Status :
          status[t] \in Status /\ status' = [status EXCEPT ![t] = s]
  /\ UNCHANGED applied

Apply(d) ==
  /\ d \notin applied
  /\ applied' = applied \union {d}
  /\ status' \in [Ticket -> Status \union {"new", "gone"}]
  /\ \A t \in Ticket : status'[t] # status[t] =>
       {status[t], status'[t]} \subseteq Status /\ Forward(status[t], status'[t])
  /\ UNCHANGED asked

Remove(t) ==
  /\ status[t] \in Status
  /\ status' = [status EXCEPT ![t] = "gone"]
  /\ UNCHANGED <<applied, asked>>

Next ==
  \/ \E r \in Request : Ask(r) \/ Move(r)
  \/ \E d \in Delivery : Apply(d)
  \/ \E t \in Ticket : Create(t) \/ Remove(t)

Spec == Init /\ [][Next]_vars
=============================================================================
