--------------------------- MODULE SprintsProofs ---------------------------
(* What Sprints guarantees for any number of sprints, tickets and requests. *)
EXTENDS Sprints, Sums, TLAPS

LEMMA FlushType ==
  ASSUME NEW now \in Row, NEW loaded \in Row, NEW edited \in Row
  PROVE  Flush(now, loaded, edited) \in Row
BY DEF Flush, Column, Row

LEMMA EnterType ==
  ASSUME NEW row \in Row, NEW s \in Nullable(Sprint), NEW now \in Days
  PROVE  Enter(row, s, now) \in Row
BY DEF Enter, Row, Nullable

LEMMA RolledOverType ==
  ASSUME NEW row \in Row, NEW e \in Days, NEW n \in Sprint
  PROVE  RolledOver(row, e, n) \in Row
<1> DEFINE age == IF row.entered = Null THEN Null
                  ELSE IF e > row.entered THEN e - row.entered ELSE 0
<1>1. row.entered # Null => row.entered \in Nat /\ e \in Nat
  BY DaysAssumption DEF Row, Nullable
<1>2. age \in Nullable(Nat)
  BY <1>1 DEF Nullable
<1>3. row.rollovers + 1 \in Nat
  BY DEF Row
<1> HIDE DEF age
<1>4. [row EXCEPT !.sprint = n, !.rollovers = row.rollovers + 1, !.delayed = age] \in Row
  BY <1>2, <1>3 DEF Row, Nullable
<1> QED
  BY <1>4 DEF RolledOver, age

----------------------------------------------------------------------------
(* Types *)

\* The points of some live tickets sum up to a number.
LEMMA PointSumType ==
  ASSUME RowsOK, NEW T \in SUBSET Ticket, \A t \in T : phase[t] = "live"
  PROVE  /\ IsFiniteSet(T)
         /\ \A t \in T : ticket[t].points \in Nat
         /\ PointSum(T) \in Nat
<1> DEFINE points == [t \in T |-> ticket[t].points]
<1>1. IsFiniteSet(T)
  BY TicketsAssumption, FS_Subset
<1>2. DOMAIN points = T /\ \A t \in T : ticket[t].points \in Nat /\ points[t] \in Nat
  BY PointsAssumption DEF RowsOK, Row
<1> HIDE DEF points
<1>3. SumFunctionOnSet(points, T) \in Nat
  BY <1>1, <1>2, SumType
<1> QED
  BY <1>1, <1>2, <1>3 DEF PointSum, SumFunction, points

LEMMA GotoType ==
  ASSUME RequestsOK, NEW r \in Request, NEW there, there \in RequestState, Goto(r, there)
  PROVE  RequestsOK'
BY DEF RequestsOK, Goto, RequestState

LEMMA RequestsStep == TypeOK /\ [Next]_vars => RequestsOK'
<1> SUFFICES ASSUME TypeOK, [Next]_vars PROVE RequestsOK'
  OBVIOUS
<1> USE DEF TypeOK
<1>f. \A r \in Request : Finish(r) => RequestsOK'
  BY GotoType DEF Finish, RequestState
<1>1. ASSUME NEW r \in Request, CreateSprint(r) PROVE RequestsOK'
  BY <1>1, GotoType DEF CreateSprint, RequestState
<1>2. ASSUME NEW r \in Request, UpdateSprint(r) PROVE RequestsOK'
  BY <1>2, GotoType DEF UpdateSprint, RequestState, RowsOK
<1>3. ASSUME NEW r \in Request, StartSprint(r) PROVE RequestsOK'
  BY <1>3, GotoType DEF StartSprint, RequestState
<1>4. ASSUME NEW r \in Request, CheckNoneActive(r) PROVE RequestsOK'
  <2>1. req[r].sprint \in Sprint
    BY <1>4 DEF CheckNoneActive, At, RequestsOK, RequestState, Idle
  <2> QED
    BY <1>4, <2>1, GotoType DEF CheckNoneActive, RequestState
<1>5. ASSUME NEW r \in Request, SumCommitted(r) PROVE RequestsOK'
  <2>1. req[r].sprint \in Sprint
    BY <1>5 DEF SumCommitted, At, RequestsOK, RequestState, Idle
  <2>2. PointSum(TicketsOf(req[r].sprint)) \in Nat
    BY PointSumType DEF TicketsOf
  <2>3. [at |-> "start.commit", sprint |-> req[r].sprint,
         points |-> PointSum(TicketsOf(req[r].sprint))] \in RequestState
    BY <2>1, <2>2 DEF RequestState
  <2> QED
    BY <1>5, <2>3, GotoType DEF SumCommitted
<1>6. ASSUME NEW r \in Request, CloseSprint(r) PROVE RequestsOK'
  BY <1>6, GotoType DEF CloseSprint, RequestState, RowsOK
<1>7. ASSUME NEW r \in Request, LoadNextSprint(r) PROVE RequestsOK'
  BY <1>7, GotoType DEF LoadNextSprint, At, RequestsOK, RequestState, Idle
<1>8. ASSUME NEW r \in Request, CreateTicket(r) PROVE RequestsOK'
  BY <1>8, GotoType DEF CreateTicket, RequestState, Nullable
<1>9. ASSUME NEW r \in Request, EditTicket(r) PROVE RequestsOK'
  <2> PICK t \in Ticket, d \in BOOLEAN, p \in Points : \E s \in {ticket[t].sprint, Null} :
        /\ phase[t] = "live"
        /\ Goto(r, [at |-> "edit.commit", ticket |-> t, loaded |-> ticket[t],
                    edited |-> [ticket[t] EXCEPT !.sprint = s, !.done = d, !.points = p]])
    BY <1>9 DEF EditTicket
  <2> PICK s \in {ticket[t].sprint, Null} :
        Goto(r, [at |-> "edit.commit", ticket |-> t, loaded |-> ticket[t],
                 edited |-> [ticket[t] EXCEPT !.sprint = s, !.done = d, !.points = p]])
    OBVIOUS
  <2> DEFINE edited == [ticket[t] EXCEPT !.sprint = s, !.done = d, !.points = p]
  <2>1. ticket[t] \in Row /\ edited \in Row
    BY DEF RowsOK, Row, Nullable
  <2> HIDE DEF edited
  <2>2. [at |-> "edit.commit", ticket |-> t, loaded |-> ticket[t], edited |-> edited] \in RequestState
    BY <2>1 DEF RequestState
  <2> QED
    BY <2>2, GotoType DEF edited
<1>10. ASSUME NEW r \in Request, MoveTicket(r) PROVE RequestsOK'
  <2> PICK t \in Ticket, s \in Sprint, d \in BOOLEAN, p \in Points, now \in Days :
        /\ phase[t] = "live"
        /\ Goto(r, [at |-> "edit.validate", ticket |-> t, loaded |-> ticket[t],
                    edited |-> [Enter(ticket[t], s, now) EXCEPT !.done = d, !.points = p]])
    BY <1>10 DEF MoveTicket
  <2> DEFINE edited == [Enter(ticket[t], s, now) EXCEPT !.done = d, !.points = p]
  <2>1. ticket[t] \in Row /\ Enter(ticket[t], s, now) \in Row
    BY EnterType DEF RowsOK, Nullable
  <2>2. edited \in Row
    BY <2>1 DEF Row
  <2> HIDE DEF edited
  <2>3. [at |-> "edit.validate", ticket |-> t, loaded |-> ticket[t], edited |-> edited] \in RequestState
    BY <2>1, <2>2 DEF RequestState
  <2> QED
    BY <2>3, GotoType DEF edited
<1>11. ASSUME NEW r \in Request, ValidateSprint(r) PROVE RequestsOK'
  BY <1>11, GotoType DEF ValidateSprint, At, RequestsOK, RequestState, Idle
<1>12. ASSUME NEW r \in Request, PlanBacklog(r) PROVE RequestsOK'
  BY <1>12, GotoType DEF PlanBacklog, RequestState
<1>13. ASSUME NEW r \in Request, LoadBacklog(r) PROVE RequestsOK'
  <2>1. req[r].sprint \in Sprint
    BY <1>13 DEF LoadBacklog, At, RequestsOK, RequestState, Idle
  <2> QED
    BY <1>13, <2>1, GotoType DEF LoadBacklog, RequestState, RowsOK, Nullable, TicketsOf
<1>14. ASSUME NEW r \in Request, DeleteTicket(r) PROVE RequestsOK'
  BY <1>14, GotoType DEF DeleteTicket, RequestState
<1>15. ASSUME NEW r \in Request, Refuse(r) \/ InsertSprint(r) \/ WriteSprint(r)
              \/ Activate(r) \/ Close(r) \/ InsertTicket(r) \/ WriteTicket(r)
              \/ WritePlan(r) \/ RemoveTicket(r)
       PROVE RequestsOK'
  BY <1>15, <1>f DEF Refuse, InsertSprint, WriteSprint, Activate, Close, InsertTicket,
     WriteTicket, WritePlan, RemoveTicket
<1>16. CASE UNCHANGED vars
  BY <1>16 DEF vars, RequestsOK, RequestState
<1> QED
  BY <1>1, <1>2, <1>3, <1>4, <1>5, <1>6, <1>7, <1>8, <1>9, <1>10, <1>11, <1>12, <1>13,
     <1>14, <1>15, <1>16 DEF Next, Step

LEMMA RowsStep == TypeOK /\ [Next]_vars => RowsOK'
<1> SUFFICES ASSUME TypeOK, [Next]_vars PROVE RowsOK'
  OBVIOUS
<1> USE DEF TypeOK
<1>1. ASSUME NEW r \in Request, InsertSprint(r) PROVE RowsOK'
  <2>1. req[r].end \in Days
    BY <1>1 DEF InsertSprint, At, RequestsOK, RequestState, Idle
  <2> QED
    BY <1>1, <2>1 DEF InsertSprint, RowsOK, Nullable, ticketVars
<1>2. ASSUME NEW r \in Request, WriteSprint(r) PROVE RowsOK'
  <2>1. req[r].sprint \in Sprint /\ req[r].edited \in Days
    BY <1>2 DEF WriteSprint, At, RequestsOK, RequestState, Idle
  <2> QED
    BY <1>2, <2>1 DEF WriteSprint, RowsOK, Nullable, Column, ticketVars, lifecycleVars
<1>3. ASSUME NEW r \in Request, Activate(r) PROVE RowsOK'
  <2>1. req[r].sprint \in Sprint /\ req[r].points \in Nat /\ status[req[r].sprint] # "absent"
    BY <1>3 DEF Activate, At, RequestsOK, RequestState, Idle, StartsOK
  <2>2. committed' \in [Sprint -> Nullable(Nat)]
    BY <1>3, <2>1 DEF Activate, RowsOK, Nullable
  <2> QED
    BY <1>3, <2>1, <2>2 DEF Activate, RowsOK, ticketVars
<1>4. ASSUME NEW r \in Request, Close(r) PROVE RowsOK'
  <2>1. req[r].sprint \in Sprint /\ req[r].next \in Sprint /\ req[r].end \in Days
    BY <1>4 DEF Close, At, RequestsOK, RequestState, Idle
  <2>2. \A t \in TicketsOf(req[r].sprint) : t \in Ticket /\ phase[t] = "live" /\ ticket[t] \in Row
    BY DEF TicketsOf, RowsOK
  <2>3. history' \subseteq [sprint : Sprint, ticket : Ticket, done : BOOLEAN, points : Points]
    BY <1>4, <2>1, <2>2 DEF Close, RowsOK, HistoryRow, Row
  <2>4. \A t \in Unfinished(req[r].sprint) : RolledOver(ticket[t], req[r].end, req[r].next) \in Row
    BY <2>1, <2>2, RolledOverType DEF Unfinished
  <2>5. ticket' \in [Ticket -> Nullable(Row)]
    BY <1>4, <2>4 DEF Close, RowsOK, Nullable
  <2>6. \A t \in Ticket : phase'[t] = "live" => ticket'[t] \in Row
    BY <1>4, <2>4 DEF Close, RowsOK
  <2>7. CompletedPoints(req[r].sprint) \in Nat
    BY PointSumType DEF TicketsOf, CompletedPoints
  <2>8. completed' \in [Sprint -> Nullable(Nat)]
    BY <1>4, <2>7 DEF Close, RowsOK, Nullable
  <2> QED
    BY <1>4, <2>1, <2>3, <2>5, <2>6, <2>8 DEF Close, Claimed, RowsOK
<1>5. ASSUME NEW r \in Request, InsertTicket(r) PROVE RowsOK'
  <2>1. req[r].sprint \in Nullable(Sprint) /\ req[r].points \in Points
    BY <1>5 DEF InsertTicket, At, RequestsOK, RequestState, Idle
  <2>2. \A now \in Days : NewRow(req[r].sprint, req[r].points, now) \in Row
    BY <2>1 DEF NewRow, Row, Nullable
  <2> QED
    BY <1>5, <2>2 DEF InsertTicket, RowsOK, Nullable, sprintVars, lifecycleVars
<1>6. ASSUME NEW r \in Request, WriteTicket(r) PROVE RowsOK'
  <2>1. req[r].ticket \in Ticket /\ req[r].loaded \in Row /\ req[r].edited \in Row
    BY <1>6 DEF WriteTicket, At, RequestsOK, RequestState, Idle
  <2> DEFINE flushed == Flush(ticket[req[r].ticket], req[r].loaded, req[r].edited)
  <2>2. flushed \in Row
    BY <1>6, <2>1, FlushType DEF WriteTicket, RowsOK
  <2>3. PICK d \in {flushed.done, flushed.done /\ req[r].edited.done} :
          ticket' = [ticket EXCEPT ![req[r].ticket] = [flushed EXCEPT !.done = d]]
    BY <1>6 DEF WriteTicket
  <2>4. d \in BOOLEAN
    BY <2>1, <2>2 DEF Row
  <2> HIDE DEF flushed
  <2>5. [flushed EXCEPT !.done = d] \in Row
    BY <2>2, <2>4 DEF Row
  <2> QED
    BY <1>6, <2>1, <2>3, <2>5 DEF WriteTicket, RowsOK, Nullable, sprintVars, lifecycleVars
<1>7. ASSUME NEW r \in Request, WritePlan(r) PROVE RowsOK'
  <2>1. req[r].sprint \in Sprint /\ req[r].loaded \in [Ticket -> Nullable(Row)]
    BY <1>7 DEF WritePlan, At, RequestsOK, RequestState, Idle
  <2> DEFINE T == {t \in Ticket : req[r].loaded[t] # Null}
             W(t, now) == Flush(ticket[t], req[r].loaded[t],
                                Enter(req[r].loaded[t], req[r].sprint, now))
  <2>2. ASSUME NEW t \in T, NEW now \in Days PROVE W(t, now) \in Row
    <3>1. ticket[t] \in Row /\ req[r].loaded[t] \in Row
      BY <1>7, <2>1 DEF WritePlan, RowsOK, Nullable
    <3> QED
      BY <2>1, <3>1, FlushType, EnterType DEF Nullable
  <2>3. PICK now \in Days :
          ticket' = [t \in Ticket |-> IF t \in T THEN W(t, now) ELSE ticket[t]]
    BY <1>7 DEF WritePlan
  <2> HIDE DEF T, W
  <2>4. ticket' \in [Ticket -> Nullable(Row)]
    BY <2>2, <2>3 DEF RowsOK, Nullable
  <2>5. \A t \in Ticket : phase'[t] = "live" => ticket'[t] \in Row
    BY <1>7, <2>2, <2>3 DEF WritePlan, RowsOK
  <2> QED
    BY <1>7, <2>4, <2>5 DEF WritePlan, RowsOK, sprintVars, lifecycleVars
<1>8. ASSUME NEW r \in Request, RemoveTicket(r) PROVE RowsOK'
  BY <1>8 DEF RemoveTicket, RowsOK, Nullable, sprintVars, lifecycleVars
<1>9. ASSUME UNCHANGED <<sprintVars, ticketVars>> PROVE RowsOK'
  BY <1>9 DEF RowsOK, sprintVars, lifecycleVars, ticketVars
<1>10. ASSUME NEW r \in Request,
              \/ Refuse(r) \/ CreateSprint(r) \/ UpdateSprint(r) \/ StartSprint(r)
              \/ CheckNoneActive(r) \/ SumCommitted(r) \/ CloseSprint(r) \/ LoadNextSprint(r)
              \/ CreateTicket(r) \/ EditTicket(r) \/ MoveTicket(r) \/ ValidateSprint(r)
              \/ PlanBacklog(r) \/ LoadBacklog(r) \/ DeleteTicket(r)
       PROVE RowsOK'
  BY <1>9, <1>10 DEF Refuse, CreateSprint, UpdateSprint, StartSprint, CheckNoneActive,
     SumCommitted, CloseSprint, LoadNextSprint, CreateTicket, EditTicket, MoveTicket,
     ValidateSprint, PlanBacklog, LoadBacklog, DeleteTicket
<1>11. CASE UNCHANGED vars
  BY <1>9, <1>11 DEF vars
<1> QED
  BY <1>1, <1>2, <1>3, <1>4, <1>5, <1>6, <1>7, <1>8, <1>10, <1>11 DEF Next, Step

LEMMA StatusKept ==
  ASSUME TypeOK, [Next]_vars, NEW s \in Sprint, status[s] # "absent"
  PROVE  status'[s] # "absent"
<1> USE DEF TypeOK, RowsOK
<1>1. ASSUME NEW r \in Request, InsertSprint(r) PROVE status'[s] # "absent"
  BY <1>1 DEF InsertSprint
<1>2. ASSUME NEW r \in Request, Activate(r) PROVE status'[s] # "absent"
  BY <1>2 DEF Activate
<1>3. ASSUME NEW r \in Request, Close(r) PROVE status'[s] # "absent"
  BY <1>3 DEF Close
<1>4. CASE UNCHANGED status
  BY <1>4
<1> QED
  BY <1>1, <1>2, <1>3, <1>4 DEF Next, Step, vars, sprintVars, lifecycleVars, Refuse, CreateSprint,
     UpdateSprint, WriteSprint, StartSprint, CheckNoneActive, SumCommitted, CloseSprint,
     LoadNextSprint, CreateTicket, InsertTicket, EditTicket, MoveTicket, ValidateSprint,
     WriteTicket, PlanBacklog, LoadBacklog, WritePlan, DeleteTicket, RemoveTicket

\* A step of one request leaves what the others have read alone.
LEMMA OthersStay ==
  ASSUME TypeOK, NEW r \in Request, NEW q \in Request, Step(r), q # r
  PROVE  req'[q] = req[q]
BY DEF Step, Refuse, CreateSprint, InsertSprint, UpdateSprint, WriteSprint, StartSprint,
   CheckNoneActive, SumCommitted, Activate, CloseSprint, LoadNextSprint, Close, CreateTicket,
   InsertTicket, EditTicket, MoveTicket, ValidateSprint, WriteTicket, PlanBacklog,
   LoadBacklog, WritePlan, DeleteTicket, RemoveTicket, Goto, Finish, TypeOK, RequestsOK

\* The steps after which a request is done.
Commits(r) ==
  \/ Refuse(r) \/ InsertSprint(r) \/ WriteSprint(r) \/ Activate(r) \/ Close(r)
  \/ InsertTicket(r) \/ WriteTicket(r) \/ WritePlan(r) \/ RemoveTicket(r)

\* The point each of the other steps leads to.
LEMMA Destination ==
  ASSUME TypeOK, NEW r \in Request
  PROVE  /\ Commits(r)         => req'[r].at = "idle"
         /\ CreateSprint(r)    => req'[r].at = "create"
         /\ UpdateSprint(r)    => req'[r].at = "update"
         /\ StartSprint(r)     => req'[r].at = "start.active"
         /\ CheckNoneActive(r) => req'[r].at = "start.sum"
         /\ SumCommitted(r)    => req'[r].at = "start.commit"
         /\ CloseSprint(r)     => req'[r].at = "close.next"
         /\ LoadNextSprint(r)  => req'[r].at = "close.claim"
         /\ CreateTicket(r)    => req'[r].at = "new"
         /\ EditTicket(r)      => req'[r].at = "edit.commit"
         /\ MoveTicket(r)      => req'[r].at = "edit.validate"
         /\ ValidateSprint(r)  => req'[r].at = "edit.commit"
         /\ PlanBacklog(r)     => req'[r].at = "plan.load"
         /\ LoadBacklog(r)     => req'[r].at = "plan.commit"
         /\ DeleteTicket(r)    => req'[r].at = "delete"
<1> USE DEF TypeOK, RequestsOK, Goto
<1>1. Commits(r) => req'[r].at = "idle"
  BY DEF Commits, Refuse, InsertSprint, WriteSprint, Activate, Close, InsertTicket,
     WriteTicket, WritePlan, RemoveTicket, Finish, Idle
<1>2. CreateSprint(r) => req'[r].at = "create"
  BY DEF CreateSprint
<1>3. UpdateSprint(r) => req'[r].at = "update"
  BY DEF UpdateSprint
<1>4. /\ StartSprint(r)     => req'[r].at = "start.active"
      /\ CheckNoneActive(r) => req'[r].at = "start.sum"
      /\ SumCommitted(r)    => req'[r].at = "start.commit"
  BY DEF StartSprint, CheckNoneActive, SumCommitted
<1>5. CloseSprint(r) => req'[r].at = "close.next"
  BY DEF CloseSprint
<1>6. LoadNextSprint(r) => req'[r].at = "close.claim"
  BY DEF LoadNextSprint, At, RequestState, Idle
<1>7. CreateTicket(r) => req'[r].at = "new"
  BY DEF CreateTicket
<1>8. EditTicket(r) => req'[r].at = "edit.commit"
  BY DEF EditTicket
<1>9. MoveTicket(r) => req'[r].at = "edit.validate"
  BY DEF MoveTicket
<1>10. ValidateSprint(r) => req'[r].at = "edit.commit"
  BY DEF ValidateSprint, At, RequestState, Idle
<1>11. PlanBacklog(r) => req'[r].at = "plan.load"
  BY DEF PlanBacklog
<1>12. LoadBacklog(r) => req'[r].at = "plan.commit"
  BY DEF LoadBacklog
<1>13. DeleteTicket(r) => req'[r].at = "delete"
  BY DEF DeleteTicket
<1> QED
  BY <1>1, <1>2, <1>3, <1>4, <1>5, <1>6, <1>7, <1>8, <1>9, <1>10, <1>11, <1>12, <1>13

LEMMA StartsStep == TypeOK /\ [Next]_vars => StartsOK'
<1> SUFFICES ASSUME TypeOK, [Next]_vars, NEW q \in Request,
                    req'[q].at \in {"start.active", "start.sum", "start.commit"}
             PROVE  status'[req'[q].sprint] # "absent"
  BY DEF StartsOK
<1> USE DEF TypeOK
<1>1. ASSUME req'[q] = req[q] PROVE status'[req'[q].sprint] # "absent"
  <2>1. req[q].sprint \in Sprint /\ status[req[q].sprint] # "absent"
    BY <1>1 DEF RequestsOK, RequestState, Idle, StartsOK
  <2> QED
    BY <1>1, <2>1, StatusKept
<1>2. ASSUME StartSprint(q) PROVE status'[req'[q].sprint] # "absent"
  BY <1>2 DEF StartSprint, Startable, Goto, RequestsOK, sprintVars, lifecycleVars
<1>3. ASSUME CheckNoneActive(q) \/ SumCommitted(q) PROVE status'[req'[q].sprint] # "absent"
  BY <1>3 DEF CheckNoneActive, SumCommitted, At, Goto, RequestsOK, StartsOK, sprintVars,
     lifecycleVars
<1>4. ASSUME Step(q), req'[q].at \in {"start.active", "start.sum", "start.commit"}
      PROVE  StartSprint(q) \/ CheckNoneActive(q) \/ SumCommitted(q)
  BY <1>4, Destination DEF Step, Commits
<1>5. ASSUME NEW r \in Request, Step(r), r # q PROVE status'[req'[q].sprint] # "absent"
  BY <1>1, <1>5, OthersStay
<1>6. CASE UNCHANGED vars
  BY <1>1, <1>6 DEF vars
<1> QED
  BY <1>2, <1>3, <1>4, <1>5, <1>6 DEF Next

\* The tables and the requests keep their types for every instance.
THEOREM TypeCorrect == Spec => []TypeOK
<1>1. Init => TypeOK
  BY DEF Init, TypeOK, RowsOK, RequestsOK, StartsOK, RequestState, Nullable, Idle
<1>2. TypeOK /\ [Next]_vars => TypeOK'
  BY RowsStep, RequestsStep, StartsStep DEF TypeOK
<1> QED
  BY <1>1, <1>2, PTL DEF Spec

----------------------------------------------------------------------------
(* The lifecycle *)

\* Only three steps write the lifecycle columns and tables.
LEMMA LifecycleWrites ==
  ASSUME NEW r \in Request, Step(r)
  PROVE  InsertSprint(r) \/ Activate(r) \/ Close(r) \/ UNCHANGED lifecycleVars
BY DEF Step, Refuse, CreateSprint, UpdateSprint, WriteSprint, StartSprint, CheckNoneActive,
   SumCommitted, CloseSprint, LoadNextSprint, CreateTicket, InsertTicket, EditTicket,
   MoveTicket, ValidateSprint, WriteTicket, PlanBacklog, LoadBacklog, WritePlan,
   DeleteTicket, RemoveTicket, sprintVars

\* What a pending close and a pending start hold.
LEMMA PendingTypes ==
  ASSUME TypeOK, NEW r \in Request
  PROVE  /\ req[r].at \in {"close.next", "close.claim"}
              => req[r].sprint \in Sprint /\ req[r].next \in Sprint
         /\ At(r, "start.commit") => req[r].sprint \in Sprint
BY DEF TypeOK, RequestsOK, RequestState, Idle, At

\* A sprint once started is active or closed ever after.
LEMMA StartedKept ==
  ASSUME TypeOK, NEW r \in Request, Step(r),
         NEW s \in Sprint, status[s] \in {"active", "closed"}
  PROVE  status'[s] \in {"active", "closed"}
<1> USE DEF TypeOK, RowsOK
<1>1. CASE InsertSprint(r)
  BY <1>1 DEF InsertSprint
<1>2. CASE Activate(r)
  BY <1>2 DEF Activate
<1>3. CASE Close(r)
  BY <1>3 DEF Close
<1> QED
  BY <1>1, <1>2, <1>3, LifecycleWrites DEF lifecycleVars

LEMMA OneSprintStep ==
  ASSUME TypeOK, LifecycleInv, NEW r \in Request, Step(r)
  PROVE  OneSprintOfEachKind' /\ ClosedAreReported'
<1> USE DEF TypeOK, RowsOK, LifecycleInv, OneSprintOfEachKind, ClosedAreReported, Open
<1>1. CASE InsertSprint(r)
  BY <1>1 DEF InsertSprint, PlanningUnique, NonePlanning
<1>2. CASE Activate(r)
  BY <1>2, PendingTypes DEF Activate, ActiveUnique
<1>3. CASE Close(r)
  BY <1>3, PendingTypes DEF Close
<1> QED
  BY <1>1, <1>2, <1>3, LifecycleWrites DEF lifecycleVars

LEMMA ClosersStep ==
  ASSUME TypeOK, LifecycleInv, NEW r \in Request, Step(r)
  PROVE  ClosersOK'
<1> SUFFICES ASSUME NEW q \in Request, req'[q].at \in {"close.next", "close.claim"}
             PROVE  status'[req'[q].sprint] \in {"active", "closed"}
  BY DEF ClosersOK
<1> USE DEF LifecycleInv, ClosersOK
<1>1. CASE req'[q] = req[q]
  BY <1>1, PendingTypes, StartedKept
<1>2. CASE CloseSprint(q)
  BY <1>2 DEF CloseSprint, Goto, TypeOK, RequestsOK, sprintVars, lifecycleVars
<1>3. CASE LoadNextSprint(q)
  BY <1>3 DEF LoadNextSprint, At, Goto, TypeOK, RequestsOK, RequestState, Idle,
     sprintVars, lifecycleVars
<1> QED
  BY <1>1, <1>2, <1>3, OthersStay, Destination DEF Step, Commits

LEMMA ClaimersStep ==
  ASSUME TypeOK, LifecycleInv, NEW r \in Request, Step(r)
  PROVE  ClaimersOK'
<1> SUFFICES ASSUME NEW q \in Request, req'[q].at = "close.claim",
                    status'[req'[q].sprint] = "active", req'[q].sprint \notin report'
             PROVE  status'[req'[q].next] = "planning"
  BY DEF ClaimersOK, At, Claimed, ReportUnique
<1> USE DEF LifecycleInv, TypeOK, RowsOK
<1>1. CASE req'[q] = req[q]
  <2> DEFINE s == req[q].sprint
             n == req[q].next
  <2>0. /\ s \in Sprint /\ n \in Sprint
        /\ status[s] \in {"active", "closed"}
        /\ status[s] = "active" /\ s \notin report => status[n] = "planning"
    BY <1>1, PendingTypes DEF ClosersOK, ClaimersOK, At, Claimed, ReportUnique
  <2> HIDE DEF s, n
  <2>1. report \subseteq report'
    BY LifecycleWrites DEF InsertSprint, Activate, Close, lifecycleVars
  <2>2. s \notin report /\ status[s] = "active" /\ status[n] = "planning"
    BY <1>1, <2>0, <2>1 DEF s, ClosedAreReported
  <2>3. CASE InsertSprint(r)
    BY <1>1, <2>0, <2>2, <2>3 DEF InsertSprint, n
  <2>4. CASE Activate(r)
    BY <1>1, <2>0, <2>2, <2>4, PendingTypes DEF Activate, ActiveUnique, n
  <2>5. CASE Close(r)
    BY <1>1, <2>0, <2>2, <2>5, PendingTypes DEF Close, Claimed, n
  <2> QED
    BY <1>1, <2>2, <2>3, <2>4, <2>5, LifecycleWrites DEF lifecycleVars, n
<1>2. CASE LoadNextSprint(q)
  BY <1>2 DEF LoadNextSprint, IsTarget, At, Goto, RequestsOK, RequestState, Idle,
     sprintVars, lifecycleVars
<1> QED
  BY <1>1, <1>2, OthersStay, Destination DEF Step, Commits

\* At most one sprint is planning and at most one is active; and a close about
\* to commit on a sprint it can claim rolls into a sprint still in planning.
THEOREM LifecycleHolds == Spec => []LifecycleInv
<1>1. Init => LifecycleInv
  BY DEF Init, LifecycleInv, OneSprintOfEachKind, ClosedAreReported, ClosersOK, ClaimersOK,
     Open, At, Idle
<1>2. TypeOK /\ LifecycleInv /\ [Next]_vars => LifecycleInv'
  <2> SUFFICES ASSUME TypeOK, LifecycleInv, [Next]_vars PROVE LifecycleInv'
    OBVIOUS
  <2>1. CASE \E r \in Request : Step(r)
    BY <2>1, OneSprintStep, ClosersStep, ClaimersStep DEF LifecycleInv
  <2>2. CASE UNCHANGED vars
    BY <2>2 DEF LifecycleInv, OneSprintOfEachKind, ClosedAreReported, ClosersOK, ClaimersOK,
       Open, At, Claimed, ReportUnique, vars, sprintVars, lifecycleVars
  <2> QED
    BY <2>1, <2>2 DEF Next
<1> QED
  BY <1>1, <1>2, TypeCorrect, PTL DEF Spec

----------------------------------------------------------------------------
(* Dates *)

\* Writing a pending edit over a dated row leaves it dated, keeps its stamp
\* and does not touch what only closing writes.
LEMMA FlushDated ==
  ASSUME NEW t \in Ticket, NEW loaded \in Row, NEW edited \in Row,
         phase[t] = "live", ticket[t] \in Row, Dated(ticket[t]), PendingEdit(t, loaded, edited)
  PROVE  LET row == Flush(ticket[t], loaded, edited)
         IN  /\ Dated(row)
             /\ ticket[t].entered # Null => row.entered # Null
             /\ row.rollovers = ticket[t].rollovers
BY DEF Flush, Column, PendingEdit, Dated

LEMMA RolledOverDated ==
  ASSUME NEW row \in Row, Dated(row), NEW e \in Days, NEW n \in Sprint, row.sprint # Null
  PROVE  Dated(RolledOver(row, e, n)) /\ RolledOver(row, e, n).entered # Null
<1> DEFINE age == IF row.entered = Null THEN Null
                  ELSE IF e > row.entered THEN e - row.entered ELSE 0
<1>1. row.entered # Null
  BY DEF Dated
<1>a. row.entered \in Nat /\ e \in Nat
  BY <1>1, DaysAssumption DEF Row, Nullable
<1>2. age \in Nat
  BY <1>1, <1>a
<1>3. age # Null
  BY <1>2, NullAssumption
<1> HIDE DEF age
<1>4. RolledOver(row, e, n)
        = [row EXCEPT !.sprint = n, !.rollovers = row.rollovers + 1, !.delayed = age]
  BY DEF RolledOver, age
<1> QED
  BY <1>1, <1>3, <1>4 DEF Row, Dated

\* What a pending edit and a pending plan hold.
LEMMA EditTypes ==
  ASSUME TypeOK, NEW r \in Request
  PROVE  /\ req[r].at \in {"edit.validate", "edit.commit"}
              => req[r].ticket \in Ticket /\ req[r].loaded \in Row /\ req[r].edited \in Row
         /\ At(r, "plan.commit")
              => req[r].sprint \in Sprint /\ req[r].loaded \in [Ticket -> Nullable(Row)]
         /\ At(r, "new") => req[r].sprint \in Nullable(Sprint)
BY DEF TypeOK, RequestsOK, RequestState, Idle, At

\* Only five steps write the ticket table.
LEMMA TicketWrites ==
  ASSUME NEW r \in Request, Step(r)
  PROVE  \/ InsertTicket(r) \/ WriteTicket(r) \/ WritePlan(r) \/ RemoveTicket(r) \/ Close(r)
         \/ UNCHANGED ticketVars
BY DEF Step, Refuse, CreateSprint, InsertSprint, UpdateSprint, WriteSprint, StartSprint,
   CheckNoneActive, SumCommitted, Activate, CloseSprint, LoadNextSprint, CreateTicket,
   EditTicket, MoveTicket, ValidateSprint, PlanBacklog, LoadBacklog, DeleteTicket

\* What any step does to a ticket that stays.
LEMMA TicketStep ==
  ASSUME TypeOK, DatesInv, NEW r \in Request, Step(r), NEW t \in Ticket, phase[t] = "live",
         phase'[t] = "live"
  PROVE  /\ Dated(ticket'[t])
         /\ ticket[t].entered # Null => ticket'[t].entered # Null
         /\ ticket'[t].rollovers # ticket[t].rollovers
              => Close(r) /\ t \in Unfinished(req[r].sprint)
<1> USE DEF TypeOK, RowsOK
<1>0. ticket[t] \in Row /\ Dated(ticket[t])
  BY DEF DatesInv, SprintTicketsAreDated
<1>1. CASE InsertTicket(r)
  BY <1>0, <1>1 DEF InsertTicket
<1>2. CASE WriteTicket(r)
  <2>1. PendingEdit(req[r].ticket, req[r].loaded, req[r].edited)
    BY <1>2 DEF WriteTicket, At, DatesInv, EditsOK
  <2>2. CASE t # req[r].ticket
    BY <1>0, <1>2, <2>2 DEF WriteTicket
  <2>3. CASE t = req[r].ticket
    <3> DEFINE flushed == Flush(ticket[t], req[r].loaded, req[r].edited)
    <3>1. /\ Dated(flushed)
          /\ ticket[t].entered # Null => flushed.entered # Null
          /\ flushed.rollovers = ticket[t].rollovers
      BY <1>0, <1>2, <2>1, <2>3, EditTypes, FlushDated DEF WriteTicket, At
    <3>2. flushed \in Row
      BY <1>0, <1>2, <2>3, EditTypes, FlushType DEF WriteTicket, At
    <3>3. PICK d : ticket'[t] = [flushed EXCEPT !.done = d]
      BY <1>2, <2>3 DEF WriteTicket
    <3> HIDE DEF flushed
    <3>4. /\ ticket'[t].sprint = flushed.sprint
          /\ ticket'[t].entered = flushed.entered
          /\ ticket'[t].rollovers = flushed.rollovers
          /\ ticket'[t].delayed = flushed.delayed
      BY <3>2, <3>3 DEF Row
    <3> QED
      BY <3>1, <3>4 DEF Dated
  <2> QED
    BY <2>2, <2>3
<1>3. CASE WritePlan(r)
  <2> DEFINE loaded == req[r].loaded[t]
             W(now) == Flush(ticket[t], loaded, Enter(loaded, req[r].sprint, now))
  <2>1. PICK now \in Days : ticket'[t] = IF loaded # Null THEN W(now) ELSE ticket[t]
    BY <1>3 DEF WritePlan
  <2>2. CASE loaded # Null
    <3>1. loaded \in Row /\ req[r].sprint \in Nullable(Sprint)
      BY <1>3, <2>2, EditTypes DEF WritePlan, Nullable
    <3>2. PendingEdit(t, loaded, Enter(loaded, req[r].sprint, now))
      BY <1>3, <2>2 DEF WritePlan, DatesInv, PlansOK
    <3> HIDE DEF loaded
    <3> QED
      BY <1>0, <2>1, <2>2, <3>1, <3>2, FlushDated, EnterType
  <2> QED
    BY <1>0, <2>1, <2>2
<1>4. CASE RemoveTicket(r)
  BY <1>0, <1>4 DEF RemoveTicket
<1>5. CASE Close(r)
  <2>1. req[r].sprint \in Sprint /\ req[r].next \in Sprint /\ req[r].end \in Days
    BY <1>5 DEF Close, At, RequestsOK, RequestState, Idle
  <2>2. t \in Unfinished(req[r].sprint) => ticket[t].sprint # Null
    BY <2>1, NullAssumption DEF Unfinished, TicketsOf
  <2> QED
    BY <1>0, <1>5, <2>1, <2>2, RolledOverDated DEF Close
<1>6. CASE UNCHANGED ticketVars
  BY <1>0, <1>6 DEF ticketVars
<1> QED
  BY <1>1, <1>2, <1>3, <1>4, <1>5, <1>6, TicketWrites

\* A ticket's row is inserted once.
LEMMA PhaseKept ==
  ASSUME TypeOK, NEW r \in Request, Step(r), NEW t \in Ticket
  PROVE  /\ phase[t] # "unborn" => phase'[t] # "unborn"
         /\ phase[t] # "unborn" /\ phase'[t] = "live" => phase[t] = "live"
<1> USE DEF TypeOK, RowsOK
<1>1. CASE InsertTicket(r)
  BY <1>1 DEF InsertTicket
<1>2. CASE RemoveTicket(r)
  BY <1>2 DEF RemoveTicket
<1>3. CASE UNCHANGED phase
  BY <1>3
<1> QED
  BY <1>1, <1>2, <1>3, TicketWrites DEF WriteTicket, WritePlan, Close, ticketVars

LEMMA DatedStep ==
  ASSUME TypeOK, DatesInv, NEW r \in Request, Step(r)
  PROVE  SprintTicketsAreDated'
<1> SUFFICES ASSUME NEW t \in Ticket, phase'[t] = "live" PROVE Dated(ticket'[t])
  BY DEF SprintTicketsAreDated, Dated
<1>1. CASE phase[t] = "live"
  BY <1>1, TicketStep
<1>2. CASE phase[t] # "live"
  <2>1. InsertTicket(r)
    BY <1>2, TicketWrites DEF TypeOK, RowsOK, WriteTicket, WritePlan, RemoveTicket, Close,
       ticketVars
  <2>2. PICK now \in Days : ticket'[t] = NewRow(req[r].sprint, req[r].points, now)
    BY <1>2, <2>1 DEF InsertTicket, TypeOK, RowsOK
  <2>3. now # Null
    BY DaysAssumption, NullAssumption
  <2> QED
    BY <2>2, <2>3 DEF NewRow, Dated
<1> QED
  BY <1>1, <1>2

LEMMA EditsStep ==
  ASSUME TypeOK, DatesInv, NEW r \in Request, Step(r)
  PROVE  EditsOK'
<1> SUFFICES ASSUME NEW q \in Request, req'[q].at \in {"edit.validate", "edit.commit"}
             PROVE  PendingEdit(req[q].ticket, req[q].loaded, req[q].edited)'
  BY DEF EditsOK
<1> USE DEF TypeOK, RequestsOK
<1>1. CASE req'[q] = req[q]
  <2>1. PendingEdit(req[q].ticket, req[q].loaded, req[q].edited)
    BY <1>1 DEF DatesInv, EditsOK
  <2>2. req[q].ticket \in Ticket
    BY <1>1, EditTypes
  <2> QED
    BY <1>1, <2>1, <2>2, TicketStep, PhaseKept DEF PendingEdit
<1>2. CASE EditTicket(q)
  <2> PICK t \in Ticket, d \in BOOLEAN, p \in Points : \E s \in {ticket[t].sprint, Null} :
        /\ phase[t] = "live"
        /\ Goto(q, [at |-> "edit.commit", ticket |-> t, loaded |-> ticket[t],
                    edited |-> [ticket[t] EXCEPT !.sprint = s, !.done = d, !.points = p]])
    BY <1>2 DEF EditTicket
  <2> PICK s \in {ticket[t].sprint, Null} :
        Goto(q, [at |-> "edit.commit", ticket |-> t, loaded |-> ticket[t],
                 edited |-> [ticket[t] EXCEPT !.sprint = s, !.done = d, !.points = p]])
    OBVIOUS
  <2> DEFINE edited == [ticket[t] EXCEPT !.sprint = s, !.done = d, !.points = p]
  <2>1. ticket[t] \in Row /\ Dated(ticket[t])
    BY DEF RowsOK, DatesInv, SprintTicketsAreDated
  <2>2. /\ edited.entered = ticket[t].entered /\ edited.sprint = s
        /\ edited.rollovers = ticket[t].rollovers /\ edited.delayed = ticket[t].delayed
    BY <2>1 DEF Row
  <2>3. UNCHANGED <<phase, ticket>>
    BY <1>2 DEF EditTicket, ticketVars
  <2> HIDE DEF edited
  <2>4. PendingEdit(t, ticket[t], edited)'
    BY <2>1, <2>2, <2>3 DEF PendingEdit, Dated, edited
  <2>5. req'[q].ticket = t /\ req'[q].loaded = ticket[t] /\ req'[q].edited = edited
    BY DEF Goto, edited
  <2> QED
    BY <2>3, <2>4, <2>5 DEF PendingEdit, edited
<1>3. CASE MoveTicket(q)
  <2> PICK t \in Ticket, s \in Sprint, d \in BOOLEAN, p \in Points, now \in Days :
        /\ phase[t] = "live"
        /\ Goto(q, [at |-> "edit.validate", ticket |-> t, loaded |-> ticket[t],
                    edited |-> [Enter(ticket[t], s, now) EXCEPT !.done = d, !.points = p]])
    BY <1>3 DEF MoveTicket
  <2> DEFINE edited == [Enter(ticket[t], s, now) EXCEPT !.done = d, !.points = p]
  <2>1. ticket[t] \in Row /\ now # Null
    BY DaysAssumption, NullAssumption DEF RowsOK
  <2>2. /\ ticket[t].entered # Null => edited.entered = ticket[t].entered
        /\ edited.entered # Null
        /\ edited.rollovers = ticket[t].rollovers /\ edited.delayed = ticket[t].delayed
    BY <2>1, NullAssumption DEF Row, Enter
  <2>3. UNCHANGED <<phase, ticket>>
    BY <1>3 DEF MoveTicket, ticketVars
  <2>4. req'[q].ticket = t /\ req'[q].loaded = ticket[t] /\ req'[q].edited = edited
    BY DEF Goto
  <2> HIDE DEF edited
  <2> QED
    BY <2>2, <2>3, <2>4 DEF PendingEdit
<1>4. CASE ValidateSprint(q)
  <2>1. /\ req[q].at = "edit.validate" /\ UNCHANGED <<phase, ticket>>
        /\ req'[q].ticket = req[q].ticket /\ req'[q].loaded = req[q].loaded
        /\ req'[q].edited = req[q].edited
    BY <1>4 DEF ValidateSprint, At, Goto, RequestState, Idle, ticketVars
  <2> QED
    BY <2>1 DEF DatesInv, EditsOK, PendingEdit
<1> QED
  BY <1>1, <1>2, <1>3, <1>4, OthersStay, Destination DEF Step, Commits

LEMMA PlansStep ==
  ASSUME TypeOK, DatesInv, NEW r \in Request, Step(r)
  PROVE  PlansOK'
<1> SUFFICES ASSUME NEW q \in Request, req'[q].at = "plan.commit",
                    NEW t \in Ticket, NEW now \in Days, req'[q].loaded[t] # Null
             PROVE  PendingEdit(t, req[q].loaded[t],
                                Enter(req[q].loaded[t], req[q].sprint, now))'
  BY DEF PlansOK, At
<1> USE DEF TypeOK, RequestsOK
<1>1. CASE req'[q] = req[q]
  <2>1. PendingEdit(t, req[q].loaded[t], Enter(req[q].loaded[t], req[q].sprint, now))
    BY <1>1 DEF DatesInv, PlansOK, At
  <2> QED
    BY <1>1, <2>1, TicketStep, PhaseKept DEF PendingEdit
<1>2. CASE LoadBacklog(q)
  <2>1. PICK T \in SUBSET TicketsOf(Null) \ {{}} :
          Goto(q, [at |-> "plan.commit", sprint |-> req[q].sprint,
                   loaded |-> [x \in Ticket |-> IF x \in T THEN ticket[x] ELSE Null]])
    BY <1>2 DEF LoadBacklog
  <2>2. /\ req'[q].sprint = req[q].sprint
        /\ req'[q].loaded = [x \in Ticket |-> IF x \in T THEN ticket[x] ELSE Null]
    BY <2>1 DEF Goto
  <2>3. t \in T /\ req'[q].loaded[t] = ticket[t]
    BY <2>2
  <2>4. phase[t] = "live" /\ ticket[t] \in Row /\ now # Null
    BY <2>3, DaysAssumption, NullAssumption DEF TicketsOf, RowsOK
  <2>5. UNCHANGED <<phase, ticket>>
    BY <1>2 DEF LoadBacklog, ticketVars
  <2> DEFINE edited == Enter(ticket[t], req[q].sprint, now)
  <2>6. /\ ticket[t].entered # Null => edited.entered = ticket[t].entered
        /\ edited.sprint # Null => edited.entered # Null
        /\ edited.rollovers = ticket[t].rollovers /\ edited.delayed = ticket[t].delayed
    BY <2>4 DEF Enter, Row
  <2>7. Enter(req'[q].loaded[t], req'[q].sprint, now) = edited
    BY <2>2, <2>3
  <2> HIDE DEF edited
  <2> QED
    BY <2>3, <2>4, <2>5, <2>6, <2>7 DEF PendingEdit
<1> QED
  BY <1>1, <1>2, OthersStay, Destination DEF Step, Commits

\* Tickets in a sprint are dated whatever edits, plans and closes overlap.
THEOREM DatesHold == Spec => []DatesInv
<1>1. Init => DatesInv
  BY DEF Init, DatesInv, SprintTicketsAreDated, EditsOK, PlansOK, At, Idle
<1>2. TypeOK /\ DatesInv /\ [Next]_vars => DatesInv'
  <2> SUFFICES ASSUME TypeOK, DatesInv, [Next]_vars PROVE DatesInv'
    OBVIOUS
  <2>1. CASE \E r \in Request : Step(r)
    BY <2>1, DatedStep, EditsStep, PlansStep DEF DatesInv
  <2>2. CASE UNCHANGED vars
    BY <2>2 DEF DatesInv, SprintTicketsAreDated, EditsOK, PlansOK, PendingEdit, At, vars,
       ticketVars
  <2> QED
    BY <2>1, <2>2 DEF Next
<1> QED
  BY <1>1, <1>2, TypeCorrect, PTL DEF Spec

\* Unfinished work is only ever rolled into the sprint being planned.
THEOREM RolloverTarget == Spec => RolloverTargetIsPlanning
<1>1. TypeOK /\ LifecycleInv /\ DatesInv /\ [Next]_vars => [RolloverStep]_vars
  <2> SUFFICES ASSUME TypeOK, LifecycleInv, DatesInv, NEW r \in Request, Step(r),
                      NEW t \in Ticket, phase[t] = "live", phase'[t] = "live",
                      ticket'[t].rollovers # ticket[t].rollovers
               PROVE  status[ticket'[t].sprint] = "planning"
    BY DEF Next, RolloverStep
  <2>1. Close(r) /\ t \in Unfinished(req[r].sprint)
    BY TicketStep
  <2>2. ticket'[t].sprint = req[r].next
    <3>1. ticket'[t] = RolledOver(ticket[t], req[r].end, req[r].next)
      BY <2>1 DEF Close
    <3>2. ticket[t] \in Row
      BY DEF TypeOK, RowsOK
    <3> QED
      BY <3>1, <3>2 DEF RolledOver, Row
  <2>3. status[req[r].next] = "planning"
    BY <2>1 DEF Close, LifecycleInv, ClaimersOK
  <2> QED
    BY <2>2, <2>3
<1> QED
  BY <1>1, TypeCorrect, LifecycleHolds, DatesHold, PTL DEF Spec, RolloverTargetIsPlanning

\* What is recorded of a closed sprint is never changed.
THEOREM ReportedFrozen == Spec => ReportedSprintFrozen
<1>1. TypeOK /\ [Next]_vars => [FrozenStep]_vars
  <2> SUFFICES ASSUME TypeOK, NEW r \in Request, Step(r) PROVE FrozenStep
    BY DEF Next
  <2> USE DEF FrozenStep, TypeOK, RowsOK
  <2>1. CASE Close(r)
    BY <2>1, PendingTypes DEF Close, ReportUnique, HistoryRow
  <2>2. CASE UNCHANGED <<report, completed, history>>
    BY <2>2
  <2> QED
    BY <2>1, <2>2, LifecycleWrites DEF InsertSprint, Activate, lifecycleVars
<1> QED
  BY <1>1, TypeCorrect, PTL DEF Spec, ReportedSprintFrozen

\* Deleting a ticket never takes a row of a closed sprint's history with it.
THEOREM HistoryHolds == Spec => []HistoryTicketsLive
<1>1. Init => HistoryTicketsLive
  BY DEF Init, HistoryTicketsLive
<1>2. TypeOK /\ HistoryTicketsLive /\ [Next]_vars => HistoryTicketsLive'
  <2> SUFFICES ASSUME TypeOK, HistoryTicketsLive, NEW r \in Request, Step(r)
               PROVE  HistoryTicketsLive'
    BY DEF Next, HistoryTicketsLive, vars, sprintVars, lifecycleVars, ticketVars
  <2> USE DEF HistoryTicketsLive, TypeOK, RowsOK
  <2>1. CASE InsertTicket(r)
    BY <2>1 DEF InsertTicket, sprintVars, lifecycleVars
  <2>2. CASE RemoveTicket(r)
    BY <2>2 DEF RemoveTicket, Unreferenced, InHistory, sprintVars, lifecycleVars
  <2>3. CASE Close(r)
    BY <2>3 DEF Close, HistoryRow, TicketsOf
  <2>4. CASE UNCHANGED <<phase, history>>
    BY <2>4
  <2> QED
    BY <2>1, <2>2, <2>3, <2>4, TicketWrites, LifecycleWrites DEF WriteTicket, WritePlan,
       InsertSprint, Activate, sprintVars, lifecycleVars, ticketVars
<1> QED
  BY <1>1, <1>2, TypeCorrect, PTL DEF Spec

----------------------------------------------------------------------------
(* The accounts of a closed sprint *)

\* History rows are written with the report of their sprint.
HistoryReported == \A h \in history : h.sprint \in report

CompletedRows(s) == {h \in history : h.sprint = s /\ h.done}

\* The rows of the tickets that are done carry the points that are summed up.
LEMMA CloseSums ==
  ASSUME TypeOK, HistoryReported, NEW r \in Request, NEW s \in Sprint, s = req[r].sprint, Close(r)
  PROVE  CompletedPoints(s) = SumFunction([h \in CompletedRows(s)' |-> h.points])
<1> DEFINE
  D == TicketsOf(s) \ Unfinished(s)
  H == {HistoryRow(s, t) : t \in D}
  b == [t \in D |-> HistoryRow(s, t)]
  f == [t \in D |-> ticket[t].points]
  g == [h \in H |-> h.points]
<1>1. D \in SUBSET Ticket /\ \A t \in D : phase[t] = "live" /\ ticket[t].done
  BY DEF TicketsOf, Unfinished
<1>2. IsFiniteSet(D) /\ \A t \in D : f[t] \in Nat
  BY <1>1, PointSumType DEF TypeOK
<1>3. CompletedRows(s)' = H
  <2>1. \A h \in history : h.sprint # s
    BY DEF HistoryReported, Close, ReportUnique
  <2>2. \A t \in TicketsOf(s) : HistoryRow(s, t).done <=> t \in D
    BY <1>1 DEF HistoryRow, TypeOK, RowsOK, Row, TicketsOf, Unfinished
  <2>3. \A t : HistoryRow(s, t).sprint = s
    BY DEF HistoryRow
  <2>4. history' = history \union {HistoryRow(s, t) : t \in TicketsOf(s)}
    BY DEF Close
  <2>5. CompletedRows(s)' = {h \in history' : h.sprint = s /\ h.done}
    BY DEF CompletedRows
  <2> QED
    BY <2>1, <2>2, <2>3, <2>4, <2>5
<1>4. /\ \A t \in D : g[b[t]] = f[t]
      /\ \A t, u \in D : b[t] = b[u] => t = u
      /\ {b[t] : t \in D} = H
  BY DEF HistoryRow
<1>5. SumFunctionOnSet(g, {b[t] : t \in D}) = SumFunctionOnSet(f, D)
  <2> HIDE DEF D, H, b, f, g
  <2> QED
    BY <1>2, <1>4, SumRenamed
<1>6. SumFunctionOnSet(g, H) = SumFunctionOnSet(f, D)
  BY <1>4, <1>5
<1>7. SumFunction(g) = SumFunctionOnSet(g, H) /\ SumFunction(f) = SumFunctionOnSet(f, D)
  BY DEF SumFunction
<1>8. CompletedPoints(s) = SumFunction(f)
  BY DEF CompletedPoints, PointSum
<1> HIDE DEF H, f
<1> QED
  BY <1>3, <1>6, <1>7, <1>8

\* The completed points of a closed sprint can always be recomputed from its
\* history, for any number of tickets of any size.
THEOREM VelocityHolds == Spec => []VelocityMatchesHistory
<1> DEFINE Inv == HistoryReported /\ VelocityMatchesHistory
<1>1. Init => Inv
  BY DEF Init, HistoryReported, VelocityMatchesHistory
<1>2. TypeOK /\ Inv /\ [Next]_vars => Inv'
  <2> SUFFICES ASSUME TypeOK, Inv, [Next]_vars PROVE Inv'
    OBVIOUS
  <2>1. CASE UNCHANGED <<report, completed, history>>
    BY <2>1 DEF HistoryReported, VelocityMatchesHistory
  <2>2. ASSUME NEW r \in Request, Close(r) PROVE Inv'
    <3>0. PICK s \in Sprint : s = req[r].sprint
      BY <2>2 DEF Close, At, TypeOK, RequestsOK, RequestState, Idle
    <3>1. s \notin report /\ report' = report \union {s}
      BY <2>2, <3>0 DEF Close, ReportUnique
    <3>2. HistoryReported'
      BY <2>2, <3>0, <3>1 DEF HistoryReported, Close, HistoryRow
    <3>3. completed' = [completed EXCEPT ![s] = CompletedPoints(s)]
      BY <2>2, <3>0 DEF Close
    <3>4. completed'[s] = SumFunction([h \in CompletedRows(s)' |-> h.points])
      BY <2>2, <3>0, <3>3, CloseSums DEF TypeOK, RowsOK
    <3>5. \A z \in report : CompletedRows(z)' = CompletedRows(z) /\ completed'[z] = completed[z]
      BY <2>2, <3>0, <3>1, <3>3 DEF CompletedRows, Close, HistoryRow, TypeOK, RowsOK
    <3>6. \A z \in report : completed[z] = SumFunction([h \in CompletedRows(z) |-> h.points])
      BY DEF VelocityMatchesHistory, CompletedRows
    <3>7. \A z \in report' : completed'[z] = SumFunction([h \in CompletedRows(z)' |-> h.points])
      <4>1. ASSUME NEW z \in report
            PROVE  completed'[z] = SumFunction([h \in CompletedRows(z)' |-> h.points])
        BY <3>5, <3>6
      <4> QED
        BY <3>1, <3>4, <4>1
    <3> QED
      BY <3>2, <3>7 DEF VelocityMatchesHistory, CompletedRows
  <2> QED
    BY <2>1, <2>2, LifecycleWrites DEF Next, InsertSprint, Activate, vars, sprintVars, lifecycleVars
<1>3. Inv => VelocityMatchesHistory
  OBVIOUS
<1> QED
  BY <1>1, <1>2, <1>3, TypeCorrect, PTL DEF Spec

\* No ticket of a closing sprint is forgotten: each is recorded, and leaves the
\* sprint unless it was done.
THEOREM CloseAccounts == Spec => CloseAccountsForEveryTicket
<1> DEFINE Accounts ==
  \A s \in report' \ report : \A t \in TicketsOf(s) :
    /\ HistoryRow(s, t) \in history'
    /\ ticket[t].done <=> ticket'[t].sprint = s
<1>1. TypeOK /\ LifecycleInv /\ [Next]_vars => [Accounts]_vars
  <2> SUFFICES ASSUME TypeOK, LifecycleInv, NEW r \in Request, Step(r),
                      NEW s \in report' \ report, NEW t \in TicketsOf(s)
               PROVE  HistoryRow(s, t) \in history' /\ (ticket[t].done <=> ticket'[t].sprint = s)
    BY DEF Next
  <2>1. Close(r) /\ s = req[r].sprint
    BY LifecycleWrites DEF InsertSprint, Activate, lifecycleVars, Close
  <2>2. HistoryRow(s, t) \in history'
    BY <2>1 DEF Close
  <2>3. t \in Ticket /\ ticket[t] \in Row /\ ticket[t].sprint = s
    BY DEF TicketsOf, TypeOK, RowsOK
  <2>4. req[r].next # s
    BY <2>1 DEF Close, LifecycleInv, ClaimersOK, Claimed
  <2>5. CASE t \in Unfinished(s)
    <3>1. ticket'[t] = RolledOver(ticket[t], req[r].end, req[r].next)
      BY <2>1, <2>3, <2>5 DEF Close
    <3>2. ticket'[t].sprint = req[r].next
      BY <2>3, <3>1 DEF RolledOver, Row
    <3> QED
      BY <2>2, <2>4, <2>5, <3>2 DEF Unfinished
  <2>6. CASE t \notin Unfinished(s)
    BY <2>1, <2>2, <2>3, <2>6 DEF Close, Unfinished
  <2> QED
    BY <2>5, <2>6
<1> QED
  BY <1>1, TypeCorrect, LifecycleHolds, PTL DEF Spec, CloseAccountsForEveryTicket
============================================================================
