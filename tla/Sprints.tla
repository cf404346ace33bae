------------------------------ MODULE Sprints ------------------------------
(***************************************************************************)
(* The sprint lifecycle of one project: sprints are planned, started and   *)
(* closed while tickets are created, edited, planned and deleted.          *)
(*                                                                         *)
(* Every route is a synchronous function run in a worker thread with a     *)
(* session of its own, so requests interleave between database calls.      *)
(* pysqlite opens a transaction only at the first INSERT, UPDATE or        *)
(* DELETE: the SELECTs before it each see what is committed at that        *)
(* moment, and the writes from there to the commit are one atomic step,    *)
(* because SQLite has a single writer. A request is therefore some reading *)
(* steps, which keep what they read in req[r], and one writing step.       *)
(***************************************************************************)
EXTENDS Integers, FiniteSets, Functions

CONSTANTS
  Sprint,   \* ids of sprints
  Ticket,   \* ids of tickets
  Request,  \* requests that can be in flight at once
  Points,   \* story points; 0 stands for an unestimated ticket
  Days,     \* calendar days
  Null      \* SQL NULL

ASSUME TicketsAssumption == IsFiniteSet(Ticket)
ASSUME PointsAssumption == Points \subseteq Nat
ASSUME DaysAssumption   == Days \subseteq Nat
ASSUME NullAssumption   == Null \notin Sprint \union Nat

VARIABLES
  status,     \* sprint.status; "absent" until the row is inserted
  end,        \* sprint.end_date
  committed,  \* sprint.committed_points
  completed,  \* sprint.completed_points
  report,     \* sprints with a sprint_report row (unique per sprint)
  history,    \* rows of sprint_ticket_history
  phase,      \* whether a ticket's row is yet to be inserted, live or deleted
  ticket,     \* the ticket table
  req         \* where each request stands and what it has read

lifecycleVars == <<status, committed, completed, report, history>>
sprintVars    == <<lifecycleVars, end>>
ticketVars    == <<phase, ticket>>
vars          == <<sprintVars, ticketVars, req>>

----------------------------------------------------------------------------
(* Rows *)

Nullable(S) == S \union {Null}

Row == [sprint : Nullable(Sprint), done : BOOLEAN, points : Points,
        entered : Nullable(Days), rollovers : Nat, delayed : Nullable(Nat)]

\* A ticket as create_ticket inserts it: BACKLOG, never rolled over.
NewRow(s, p, now) ==
  [sprint |-> s, done |-> FALSE, points |-> p,
   entered |-> IF s = Null THEN Null ELSE now, rollovers |-> 0, delayed |-> Null]

\* A column after the ORM's UPDATE: it is written only where the attribute
\* differs from the value loaded, over whatever the row holds by then.
Column(now, loaded, edited) == IF edited = loaded THEN now ELSE edited

Flush(now, loaded, edited) ==
  [sprint    |-> Column(now.sprint, loaded.sprint, edited.sprint),
   done      |-> Column(now.done, loaded.done, edited.done),
   points    |-> Column(now.points, loaded.points, edited.points),
   entered   |-> Column(now.entered, loaded.entered, edited.entered),
   rollovers |-> Column(now.rollovers, loaded.rollovers, edited.rollovers),
   delayed   |-> Column(now.delayed, loaded.delayed, edited.delayed)]

\* Setting sprint_id: entering a first sprint stamps the ticket.
MutEnter(row, s, now) == [row EXCEPT !.sprint = s]

Enter(row, s, now) ==
  [row EXCEPT !.sprint = s,
              !.entered = IF s # Null /\ @ = Null THEN now ELSE @]

\* An unfinished ticket of a sprint that ended on day e moves to sprint n.
RolledOver(row, e, n) ==
  [row EXCEPT !.sprint = n,
              !.rollovers = @ + 1,
              !.delayed = IF row.entered = Null THEN Null
                          ELSE IF e > row.entered THEN e - row.entered ELSE 0]

TicketsOf(s) == {t \in Ticket : phase[t] = "live" /\ ticket[t].sprint = s}

PointSum(T) == SumFunction([t \in T |-> ticket[t].points])

----------------------------------------------------------------------------
(* Requests: the point each has reached, and the values it holds there.    *)

Idle == [at |-> "idle"]

RequestState ==
  {Idle}
  \union [at : {"create"}, end : Days]
  \union [at : {"update"}, sprint : Sprint, loaded : Days, edited : Days]
  \union [at : {"start.active", "start.sum"}, sprint : Sprint]
  \union [at : {"start.commit"}, sprint : Sprint, points : Nat]
  \union [at : {"close.next", "close.claim"}, sprint : Sprint, end : Days, next : Sprint]
  \union [at : {"new"}, sprint : Nullable(Sprint), points : Points]
  \union [at : {"edit.validate", "edit.commit"}, ticket : Ticket, loaded : Row, edited : Row]
  \union [at : {"plan.load"}, sprint : Sprint]
  \union [at : {"plan.commit"}, sprint : Sprint, loaded : [Ticket -> Nullable(Row)]]
  \union [at : {"delete"}, ticket : Ticket]

At(r, point) == req[r].at = point

Goto(r, there) == req' = [req EXCEPT ![r] = there]

Finish(r) == Goto(r, Idle)

Open(s) == status[s] \in {"planning", "active"}

----------------------------------------------------------------------------
Init ==
  /\ status = [s \in Sprint |-> "absent"]
  /\ end = [s \in Sprint |-> Null]
  /\ committed = [s \in Sprint |-> Null]
  /\ completed = [s \in Sprint |-> Null]
  /\ report = {}
  /\ history = {}
  /\ phase = [t \in Ticket |-> "unborn"]
  /\ ticket = [t \in Ticket |-> Null]
  /\ req = [r \in Request |-> Idle]

\* A request that has written nothing may end without effect at any point: a
\* check or constraint refuses it (409, 422), the lock times out, or the server
\* stops. Every commit below has the refusing conditions as negated guards.
Refuse(r) ==
  /\ req[r] # Idle
  /\ Finish(r)
  /\ UNCHANGED <<sprintVars, ticketVars>>

----------------------------------------------------------------------------
(* create_sprint *)

NonePlanning == \A s \in Sprint : status[s] # "planning"

CreateSprint(r) ==
  /\ req[r] = Idle
  /\ NonePlanning
  /\ \E e \in Days : Goto(r, [at |-> "create", end |-> e])
  /\ UNCHANGED <<sprintVars, ticketVars>>

\* The partial unique index uq_sprint_planning_project.
PlanningUnique == NonePlanning

InsertSprint(r) ==
  /\ At(r, "create")
  /\ PlanningUnique
  /\ \E s \in Sprint :
       /\ status[s] = "absent"
       /\ status' = [status EXCEPT ![s] = "planning"]
       /\ end' = [end EXCEPT ![s] = req[r].end]
  /\ Finish(r)
  /\ UNCHANGED <<committed, completed, report, history, ticketVars>>

----------------------------------------------------------------------------
(* update_sprint: the status is the one the route loaded. *)

UpdateSprint(r) ==
  /\ req[r] = Idle
  /\ \E s \in Sprint, e \in Days :
       /\ status[s] = "planning"
       /\ Goto(r, [at |-> "update", sprint |-> s, loaded |-> end[s], edited |-> e])
  /\ UNCHANGED <<sprintVars, ticketVars>>

WriteSprint(r) ==
  /\ At(r, "update")
  /\ end' = [end EXCEPT ![req[r].sprint] = Column(@, req[r].loaded, req[r].edited)]
  /\ Finish(r)
  /\ UNCHANGED <<lifecycleVars, ticketVars>>

----------------------------------------------------------------------------
(* start_sprint: four database calls, and only the last one writes. *)

MutStartable(s) == TRUE

Startable(s) == status[s] = "planning"

StartSprint(r) ==
  /\ req[r] = Idle
  /\ \E s \in Sprint :
       /\ Startable(s)
       /\ Goto(r, [at |-> "start.active", sprint |-> s])
  /\ UNCHANGED <<sprintVars, ticketVars>>

CheckNoneActive(r) ==
  /\ At(r, "start.active")
  /\ \A s \in Sprint : status[s] # "active"
  /\ Goto(r, [at |-> "start.sum", sprint |-> req[r].sprint])
  /\ UNCHANGED <<sprintVars, ticketVars>>

SumCommitted(r) ==
  /\ At(r, "start.sum")
  /\ Goto(r, [at |-> "start.commit", sprint |-> req[r].sprint,
              points |-> PointSum(TicketsOf(req[r].sprint))])
  /\ UNCHANGED <<sprintVars, ticketVars>>

\* The partial unique index uq_sprint_active_project.
MutActiveUnique(s) == TRUE

ActiveUnique(s) == \A other \in Sprint \ {s} : status[other] # "active"

\* UPDATE sprint SET status, committed_points WHERE id = s: the row's status is
\* not looked at again.
Activate(r) ==
  LET s == req[r].sprint IN
  /\ At(r, "start.commit")
  /\ ActiveUnique(s)
  /\ status' = [status EXCEPT ![s] = "active"]
  /\ committed' = [committed EXCEPT ![s] = req[r].points]
  /\ Finish(r)
  /\ UNCHANGED <<end, completed, report, history, ticketVars>>

----------------------------------------------------------------------------
(* close_sprint *)

CloseSprint(r) ==
  /\ req[r] = Idle
  /\ \E s, n \in Sprint :
       /\ status[s] = "active"
       /\ status[n] # "absent"
       /\ Goto(r, [at |-> "close.next", sprint |-> s, end |-> end[s], next |-> n])
  /\ UNCHANGED <<sprintVars, ticketVars>>

MutIsTarget(n) == Open(n)

IsTarget(n) == status[n] = "planning"

LoadNextSprint(r) ==
  /\ At(r, "close.next")
  /\ IsTarget(req[r].next)
  /\ Goto(r, [req[r] EXCEPT !.at = "close.claim"])
  /\ UNCHANGED <<sprintVars, ticketVars>>

\* The claiming UPDATE ... WHERE status = 'ACTIVE' changes one row, and the
\* report it leads to is the sprint's first (sprint_report.sprint_id is unique).
MutReportUnique(s) == TRUE

ReportUnique(s) == s \notin report

Claimed(s) == status[s] = "active"

HistoryRow(s, t) ==
  [sprint |-> s, ticket |-> t, done |-> ticket[t].done, points |-> ticket[t].points]

MutUnfinished(s) == TicketsOf(s)

Unfinished(s) == {t \in TicketsOf(s) : ~ticket[t].done}

MutCompletedPoints(s) == PointSum(TicketsOf(s))

CompletedPoints(s) == PointSum(TicketsOf(s) \ Unfinished(s))

Close(r) ==
  LET s == req[r].sprint
      n == req[r].next
  IN
  /\ At(r, "close.claim")
  /\ Claimed(s)
  /\ ReportUnique(s)
  /\ status' = [status EXCEPT ![s] = "closed"]
  /\ history' = history \union {HistoryRow(s, t) : t \in TicketsOf(s)}
  /\ ticket' = [t \in Ticket |-> IF t \in Unfinished(s)
                                 THEN RolledOver(ticket[t], req[r].end, n)
                                 ELSE ticket[t]]
  /\ report' = report \union {s}
  /\ completed' = [completed EXCEPT ![s] = CompletedPoints(s)]
  /\ Finish(r)
  /\ UNCHANGED <<end, committed, phase>>

----------------------------------------------------------------------------
(* create_ticket *)

CreateTicket(r) ==
  /\ req[r] = Idle
  /\ \E s \in Nullable({s \in Sprint : Open(s)}), p \in Points :
       Goto(r, [at |-> "new", sprint |-> s, points |-> p])
  /\ UNCHANGED <<sprintVars, ticketVars>>

InsertTicket(r) ==
  /\ At(r, "new")
  /\ \E t \in Ticket, now \in Days :
       /\ phase[t] = "unborn"
       /\ phase' = [phase EXCEPT ![t] = "live"]
       /\ ticket' = [ticket EXCEPT ![t] = NewRow(req[r].sprint, req[r].points, now)]
  /\ Finish(r)
  /\ UNCHANGED sprintVars

----------------------------------------------------------------------------
(* update_ticket and set_status, alone or together as the edit form calls  *)
(* them: the row is loaded, changed in the session and flushed.            *)

\* The request leaves sprint_id out, or empties it; neither reads a sprint.
EditTicket(r) ==
  /\ req[r] = Idle
  /\ \E t \in Ticket, d \in BOOLEAN, p \in Points :
       /\ phase[t] = "live"
       /\ \E s \in {ticket[t].sprint, Null} :
            Goto(r, [at |-> "edit.commit", ticket |-> t, loaded |-> ticket[t],
                     edited |-> [ticket[t] EXCEPT !.sprint = s, !.done = d, !.points = p]])
  /\ UNCHANGED <<sprintVars, ticketVars>>

\* The request names a sprint: validate_sprint_assignment reads it next.
MoveTicket(r) ==
  /\ req[r] = Idle
  /\ \E t \in Ticket, s \in Sprint, d \in BOOLEAN, p \in Points, now \in Days :
       /\ phase[t] = "live"
       /\ Goto(r, [at |-> "edit.validate", ticket |-> t, loaded |-> ticket[t],
                   edited |-> [Enter(ticket[t], s, now) EXCEPT !.done = d, !.points = p]])
  /\ UNCHANGED <<sprintVars, ticketVars>>

ValidateSprint(r) ==
  /\ At(r, "edit.validate")
  /\ Open(req[r].edited.sprint)
  /\ Goto(r, [req[r] EXCEPT !.at = "edit.commit"])
  /\ UNCHANGED <<sprintVars, ticketVars>>

\* The statuses short of DONE are one value here. A change between two of them
\* is still written, over a DONE committed since the row was loaded.
WriteTicket(r) ==
  LET t == req[r].ticket
      edited == req[r].edited
      flushed == Flush(ticket[t], req[r].loaded, edited)
  IN
  /\ At(r, "edit.commit")
  /\ phase[t] = "live"
  /\ \E d \in {flushed.done, flushed.done /\ edited.done} :
       ticket' = [ticket EXCEPT ![t] = [flushed EXCEPT !.done = d]]
  /\ Finish(r)
  /\ UNCHANGED <<sprintVars, phase>>

----------------------------------------------------------------------------
(* plan_backlog_tickets: all of the chosen tickets or none. *)

PlanBacklog(r) ==
  /\ req[r] = Idle
  /\ \E s \in Sprint :
       /\ status[s] = "planning"
       /\ Goto(r, [at |-> "plan.load", sprint |-> s])
  /\ UNCHANGED <<sprintVars, ticketVars>>

LoadBacklog(r) ==
  /\ At(r, "plan.load")
  /\ \E T \in SUBSET TicketsOf(Null) \ {{}} :
       Goto(r, [at |-> "plan.commit", sprint |-> req[r].sprint,
                loaded |-> [t \in Ticket |-> IF t \in T THEN ticket[t] ELSE Null]])
  /\ UNCHANGED <<sprintVars, ticketVars>>

WritePlan(r) ==
  LET T == {t \in Ticket : req[r].loaded[t] # Null}
      Planned(t, now) == Enter(req[r].loaded[t], req[r].sprint, now)
  IN
  /\ At(r, "plan.commit")
  /\ \A t \in T : phase[t] = "live"
  /\ \E now \in Days :
       ticket' = [t \in Ticket |-> IF t \in T
                                   THEN Flush(ticket[t], req[r].loaded[t], Planned(t, now))
                                   ELSE ticket[t]]
  /\ Finish(r)
  /\ UNCHANGED <<sprintVars, phase>>

----------------------------------------------------------------------------
(* delete_ticket_record *)

InHistory(t) == \E h \in history : h.ticket = t

DeleteTicket(r) ==
  /\ req[r] = Idle
  /\ \E t \in Ticket :
       /\ phase[t] = "live"
       /\ ~InHistory(t)
       /\ Goto(r, [at |-> "delete", ticket |-> t])
  /\ UNCHANGED <<sprintVars, ticketVars>>

\* The foreign key of sprint_ticket_history.ticket_id.
MutUnreferenced(t) == TRUE

Unreferenced(t) == ~InHistory(t)

RemoveTicket(r) ==
  LET t == req[r].ticket IN
  /\ At(r, "delete")
  /\ phase[t] = "live"
  /\ Unreferenced(t)
  /\ phase' = [phase EXCEPT ![t] = "deleted"]
  /\ ticket' = [ticket EXCEPT ![t] = Null]
  /\ Finish(r)
  /\ UNCHANGED sprintVars

----------------------------------------------------------------------------
Step(r) ==
  \/ Refuse(r)
  \/ CreateSprint(r) \/ InsertSprint(r)
  \/ UpdateSprint(r) \/ WriteSprint(r)
  \/ StartSprint(r) \/ CheckNoneActive(r) \/ SumCommitted(r) \/ Activate(r)
  \/ CloseSprint(r) \/ LoadNextSprint(r) \/ Close(r)
  \/ CreateTicket(r) \/ InsertTicket(r)
  \/ EditTicket(r) \/ MoveTicket(r) \/ ValidateSprint(r) \/ WriteTicket(r)
  \/ PlanBacklog(r) \/ LoadBacklog(r) \/ WritePlan(r)
  \/ DeleteTicket(r) \/ RemoveTicket(r)

Next == \E r \in Request : Step(r)

Spec == Init /\ [][Next]_vars

----------------------------------------------------------------------------
(* Properties *)

RowsOK ==
  /\ status \in [Sprint -> {"absent", "planning", "active", "closed"}]
  /\ end \in [Sprint -> Nullable(Days)]
  /\ \A s \in Sprint : status[s] # "absent" => end[s] \in Days
  /\ committed \in [Sprint -> Nullable(Nat)]
  /\ completed \in [Sprint -> Nullable(Nat)]
  /\ report \subseteq Sprint
  /\ history \subseteq [sprint : Sprint, ticket : Ticket, done : BOOLEAN, points : Points]
  /\ phase \in [Ticket -> {"unborn", "live", "deleted"}]
  /\ ticket \in [Ticket -> Nullable(Row)]
  /\ \A t \in Ticket : phase[t] = "live" => ticket[t] \in Row

RequestsOK == req \in [Request -> RequestState]

\* A sprint is never deleted, so the one a start has loaded still exists.
StartsOK ==
  \A r \in Request : req[r].at \in {"start.active", "start.sum", "start.commit"}
                      => status[req[r].sprint] # "absent"

\* The tables hold rows of their schema, and a request at a given point holds
\* the values read on the way there.
TypeOK == RowsOK /\ RequestsOK /\ StartsOK

\* A project has at most one planning and at most one active sprint, whatever
\* the creations and starts in flight: the two partial unique indexes.
OneSprintOfEachKind ==
  \A s1, s2 \in Sprint : status[s1] = status[s2] /\ Open(s1) => s1 = s2

\* What a closing request can still rely on at its commit. ClaimersOK is the
\* reason the next sprint needs no second check: if the sprint to close is
\* active and unreported, it has been active ever since it was read, and the
\* index has kept every other sprint from starting.
ClosedAreReported == \A s \in Sprint : status[s] = "closed" => s \in report

ClosersOK ==
  \A r \in Request : req[r].at \in {"close.next", "close.claim"}
                      => status[req[r].sprint] \in {"active", "closed"}

ClaimersOK ==
  \A r \in Request :
    At(r, "close.claim") /\ Claimed(req[r].sprint) /\ ReportUnique(req[r].sprint)
      => status[req[r].next] = "planning"

LifecycleInv == OneSprintOfEachKind /\ ClosedAreReported /\ ClosersOK /\ ClaimersOK

RolloverStep ==
  \A t \in Ticket :
    phase[t] = "live" /\ phase'[t] = "live" /\ ticket'[t].rollovers # ticket[t].rollovers
      => status[ticket'[t].sprint] = "planning"

\* Closing only rolls work into the sprint being planned. close_sprint reads the
\* next sprint's status before its transaction and never again; nothing can
\* start that sprint while the closing one stays active, and a sprint closed
\* and reopened in between already has its report.
RolloverTargetIsPlanning == [][RolloverStep]_vars

FrozenStep ==
  \A s \in report :
    /\ s \in report'
    /\ completed'[s] = completed[s]
    /\ {h \in history' : h.sprint = s} = {h \in history : h.sprint = s}

\* The record of a reported sprint (its history rows and completed_points)
\* never changes again, even when a late start reopens the sprint.
ReportedSprintFrozen == [][FrozenStep]_vars

\* completed_points of a reported sprint is the sum over its history rows of
\* completed tickets, so velocity can be recomputed from either.
VelocityMatchesHistory ==
  \A s \in report :
    completed[s] = SumFunction([h \in {h \in history : h.sprint = s /\ h.done} |-> h.points])

\* Closing accounts for every ticket of the sprint: each one has a history row
\* with the state it was in, and leaves the sprint unless it was done.
CloseAccountsForEveryTicket ==
  [][\A s \in report' \ report : \A t \in TicketsOf(s) :
       /\ HistoryRow(s, t) \in history'
       /\ ticket[t].done <=> ticket'[t].sprint = s]_vars

Dated(row) ==
  /\ row.sprint # Null => row.entered # Null
  /\ row.rollovers > 0 => row.delayed # Null

\* A ticket that is in a sprint has been stamped with the day it first entered
\* one, whichever concurrent edits put it there, and one that has rolled over
\* has an age: the columns delayed_days is computed from never miss.
SprintTicketsAreDated == \A t \in Ticket : phase[t] = "live" => Dated(ticket[t])

\* What keeps it so when an edit is written over a row that has changed since
\* it was loaded: a stamp present at loading is still present, and the edit
\* brings a stamp wherever it brings a sprint.
PendingEdit(t, loaded, edited) ==
  /\ phase[t] # "unborn"
  /\ phase[t] = "live" /\ loaded.entered # Null => ticket[t].entered # Null
  /\ loaded.entered # Null => edited.entered # Null
  /\ edited.sprint # Null => edited.entered # Null
  /\ edited.rollovers = loaded.rollovers /\ edited.delayed = loaded.delayed

EditsOK ==
  \A r \in Request :
    req[r].at \in {"edit.validate", "edit.commit"}
      => PendingEdit(req[r].ticket, req[r].loaded, req[r].edited)

PlansOK ==
  \A r \in Request : At(r, "plan.commit") =>
    \A t \in Ticket, now \in Days :
      req[r].loaded[t] # Null
        => PendingEdit(t, req[r].loaded[t], Enter(req[r].loaded[t], req[r].sprint, now))

DatesInv == SprintTicketsAreDated /\ EditsOK /\ PlansOK

\* A ticket recorded in a closed sprint's history is never deleted, although
\* the history is checked before the deleting transaction begins.
HistoryTicketsLive == \A h \in history : phase[h.ticket] = "live"

----------------------------------------------------------------------------
(* What the documentation says and the code does not keep *)

\* "Allowed transitions: PLANNING -> ACTIVE -> CLOSED, one-directional; there
\* is no un-close" (docs/product-specification.md).
NoUnclose == [][\A s \in Sprint : status[s] = "closed" => status'[s] = "closed"]_vars

\* "sprint must be planning or active" (validate_sprint_assignment): a ticket
\* only ever moves into an open sprint.
TicketsEnterOpenSprints ==
  [][\A t \in Ticket :
       phase'[t] = "live" /\ ticket'[t].sprint # Null
       /\ (phase[t] # "live" \/ ticket[t].sprint # ticket'[t].sprint)
         => Open(ticket'[t].sprint)]_vars
============================================================================
