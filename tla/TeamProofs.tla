----------------------------- MODULE TeamProofs -----------------------------
(* Membership for any number of people, projects and tickets, then what else a *)
(* team meets first: the backlog, the limit on signing in, and accounts.       *)
EXTENDS Team, Sequences, Sums, TLAPS

(* Types *)

LEMMA GotoType ==
  ASSUME req \in [Request -> RequestState], NEW r \in Request, NEW there \in RequestState,
         Goto(r, there)
  PROVE  req' \in [Request -> RequestState]
BY DEF Goto

\* What a request holds at each of its points.
LEMMA Held ==
  ASSUME TypeOK, NEW r \in Request
  PROVE  /\ At(r, "signed.in") => req[r].user \in User
         /\ At(r, "add") => req[r].project \in Project /\ req[r].role \in Role
         /\ At(r, "insert.member")
              => req[r].project \in Project /\ req[r].user \in User /\ req[r].role \in Role
         /\ At(r, "change")
              => req[r].project \in Project /\ req[r].user \in User /\ req[r].role \in Role
         /\ At(r, "remove")
              => req[r].project \in Project /\ req[r].user \in User
         /\ At(r, "delete.project") => req[r].project \in Project
         /\ At(r, "new.ticket") => req[r].project \in Project
         /\ At(r, "insert.ticket")
              => req[r].project \in Project /\ req[r].assignee \in Nullable(User)
         /\ At(r, "edit.ticket") \/ At(r, "write.ticket")
              => /\ req[r].ticket \in Ticket /\ req[r].loaded \in Nullable(User)
                 /\ req[r].edited \in Nullable(User)
BY DEF TypeOK, At, RequestState, Idle

LEMMA RequestsStep ==
  ASSUME TypeOK, NEW r \in Request, Step(r)
  PROVE  req' \in [Request -> RequestState]
<1>0. req \in [Request -> RequestState]
  BY DEF TypeOK
<1>f. Finish(r) => req' \in [Request -> RequestState]
  BY <1>0, GotoType DEF Finish, RequestState
<1>1. CASE SignIn(r)
  BY <1>0, <1>1, GotoType DEF SignIn, RequestState
<1>2. CASE DeleteProject(r)
  BY <1>0, <1>2, GotoType DEF DeleteProject, RequestState
<1>3. CASE AddMember(r)
  BY <1>0, <1>3, GotoType DEF AddMember, RequestState
<1>4. CASE FindUser(r)
  BY <1>0, <1>4, GotoType, Held DEF FindUser, RequestState, TypeOK
<1>5. CASE ChangeMember(r)
  BY <1>0, <1>5, GotoType DEF ChangeMember, RequestState
<1>6. CASE RemoveMember(r)
  BY <1>0, <1>6, GotoType DEF RemoveMember, RequestState
<1>7. CASE CreateTicket(r)
  BY <1>0, <1>7, GotoType DEF CreateTicket, RequestState
<1>8. CASE ValidateNew(r)
  BY <1>0, <1>8, GotoType, Held DEF ValidateNew, RequestState
<1>9. CASE EditTicket(r)
  BY <1>0, <1>9, GotoType DEF EditTicket, RequestState, TypeOK
<1>10. CASE ValidateEdit(r)
  <2> DEFINE q == req[r]
  <2>1. q \in RequestState /\ q.at = "edit.ticket"
    BY <1>0, <1>10 DEF ValidateEdit, At
  <2> HIDE DEF q
  <2>2. [q EXCEPT !.at = "write.ticket"] \in RequestState
    BY <2>1 DEF RequestState, Idle
  <2> QED
    BY <1>0, <1>10, <2>2, GotoType DEF ValidateEdit, q
<1> QED
  BY <1>f, <1>1, <1>2, <1>3, <1>4, <1>5, <1>6, <1>7, <1>8, <1>9, <1>10 DEF Step, Refuse,
     UpdateProfile, DeleteAccount, CreateProject, RemoveProject, InsertMember, WriteRole,
     DeleteMember, InsertTicket, WriteTicket

LEMMA UnassignedType ==
  ASSUME TypeOK, NEW u, NEW P
  PROVE  Unassigned(u, P) \in [Ticket -> Nullable(User)]
BY DEF TypeOK, Unassigned, Nullable

\* The tables after a step.
Tables ==
  /\ account \in [User -> {"active", "deleted"}]
  /\ personal \subseteq User
  /\ phase \in [Project -> {"unborn", "live", "deleted"}]
  /\ role \in [Project -> [User -> Nullable(Role)]]
  /\ home \in [Ticket -> Nullable(Project)]
  /\ assignee \in [Ticket -> Nullable(User)]

\* The steps that only read.
Reads(r) ==
  \/ Refuse(r) \/ SignIn(r) \/ DeleteProject(r) \/ AddMember(r) \/ FindUser(r)
  \/ ChangeMember(r) \/ RemoveMember(r) \/ CreateTicket(r) \/ ValidateNew(r)
  \/ EditTicket(r) \/ ValidateEdit(r)

LEMMA ReadsStay ==
  ASSUME NEW r \in Request, Reads(r)
  PROVE  UNCHANGED <<account, personal, phase, role, home, assignee>>
BY DEF Reads, Refuse, SignIn, DeleteProject, AddMember, FindUser, ChangeMember, RemoveMember,
   CreateTicket, ValidateNew, EditTicket, ValidateEdit, userVars, memberVars, ticketVars

LEMMA StepCases ==
  ASSUME NEW r \in Request, Step(r)
  PROVE  \/ Reads(r) \/ UpdateProfile(r) \/ DeleteAccount(r) \/ CreateProject(r)
         \/ RemoveProject(r) \/ InsertMember(r) \/ WriteRole(r) \/ DeleteMember(r)
         \/ InsertTicket(r) \/ WriteTicket(r)
BY DEF Step, Reads

\* A role the code writes.
LEMMA ColumnRole ==
  ASSUME NEW held \in Nullable(Role), NEW w \in Role, NEW seen
  PROVE  Column(held, seen, w) \in Nullable(Role)
BY DEF Column, Nullable

LEMMA TablesStep ==
  ASSUME TypeOK, NEW r \in Request, Step(r)
  PROVE  Tables'
<1> USE DEF TypeOK, Tables
<1>1. CASE Reads(r)
  BY <1>1, ReadsStay
<1>2. CASE UpdateProfile(r)
  BY <1>2, Held DEF UpdateProfile, memberVars, ticketVars
<1>3. CASE DeleteAccount(r)
  <2>1. role' \in [Project -> [User -> Nullable(Role)]]
    BY <1>3 DEF DeleteAccount, Nullable
  <2>2. assignee' \in [Ticket -> Nullable(User)]
    BY <1>3, UnassignedType DEF DeleteAccount
  <2> QED
    BY <1>3, <2>1, <2>2 DEF DeleteAccount
<1>4. CASE CreateProject(r)
  <2>1. req[r].user \in User
    BY <1>4, Held DEF CreateProject
  <2> QED
    BY <1>4, <2>1 DEF CreateProject, Nullable, Role, userVars, ticketVars
<1>5. CASE RemoveProject(r)
  BY <1>5, Held DEF RemoveProject, Nullable, userVars
<1>6. CASE InsertMember(r)
  BY <1>6, Held DEF InsertMember, Nullable, userVars, ticketVars
<1>7. CASE WriteRole(r)
  <2>1. req[r].project \in Project /\ req[r].user \in User /\ req[r].role \in Role
    BY <1>7, Held DEF WriteRole
  <2>2. \A seen : Column(role[req[r].project][req[r].user], seen, req[r].role) \in Nullable(Role)
    BY <2>1, ColumnRole
  <2> QED
    BY <1>7, <2>1, <2>2 DEF WriteRole, userVars, ticketVars
<1>8. CASE DeleteMember(r)
  <2>1. req[r].project \in Project /\ req[r].user \in User
    BY <1>8, Held DEF DeleteMember
  <2>2. assignee' \in [Ticket -> Nullable(User)]
    BY <1>8, UnassignedType DEF DeleteMember
  <2> QED
    BY <1>8, <2>1, <2>2 DEF DeleteMember, Nullable, userVars
<1>9. CASE InsertTicket(r)
  BY <1>9, Held DEF InsertTicket, Nullable, userVars, memberVars
<1>10. CASE WriteTicket(r)
  BY <1>10, Held DEF WriteTicket, Column, userVars, memberVars
<1> QED
  BY <1>1, <1>2, <1>3, <1>4, <1>5, <1>6, <1>7, <1>8, <1>9, <1>10, StepCases

\* A project once inserted stays so, and a ticket keeps its project.
LEMMA PlacesStay ==
  ASSUME TypeOK, NEW r \in Request, Step(r)
  PROVE  /\ \A p \in Project : phase[p] # "unborn" => phase'[p] # "unborn"
         /\ \A t \in Ticket : home[t] \in Project => home'[t] = home[t]
<1> USE DEF TypeOK
<1>1. CASE CreateProject(r)
  BY <1>1 DEF CreateProject, ticketVars
<1>2. CASE RemoveProject(r)
  BY <1>2 DEF RemoveProject
<1>3. CASE InsertTicket(r)
  BY <1>3, NullAssumption DEF InsertTicket, memberVars
<1>4. CASE UNCHANGED <<phase, home>>
  BY <1>4
<1> QED
  BY <1>1, <1>2, <1>3, <1>4, StepCases, ReadsStay DEF UpdateProfile, DeleteAccount,
     InsertMember, WriteRole, DeleteMember, WriteTicket, memberVars, ticketVars

\* A request other than the one that acts stays where it was.
LEMMA OthersWait ==
  ASSUME TypeOK, NEW r \in Request, NEW q \in Request, q # r, Step(r)
  PROVE  req'[q] = req[q]
BY DEF TypeOK, Step, Refuse, SignIn, UpdateProfile, DeleteAccount, CreateProject,
   DeleteProject, RemoveProject, AddMember, FindUser, InsertMember, ChangeMember, WriteRole,
   RemoveMember, DeleteMember, CreateTicket, ValidateNew, InsertTicket, EditTicket,
   ValidateEdit, WriteTicket, Finish, Goto

----------------------------------------------------------------------------
(* The inductive invariant: a role is only held in a project that is live,    *)
(* which is what makes the places of the requests exist, and the other way    *)
(* round.                                                                     *)

IInv == TypeOK /\ MembershipInv

LEMMA PlacesStep ==
  ASSUME IInv, NEW r \in Request, Step(r)
  PROVE  PlacesOK'
<1> USE DEF IInv, TypeOK, MembershipInv
<1>1. \A q \in Request : q # r => req'[q] = req[q]
  BY OthersWait
<1>2. \A p \in Project, u \in User : role[p][u] # Null => phase[p] # "unborn"
  BY DEF NoStrays
<1>3. /\ req'[r].at \in {"add", "insert.member", "change", "remove", "delete.project",
                        "new.ticket", "insert.ticket"}
           => phase'[req'[r].project] # "unborn"
      /\ req'[r].at \in {"edit.ticket", "write.ticket"} => home'[req'[r].ticket] \in Project
  <2>f. Finish(r) => req'[r].at = "idle"
    BY DEF Finish, Goto, Idle
  <2>1. CASE SignIn(r)
    BY <2>1 DEF SignIn, Goto
  <2>2. CASE DeleteProject(r)
    BY <2>2, <1>2, Held, NullAssumption DEF DeleteProject, AsOwner, Goto, memberVars, Role
  <2>3. CASE AddMember(r)
    BY <2>3, <1>2, Held, NullAssumption DEF AddMember, AsOwner, Goto, memberVars, Role
  <2>4. CASE FindUser(r)
    BY <2>4 DEF FindUser, At, Goto, memberVars, PlacesOK
  <2>5. CASE ChangeMember(r)
    BY <2>5, <1>2, Held, NullAssumption DEF ChangeMember, AsOwner, Goto, memberVars, Role
  <2>6. CASE RemoveMember(r)
    BY <2>6, <1>2, Held, NullAssumption DEF RemoveMember, AsOwner, Goto, memberVars, Role
  <2>7. CASE CreateTicket(r)
    BY <2>7, <1>2, Held DEF CreateTicket, AsMember, Goto, memberVars
  <2>8. CASE ValidateNew(r)
    BY <2>8 DEF ValidateNew, At, Goto, memberVars, PlacesOK
  <2>9. CASE EditTicket(r)
    BY <2>9 DEF EditTicket, Live, Goto, ticketVars
  <2>10. CASE ValidateEdit(r)
    <3>1. req'[r].at = "write.ticket" /\ req'[r].ticket = req[r].ticket
      BY <2>10, Held DEF ValidateEdit, Goto, At, RequestState, Idle
    <3> QED
      BY <2>10, <3>1 DEF ValidateEdit, At, ticketVars, PlacesOK
  <2> QED
    BY <2>f, <2>1, <2>2, <2>3, <2>4, <2>5, <2>6, <2>7, <2>8, <2>9, <2>10 DEF Step, Refuse,
       UpdateProfile, DeleteAccount, CreateProject, RemoveProject, InsertMember, WriteRole,
       DeleteMember, InsertTicket, WriteTicket
<1>4. \A q \in Request :
        /\ req[q].at \in {"add", "insert.member", "change", "remove", "delete.project",
                          "new.ticket", "insert.ticket"} => req[q].project \in Project
        /\ req[q].at \in {"edit.ticket", "write.ticket"} => req[q].ticket \in Ticket
  BY Held DEF At
<1> QED
  BY <1>1, <1>3, <1>4, PlacesStay DEF PlacesOK

----------------------------------------------------------------------------
(* Owners *)

LEMMA AnotherOwner ==
  ASSUME OwnersRemain, NEW p \in Project, phase[p] = "live", ~OneOwner(p), NEW u \in User
  PROVE  \E v \in User : v # u /\ role[p][v] = "OWNER"
BY DEF OwnersRemain, OneOwner, Owners

\* Under the check of WriteRole and DeleteMember another owner remains.
LEMMA CheckedOwner ==
  ASSUME IInv, NEW r \in Request, At(r, "change") \/ At(r, "remove"),
         role[req[r].project][req[r].user] # Null,
         NEW seen \in Seen(r), KeepsAnOwner(req[r].project, seen)
  PROVE  \E v \in User : v # req[r].user /\ role[req[r].project][v] = "OWNER"
<1>1. req[r].project \in Project /\ req[r].user \in User /\ phase[req[r].project] = "live"
  BY Held DEF IInv, MembershipInv, NoStrays
<1>2. CASE seen = "OWNER"
  BY <1>1, <1>2, AnotherOwner DEF KeepsAnOwner, IInv, MembershipInv
<1>3. CASE seen # "OWNER"
  BY <1>1, <1>3 DEF Seen, IInv, MembershipInv, OwnersRemain, Owners
<1> QED
  BY <1>2, <1>3

LEMMA OwnersStep ==
  ASSUME IInv, NEW r \in Request, Step(r)
  PROVE  OwnersRemain'
<1> USE DEF IInv, TypeOK, MembershipInv
<1>0. \A p \in Project : phase[p] = "live" => \E v \in User : role[p][v] = "OWNER"
  BY DEF OwnersRemain, Owners
<1> SUFFICES ASSUME NEW p \in Project, phase'[p] = "live"
             PROVE  \E v \in User : role'[p][v] = "OWNER"
  BY DEF OwnersRemain, Owners
<1>1. CASE UNCHANGED <<phase, role>>
  BY <1>0, <1>1
<1>2. CASE DeleteAccount(r)
  <2>1. req[r].user \in User /\ phase[p] = "live"
    BY <1>2, Held DEF DeleteAccount
  <2>2. PICK o \in User : o # req[r].user /\ role[p][o] = "OWNER"
    BY <1>0, <1>2, <2>1, AnotherOwner DEF DeleteAccount, MayLeave
  <2> QED
    BY <1>2, <2>1, <2>2 DEF DeleteAccount
<1>3. CASE CreateProject(r)
  BY <1>0, <1>3, Held DEF CreateProject
<1>4. CASE RemoveProject(r)
  BY <1>0, <1>4, Held DEF RemoveProject
<1>5. CASE InsertMember(r)
  BY <1>0, <1>5, Held, NullAssumption DEF InsertMember, Role
<1>6. CASE WriteRole(r)
  <2> DEFINE P == req[r].project
             u == req[r].user
  <2>1. P \in Project /\ u \in User /\ req[r].role \in Role /\ phase[p] = "live"
    BY <1>6, Held DEF WriteRole
  <2>2. PICK seen \in Seen(r) :
          /\ req[r].role # "OWNER" => KeepsAnOwner(P, seen)
          /\ role' = [role EXCEPT ![P][u] = Column(@, seen, req[r].role)]
    BY <1>6 DEF WriteRole
  <2>3. CASE p # P
    BY <1>0, <2>1, <2>2, <2>3
  <2>4. CASE p = P /\ req[r].role = "OWNER"
    BY <1>0, <2>1, <2>2, <2>4 DEF Column
  <2>5. CASE p = P /\ req[r].role # "OWNER"
    <3>1. PICK v \in User : v # u /\ role[P][v] = "OWNER"
      BY <1>6, <2>2, <2>5, CheckedOwner DEF WriteRole
    <3> QED
      BY <2>1, <2>2, <2>5, <3>1
  <2> QED
    BY <2>3, <2>4, <2>5
<1>7. CASE DeleteMember(r)
  <2>1. req[r].project \in Project /\ req[r].user \in User /\ phase[p] = "live"
    BY <1>7, Held DEF DeleteMember
  <2>2. PICK v \in User : v # req[r].user /\ role[req[r].project][v] = "OWNER"
    BY <1>7, CheckedOwner DEF DeleteMember
  <2> QED
    BY <1>0, <1>7, <2>1, <2>2 DEF DeleteMember
<1> QED
  BY <1>1, <1>2, <1>3, <1>4, <1>5, <1>6, <1>7, StepCases, ReadsStay DEF UpdateProfile,
     InsertTicket, WriteTicket, memberVars

LEMMA StraysStep ==
  ASSUME IInv, NEW r \in Request, Step(r)
  PROVE  NoStrays'
<1> USE DEF IInv, TypeOK, MembershipInv, NoStrays, Live
<1>1. CASE UNCHANGED <<phase, role, home, assignee>>
  BY <1>1
<1>2. CASE DeleteAccount(r)
  BY <1>2, Held DEF DeleteAccount, Unassigned
<1>3. CASE CreateProject(r)
  BY <1>3, Held DEF CreateProject, ticketVars
<1>4. CASE RemoveProject(r)
  BY <1>4, Held DEF RemoveProject
<1>5. CASE InsertMember(r)
  BY <1>5, Held DEF InsertMember, Referenced, ticketVars
<1>6. CASE WriteRole(r)
  <2>1. req[r].project \in Project /\ req[r].user \in User /\ phase[req[r].project] = "live"
    BY <1>6, Held DEF WriteRole
  <2> QED
    BY <1>6, <2>1 DEF WriteRole, ticketVars
<1>7. CASE DeleteMember(r)
  BY <1>7, Held DEF DeleteMember, Unassigned
<1>8. CASE InsertTicket(r)
  BY <1>8, Held DEF InsertTicket, Referenced, memberVars
<1>9. CASE WriteTicket(r)
  BY <1>9, Held DEF WriteTicket, memberVars
<1> QED
  BY <1>1, <1>2, <1>3, <1>4, <1>5, <1>6, <1>7, <1>8, <1>9, StepCases, ReadsStay
     DEF UpdateProfile, memberVars, ticketVars

LEMMA InvInit == Init => IInv
<1> SUFFICES ASSUME Init PROVE IInv
  OBVIOUS
<1> USE DEF Init
<1>1. TypeOK
  BY DEF TypeOK, PlacesOK, Nullable, RequestState, Idle
<1>2. MembershipInv
  BY NullAssumption DEF MembershipInv, OwnersRemain, NoStrays, Live
<1> QED
  BY <1>1, <1>2 DEF IInv

LEMMA InvStep == IInv /\ [Next]_vars => IInv'
<1> SUFFICES ASSUME IInv, [Next]_vars PROVE IInv'
  OBVIOUS
<1>1. CASE UNCHANGED vars
  BY <1>1 DEF vars, userVars, memberVars, ticketVars, IInv, TypeOK, PlacesOK, MembershipInv,
     OwnersRemain, Owners, NoStrays, Live
<1>2. ASSUME NEW r \in Request, Step(r) PROVE IInv'
  <2>1. TypeOK'
    BY <1>2, RequestsStep, TablesStep, PlacesStep DEF IInv, TypeOK, Tables
  <2> QED
    BY <1>2, <2>1, OwnersStep, StraysStep DEF IInv, MembershipInv
<1> QED
  BY <1>1, <1>2 DEF Next

LEMMA Invariance == Spec => []IInv
BY InvInit, InvStep, PTL DEF Spec

\* Every row keeps its type and every request past its access check is about a
\* project or a ticket that was inserted, whatever is deleted meanwhile.
THEOREM TypeCorrect == Spec => []TypeOK
BY Invariance, PTL DEF IInv

\* The last-owner checks made under the write lock are enough: whatever any
\* number of requests do at once, a live project has an owner, and neither a
\* member nor an assigned ticket turns up in a project that is gone.
THEOREM OwnersHold == Spec => []MembershipInv
BY Invariance, PTL DEF IInv

----------------------------------------------------------------------------
(* The application implements Governance *)

LEMMA GovernedInit == Init => Promise!Init
BY NullAssumption DEF Init, Promise!Init, Owners, Role

LEMMA GovernedStep ==
  ASSUME IInv, NEW r \in Request, Step(r)
  PROVE  Promise!Next \/ UNCHANGED Promise!vars
<1> USE DEF IInv, TypeOK, MembershipInv
<1> DEFINE p == req[r].project
           u == req[r].user
           founded == {q \in Project : phase[q] # "unborn"}
           dissolved == {q \in Project : phase[q] = "deleted"}
           owners == [q \in Project |-> Owners(q)]
<1>1. CASE UNCHANGED <<phase, role>>
  BY <1>1 DEF Promise!vars, Owners
<1>2. CASE DeleteAccount(r)
  <2>1. u \in User
    BY <1>2, Held DEF DeleteAccount
  <2> DEFINE P == {q \in Project : phase[q] = "live"}
  <2>2. \A q \in P : owners[q] \ {u} # {}
    <3> SUFFICES ASSUME NEW q \in P PROVE \E v \in User : v # u /\ role[q][v] = "OWNER"
      BY DEF Owners
    <3>1. CASE role[q][u] = "OWNER"
      BY <1>2, <2>1, <3>1, AnotherOwner DEF DeleteAccount, MayLeave
    <3>2. CASE role[q][u] # "OWNER"
      BY <3>2 DEF OwnersRemain, Owners
    <3> QED
      BY <3>1, <3>2
  <2>3. owners' = [q \in Project |-> IF q \in P THEN owners[q] \ {u} ELSE owners[q]]
    BY <1>2, <2>1, NullAssumption DEF DeleteAccount, Owners, NoStrays, Role
  <2>4. Promise!Retire(u, P)
    BY <1>2, <2>2, <2>3 DEF DeleteAccount, Promise!Retire
  <2> QED
    BY <2>1, <2>4 DEF Promise!Next
<1>3. CASE CreateProject(r)
  <2>1. PICK q \in Project : /\ phase[q] = "unborn"
                             /\ phase' = [phase EXCEPT ![q] = "live"]
                             /\ role' = [role EXCEPT ![q][u] = "OWNER"]
    BY <1>3 DEF CreateProject
  <2>2. u \in User
    BY <1>3, Held DEF CreateProject
  <2>3. owners[q] = {}
    BY <2>1, NullAssumption DEF NoStrays, Owners, Role
  <2>4. owners' = [owners EXCEPT ![q] = {u}]
    BY <2>1, <2>2, <2>3 DEF Owners
  <2>5. Promise!Found(q, u)
    BY <2>1, <2>4 DEF Promise!Found
  <2> QED
    BY <2>1, <2>2, <2>5 DEF Promise!Next, Promise!Found
<1>4. CASE RemoveProject(r)
  <2>1. p \in Project /\ phase[p] # "unborn"
    BY <1>4, Held DEF RemoveProject, PlacesOK, At
  <2>2. owners' = [owners EXCEPT ![p] = {}]
    BY <1>4, <2>1, NullAssumption DEF RemoveProject, Owners, Role
  <2>3. UNCHANGED founded /\ dissolved' = dissolved \union {p}
    BY <1>4, <2>1 DEF RemoveProject
  <2>4. CASE p \in dissolved
    <3>1. owners[p] = {}
      BY <2>1, <2>4, NullAssumption DEF NoStrays, Owners, Role
    <3>2. owners' = owners
      BY <2>2, <3>1
    <3> QED
      BY <2>3, <2>4, <3>2 DEF Promise!vars
  <2>5. CASE p \notin dissolved
    <3>1. Promise!Dissolve(p)
      BY <2>1, <2>2, <2>3, <2>5 DEF Promise!Dissolve
    <3> QED
      BY <2>1, <3>1 DEF Promise!Next, Promise!Dissolve
  <2> QED
    BY <2>4, <2>5
<1>5. CASE InsertMember(r)
  <2>1. /\ p \in Project /\ u \in User /\ phase[p] = "live"
        /\ role[p][u] = Null /\ role' = [role EXCEPT ![p][u] = req[r].role]
        /\ UNCHANGED phase
    BY <1>5, Held DEF InsertMember, Referenced
  <2>2. CASE req[r].role = "OWNER"
    <3>1. owners' = [owners EXCEPT ![p] = @ \union {u}]
      BY <2>1, <2>2 DEF Owners
    <3>2. Promise!Appoint(p, u)
      BY <2>1, <3>1 DEF Promise!Appoint, OwnersRemain
    <3> QED
      BY <2>1, <3>2 DEF Promise!Next
  <2>3. CASE req[r].role # "OWNER"
    <3>1. owners' = owners
      BY <2>1, <2>3, NullAssumption DEF Owners, Role
    <3> QED
      BY <2>1, <3>1 DEF Promise!vars
  <2> QED
    BY <2>2, <2>3
<1>6. CASE WriteRole(r)
  <2>1. p \in Project /\ u \in User /\ req[r].role \in Role /\ role[p][u] # Null
    BY <1>6, Held DEF WriteRole
  <2>2. phase[p] = "live" /\ UNCHANGED phase
    BY <1>6, <2>1 DEF WriteRole, NoStrays
  <2>3. PICK seen \in Seen(r) :
          /\ req[r].role # "OWNER" => KeepsAnOwner(p, seen)
          /\ role' = [role EXCEPT ![p][u] = Column(@, seen, req[r].role)]
    BY <1>6 DEF WriteRole
  <2>4. CASE UNCHANGED role
    BY <1>1, <2>2, <2>4
  <2>5. CASE role' = [role EXCEPT ![p][u] = "OWNER"]
    <3>1. owners' = [owners EXCEPT ![p] = @ \union {u}]
      BY <2>1, <2>5 DEF Owners
    <3>2. Promise!Appoint(p, u)
      BY <2>1, <2>2, <3>1 DEF Promise!Appoint, OwnersRemain
    <3> QED
      BY <2>1, <3>2 DEF Promise!Next
  <2>6. CASE req[r].role # "OWNER" /\ role' = [role EXCEPT ![p][u] = req[r].role]
    <3>1. owners[p] \ {u} # {}
      BY <1>6, <2>1, <2>3, <2>6, CheckedOwner DEF WriteRole, Owners
    <3>2. owners' = [q \in Project |-> IF q \in {p} THEN owners[q] \ {u} ELSE owners[q]]
      BY <2>1, <2>6 DEF Owners
    <3>3. Promise!Retire(u, {p})
      BY <2>2, <3>1, <3>2 DEF Promise!Retire
    <3> QED
      BY <2>1, <3>3 DEF Promise!Next
  <2> QED
    BY <2>1, <2>3, <2>4, <2>5, <2>6 DEF Column
<1>7. CASE DeleteMember(r)
  <2>1. p \in Project /\ u \in User
    BY <1>7, Held DEF DeleteMember
  <2>2. owners[p] \ {u} # {}
    BY <1>7, <2>1, CheckedOwner DEF DeleteMember, Owners
  <2>3. owners' = [q \in Project |-> IF q \in {p} THEN owners[q] \ {u} ELSE owners[q]]
    BY <1>7, <2>1, NullAssumption DEF DeleteMember, Owners, Role
  <2>4. Promise!Retire(u, {p})
    BY <1>7, <2>2, <2>3 DEF DeleteMember, Promise!Retire
  <2> QED
    BY <2>1, <2>4 DEF Promise!Next
<1> QED
  BY <1>1, <1>2, <1>3, <1>4, <1>5, <1>6, <1>7, StepCases, ReadsStay DEF UpdateProfile,
     InsertTicket, WriteTicket, memberVars

\* The owners of projects come and go as Governance says: one person at a time,
\* never the last one, until the step that deletes the project.
THEOREM Governed == Spec => OwnersAreGoverned
<1>1. IInv /\ [Next]_vars => [Promise!Next]_(Promise!vars)
  <2> SUFFICES ASSUME IInv, [Next]_vars PROVE [Promise!Next]_(Promise!vars)
    OBVIOUS
  <2>1. CASE UNCHANGED vars
    BY <2>1 DEF vars, memberVars, Promise!vars, Owners
  <2>2. ASSUME NEW r \in Request, Step(r) PROVE [Promise!Next]_(Promise!vars)
    BY <2>2, GovernedStep
  <2> QED
    BY <2>1, <2>2 DEF Next
<1> QED
  BY <1>1, GovernedInit, Invariance, PTL DEF Spec, OwnersAreGoverned, Promise!Spec

----------------------------------------------------------------------------
\* Losing a membership, by whichever of the three ways, takes the person off
\* every ticket of the project in the same transaction.
THEOREM LeaversUnassigned == Spec => LeaversAreUnassigned
<1> DEFINE Left(p, u) == role[p][u] # Null /\ role'[p][u] = Null
           Free(p, u) == \A t \in Ticket : home'[t] = p => assignee'[t] # u
           Leave == \A p \in Project, u \in User : Left(p, u) => Free(p, u)
<1>1. ASSUME IInv, NEW r \in Request, Step(r) PROVE Leave
  <2> USE DEF IInv, TypeOK
  <2> SUFFICES ASSUME NEW p \in Project, NEW u \in User, Left(p, u) PROVE Free(p, u)
    OBVIOUS
  <2>0. u # Null
    BY NullAssumption
  <2>1. CASE DeleteAccount(r)
    BY <2>0, <1>1, <2>1, Held DEF DeleteAccount, Unassigned
  <2>2. CASE RemoveProject(r)
    BY <2>0, <1>1, <2>2, Held DEF RemoveProject
  <2>3. CASE DeleteMember(r)
    BY <2>0, <1>1, <2>3, Held DEF DeleteMember, Unassigned
  <2>4. CASE WriteRole(r)
    <3>1. req[r].project \in Project /\ req[r].user \in User /\ req[r].role \in Role
      BY <1>1, <2>4, Held DEF WriteRole
    <3>2. \A q \in Project, v \in User : role[q][v] # Null => role'[q][v] # Null
      BY <2>4, <3>1, NullAssumption DEF WriteRole, Column
    <3> QED
      BY <3>2
  <2>5. CASE CreateProject(r)
    BY <1>1, <2>5, Held, NullAssumption DEF CreateProject, Role
  <2>6. CASE InsertMember(r)
    BY <1>1, <2>6, Held, NullAssumption DEF InsertMember
  <2>7. CASE UNCHANGED role
    BY <2>7
  <2> QED
    <3>1. Reads(r) \/ UpdateProfile(r) \/ InsertTicket(r) \/ WriteTicket(r) => UNCHANGED role
      BY ReadsStay DEF UpdateProfile, InsertTicket, WriteTicket, memberVars
    <3> HIDE DEF Left, Free
    <3> QED
      BY <1>1, <2>1, <2>2, <2>3, <2>4, <2>5, <2>6, <2>7, <3>1, StepCases
<1>2. IInv /\ [Next]_vars => [Leave]_vars
  BY <1>1 DEF Next
<1> QED
  BY <1>2, Invariance, PTL DEF Spec, LeaversAreUnassigned

----------------------------------------------------------------------------
(* The backlog *)

\* The types of a row's columns and of what a request carries.
BacklogTypes ==
  /\ next \in Nat \ {0}
  /\ item \in [Item -> Order!Row \union {Null}]
  /\ moving \in [Request -> Order!RequestState]

BacklogInv == BacklogTypes /\ Order!NumbersGapless /\ Order!RanksRearrangeNumbers

\* No ticket is made or lost, and what is made keeps its number and its rank.
OrderKept ==
  /\ next' = next
  /\ item' \in [Item -> Order!Row \union {Null}]
  /\ \A t \in Item : item'[t] = Null <=> item[t] = Null
  /\ \A t \in Order!Made : item'[t].number = item[t].number /\ item'[t].rank = item[t].rank

----------------------------------------------------------------------------
(* Lemmas *)

LEMMA MadeType ==
  ASSUME BacklogTypes, NEW t \in Order!Made
  PROVE  /\ t \in Item /\ item[t] \in Order!Row
         /\ item[t].number \in Nat /\ item[t].rank \in Nat
         /\ item[t].planned \in BOOLEAN /\ item[t].live \in BOOLEAN
BY DEF Order!Made, BacklogTypes, Order!Row

LEMMA OrderKeptOK ==
  ASSUME BacklogInv, OrderKept
  PROVE  Order!NumbersGapless' /\ Order!RanksRearrangeNumbers'
<1>1. Order!Made' = Order!Made
  BY DEF Order!Made, OrderKept
<1> QED
  BY <1>1 DEF BacklogInv, OrderKept, Order!NumbersGapless, Order!RanksRearrangeNumbers

\* Wherever a request goes, it carries what it has loaded.
LEMMA MovingType ==
  ASSUME BacklogTypes, NEW r \in Request, NEW there \in Order!RequestState, Order!Goto(r, there)
  PROVE  moving' \in [Request -> Order!RequestState]
BY DEF BacklogTypes, Order!Goto

LEMMA IdleType == Order!Idle \in Order!RequestState
BY DEF Order!RequestState

LEMMA LoadType ==
  ASSUME BacklogTypes, NEW r \in Request, NEW T \in SUBSET Item, NEW planned \in BOOLEAN,
         Order!Load(r, T, planned)
  PROVE  moving' \in [Request -> Order!RequestState]
<1> DEFINE loaded == [t \in Item |-> IF t \in T THEN item[t] ELSE Null]
           there == [at |-> "write", planned |-> planned, loaded |-> loaded]
<1>1. loaded \in [Item -> Order!Row \union {Null}]
  BY DEF BacklogTypes
<1>2. Order!Goto(r, there)
  BY DEF Order!Load
<1> HIDE DEF loaded
<1>3. there \in Order!RequestState
  BY <1>1 DEF Order!RequestState
<1> HIDE DEF there
<1> QED
  BY <1>2, <1>3, MovingType

\* Only the column planned of a row is written.
LEMMA WrittenType ==
  ASSUME NEW held \in Order!Row, NEW loaded, NEW planned \in BOOLEAN
  PROVE  LET new == Order!Written(held, loaded, planned) IN
           /\ new \in Order!Row
           /\ new.number = held.number /\ new.rank = held.rank /\ new.live = held.live
BY DEF Order!Written, Order!Column, Order!Row

\* A number that comes next goes to one ticket.
LEMMA InsertOrder ==
  ASSUME BacklogInv, Null \notin Order!Row, NEW t \in Item \ Order!Made, NEW new \in Order!Row,
         new.number = next, new.rank = next,
         item' = [item EXCEPT ![t] = new], next' = next + 1
  PROVE  Order!NumbersGapless' /\ Order!RanksRearrangeNumbers'
<1>1. /\ Order!Made' = Order!Made \union {t}
      /\ item'[t] = new
      /\ \A u \in Order!Made : item'[u] = item[u]
  BY DEF Order!Made, BacklogInv, BacklogTypes
<1>2. \A u \in Order!Made : item[u].number \in 1 .. next - 1 /\ item[u].rank \in 1 .. next - 1
  BY DEF BacklogInv, Order!NumbersGapless, Order!RanksRearrangeNumbers
<1>3. next \in Nat \ {0}
  BY DEF BacklogInv, BacklogTypes
<1>4. 1 .. next' - 1 = (1 .. next - 1) \union {next}
  BY <1>3
<1>5. /\ {item'[u].number : u \in Order!Made'} = {item[u].number : u \in Order!Made} \union {next}
      /\ {item'[u].rank : u \in Order!Made'} = {item[u].rank : u \in Order!Made} \union {next}
  BY <1>1
<1>6. Order!NumbersGapless'
  <2>1. \A u, v \in Order!Made' : u # v => item'[u].number # item'[v].number
    BY <1>1, <1>2, <1>3 DEF BacklogInv, Order!NumbersGapless
  <2> QED
    BY <1>4, <1>5, <2>1 DEF BacklogInv, Order!NumbersGapless
<1>7. Order!RanksRearrangeNumbers'
  <2>1. \A u, v \in Order!Made' : u # v => item'[u].rank # item'[v].rank
    BY <1>1, <1>2, <1>3 DEF BacklogInv, Order!RanksRearrangeNumbers
  <2> QED
    BY <1>4, <1>5, <2>1 DEF BacklogInv, Order!RanksRearrangeNumbers
<1> QED
  BY <1>6, <1>7

\* What a move does to the rows: two exchange their ranks.
Exchange(t, u) ==
  item' = [item EXCEPT ![t].rank = item[u].rank, ![u].rank = item[t].rank]

LEMMA Exchanged ==
  ASSUME BacklogTypes, NEW t \in Order!Made, NEW u \in Order!Made, t # u, Exchange(t, u)
  PROVE  /\ item'[t] = [item[t] EXCEPT !.rank = item[u].rank]
         /\ item'[u] = [item[u] EXCEPT !.rank = item[t].rank]
         /\ \A v \in Item \ {t, u} : item'[v] = item[v]
         /\ item'[t] \in Order!Row /\ item'[u] \in Order!Row
         /\ item'[t].rank = item[u].rank /\ item'[u].rank = item[t].rank
         /\ item'[t].number = item[t].number /\ item'[u].number = item[u].number
<1>1. item[t] \in Order!Row /\ item[u] \in Order!Row /\ t \in Item /\ u \in Item
  BY MadeType
<1>2. /\ item'[t] = [item[t] EXCEPT !.rank = item[u].rank]
      /\ item'[u] = [item[u] EXCEPT !.rank = item[t].rank]
      /\ \A v \in Item \ {t, u} : item'[v] = item[v]
  BY <1>1 DEF Exchange, BacklogTypes
<1> QED
  BY <1>1, <1>2 DEF Order!Row

LEMMA ExchangeOrder ==
  ASSUME BacklogInv, Null \notin Order!Row, NEW t \in Order!Made, NEW u \in Order!Made, t # u,
         Exchange(t, u),
         next' = next
  PROVE  /\ item' \in [Item -> Order!Row \union {Null}]
         /\ Order!NumbersGapless' /\ Order!RanksRearrangeNumbers'
<1>1. t \in Item /\ u \in Item /\ BacklogTypes
  BY DEF Order!Made, BacklogInv
<1>2. /\ \A v \in Item \ {t, u} : item'[v] = item[v]
      /\ item'[t] \in Order!Row /\ item'[u] \in Order!Row
      /\ item'[t].rank = item[u].rank /\ item'[u].rank = item[t].rank
      /\ item'[t].number = item[t].number /\ item'[u].number = item[u].number
  BY <1>1, Exchanged
<1>3. item' \in [Item -> Order!Row \union {Null}]
  BY <1>1, <1>2 DEF Exchange, BacklogTypes
<1>4. Order!Made' = Order!Made
  BY <1>1, <1>2 DEF Order!Made
<1>5. Order!NumbersGapless'
  <2>1. \A v \in Order!Made : item'[v].number = item[v].number
    BY <1>2 DEF Order!Made
  <2> QED
    BY <1>4, <2>1 DEF BacklogInv, Order!NumbersGapless
<1>6. \A v, w \in Order!Made : v # w => item'[v].rank # item'[w].rank
  BY <1>2 DEF BacklogInv, Order!RanksRearrangeNumbers, Order!Made
<1>7. {item'[v].rank : v \in Order!Made} = {item[v].rank : v \in Order!Made}
  <2>1. ASSUME NEW v \in Order!Made
        PROVE  \E w \in Order!Made : item[w].rank = item'[v].rank
    BY <1>2 DEF Order!Made
  <2>2. ASSUME NEW v \in Order!Made
        PROVE  \E w \in Order!Made : item'[w].rank = item[v].rank
    BY <1>2 DEF Order!Made
  <2>3. {item'[v].rank : v \in Order!Made} \subseteq {item[v].rank : v \in Order!Made}
    <3> SUFFICES ASSUME NEW v \in Order!Made
                 PROVE  item'[v].rank \in {item[w].rank : w \in Order!Made}
      OBVIOUS
    <3> QED
      BY <2>1
  <2>4. {item[v].rank : v \in Order!Made} \subseteq {item'[v].rank : v \in Order!Made}
    <3> SUFFICES ASSUME NEW v \in Order!Made
                 PROVE  item[v].rank \in {item'[w].rank : w \in Order!Made}
      OBVIOUS
    <3> QED
      BY <2>2
  <2> QED
    BY <2>3, <2>4
<1> QED
  BY <1>3, <1>4, <1>5, <1>6, <1>7 DEF BacklogInv, Order!RanksRearrangeNumbers

----------------------------------------------------------------------------
(* The inductive invariant *)

LEMMA LoadSteps ==
  ASSUME BacklogInv, NEW r \in Request,
         Order!Refuse(r) \/ Order!CreateTicket(r) \/ Order!MoveTicket(r) \/ Order!EditTicket(r) \/ Order!PlanBacklog(r)
  PROVE  BacklogInv'
<1>1. UNCHANGED <<next, item>>
  BY DEF Order!Refuse, Order!CreateTicket, Order!MoveTicket, Order!EditTicket, Order!PlanBacklog
<1>2. moving' \in [Request -> Order!RequestState]
  <2>1. CASE Order!Refuse(r)
    BY <2>1, MovingType, IdleType DEF Order!Refuse, Order!Finish, BacklogInv
  <2>2. CASE Order!CreateTicket(r)
    <3>1. PICK planned \in BOOLEAN :
            Order!Goto(r, [at |-> "insert", next |-> next, planned |-> planned])
      BY <2>2 DEF Order!CreateTicket
    <3>2. [at |-> "insert", next |-> next, planned |-> planned] \in Order!RequestState
      BY DEF Order!RequestState, BacklogInv, BacklogTypes
    <3> QED
      BY <3>1, <3>2, MovingType DEF BacklogInv
  <2>3. CASE Order!MoveTicket(r)
    <3>1. PICK t \in Item : Order!Goto(r, [at |-> "move", ticket |-> t])
      BY <2>3 DEF Order!MoveTicket, Order!Live, Order!Made
    <3>2. [at |-> "move", ticket |-> t] \in Order!RequestState
      BY DEF Order!RequestState
    <3> QED
      BY <3>1, <3>2, MovingType DEF BacklogInv
  <2>4. CASE Order!EditTicket(r)
    BY <2>4, LoadType DEF Order!EditTicket, BacklogInv, Order!Live, Order!Made
  <2>5. CASE Order!PlanBacklog(r)
    BY <2>5, LoadType DEF Order!PlanBacklog, BacklogInv, Order!Unplanned, Order!Live, Order!Made
  <2> QED
    BY <2>1, <2>2, <2>3, <2>4, <2>5
<1> QED
  BY <1>1, <1>2 DEF BacklogInv, BacklogTypes, Order!NumbersGapless, Order!RanksRearrangeNumbers,
     Order!Made

LEMMA InsertStep ==
  ASSUME BacklogInv, Null \notin Order!Row, NEW r \in Request, Order!InsertTicket(r)
  PROVE  BacklogInv'
<1>1. moving[r].planned \in BOOLEAN
  BY DEF Order!InsertTicket, Order!At, BacklogInv, BacklogTypes, Order!RequestState, Order!Idle
<1>2. PICK t \in Item \ Order!Made :
        item' = [item EXCEPT ![t] = [number |-> Order!Number(r), rank |-> Order!Number(r),
                                     planned |-> moving[r].planned, live |-> TRUE]]
  BY DEF Order!InsertTicket
<1> DEFINE new == [number |-> Order!Number(r), rank |-> Order!Number(r), planned |-> moving[r].planned,
                   live |-> TRUE]
<1>3. new \in Order!Row /\ new.number = next /\ new.rank = next
  BY <1>1 DEF Order!Row, Order!Number, BacklogInv, BacklogTypes
<1>4. item' = [item EXCEPT ![t] = new] /\ next' = next + 1 /\ Order!Finish(r)
  BY <1>2 DEF Order!InsertTicket
<1> HIDE DEF new
<1>5. Order!NumbersGapless' /\ Order!RanksRearrangeNumbers'
  BY <1>3, <1>4, InsertOrder
<1>6. BacklogTypes'
  BY <1>3, <1>4, MovingType, IdleType DEF Order!Finish, BacklogInv, BacklogTypes
<1> QED
  BY <1>5, <1>6 DEF BacklogInv

LEMMA ReorderStep ==
  ASSUME BacklogInv, Null \notin Order!Row, NEW r \in Request, Order!Reorder(r)
  PROVE  BacklogInv'
<1> DEFINE t == moving[r].ticket
<1>1. PICK u \in Item : Order!Neighbours(t, u) /\ Exchange(t, u)
  BY DEF Order!Reorder, Exchange
<1>2. next' = next /\ Order!Finish(r)
  BY DEF Order!Reorder
<1>3. t \in Order!Made /\ u \in Order!Made /\ t # u
  BY <1>1 DEF Order!Neighbours, Order!Unplanned, Order!Live
<1>4. /\ item' \in [Item -> Order!Row \union {Null}]
      /\ Order!NumbersGapless' /\ Order!RanksRearrangeNumbers'
  BY <1>1, <1>2, <1>3, ExchangeOrder
<1> QED
  BY <1>2, <1>4, MovingType, IdleType DEF Order!Finish, BacklogInv, BacklogTypes

LEMMA WriteStep ==
  ASSUME BacklogInv, Null \notin Order!Row, NEW r \in Request, Order!WriteTickets(r)
  PROVE  BacklogInv' /\ OrderKept
<1> DEFINE loaded == moving[r].loaded
           edited == {t \in Item : loaded[t] # Null}
<1>1. moving[r].planned \in BOOLEAN
  BY DEF Order!WriteTickets, Order!At, BacklogInv, BacklogTypes, Order!RequestState, Order!Idle
<1>2. /\ edited \subseteq Order!Live
      /\ item' = [t \in Item |->
           IF t \in edited THEN Order!Written(item[t], loaded[t], moving[r].planned) ELSE item[t]]
      /\ Order!Finish(r) /\ next' = next
  BY DEF Order!WriteTickets
<1> HIDE DEF edited, loaded
<1>3. ASSUME NEW t \in Item
      PROVE  \/ item'[t] = item[t]
             \/ /\ t \in Order!Made /\ item'[t] \in Order!Row
                /\ item'[t].number = item[t].number /\ item'[t].rank = item[t].rank
  <2>1. CASE t \in edited
    <3>1. t \in Order!Made /\ item[t] \in Order!Row
      BY <1>2, <2>1, MadeType DEF Order!Live, BacklogInv
    <3>2. item'[t] = Order!Written(item[t], loaded[t], moving[r].planned)
      BY <1>2, <2>1
    <3> QED
      BY <1>1, <3>1, <3>2, WrittenType
  <2>2. CASE t \notin edited
    BY <1>2, <2>2
  <2> QED
    BY <2>1, <2>2
<1>4. OrderKept
  <2>1. \A t \in Item : item'[t] \in Order!Row \union {Null} /\ (item'[t] = Null <=> item[t] = Null)
    BY <1>3 DEF BacklogInv, BacklogTypes, Order!Made
  <2>2. item' \in [Item -> Order!Row \union {Null}]
    BY <1>2, <2>1
  <2> QED
    BY <1>2, <1>3, <2>1, <2>2 DEF OrderKept, Order!Made
<1> QED
  BY <1>2, <1>4, OrderKeptOK, MovingType, IdleType DEF Order!Finish, BacklogInv, BacklogTypes,
     OrderKept

LEMMA DeleteStep ==
  ASSUME BacklogInv, Null \notin Order!Row, Order!DeleteTicket
  PROVE  BacklogInv' /\ OrderKept
<1>1. PICK t \in Order!Live : item' = [item EXCEPT ![t].live = FALSE]
  BY DEF Order!DeleteTicket
<1>2. t \in Order!Made /\ t \in Item /\ item[t] \in Order!Row
  BY MadeType DEF Order!Live, BacklogInv
<1>3. /\ item'[t] = [item[t] EXCEPT !.live = FALSE]
      /\ \A u \in Item \ {t} : item'[u] = item[u]
      /\ item' = [item EXCEPT ![t] = item'[t]]
  BY <1>1, <1>2 DEF BacklogInv, BacklogTypes
<1>4. item'[t] \in Order!Row /\ item'[t].number = item[t].number /\ item'[t].rank = item[t].rank
  BY <1>2, <1>3 DEF Order!Row
<1>5. OrderKept
  BY <1>2, <1>3, <1>4 DEF Order!DeleteTicket, OrderKept, Order!Made, BacklogInv, BacklogTypes
<1> QED
  BY <1>5, OrderKeptOK DEF Order!DeleteTicket, BacklogInv, BacklogTypes, OrderKept

LEMMA BacklogInit == Order!Init => BacklogInv
<1> SUFFICES ASSUME Order!Init
             PROVE  BacklogInv
  OBVIOUS
<1>1. Order!Made = {}
  BY DEF Order!Init, Order!Made
<1>2. 1 .. next - 1 = {}
  BY DEF Order!Init
<1> QED
  BY <1>1, <1>2 DEF Order!Init, BacklogInv, BacklogTypes, Order!NumbersGapless,
     Order!RanksRearrangeNumbers, Order!RequestState

LEMMA BacklogStep ==
  ASSUME BacklogInv, Null \notin Order!Row, [Order!Next]_(Order!vars)
  PROVE  BacklogInv'
<1>1. CASE UNCHANGED Order!vars
  BY <1>1 DEF Order!vars, BacklogInv, BacklogTypes, Order!NumbersGapless,
     Order!RanksRearrangeNumbers, Order!Made
<1>2. CASE Order!Next
  BY <1>2, LoadSteps, InsertStep, ReorderStep, WriteStep, DeleteStep DEF Order!Next, Order!Step
<1> QED
  BY <1>1, <1>2

----------------------------------------------------------------------------
(* The properties *)

\* The rows and what requests have loaded keep their types; SQL NULL is no row.
LEMMA BacklogTyped ==
  ASSUME Null \notin Order!Row
  PROVE  Order!Spec => []Order!TypeOK
<1>1. BacklogInv => Order!TypeOK
  BY DEF BacklogInv, BacklogTypes, Order!TypeOK
<1>2. BacklogInv /\ [Order!Next]_(Order!vars) => BacklogInv'
  BY BacklogStep
<1> QED
  BY <1>1, <1>2, BacklogInit, PTL DEF Order!Spec

\* The counter is read in the statement that raises it, so numbers have no gap
\* and no ticket shares one, however many are created at once.
LEMMA BacklogGapless ==
  ASSUME Null \notin Order!Row
  PROVE  Order!Spec => []Order!NumbersGapless
<1>1. BacklogInv => Order!NumbersGapless
  BY DEF BacklogInv
<1>2. BacklogInv /\ [Order!Next]_(Order!vars) => BacklogInv'
  BY BacklogStep
<1> QED
  BY <1>1, <1>2, BacklogInit, PTL DEF Order!Spec

\* Moves exchange ranks that both rows still have under the lock, and edits
\* write other columns, so ranks stay a rearrangement of the numbers.
LEMMA BacklogRanks ==
  ASSUME Null \notin Order!Row
  PROVE  Order!Spec => []Order!RanksRearrangeNumbers
<1>1. BacklogInv => Order!RanksRearrangeNumbers
  BY DEF BacklogInv
<1>2. BacklogInv /\ [Order!Next]_(Order!vars) => BacklogInv'
  BY BacklogStep
<1> QED
  BY <1>1, <1>2, BacklogInit, PTL DEF Order!Spec

\* Neighbours are looked up under the lock: a move passes one ticket, whatever
\* the page showed.
LEMMA BacklogMoves ==
  ASSUME Null \notin Order!Row
  PROVE  Order!Spec => Order!MovesPassOneTicket
<1> DEFINE Crossed(a, b) == (item[a].rank < item[b].rank) # (item'[a].rank < item'[b].rank)
<1>1. ASSUME BacklogInv, [Order!Next]_(Order!vars), NEW t \in Order!Unplanned \intersect Order!Unplanned',
             NEW u \in Order!Unplanned \intersect Order!Unplanned', NEW v \in Order!Unplanned \intersect Order!Unplanned',
             Crossed(t, u), Crossed(t, v)
      PROVE  u = v
  <2>1. {t, u, v} \subseteq Order!Made
    BY DEF Order!Unplanned, Order!Live
  <2>2. ASSUME item'[t].rank = item[t].rank, item'[u].rank = item[u].rank
        PROVE  FALSE
    BY <1>1, <2>2
  <2>3. ASSUME OrderKept
        PROVE  u = v
    BY <2>1, <2>2, <2>3 DEF OrderKept
  <2>4. CASE UNCHANGED item
    BY <2>2, <2>4
  <2>5. ASSUME NEW r \in Request, Order!InsertTicket(r)
        PROVE  u = v
    <3>1. item'[t] = item[t] /\ item'[u] = item[u]
      BY <1>1, <2>1, <2>5 DEF Order!InsertTicket, BacklogInv, BacklogTypes, Order!Made
    <3> QED
      BY <2>2, <3>1
  <2>6. ASSUME NEW r \in Request, Order!Reorder(r)
        PROVE  u = v
    <3> DEFINE a == moving[r].ticket
    <3>1. PICK b \in Item : Order!Neighbours(a, b) /\ Exchange(a, b)
      BY <2>6 DEF Order!Reorder, Exchange
    <3> HIDE DEF a
    <3>2. a \in Order!Made /\ b \in Order!Made /\ a # b
      BY <3>1 DEF Order!Neighbours, Order!Unplanned, Order!Live
    <3>3. /\ \A w \in Item \ {a, b} : item'[w] = item[w]
          /\ item'[a].rank = item[b].rank /\ item'[b].rank = item[a].rank
      BY <1>1, <3>1, <3>2, Exchanged DEF BacklogInv
    <3>4. \A w \in Order!Unplanned \ {a, b} : (item[w].rank < item[a].rank) = (item[w].rank < item[b].rank)
      BY <3>1 DEF Order!Neighbours
    <3>5. \A w \in Order!Made : item[w].rank \in Nat
      BY <1>1, MadeType DEF BacklogInv
    <3>6. \A w, x \in Order!Made : w # x => item[w].rank # item[x].rank
      BY <1>1 DEF BacklogInv, Order!RanksRearrangeNumbers
    <3>7. ASSUME NEW w \in Order!Unplanned \ {a, b}, NEW x \in Order!Unplanned
          PROVE  ~Crossed(w, x) /\ ~Crossed(x, w)
      <4>1. item'[w] = item[w] /\ w \in Order!Made /\ x \in Order!Made /\ x \in Item
        BY <3>3, <3>7 DEF Order!Unplanned, Order!Live, Order!Made
      <4>2. CASE x \notin {a, b}
        BY <3>3, <4>1, <4>2
      <4>3. CASE x = a
        BY <3>2, <3>3, <3>4, <3>5, <3>6, <3>7, <4>1, <4>3
      <4>4. CASE x = b
        BY <3>2, <3>3, <3>4, <3>5, <3>6, <3>7, <4>1, <4>4
      <4> QED
        BY <4>2, <4>3, <4>4
    <3>8. t \in {a, b} /\ u \in {a, b} /\ v \in {a, b}
      BY <1>1, <3>7
    <3>9. u # t /\ v # t
      BY <1>1, <2>1, <3>2, <3>3, <3>5, <3>8
    <3> QED
      BY <3>8, <3>9
  <2>7. ASSUME NEW r \in Request, Order!WriteTickets(r)
        PROVE  u = v
    BY <1>1, <2>3, <2>7, WriteStep
  <2>8. CASE Order!DeleteTicket
    BY <1>1, <2>3, <2>8, DeleteStep
  <2>9. ASSUME NEW r \in Request,
               Order!Refuse(r) \/ Order!CreateTicket(r) \/ Order!MoveTicket(r) \/ Order!EditTicket(r) \/ Order!PlanBacklog(r)
        PROVE  UNCHANGED item
    BY <2>9 DEF Order!Refuse, Order!CreateTicket, Order!MoveTicket, Order!EditTicket,
       Order!PlanBacklog
  <2>10. UNCHANGED Order!vars => UNCHANGED item
    BY DEF Order!vars
  <2> QED
    BY <1>1, <2>4, <2>5, <2>6, <2>7, <2>8, <2>9, <2>10 DEF Order!Next, Order!Step
<1>2. BacklogInv /\ [Order!Next]_(Order!vars) => BacklogInv'
  BY BacklogStep
<1>3. BacklogInv /\ [Order!Next]_(Order!vars) =>
        [\A t, u, v \in Order!Unplanned \intersect Order!Unplanned' :
           Crossed(t, u) /\ Crossed(t, v) => u = v]_(Order!vars)
  BY <1>1
<1> QED
  BY <1>2, <1>3, BacklogInit, PTL DEF Order!Spec, Order!MovesPassOneTicket

----------------------------------------------------------------------------
(* The limit on signing in *)

----------------------------------------------------------------------------
(* The attempts that still count *)

\* The loop stops at the first attempt that counts: those before it do not.
LEMMA ExpiredIsFirst ==
  ASSUME NEW k \in Client, NEW times \in Seq(Limiter!Time), now \in Nat
  PROVE  /\ Limiter!Expired(k, times) \in Limiter!Stops(k, times)
         /\ \A m \in Limiter!Stops(k, times) : Limiter!Expired(k, times) <= m
<1>1. Len(times) \in Limiter!Stops(k, times)
  BY DEF Limiter!Stops
<1> DEFINE U == {0 .. n : n \in Limiter!Stops(k, times)}
           S == 0 .. Len(times)
<1>2. Limiter!Stops(k, times) \subseteq 0 .. Len(times) /\ Len(times) \in Nat
  BY DEF Limiter!Stops
<1>3. U \in SUBSET SUBSET S /\ U # {}
  BY <1>1, <1>2
<1>4. PICK T \in U : \A V \in U : V \subseteq T => V = T
  <2>1. IsFiniteSet(S)
    BY <1>2, FS_Interval
  <2> HIDE DEF U, S
  <2> QED
    BY <1>3, <2>1, SmallestSubset
<1>5. PICK n \in Limiter!Stops(k, times) : T = 0 .. n
  OBVIOUS
<1>6. ASSUME NEW m \in Limiter!Stops(k, times), m < n PROVE FALSE
  <2>1. 0 .. m \subseteq T /\ n \in T /\ n \notin 0 .. m
    BY <1>2, <1>5, <1>6
  <2> QED
    BY <1>4, <2>1
<1>7. \A m \in Limiter!Stops(k, times) : n <= m
  BY <1>2, <1>6
<1> QED
  BY <1>7 DEF Limiter!Expired

LEMMA RecentIs ==
  ASSUME NEW k \in Client, NEW times \in Seq(Limiter!Time), now \in Nat
  PROVE  /\ Limiter!Expired(k, times) \in 0 .. Len(times)
         /\ \A i \in 1 .. Limiter!Expired(k, times) : times[i] + Window(k) <= now
         /\ Limiter!Recent(k, times) \in Seq(Limiter!Time)
         /\ Len(Limiter!Recent(k, times)) = Len(times) - Limiter!Expired(k, times)
         /\ \A i \in 1 .. Len(Limiter!Recent(k, times)) : Limiter!Recent(k, times)[i] = times[Limiter!Expired(k, times) + i]
         /\ Limiter!Recent(k, times) # <<>> => Limiter!Recent(k, times)[1] + Window(k) > now
<1> DEFINE e == Limiter!Expired(k, times)
<1>1. e \in 0 .. Len(times) /\ (e < Len(times) => times[e + 1] + Window(k) > now)
  BY ExpiredIsFirst DEF Limiter!Stops, Limiter!Counts
<1>2. \A i \in 1 .. e : times[i] + Window(k) <= now
  <2> SUFFICES ASSUME NEW i \in 1 .. e PROVE times[i] + Window(k) <= now
    OBVIOUS
  <2>1. i - 1 \in 0 .. Len(times) /\ i - 1 < e /\ i - 1 < Len(times) /\ (i - 1) + 1 = i
    BY <1>1
  <2>2. i - 1 \notin Limiter!Stops(k, times)
    BY <1>1, <2>1, ExpiredIsFirst
  <2>3. ~Limiter!Counts(k, times[i])
    BY <2>1, <2>2 DEF Limiter!Stops
  <2>4. times[i] \in Nat /\ Window(k) \in Nat
    BY <1>1, LimitAssumption DEF Limiter!Time
  <2> QED
    BY <2>3, <2>4 DEF Limiter!Counts
<1> HIDE DEF e
<1>3. /\ Limiter!Recent(k, times) \in Seq(Limiter!Time)
      /\ Len(Limiter!Recent(k, times)) = Len(times) - e
      /\ \A i \in 1 .. Len(times) - e : Limiter!Recent(k, times)[i] = times[e + i]
  <2>1. Limiter!Recent(k, times) = SubSeq(times, e + 1, Len(times))
    BY DEF Limiter!Recent, e
  <2> QED
    BY <1>1, <2>1
<1>4. Limiter!Recent(k, times) # <<>> => Limiter!Recent(k, times)[1] + Window(k) > now
  <2>1. Limiter!Recent(k, times) # <<>> => e < Len(times)
    BY <1>1, <1>3
  <2> QED
    BY <1>1, <1>3, <2>1
<1> QED
  BY <1>1, <1>2, <1>3, <1>4 DEF e

----------------------------------------------------------------------------
(* What is remembered are the last of the attempts let through *)

\* What is remembered of a key (a) is the end of what was let through (p), and
\* the rest of that has expired by a time t.
Remembers(k, a, p, t) ==
  /\ Len(a) <= Len(p)
  /\ \A i \in 1 .. Len(a) : a[i] = p[Len(p) - Len(a) + i]
  /\ \A i \in 1 .. Len(p) - Len(a) : p[i] + Window(k) <= t

\* Attempts are let through in the order of time.
Ordered(p, t) ==
  /\ \A i \in 1 .. Len(p) : p[i] <= t
  /\ \A i, j \in 1 .. Len(p) : i <= j => p[i] <= p[j]

LimitInv ==
  \A k \in Client :
    /\ Remembers(k, attempts[k], passed[k], now)
    /\ Ordered(passed[k], now)
    /\ Len(attempts[k]) <= Limit(k)

\* Dropping what has expired changes none of this.
LEMMA RecentRemembered ==
  ASSUME NEW k \in Client, NEW a \in Seq(Limiter!Time), NEW p \in Seq(Limiter!Time), now \in Nat,
         Remembers(k, a, p, now)
  PROVE  Remembers(k, Limiter!Recent(k, a), p, now) /\ Len(Limiter!Recent(k, a)) <= Len(a)
<1> DEFINE r == Limiter!Recent(k, a)
           e == Limiter!Expired(k, a)
<1>1. /\ e \in 0 .. Len(a) /\ r \in Seq(Limiter!Time) /\ Len(r) = Len(a) - e
      /\ \A i \in 1 .. e : a[i] + Window(k) <= now
      /\ \A i \in 1 .. Len(r) : r[i] = a[e + i]
  BY RecentIs
<1> HIDE DEF r, e
<1>2. Len(r) <= Len(a) /\ Len(a) <= Len(p) /\ Len(p) \in Nat /\ Len(a) \in Nat /\ Len(r) \in Nat
  BY <1>1 DEF Remembers
<1>3. ASSUME NEW i \in 1 .. Len(r) PROVE r[i] = p[Len(p) - Len(r) + i]
  <2>1. e + i \in 1 .. Len(a) /\ Len(p) - Len(a) + (e + i) = Len(p) - Len(r) + i
    BY <1>1, <1>2
  <2>2. a[e + i] = p[Len(p) - Len(a) + (e + i)]
    BY <2>1 DEF Remembers
  <2> QED
    BY <1>1, <2>1, <2>2
<1>4. ASSUME NEW i \in 1 .. Len(p) - Len(r) PROVE p[i] + Window(k) <= now
  <2>1. CASE i <= Len(p) - Len(a)
    BY <1>2, <2>1 DEF Remembers
  <2>2. CASE i > Len(p) - Len(a)
    <3> DEFINE j == i - (Len(p) - Len(a))
    <3>1. j \in 1 .. e /\ j \in 1 .. Len(a) /\ Len(p) - Len(a) + j = i
      BY <1>1, <1>2, <2>2
    <3>2. a[j] = p[Len(p) - Len(a) + j]
      BY <3>1 DEF Remembers
    <3> QED
      BY <1>1, <3>1, <3>2
  <2> QED
    BY <1>2, <2>1, <2>2
<1> QED
  BY <1>2, <1>3, <1>4 DEF Remembers, r

\* An attempt let through now comes last in both.
LEMMA AnotherRemembered ==
  ASSUME NEW k \in Client, NEW a \in Seq(Limiter!Time), NEW p \in Seq(Limiter!Time),
         now \in Limiter!Time,
         Remembers(k, a, p, now), Ordered(p, now)
  PROVE  Remembers(k, Append(a, now), Append(p, now), now) /\ Ordered(Append(p, now), now)
<1> DEFINE b == Append(a, now)
           q == Append(p, now)
<1>1. /\ b \in Seq(Limiter!Time) /\ Len(b) = Len(a) + 1 /\ b[Len(a) + 1] = now
      /\ \A i \in 1 .. Len(a) : b[i] = a[i]
      /\ q \in Seq(Limiter!Time) /\ Len(q) = Len(p) + 1 /\ q[Len(p) + 1] = now
      /\ \A i \in 1 .. Len(p) : q[i] = p[i]
  OBVIOUS
<1> HIDE DEF b, q
<1>2. Len(a) \in Nat /\ Len(p) \in Nat /\ Len(a) <= Len(p) /\ now \in Nat
  BY DEF Remembers, Limiter!Time
<1>3. ASSUME NEW i \in 1 .. Len(b) PROVE b[i] = q[Len(q) - Len(b) + i]
  <2>1. CASE i = Len(a) + 1
    <3>1. Len(q) - Len(b) + i = Len(p) + 1
      BY <1>1, <1>2, <2>1
    <3> QED
      BY <1>1, <2>1, <3>1
  <2>2. CASE i # Len(a) + 1
    <3>1. i \in 1 .. Len(a) /\ Len(p) - Len(a) + i \in 1 .. Len(p)
          /\ Len(q) - Len(b) + i = Len(p) - Len(a) + i
      BY <1>1, <1>2, <2>2
    <3>2. a[i] = p[Len(p) - Len(a) + i]
      BY <3>1 DEF Remembers
    <3> QED
      BY <1>1, <3>1, <3>2
  <2> QED
    BY <2>1, <2>2
<1>4. \A i \in 1 .. Len(q) - Len(b) : q[i] + Window(k) <= now
  <2>1. Len(q) - Len(b) = Len(p) - Len(a) /\ 1 .. Len(p) - Len(a) \subseteq 1 .. Len(p)
    BY <1>1, <1>2
  <2> QED
    BY <1>1, <2>1 DEF Remembers
<1>5. Len(b) <= Len(q)
  BY <1>1, <1>2
<1>6. Ordered(q, now)
  <2>1. \A i \in 1 .. Len(q) : i = Len(p) + 1 \/ i \in 1 .. Len(p)
    BY <1>1, <1>2
  <2>2. \A i \in 1 .. Len(q) : q[i] <= now
    BY <1>1, <1>2, <2>1 DEF Ordered
  <2>3. ASSUME NEW i \in 1 .. Len(q), NEW j \in 1 .. Len(q), i <= j PROVE q[i] <= q[j]
    <3>1. CASE j = Len(p) + 1
      BY <1>1, <2>2, <3>1
    <3>2. CASE j \in 1 .. Len(p)
      <4>1. i \in 1 .. Len(p)
        BY <2>3, <3>2
      <4> QED
        BY <1>1, <2>3, <3>2, <4>1 DEF Ordered
    <3> QED
      BY <2>1, <3>1, <3>2
  <2> QED
    BY <2>2, <2>3 DEF Ordered
<1> QED
  BY <1>3, <1>4, <1>5, <1>6 DEF Remembers, b, q

----------------------------------------------------------------------------
LEMMA LimitTypeStep ==
  ASSUME Limiter!TypeOK, [Limiter!Next]_(Limiter!vars)
  PROVE  Limiter!TypeOK'
<1>1. CASE UNCHANGED Limiter!vars
  BY <1>1 DEF Limiter!vars, Limiter!TypeOK, Limiter!Time
<1>2. CASE Limiter!Tick
  BY <1>2, LimitAssumption DEF Limiter!Tick, Limiter!TypeOK, Limiter!Time
<1>3. ASSUME NEW k \in Client, Limiter!Refuse(k) PROVE Limiter!TypeOK'
  <2>1. now \in Nat /\ attempts[k] \in Seq(Limiter!Time)
    BY DEF Limiter!TypeOK, Limiter!Time
  <2>2. Limiter!Kept(k) \in Seq(Limiter!Time) /\ (attempts[k] = <<>> => Limiter!Kept(k) = <<>>)
    BY <2>1, RecentIs DEF Limiter!Kept
  <2>3. attempts' \in [Client -> Seq(Limiter!Time)]
    BY <1>3, <2>2 DEF Limiter!Refuse, Limiter!TypeOK
  <2>4. \A l \in Client : attempts'[l] # <<>> => attempts[l] # <<>>
    BY <1>3, <2>2 DEF Limiter!Refuse, Limiter!TypeOK
  <2> QED
    BY <1>3, <2>3, <2>4 DEF Limiter!Refuse, Limiter!TypeOK, Limiter!Time
<1>4. ASSUME NEW k \in Client, Limiter!Pass(k) PROVE Limiter!TypeOK'
  <2> DEFINE all == Limiter!Known(k)
             gone == IF Limiter!Crowded(all) THEN {Head(all)} ELSE {}
             counted == Append(Limiter!Recent(k, attempts[k]), now)
  <2>1. now \in Limiter!Time /\ now \in Nat /\ attempts[k] \in Seq(Limiter!Time) /\ passed[k] \in Seq(Limiter!Time)
    BY DEF Limiter!TypeOK, Limiter!Time
  <2>2. counted \in Seq(Limiter!Time) /\ Append(passed[k], now) \in Seq(Limiter!Time)
    BY <2>1, RecentIs
  <2>3. all \in Seq(Client) /\ Limiter!Range(all) = Limiter!Range(keys) \union {k}
    <3>1. keys \in Seq(Client)
      BY DEF Limiter!TypeOK
    <3>2. CASE k \in Limiter!Range(keys)
      BY <3>1, <3>2 DEF Limiter!Known
    <3>3. CASE k \notin Limiter!Range(keys)
      <4>1. all = Append(keys, k) /\ Len(all) = Len(keys) + 1 /\ all[Len(keys) + 1] = k
            /\ \A i \in 1 .. Len(keys) : all[i] = keys[i]
        BY <3>1, <3>3 DEF Limiter!Known
      <4>2. DOMAIN all = 1 .. Len(keys) + 1 /\ DOMAIN keys = 1 .. Len(keys) /\ all \in Seq(Client)
        BY <3>1, <4>1
      <4> HIDE DEF all
      <4>3. DOMAIN all = DOMAIN keys \union {Len(keys) + 1}
        BY <3>1, <4>2
      <4> QED
        BY <4>1, <4>2, <4>3 DEF Limiter!Range
    <3> QED
      BY <3>2, <3>3
  <2>4. /\ keys' = IF Limiter!Crowded(all) THEN Tail(all) ELSE all
        /\ attempts' = Limiter!Forgotten(gone, [attempts EXCEPT ![k] = counted])
        /\ passed' = [l \in Client |-> IF l \in gone THEN <<>>
                                      ELSE IF l = k THEN Append(passed[k], now) ELSE passed[l]]
        /\ now' = now
    BY <1>4 DEF Limiter!Pass
  <2> HIDE DEF all, counted
  <2>5. attempts' \in [Client -> Seq(Limiter!Time)] /\ passed' \in [Client -> Seq(Limiter!Time)]
    BY <2>2, <2>4 DEF Limiter!Forgotten, Limiter!TypeOK
  <2>6. CASE ~Limiter!Crowded(all)
    <3>1. \A l \in Client : attempts'[l] # <<>> => l \in Limiter!Range(keys')
      BY <2>3, <2>4, <2>6 DEF Limiter!Forgotten, Limiter!TypeOK
    <3> QED
      BY <2>1, <2>3, <2>4, <2>5, <2>6, <3>1 DEF Limiter!TypeOK, Limiter!Time
  <2>7. CASE Limiter!Crowded(all)
    <3>1. Len(all) > 0 /\ all # <<>>
      BY <2>3, <2>7, LimitAssumption DEF Limiter!Crowded
    <3>2. Tail(all) \in Seq(Client) /\ \A l \in Limiter!Range(all) : l = Head(all) \/ l \in Limiter!Range(Tail(all))
      <4>1. Tail(all) \in Seq(Client) /\ Len(Tail(all)) = Len(all) - 1 /\ Head(all) = all[1]
            /\ \A i \in 1 .. Len(all) - 1 : Tail(all)[i] = all[i + 1]
        BY <2>3, <3>1
      <4>2. ASSUME NEW i \in 1 .. Len(all), i # 1 PROVE all[i] \in Limiter!Range(Tail(all))
        <5>1. i - 1 \in 1 .. Len(Tail(all)) /\ (i - 1) + 1 = i
          BY <2>3, <4>1, <4>2
        <5>2. Tail(all)[i - 1] = all[i]
          BY <4>1, <5>1
        <5>3. i - 1 \in DOMAIN Tail(all)
          BY <4>1, <5>1
        <5> QED
          BY <5>2, <5>3 DEF Limiter!Range
      <4>3. DOMAIN all = 1 .. Len(all)
        BY <2>3
      <4> QED
        BY <4>1, <4>2, <4>3 DEF Limiter!Range
    <3>3. \A l \in Client : attempts'[l] # <<>> => l \in Limiter!Range(keys')
      BY <2>3, <2>4, <2>7, <3>2 DEF Limiter!Forgotten, Limiter!TypeOK
    <3> QED
      BY <2>1, <2>4, <2>5, <2>7, <3>2, <3>3 DEF Limiter!TypeOK, Limiter!Time
  <2> QED
    BY <2>6, <2>7
<1> QED
  BY <1>1, <1>2, <1>3, <1>4 DEF Limiter!Next

LEMMA LimitInitial ==
  ASSUME Limiter!Init
  PROVE  Limiter!TypeOK /\ LimitInv /\ Limiter!TableIsBounded
<1>1. Limiter!TypeOK
  BY LimitAssumption DEF Limiter!Init, Limiter!TypeOK, Limiter!Time
<1>2. \A k \in Client : attempts[k] = <<>> /\ passed[k] = <<>>
  BY DEF Limiter!Init
<1>3. \A k \in Client : Remembers(k, <<>>, <<>>, now) /\ Ordered(<<>>, now) /\ Len(<<>>) <= Limit(k)
  BY LimitAssumption DEF Remembers, Ordered
<1>4. Limiter!TableIsBounded
  BY LimitAssumption DEF Limiter!Init, Limiter!TableIsBounded
<1>5. LimitInv
  BY <1>2, <1>3 DEF LimitInv
<1> QED
  BY <1>1, <1>4, <1>5

\* Passing adds the same attempt to both, refusing drops what has expired, time
\* only expires more, and who is forgotten starts over in both.
LEMMA LimitInvStep ==
  ASSUME Limiter!TypeOK, LimitInv, [Limiter!Next]_(Limiter!vars)
  PROVE  LimitInv'
<1>0. /\ now \in Limiter!Time /\ now \in Nat
      /\ \A k \in Client : attempts[k] \in Seq(Limiter!Time) /\ passed[k] \in Seq(Limiter!Time) /\ Limit(k) \in Nat \ {0}
  BY LimitAssumption DEF Limiter!TypeOK, Limiter!Time
<1>1. CASE UNCHANGED Limiter!vars
  BY <1>1 DEF Limiter!vars, LimitInv, Remembers, Ordered
<1>2. CASE Limiter!Tick
  <2> SUFFICES ASSUME NEW k \in Client
               PROVE  /\ Remembers(k, attempts[k], passed[k], now + 1)
                      /\ Ordered(passed[k], now + 1)
                      /\ Len(attempts[k]) <= Limit(k)
    BY <1>2 DEF Limiter!Tick, LimitInv, Remembers, Ordered
  <2>1. \A i \in 1 .. Len(passed[k]) : passed[k][i] \in Nat
    BY <1>0, LimitAssumption DEF Limiter!Time
  <2>2. Window(k) \in Nat /\ Len(attempts[k]) \in Nat /\ Len(passed[k]) \in Nat
    BY <1>0, LimitAssumption
  <2>3. Remembers(k, attempts[k], passed[k], now + 1)
    <3>1. Remembers(k, attempts[k], passed[k], now)
      BY DEF LimitInv
    <3>2. \A i \in 1 .. Len(passed[k]) - Len(attempts[k]) : passed[k][i] + Window(k) <= now + 1
      <4> TAKE i \in 1 .. Len(passed[k]) - Len(attempts[k])
      <4>1. i \in 1 .. Len(passed[k])
        BY <2>2
      <4>2. passed[k][i] + Window(k) <= now
        BY <3>1 DEF Remembers
      <4> QED
        BY <1>0, <2>1, <2>2, <4>1, <4>2
    <3> QED
      BY <3>1, <3>2 DEF Remembers
  <2>4. Ordered(passed[k], now + 1)
    BY <1>0, <2>1 DEF LimitInv, Ordered
  <2> QED
    BY <2>3, <2>4 DEF LimitInv
<1>3. ASSUME NEW k \in Client, Limiter!Refuse(k) PROVE LimitInv'
  <2>1. /\ Remembers(k, Limiter!Recent(k, attempts[k]), passed[k], now)
        /\ Len(Limiter!Recent(k, attempts[k])) <= Len(attempts[k])
        /\ Limiter!Recent(k, attempts[k]) \in Seq(Limiter!Time)
    BY <1>0, RecentRemembered, RecentIs DEF LimitInv
  <2>2. Len(Limiter!Recent(k, attempts[k])) <= Limit(k)
    BY <1>0, <2>1 DEF LimitInv
  <2>3. \A l \in Client : attempts'[l] = IF l = k THEN Limiter!Recent(k, attempts[k]) ELSE attempts[l]
    BY <1>3 DEF Limiter!Refuse, Limiter!Kept, Limiter!TypeOK
  <2>4. now' = now /\ passed' = passed
    BY <1>3 DEF Limiter!Refuse
  <2>5. \A l \in Client : /\ Remembers(l, attempts'[l], passed[l], now)
                          /\ Ordered(passed[l], now)
                          /\ Len(attempts'[l]) <= Limit(l)
    BY <2>1, <2>2, <2>3 DEF LimitInv
  <2> QED
    BY <2>4, <2>5 DEF LimitInv, Remembers, Ordered
<1>4. ASSUME NEW k \in Client, Limiter!Pass(k) PROVE LimitInv'
  <2> DEFINE all == Limiter!Known(k)
             gone == IF Limiter!Crowded(all) THEN {Head(all)} ELSE {}
             r == Limiter!Recent(k, attempts[k])
  <2>1. Remembers(k, r, passed[k], now) /\ r \in Seq(Limiter!Time)
    BY <1>0, RecentRemembered, RecentIs DEF LimitInv
  <2>2. Remembers(k, Append(r, now), Append(passed[k], now), now) /\ Ordered(Append(passed[k], now), now)
    BY <1>0, <2>1, AnotherRemembered DEF LimitInv
  <2>3. Len(Append(r, now)) <= Limit(k)
    <3>1. Len(r) < Limit(k)
      BY <1>0, <1>4, <2>1 DEF Limiter!Pass, Limiter!Full
    <3> QED
      BY <1>0, <2>1, <3>1
  <2>4. /\ \A l \in Client : attempts'[l] = IF l \in gone THEN <<>>
                                           ELSE IF l = k THEN Append(r, now) ELSE attempts[l]
        /\ \A l \in Client : passed'[l] = IF l \in gone THEN <<>>
                                         ELSE IF l = k THEN Append(passed[k], now) ELSE passed[l]
        /\ now' = now
    BY <1>4 DEF Limiter!Pass, Limiter!Forgotten, Limiter!TypeOK
  <2> HIDE DEF gone, r, all
  <2>5. \A l \in Client : Remembers(l, <<>>, <<>>, now) /\ Ordered(<<>>, now) /\ Len(<<>>) <= Limit(l)
    BY <1>0 DEF Remembers, Ordered
  <2>6. \A l \in Client : /\ Remembers(l, attempts'[l], passed'[l], now)
                          /\ Ordered(passed'[l], now)
                          /\ Len(attempts'[l]) <= Limit(l)
    BY <2>2, <2>3, <2>4, <2>5 DEF LimitInv
  <2> QED
    BY <2>4, <2>6 DEF LimitInv, Remembers, Ordered
<1> QED
  BY <1>1, <1>2, <1>3, <1>4 DEF Limiter!Next

LEMMA TableStep ==
  ASSUME Limiter!TypeOK, Limiter!TableIsBounded, [Limiter!Next]_(Limiter!vars)
  PROVE  Limiter!TableIsBounded'
<1>1. CASE UNCHANGED keys
  BY <1>1 DEF Limiter!TableIsBounded
<1>2. ASSUME NEW k \in Client, Limiter!Pass(k) PROVE Limiter!TableIsBounded'
  <2> DEFINE all == Limiter!Known(k)
  <2>1. keys' = IF Limiter!Crowded(all) THEN Tail(all) ELSE all
    BY <1>2 DEF Limiter!Pass
  <2>2. keys \in Seq(Client) /\ Len(keys) <= MaxKeys /\ MaxKeys \in Nat
        /\ \A i, j \in 1 .. Len(keys) : keys[i] = keys[j] => i = j
    <3>1. keys \in Seq(Client) /\ DOMAIN keys = 1 .. Len(keys)
      BY DEF Limiter!TypeOK
    <3> QED
      BY <3>1, LimitAssumption DEF Limiter!TableIsBounded
  <2>3. all \in Seq(Client) /\ Len(all) <= MaxKeys + 1
        /\ \A i, j \in 1 .. Len(all) : all[i] = all[j] => i = j
    <3>1. CASE k \in Limiter!Range(keys)
      BY <2>2, <3>1 DEF Limiter!Known
    <3>2. CASE k \notin Limiter!Range(keys)
      <4>1. all = Append(keys, k) /\ \A i \in 1 .. Len(keys) : keys[i] # k
        BY <2>2, <3>2 DEF Limiter!Known, Limiter!Range
      <4>2. Len(all) = Len(keys) + 1 /\ all[Len(keys) + 1] = k
            /\ \A i \in 1 .. Len(keys) : all[i] = keys[i]
        BY <2>2, <4>1
      <4>3. \A i \in 1 .. Len(all) : i = Len(keys) + 1 \/ i \in 1 .. Len(keys)
        BY <2>2, <4>2
      <4> QED
        BY <2>2, <4>1, <4>2, <4>3
    <3> QED
      BY <3>1, <3>2
  <2> HIDE DEF all
  <2>4. CASE ~Limiter!Crowded(all)
    <3>1. keys' = all /\ Len(all) <= MaxKeys /\ DOMAIN all = 1 .. Len(all)
      BY <2>1, <2>2, <2>3, <2>4 DEF Limiter!Crowded
    <3> QED
      BY <2>3, <3>1 DEF Limiter!TableIsBounded
  <2>5. CASE Limiter!Crowded(all)
    <3>1. /\ Tail(all) \in Seq(Client) /\ Len(Tail(all)) = Len(all) - 1
          /\ \A i \in 1 .. Len(all) - 1 : Tail(all)[i] = all[i + 1]
      BY <2>2, <2>3, <2>5 DEF Limiter!Crowded
    <3>2. \A i, j \in 1 .. Len(Tail(all)) : Tail(all)[i] = Tail(all)[j] => i = j
      <4> SUFFICES ASSUME NEW i \in 1 .. Len(Tail(all)), NEW j \in 1 .. Len(Tail(all)),
                          Tail(all)[i] = Tail(all)[j]
                   PROVE  i = j
        OBVIOUS
      <4>1. /\ i \in 1 .. Len(all) - 1 /\ j \in 1 .. Len(all) - 1 /\ Len(all) \in Nat
        BY <2>3, <3>1
      <4>2. i + 1 \in 1 .. Len(all) /\ j + 1 \in 1 .. Len(all)
        BY <4>1
      <4>3. all[i + 1] = all[j + 1]
        BY <3>1, <4>1
      <4>4. i + 1 = j + 1
        BY <2>3, <4>2, <4>3
      <4> QED
        BY <4>1, <4>4
    <3>3. Len(Tail(all)) <= MaxKeys
      BY <2>2, <2>3, <3>1
    <3>4. keys' = Tail(all) /\ DOMAIN Tail(all) = 1 .. Len(Tail(all))
      BY <2>1, <2>5, <3>1
    <3> QED
      BY <3>1, <3>2, <3>3, <3>4 DEF Limiter!TableIsBounded
  <2> QED
    BY <2>4, <2>5
<1> QED
  BY <1>1, <1>2 DEF Limiter!Next, Limiter!Tick, Limiter!Refuse, Limiter!vars

\* Times keep their types, the table stays bounded, and what is remembered of a
\* key is the end of what was let through.
LEMMA Remembered ==
  Limiter!Spec => [](Limiter!TypeOK /\ LimitInv /\ Limiter!TableIsBounded)
<1> DEFINE I == Limiter!TypeOK /\ LimitInv /\ Limiter!TableIsBounded
<1>1. Limiter!Init => I
  BY LimitInitial
<1>2. I /\ [Limiter!Next]_(Limiter!vars) => I'
  BY LimitTypeStep, LimitInvStep, TableStep
<1> HIDE DEF I
<1>3. Limiter!Spec => []I
  BY <1>1, <1>2, PTL DEF Limiter!Spec
<1> QED
  BY <1>3 DEF I

\* The attempts of the last window are all remembered, and of those there are
\* never more than the limit.
LEMMA Within ==
  ASSUME Limiter!TypeOK, LimitInv
  PROVE  Limiter!WithinLimit
<1> SUFFICES ASSUME NEW k \in Client PROVE Limiter!InWindow(k) <= Limit(k)
  BY DEF Limiter!WithinLimit
<1> DEFINE p == passed[k]
           a == attempts[k]
           W == {i \in DOMAIN p : p[i] + Window(k) > now}
           last == Len(p) - Len(a) + 1 .. Len(p)
<1>1. p \in Seq(Limiter!Time) /\ a \in Seq(Limiter!Time) /\ now \in Nat /\ Window(k) \in Nat /\ Limit(k) \in Nat
  BY LimitAssumption DEF Limiter!TypeOK, Limiter!Time
<1>2. Remembers(k, a, p, now) /\ Len(a) <= Limit(k)
  BY DEF LimitInv
<1>3. W \subseteq last
  <2> SUFFICES ASSUME NEW i \in W, i \notin last PROVE FALSE
    OBVIOUS
  <2> HIDE DEF p, a
  <2>1. i \in 1 .. Len(p) - Len(a) /\ p[i] \in Nat
    BY <1>1, LimitAssumption DEF Limiter!Time
  <2> QED
    BY <1>1, <1>2, <2>1 DEF Remembers
<1> HIDE DEF p, a, W
<1>4. IsFiniteSet(last) /\ Cardinality(last) = Len(a)
  <2>1. Len(p) \in Nat /\ Len(a) \in Nat /\ Len(a) <= Len(p)
    BY <1>1, <1>2 DEF Remembers
  <2>2. Len(p) - Len(a) + 1 \in Int /\ Len(p) \in Int
    BY <2>1
  <2>3. IsFiniteSet(last) /\ Cardinality(last) = IF Len(p) - Len(a) + 1 > Len(p) THEN 0
                                                 ELSE Len(p) - (Len(p) - Len(a) + 1) + 1
    BY <2>2, FS_Interval
  <2> QED
    BY <2>1, <2>3
<1>5. Cardinality(W) <= Len(a) /\ Cardinality(W) \in Nat
  BY <1>3, <1>4, FS_Subset, FS_CardinalityType
<1>6. Limiter!InWindow(k) = Cardinality(W)
  BY DEF Limiter!InWindow, W, p, Limiter!Cardinality, Cardinality
<1> QED
  BY <1>1, <1>2, <1>5, <1>6

\* What still counts was let through in the window: the first still counts, and
\* the others came later.
LEMMA Free ==
  ASSUME Limiter!TypeOK, LimitInv
  PROVE  Limiter!RefusalsAreFree
<1> SUFFICES ASSUME NEW k \in Client PROVE Len(Limiter!Recent(k, attempts[k])) <= Limiter!InWindow(k)
  BY DEF Limiter!RefusalsAreFree
<1> DEFINE p == passed[k]
           r == Limiter!Recent(k, attempts[k])
           W == {i \in DOMAIN p : p[i] + Window(k) > now}
           last == Len(p) - Len(r) + 1 .. Len(p)
<1>1. p \in Seq(Limiter!Time) /\ r \in Seq(Limiter!Time) /\ now \in Nat /\ Window(k) \in Nat
  BY RecentIs, LimitAssumption DEF Limiter!TypeOK, Limiter!Time
<1>2. Remembers(k, r, p, now) /\ Ordered(p, now)
  BY RecentRemembered DEF LimitInv, Limiter!TypeOK, Limiter!Time
<1>3. r # <<>> => r[1] + Window(k) > now
  BY RecentIs DEF Limiter!TypeOK, Limiter!Time
<1> HIDE DEF p, r
<1>4. Len(p) \in Nat /\ Len(r) \in Nat /\ Len(r) <= Len(p)
  BY <1>1, <1>2 DEF Remembers
<1>5. last \subseteq W
  <2> SUFFICES ASSUME NEW i \in last PROVE i \in 1 .. Len(p) /\ p[i] + Window(k) > now
    BY <1>1
  <2> DEFINE f == Len(p) - Len(r) + 1
  <2>1. r # <<>> /\ 1 \in 1 .. Len(r) /\ f \in 1 .. Len(p) /\ i \in 1 .. Len(p) /\ f <= i
    BY <1>1, <1>4
  <2>2. r[1] = p[f]
    BY <1>2, <2>1 DEF Remembers
  <2> HIDE DEF f
  <2>3. p[f] <= p[i]
    BY <1>2, <2>1 DEF Ordered
  <2>4. p[f] \in Nat /\ p[i] \in Nat
    BY <1>1, <2>1, LimitAssumption DEF Limiter!Time
  <2> QED
    BY <1>1, <1>3, <2>1, <2>2, <2>3, <2>4
<1>6. IsFiniteSet(W)
  BY <1>1, <1>4, FS_Interval, FS_Subset
<1> HIDE DEF W
<1>7. Cardinality(last) = Len(r)
  <2>1. Len(p) - Len(r) + 1 \in Int /\ Len(p) \in Int
    BY <1>4
  <2>2. Cardinality(last) = IF Len(p) - Len(r) + 1 > Len(p) THEN 0
                            ELSE Len(p) - (Len(p) - Len(r) + 1) + 1
    BY <2>1, FS_Interval
  <2> QED
    BY <1>4, <2>2
<1>8. Cardinality(last) <= Cardinality(W)
  BY <1>5, <1>6, FS_Subset
<1>9. Limiter!InWindow(k) = Cardinality(W)
  BY DEF Limiter!InWindow, W, p, Limiter!Cardinality, Cardinality
<1> QED
  BY <1>7, <1>8, <1>9 DEF r

----------------------------------------------------------------------------
(* Every component runs by itself in the team's specification *)

Someone == INSTANCE AccountsProofs WITH account <- row, req <- visit

LEMMA TeamParts ==
  /\ TeamInit => Init /\ Order!Init /\ Limiter!Init /\ People!Init
  /\ [TeamNext]_<<part, vars, peopleVars, limitVars, orderVars>> =>
       /\ [Next]_vars
       /\ [Order!Next]_(Order!vars)
       /\ [Limiter!Next]_(Limiter!vars)
       /\ [People!Next]_(People!vars)
BY DEF TeamInit, TeamNext, Alone, vars, memberVars, peopleVars, limitVars, orderVars, Order!vars,
   Limiter!vars, People!vars

\* AccountsProofs is about its own copy of Accounts, which is the team's.
LEMMA SamePeople ==
  /\ Someone!Init <=> People!Init
  /\ [Someone!Next]_(Someone!vars) <=> [People!Next]_(People!vars)
  /\ Someone!TypeOK <=> People!TypeOK
BY DEF Someone!Account, People!Account, Someone!At, People!At, Someone!ByCookie, People!ByCookie,
   Someone!ByToken, People!ByToken, Someone!ChangePassword, People!ChangePassword,
   Someone!Column, People!Column, Someone!DeleteAccount, People!DeleteAccount,
   Someone!FindToken, People!FindToken, Someone!Finish, People!Finish, Someone!Free,
   People!Free, Someone!Goto, People!Goto, Someone!HasPassword, People!HasPassword,
   Someone!Idle, People!Idle, Someone!Init, People!Init, Someone!IssueToken, People!IssueToken,
   Someone!LetIn, People!LetIn, Someone!Login, People!Login, Someone!LoseCookie,
   People!LoseCookie, Someone!NewToken, People!NewToken, Someone!Next, People!Next,
   Someone!Nullable, People!Nullable, Someone!Refuse, People!Refuse, Someone!Register,
   People!Register, Someone!Registered, People!Registered, Someone!RequestState,
   People!RequestState,
   Someone!RevokeToken, People!RevokeToken, Someone!SignedIn, People!SignedIn,
   Someone!Step, People!Step,
   Someone!TokenAges, People!TokenAges, Someone!TokenRow, People!TokenRow, Someone!TokensLeft,
   People!TokensLeft, Someone!TouchToken, People!TouchToken, Someone!Touched, People!Touched,
   Someone!TypeOK, People!TypeOK, Someone!UpdateProfile, People!UpdateProfile, Someone!Usable,
   People!Usable, Someone!vars, People!vars

LEMMA SameRevocation == Someone!RevocationIsFinal => People!RevocationIsFinal
BY DEF Someone!RevocationIsFinal, People!RevocationIsFinal, Someone!vars, People!vars

LEMMA SameSignIn == Someone!SignedInAreActive => People!SignedInAreActive
BY DEF Someone!SignedInAreActive, People!SignedInAreActive, Someone!vars, People!vars

LEMMA TeamRuns == TeamSpec => Spec /\ Order!Spec /\ Limiter!Spec /\ Someone!Spec
BY TeamParts, SamePeople, PTL DEF TeamSpec, Spec, Order!Spec, Limiter!Spec, Someone!Spec

LEMMA PeopleAssumption == Someone!NullIsNoRow
BY NothingIsNull DEF Someone!NullIsNoRow, Someone!Account, Someone!TokenRow, People!Account,
   People!TokenRow, Someone!Nullable, People!Nullable

\* Accounts, tokens, attempts and rows of the backlog keep their types.
THEOREM TeamTyped == TeamSpec => []TypesOK
<1>1. Order!Spec => []Order!TypeOK
  BY NothingIsNull, BacklogTyped
<1>2. Limiter!Spec => []Limiter!TypeOK
  BY Remembered, PTL
<1>3. Someone!Spec => []Someone!TypeOK
  BY PeopleAssumption, Someone!TypeCorrect
<1>4. Order!TypeOK /\ Limiter!TypeOK /\ Someone!TypeOK => TypesOK
  BY SamePeople DEF TypesOK
<1> QED
  BY <1>1, <1>2, <1>3, <1>4, TeamRuns, PTL

\* The numbers given out are 1, 2, 3 and so on, each once, although tickets are
\* created at the same time and inserts fail.
THEOREM Gapless == TeamSpec => []NumbersGapless
<1>1. Order!Spec => []Order!NumbersGapless
  BY NothingIsNull, BacklogGapless
<1> QED
  BY <1>1, TeamRuns, PTL DEF NumbersGapless

\* The backlog has one order: the ranks of its tickets are always a rearrangement
\* of their numbers, whatever moves and edits overlap.
THEOREM OneOrder == TeamSpec => []RanksRearrangeNumbers
<1>1. Order!Spec => []Order!RanksRearrangeNumbers
  BY NothingIsNull, BacklogRanks
<1> QED
  BY <1>1, TeamRuns, PTL DEF RanksRearrangeNumbers

\* A move passes one ticket: none of those that stay in the backlog changes places
\* with two others in one step.
THEOREM OneTicketPassed == TeamSpec => MovesPassOneTicket
<1>1. Order!Spec => Order!MovesPassOneTicket
  BY NothingIsNull, BacklogMoves
<1> QED
  BY <1>1, TeamRuns, PTL DEF MovesPassOneTicket

\* In no window, wherever it begins, are more attempts of a key let through than
\* its limit, unless the process forgets the key in it.
THEOREM LimitHolds == TeamSpec => []WithinLimit
<1>1. Limiter!TypeOK /\ LimitInv => WithinLimit
  BY Within DEF WithinLimit
<1> QED
  BY <1>1, Remembered, TeamRuns, PTL

\* Only attempts that were let through count against a key: the ones turned away
\* leave no trace, so whoever waits is let in again.
THEOREM RefusalsFree == TeamSpec => []RefusalsAreFree
<1>1. Limiter!TypeOK /\ LimitInv => RefusalsAreFree
  BY Free DEF RefusalsAreFree
<1> QED
  BY <1>1, Remembered, TeamRuns, PTL

\* The table of attempts stays bounded and knows each key once.
THEOREM TableBounded == TeamSpec => []TableIsBounded
<1>1. Limiter!TableIsBounded => TableIsBounded
  BY DEF TableIsBounded
<1> QED
  BY <1>1, Remembered, TeamRuns, PTL

\* A token that was revoked is never valid again.
THEOREM RevokedForGood == TeamSpec => RevocationIsFinal
<1>1. Someone!Spec => Someone!RevocationIsFinal
  BY PeopleAssumption, Someone!RevokedForGood
<1> QED
  BY <1>1, SameRevocation, TeamRuns, PTL DEF RevocationIsFinal

\* Whoever a request signs in has an active account at that moment.
THEOREM ActiveWhenLetIn == TeamSpec => SignedInAreActive
<1>1. Someone!Spec => Someone!SignedInAreActive
  BY PeopleAssumption, Someone!ActiveWhenLetIn
<1> QED
  BY <1>1, SameSignIn, TeamRuns, PTL DEF SignedInAreActive
=============================================================================
