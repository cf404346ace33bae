----------------------------- MODULE Membership -----------------------------
(***************************************************************************)
(* Accounts, projects, their members and the people tickets are assigned    *)
(* to. A request reads its user, then the user's membership, and then acts. *)
(* Changing or removing a member and deleting an account take the write     *)
(* lock before they look at the owners (begin_write), so they are one step; *)
(* adding a member, creating a project or a ticket and assigning a ticket   *)
(* write what they have read without it.                                    *)
(***************************************************************************)
CONSTANTS
  User,     \* ids of registered users
  Project,  \* ids of projects
  Ticket,   \* ids of tickets
  Request,  \* requests that can be in flight at once
  Null      \* SQL NULL


VARIABLES
  account,   \* "active", or "deleted" once user.deleted_at is set
  personal,  \* users whose row carries an address of their own
  phase,     \* whether a project's row is yet to be inserted, live or deleted
  role,      \* project_member: the role of each user in each project
  home,      \* the project of a ticket, once inserted; its row lives as long
  assignee,  \* ticket.assignee_id
  req        \* where each request stands and what it has read

userVars   == <<account, personal>>
memberVars == <<phase, role>>
ticketVars == <<home, assignee>>
vars       == <<userVars, memberVars, ticketVars, req>>

----------------------------------------------------------------------------
Nullable(S) == S \union {Null}

Role == {"OWNER", "MEMBER"}

ASSUME NullAssumption == Null \notin User \union Project \union Role

Owners(p) == {u \in User : role[p][u] = "OWNER"}

\* _owner_count(session, project_id) == 1
OneOwner(p) == \E u \in User : Owners(p) = {u}

Live(t) == home[t] \in Project /\ phase[home[t]] = "live"

\* A column after the ORM's UPDATE: it is written only where the attribute
\* differs from the value loaded, over whatever the row holds by then.
Column(now, loaded, edited) == IF edited = loaded THEN now ELSE edited

\* The tickets of the projects P assigned to u are assigned to nobody.
MutUnassigned(u, P) == assignee

Unassigned(u, P) ==
  [t \in Ticket |-> IF home[t] \in P /\ assignee[t] = u THEN Null ELSE assignee[t]]

Idle == [at |-> "idle"]

RequestState ==
  {Idle}
  \union [at : {"signed.in"}, user : User]
  \union [at : {"add"}, project : Project, role : Role]
  \union [at : {"insert.member"}, project : Project, user : User, role : Role]
  \union [at : {"change"}, project : Project, user : User, role : Role, own : BOOLEAN]
  \union [at : {"remove"}, project : Project, user : User, own : BOOLEAN]
  \union [at : {"delete.project"}, project : Project]
  \union [at : {"new.ticket"}, project : Project]
  \union [at : {"insert.ticket"}, project : Project, assignee : Nullable(User)]
  \union [at : {"edit.ticket", "write.ticket"}, ticket : Ticket,
          loaded : Nullable(User), edited : Nullable(User)]

At(r, point) == req[r].at = point

Goto(r, there) == req' = [req EXCEPT ![r] = there]

Finish(r) == Goto(r, Idle)

----------------------------------------------------------------------------
Init ==
  /\ account = [u \in User |-> "active"]
  /\ personal = User
  /\ phase = [p \in Project |-> "unborn"]
  /\ role = [p \in Project |-> [u \in User |-> Null]]
  /\ home = [t \in Ticket |-> Null]
  /\ assignee = [t \in Ticket |-> Null]
  /\ req = [r \in Request |-> Idle]

\* A request that has written nothing may end without effect at any point: a
\* check or constraint refuses it, the lock times out, or the server stops.
Refuse(r) ==
  /\ req[r] # Idle
  /\ Finish(r)
  /\ UNCHANGED <<userVars, memberVars, ticketVars>>

\* current_user
SignIn(r) ==
  /\ req[r] = Idle
  /\ \E u \in User :
       /\ account[u] = "active"
       /\ Goto(r, [at |-> "signed.in", user |-> u])
  /\ UNCHANGED <<userVars, memberVars, ticketVars>>

\* project_owner
MutAsOwner(r, p) == At(r, "signed.in")

AsOwner(r, p) == At(r, "signed.in") /\ role[p][req[r].user] = "OWNER"

\* project_writer
AsMember(r, p) == At(r, "signed.in") /\ role[p][req[r].user] # Null

----------------------------------------------------------------------------
(* Accounts *)

\* update_user_profile with a new address: the row is written by id, whether
\* deleted since or not. A form that leaves the address alone writes none.
UpdateProfile(r) ==
  /\ At(r, "signed.in")
  /\ personal' = personal \union {req[r].user}
  /\ Finish(r)
  /\ UNCHANGED <<account, memberVars, ticketVars>>

\* The sole-owner check of delete_account, made under the write lock.
MutMayLeave(u) == TRUE

MayLeave(u) == \A p \in Project : role[p][u] = "OWNER" => ~OneOwner(p)

DeleteAccount(r) ==
  LET u == req[r].user IN
  /\ At(r, "signed.in")
  /\ MayLeave(u)
  /\ assignee' = Unassigned(u, Project)
  /\ role' = [p \in Project |-> [role[p] EXCEPT ![u] = Null]]
  /\ personal' = personal \ {u}
  /\ account' = [account EXCEPT ![u] = "deleted"]
  /\ Finish(r)
  /\ UNCHANGED <<phase, home>>

----------------------------------------------------------------------------
(* Projects *)

CreateProject(r) ==
  /\ At(r, "signed.in")
  /\ \E p \in Project :
       /\ phase[p] = "unborn"
       /\ phase' = [phase EXCEPT ![p] = "live"]
       /\ role' = [role EXCEPT ![p][req[r].user] = "OWNER"]
  /\ Finish(r)
  /\ UNCHANGED <<userVars, ticketVars>>

DeleteProject(r) ==
  /\ \E p \in Project :
       /\ AsOwner(r, p)
       /\ Goto(r, [at |-> "delete.project", project |-> p])
  /\ UNCHANGED <<userVars, memberVars, ticketVars>>

\* Everything of the project goes in one transaction.
RemoveProject(r) ==
  LET p == req[r].project IN
  /\ At(r, "delete.project")
  /\ phase' = [phase EXCEPT ![p] = "deleted"]
  /\ role' = [role EXCEPT ![p] = [u \in User |-> Null]]
  /\ assignee' = [t \in Ticket |-> IF home[t] = p THEN Null ELSE assignee[t]]
  /\ Finish(r)
  /\ UNCHANGED <<userVars, home>>

----------------------------------------------------------------------------
(* Members *)

AddMember(r) ==
  /\ \E p \in Project, w \in Role :
       /\ AsOwner(r, p)
       /\ Goto(r, [at |-> "add", project |-> p, role |-> w])
  /\ UNCHANGED <<userVars, memberVars, ticketVars>>

\* The user is looked up by address, and a deleted account has lost its own.
\* The look for an existing row that follows refuses nothing that the unique
\* constraint would let through.
FindUser(r) ==
  /\ At(r, "add")
  /\ \E u \in personal :
       Goto(r, [at |-> "insert.member", project |-> req[r].project, user |-> u,
                role |-> req[r].role])
  /\ UNCHANGED <<userVars, memberVars, ticketVars>>

\* The foreign key project_member.project_id.
Referenced(p) == phase[p] = "live"

InsertMember(r) ==
  LET p == req[r].project
      u == req[r].user
  IN
  /\ At(r, "insert.member")
  /\ Referenced(p)
  /\ role[p][u] = Null
  /\ role' = [role EXCEPT ![p][u] = req[r].role]
  /\ Finish(r)
  /\ UNCHANGED <<userVars, phase, ticketVars>>

ChangeMember(r) ==
  /\ \E p \in Project, u \in User, w \in Role :
       /\ AsOwner(r, p)
       /\ Goto(r, [at |-> "change", project |-> p, user |-> u, role |-> w,
                   own |-> u = req[r].user])
  /\ UNCHANGED <<userVars, memberVars, ticketVars>>

\* The role the code sees in the member's row. Its own row the session loaded as
\* OWNER for the access check, and the later SELECT does not load it again,
\* unless that row was removed and another inserted since.
Seen(r) ==
  LET now == role[req[r].project][req[r].user]
  IN  IF req[r].own /\ now # Null THEN {now, "OWNER"} ELSE {now}

\* The last-owner check of update_project_member and remove_project_member.
MutKeepsAnOwner(p, seen) == TRUE

KeepsAnOwner(p, seen) == seen = "OWNER" => ~OneOwner(p)

WriteRole(r) ==
  LET p == req[r].project
      u == req[r].user
      w == req[r].role
  IN
  /\ At(r, "change")
  /\ role[p][u] # Null
  /\ \E seen \in Seen(r) :
       /\ w # "OWNER" => KeepsAnOwner(p, seen)
       /\ role' = [role EXCEPT ![p][u] = Column(@, seen, w)]
  /\ Finish(r)
  /\ UNCHANGED <<userVars, phase, ticketVars>>

RemoveMember(r) ==
  /\ \E p \in Project, u \in User :
       /\ AsOwner(r, p)
       /\ Goto(r, [at |-> "remove", project |-> p, user |-> u, own |-> u = req[r].user])
  /\ UNCHANGED <<userVars, memberVars, ticketVars>>

DeleteMember(r) ==
  LET p == req[r].project
      u == req[r].user
  IN
  /\ At(r, "remove")
  /\ role[p][u] # Null
  /\ \E seen \in Seen(r) : KeepsAnOwner(p, seen)
  /\ assignee' = Unassigned(u, {p})
  /\ role' = [role EXCEPT ![p][u] = Null]
  /\ Finish(r)
  /\ UNCHANGED <<userVars, phase, home>>

----------------------------------------------------------------------------
(* Assigned tickets *)

CreateTicket(r) ==
  /\ \E p \in Project :
       /\ AsMember(r, p)
       /\ Goto(r, [at |-> "new.ticket", project |-> p])
  /\ UNCHANGED <<userVars, memberVars, ticketVars>>

\* validate_assignee
ValidAssignee(p, a) == a # Null => role[p][a] # Null

ValidateNew(r) ==
  /\ At(r, "new.ticket")
  /\ \E a \in Nullable(User) :
       /\ ValidAssignee(req[r].project, a)
       /\ Goto(r, [at |-> "insert.ticket", project |-> req[r].project, assignee |-> a])
  /\ UNCHANGED <<userVars, memberVars, ticketVars>>

InsertTicket(r) ==
  LET p == req[r].project IN
  /\ At(r, "insert.ticket")
  /\ Referenced(p)
  /\ \E t \in Ticket :
       /\ home[t] = Null
       /\ home' = [home EXCEPT ![t] = p]
       /\ assignee' = [assignee EXCEPT ![t] = req[r].assignee]
  /\ Finish(r)
  /\ UNCHANGED <<userVars, memberVars>>

\* The two routes read the membership and the ticket in different orders.
EditTicket(r) ==
  /\ \E t \in Ticket, a \in Nullable(User) :
       /\ Live(t)
       /\ AsMember(r, home[t])
       /\ Goto(r, [at |-> "edit.ticket", ticket |-> t, loaded |-> assignee[t], edited |-> a])
  /\ UNCHANGED <<userVars, memberVars, ticketVars>>

ValidateEdit(r) ==
  /\ At(r, "edit.ticket")
  /\ ValidAssignee(home[req[r].ticket], req[r].edited)
  /\ Goto(r, [req[r] EXCEPT !.at = "write.ticket"])
  /\ UNCHANGED <<userVars, memberVars, ticketVars>>

WriteTicket(r) ==
  LET t == req[r].ticket IN
  /\ At(r, "write.ticket")
  /\ Live(t)
  /\ assignee' = [assignee EXCEPT ![t] = Column(@, req[r].loaded, req[r].edited)]
  /\ Finish(r)
  /\ UNCHANGED <<userVars, memberVars, home>>

----------------------------------------------------------------------------
Step(r) ==
  \/ Refuse(r) \/ SignIn(r)
  \/ UpdateProfile(r) \/ DeleteAccount(r)
  \/ CreateProject(r) \/ DeleteProject(r) \/ RemoveProject(r)
  \/ AddMember(r) \/ FindUser(r) \/ InsertMember(r)
  \/ ChangeMember(r) \/ WriteRole(r)
  \/ RemoveMember(r) \/ DeleteMember(r)
  \/ CreateTicket(r) \/ ValidateNew(r) \/ InsertTicket(r)
  \/ EditTicket(r) \/ ValidateEdit(r) \/ WriteTicket(r)

Next == \E r \in Request : Step(r)

Spec == Init /\ [][Next]_vars

----------------------------------------------------------------------------
(* Properties *)

\* A request past its access check is about a project, or a ticket, that has
\* been inserted.
PlacesOK ==
  \A r \in Request :
    /\ req[r].at \in {"add", "insert.member", "change", "remove", "delete.project",
                     "new.ticket", "insert.ticket"}
         => phase[req[r].project] # "unborn"
    /\ req[r].at \in {"edit.ticket", "write.ticket"} => home[req[r].ticket] \in Project

\* The tables hold rows of their schema, and a request at a given point holds
\* the values read on the way there.
TypeOK ==
  /\ account \in [User -> {"active", "deleted"}]
  /\ personal \subseteq User
  /\ phase \in [Project -> {"unborn", "live", "deleted"}]
  /\ role \in [Project -> [User -> Nullable(Role)]]
  /\ home \in [Ticket -> Nullable(Project)]
  /\ assignee \in [Ticket -> Nullable(User)]
  /\ req \in [Request -> RequestState]
  /\ PlacesOK

\* A project always has an owner, whichever owners demote, remove and delete
\* themselves and each other at once: the last-owner checks run under the lock.
OwnersRemain == \A p \in Project : phase[p] = "live" => Owners(p) # {}

\* Nothing is left of a deleted project and nothing appears in it, although a
\* member or ticket may be on its way when the project goes.
NoStrays ==
  /\ \A p \in Project : phase[p] # "live" => \A u \in User : role[p][u] = Null
  /\ \A t \in Ticket : ~Live(t) => assignee[t] = Null

MembershipInv == OwnersRemain /\ NoStrays

\* Seen from its owners alone, the application does what Governance promises: a
\* project that has not been deleted never loses its last owner.
Promise == INSTANCE Governance WITH
  founded <- {p \in Project : phase[p] # "unborn"},
  dissolved <- {p \in Project : phase[p] = "deleted"},
  owners <- [p \in Project |-> Owners(p)]

OwnersAreGoverned == Promise!Spec

\* Whoever loses a membership, by removal, with the account or with the
\* project, is assigned to none of the project's tickets right afterwards.
LeaversAreUnassigned ==
  [][\A p \in Project, u \in User :
       role[p][u] # Null /\ role'[p][u] = Null
         => \A t \in Ticket : home'[t] = p => assignee'[t] # u]_vars

----------------------------------------------------------------------------
(* What the documentation says and the code does not keep *)

\* assignee_id "must be a member of the same project"
\* (docs/product-specification.md).
AssigneesAreMembers ==
  \A t \in Ticket : Live(t) /\ assignee[t] # Null => role[home[t]][assignee[t]] # Null

\* "Anonymize the user and remove their access" (delete_account): a deleted
\* account keeps neither an address of its own nor a membership.
DeletedAccountsAreGone ==
  \A u \in User : account[u] = "deleted" =>
    /\ u \notin personal
    /\ \A p \in Project : role[p][u] = Null
=============================================================================
