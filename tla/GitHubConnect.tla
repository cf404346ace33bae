--------------------------- MODULE GitHubConnect ---------------------------
(***************************************************************************)
(* Connecting projects to GitHub. An owner is sent to GitHub and back three *)
(* times (install the app, authorize, choose repositories), each time with  *)
(* a fresh state that may be used once. States are checked first and then   *)
(* claimed by an UPDATE that only an unused row satisfies. A project is     *)
(* bound to one installation, and a selection activates repositories of it. *)
(***************************************************************************)
CONSTANTS
  User,          \* ids of registered users
  Project,       \* ids of projects
  Installation,  \* installations of the GitHub App
  Repo,          \* repositories on GitHub
  State,         \* rows a connect state can take; bounds the states issued
  Request,       \* requests that can be in flight at once
  Null           \* SQL NULL

VARIABLES
  owners,   \* project_member: the users who own each project
  state,    \* github_connect_state
  known,    \* github_installation: the installations that have been recorded
  binding,  \* project_github_connection.installation_id
  repo,     \* project_github_repository: its rows, by project and repository
  req       \* where each request stands and what it has read

tables == <<owners, state, known, binding, repo>>
vars   == <<tables, req>>

----------------------------------------------------------------------------
Nullable(S) == S \union {Null}

ConnectState == [project : Project, user : User, pending : Nullable(Installation),
                 life : {"fresh", "expired", "used"}]

Row == [installation : Installation, active : BOOLEAN]

Idle == [at |-> "idle"]

\* What a request does with the state it brings.
Endpoint == {"setup", "callback", "selection"}

RequestState ==
  {Idle}
  \union [at : {"claim"}, state : State, for : Endpoint]
  \union [at : Endpoint \union {"recorded"}, state : State]
  \union [at : {"bind"}, state : State, chosen : SUBSET Repo]
  \union [at : {"save"}, state : State, chosen : SUBSET Repo,
          loaded : [Repo -> Nullable(Row)]]
  \union [at : {"disconnect"}, project : Project, loaded : [Repo -> Nullable(Row)]]

At(r, point) == req[r].at = point

\* The state a request has claimed.
PastClaim(r) == req[r].at \in Endpoint \union {"recorded", "bind", "save"}

Of(r) == state[req[r].state]

Goto(r, there) == req' = [req EXCEPT ![r] = there]

Finish(r) == Goto(r, Idle)

\* A column after the ORM's UPDATE: it is written only where the attribute
\* differs from the value loaded, over whatever the row holds by then.
Column(now, loaded, edited) == IF edited = loaded THEN now ELSE edited

SetActive(now, loaded, on) == [now EXCEPT !.active = Column(@, loaded.active, on)]

----------------------------------------------------------------------------
\* Installations may be known from projects connected before.
Init ==
  /\ owners = [p \in Project |-> User]
  /\ state = [s \in State |-> Null]
  /\ known \in SUBSET Installation
  /\ binding = [p \in Project |-> Null]
  /\ repo = [p \in Project |-> [g \in Repo |-> Null]]
  /\ req = [r \in Request |-> Idle]

\* Where GitHub refuses or does not answer, a check fails, or another request
\* was faster, a request ends and leaves what it has committed.
Refuse(r) ==
  /\ req[r] # Idle
  /\ Finish(r)
  /\ UNCHANGED tables

ChangeOwner ==
  /\ \E p \in Project, u \in User :
       owners' = [owners EXCEPT ![p] = IF u \in @ THEN @ \ {u} ELSE @ \union {u}]
  /\ UNCHANGED <<state, known, binding, repo, req>>

----------------------------------------------------------------------------
(* One-time states *)

\* issue_github_state
Issue(p, u, pending) ==
  \E s \in State :
    /\ state[s] = Null
    /\ state' = [state EXCEPT ![s] = [project |-> p, user |-> u, pending |-> pending,
                                      life |-> "fresh"]]

StartConnect(r) ==
  /\ req[r] = Idle
  /\ \E p \in Project : \E u \in owners[p] : Issue(p, u, Null)
  /\ UNCHANGED <<owners, known, binding, repo, req>>

\* Ten minutes pass.
Expire ==
  /\ \E s \in State :
       /\ state[s] # Null
       /\ state[s].life = "fresh"
       /\ state' = [state EXCEPT ![s].life = "expired"]
  /\ UNCHANGED <<owners, known, binding, repo, req>>

\* _validated_github_state: the state has been issued, is unused and fresh, and
\* its user owns the project.
MutValid(s) == TRUE

Valid(s) ==
  /\ state[s] # Null
  /\ state[s].life = "fresh"
  /\ state[s].user \in owners[state[s].project]

\* Only a valid state is brought to the claim.
Bring(r) ==
  /\ req[r] = Idle
  /\ \E s \in State, for \in Endpoint :
       /\ Valid(s)
       /\ Goto(r, [at |-> "claim", state |-> s, for |-> for])
  /\ UNCHANGED tables

\* consume_github_state: UPDATE ... WHERE consumed_at IS NULL, expired or not
MutUnused(s) == TRUE

Unused(s) == state[s].life # "used"

Claim(r) ==
  LET s == req[r].state IN
  /\ At(r, "claim")
  /\ Unused(s)
  /\ state' = [state EXCEPT ![s].life = "used"]
  /\ Goto(r, [at |-> req[r].for, state |-> s])
  /\ UNCHANGED <<owners, known, binding, repo>>

----------------------------------------------------------------------------
(* Back from GitHub *)

\* github_setup: the installation GitHub names goes into the next state.
Setup(r) ==
  /\ At(r, "setup")
  /\ \E i \in Installation : Issue(Of(r).project, Of(r).user, i)
  /\ Finish(r)
  /\ UNCHANGED <<owners, known, binding, repo>>

\* save_installation: inserted, or found and updated
Recorded(i) == known \union {i}

\* github_oauth_callback, once GitHub has confirmed the installation
RecordInstallation(r) ==
  /\ At(r, "callback")
  /\ Of(r).pending # Null
  /\ known' = Recorded(Of(r).pending)
  /\ Goto(r, [at |-> "recorded", state |-> req[r].state])
  /\ UNCHANGED <<owners, state, binding, repo>>

IssueSelection(r) ==
  /\ At(r, "recorded")
  /\ Issue(Of(r).project, Of(r).user, Of(r).pending)
  /\ Finish(r)
  /\ UNCHANGED <<owners, known, binding, repo>>

----------------------------------------------------------------------------
(* Choosing repositories *)

\* _github_selection_installation: the state names one that has been recorded.
Selectable(r) == Of(r).pending \in known

\* save_github_repository_selection: of those GitHub says the installation has
Choose(r) ==
  /\ At(r, "selection")
  /\ Selectable(r)
  /\ \E chosen \in SUBSET Repo :
       Goto(r, [at |-> "bind", state |-> req[r].state, chosen |-> chosen])
  /\ UNCHANGED tables

\* project_github_connection.project_id is the primary key.
MutUnbound(p) == TRUE

Unbound(p) == binding[p] = Null

\* The insert of the binding takes the lock, so the rest follows in one step.
FirstBinding(r) ==
  LET p == Of(r).project
      i == Of(r).pending
  IN
  /\ At(r, "bind")
  /\ Unbound(p)
  /\ binding' = [binding EXCEPT ![p] = i]
  /\ repo' = [repo EXCEPT ![p] = [g \in Repo |->
       IF g \in req[r].chosen THEN [installation |-> i, active |-> TRUE]
       ELSE IF @[g] = Null THEN Null ELSE [@[g] EXCEPT !.active = FALSE]]]
  /\ Finish(r)
  /\ UNCHANGED <<owners, state, known>>

\* A binding found at once, or after losing the race to insert it, must be to
\* the same installation.
MutAgrees(bound, i) == bound # Null

Agrees(bound, i) == bound = i

FindBinding(r) ==
  LET p == Of(r).project IN
  /\ At(r, "bind")
  /\ Agrees(binding[p], Of(r).pending)
  /\ Goto(r, [at |-> "save", state |-> req[r].state, chosen |-> req[r].chosen,
              loaded |-> repo[p]])
  /\ UNCHANGED tables

SaveSelection(r) ==
  LET p == Of(r).project
      chosen == req[r].chosen
      loaded == req[r].loaded
  IN
  /\ At(r, "save")
  /\ \A g \in chosen : loaded[g] = Null => repo[p][g] = Null
  /\ repo' = [repo EXCEPT ![p] = [g \in Repo |->
       IF loaded[g] # Null THEN SetActive(@[g], loaded[g], g \in chosen)
       ELSE IF g \in chosen THEN [installation |-> Of(r).pending, active |-> TRUE]
       ELSE @[g]]]
  /\ Finish(r)
  /\ UNCHANGED <<owners, state, known, binding>>

----------------------------------------------------------------------------
(* Disconnecting *)

\* disconnect_project_github reads the rows and writes them back.
Disconnect(r) ==
  /\ req[r] = Idle
  /\ \E p \in Project :
       /\ owners[p] # {}
       /\ Goto(r, [at |-> "disconnect", project |-> p, loaded |-> repo[p]])
  /\ UNCHANGED tables

WriteDisconnect(r) ==
  LET p == req[r].project
      loaded == req[r].loaded
  IN
  /\ At(r, "disconnect")
  /\ repo' = [repo EXCEPT ![p] = [g \in Repo |->
       IF loaded[g] = Null THEN @[g] ELSE SetActive(@[g], loaded[g], FALSE)]]
  /\ Finish(r)
  /\ UNCHANGED <<owners, state, known, binding>>

\* The webhook of an installation that was deleted, suspended, or lost some
\* repositories, under the write lock.
Removed ==
  /\ \E i \in Installation, R \in SUBSET Repo :
       repo' = [p \in Project |-> [g \in Repo |->
         IF g \in R /\ repo[p][g] # Null /\ repo[p][g].installation = i
         THEN [repo[p][g] EXCEPT !.active = FALSE]
         ELSE repo[p][g]]]
  /\ UNCHANGED <<owners, state, known, binding, req>>

----------------------------------------------------------------------------
Step(r) ==
  \/ Refuse(r)
  \/ StartConnect(r) \/ Bring(r) \/ Claim(r)
  \/ Setup(r) \/ RecordInstallation(r) \/ IssueSelection(r)
  \/ Choose(r) \/ FirstBinding(r) \/ FindBinding(r) \/ SaveSelection(r)
  \/ Disconnect(r) \/ WriteDisconnect(r)

Next ==
  \/ ChangeOwner \/ Expire \/ Removed
  \/ \E r \in Request : Step(r)

Spec == Init /\ [][Next]_vars

----------------------------------------------------------------------------
(* Properties *)

\* Rows and requests keep their types, and a request only carries a state that
\* has been issued.
TypeOK ==
  /\ owners \in [Project -> SUBSET User]
  /\ state \in [State -> Nullable(ConnectState)]
  /\ known \subseteq Installation
  /\ binding \in [Project -> Nullable(Installation)]
  /\ repo \in [Project -> [Repo -> Nullable(Row)]]
  /\ req \in [Request -> RequestState]
  /\ \A r \in Request : At(r, "claim") \/ PastClaim(r) => Of(r) # Null

\* A connect state serves one request: whoever brings it twice, at once or one
\* after the other, is past the claim with it only once.
StatesServeOnce ==
  \A r \in Request : PastClaim(r) =>
    /\ Of(r).life = "used"
    /\ \A q \in Request \ {r} : PastClaim(q) => req[q].state # req[r].state

\* Selections for two installations race for a project: the first binds it for
\* good, and no row of the other ever appears in it.
OneInstallation ==
  /\ \A p \in Project, g \in Repo :
       repo[p][g] # Null => repo[p][g].installation = binding[p]
  /\ \A r \in Request : At(r, "save") => binding[Of(r).project] = Of(r).pending

\* What a project is bound to never changes, whoever selects or disconnects later.
BindingIsFinal ==
  [][\A p \in Project : binding[p] # Null => binding'[p] = binding[p]]_vars
=============================================================================
