----------------------------- MODULE GitHubSync -----------------------------
(***************************************************************************)
(* Pull requests of a project's repository, as GitHub's webhook deliveries  *)
(* and the owner's manual sync report them, and the tickets they mention.   *)
(* A delivery takes the write lock, claims its id, applies its event and    *)
(* commits: it is one step, and a failure anywhere undoes all of it. GitHub *)
(* delivers events late, in any order and again. A sync reads GitHub and a  *)
(* first row before it has the lock, as do people who change a status.      *)
(***************************************************************************)
CONSTANTS
  Ticket,    \* ids of the project's tickets
  Pull,      \* pull requests
  Head,      \* commits a pull request may point to
  Commit,    \* commits that are pushed
  Names(_),  \* the tickets a pushed commit's message names
  Delivery,  \* delivery ids; bounds the events GitHub sends
  Request,   \* requests that can be in flight at once
  Null       \* SQL NULL

VARIABLES
  hub,       \* GitHub: the pull requests as they are now
  sent,      \* GitHub: the event of each delivery, once there is one
  claimed,   \* integration_delivery: ids that have been processed
  active,    \* project_github_repository.active
  artifact,  \* github_artifact of kind PULL_REQUEST
  links,     \* ticket_git_link of pull requests
  commits,   \* github_artifact of kind COMMIT, as the tickets it is linked to
  made,      \* tickets that have been created so far
  ticket,    \* status and completed_at of each ticket; Null before and after its time
  texts,     \* history: the tickets named by the texts last applied to a pull
             \* request, of those that had been created by then
  req        \* where each request stands and what it has read

hubVars    == <<hub, sent>>
prVars     == <<artifact, links, texts>>
repoVars   == <<active, prVars, commits>>
ticketVars == <<made, ticket>>
vars       == <<hubVars, claimed, repoVars, ticketVars, req>>

----------------------------------------------------------------------------
Nullable(S) == S \union {Null}

Status == {"BACKLOG", "SELECTED", "IN_PROGRESS", "DONE"}

\* What the reviews come to; APPROVED and CHANGES_REQUESTED are not told apart.
ReviewState == {"REVIEW_REQUIRED", "REVIEWED"}

\* A pull request as GitHub's payloads show it.
Payload == [draft : BOOLEAN, phase : {"open", "closed", "merged"},
            head : Head, text : SUBSET Ticket]

\* The ci_state of an artifact is abstracted to the commit whose checks it sums
\* up, Null standing for NONE.
Artifact == [state : {"DRAFT", "OPEN", "CLOSED", "MERGED"}, head : Head,
             ci : Nullable(Head), review : ReviewState]

\* completed: whether completed_at is set.
Row == [status : Status, completed : BOOLEAN]

Event ==
  [type : {"pull_request"}, pull : Pull, is : Payload,
   action : {"opened", "edited", "synchronize", "ready_for_review",
             "converted_to_draft", "closed", "reopened"}]
  \union [type : {"pull_request_review"}, pull : Pull]
  \union [type : {"check_run"}, head : Head]
  \union [type : {"push"}, commits : SUBSET Commit]
  \union [type : {"removed"}]

Idle == [at |-> "idle"]

RequestState ==
  {Idle}
  \union [at : {"set.status"}, ticket : Ticket, loaded : Row, status : Status]
  \union [at : {"listed"}, seen : [Pull -> Nullable(Payload)]]
  \union [at : {"sync"}, seen : [Pull -> Nullable(Payload)], pull : Pull,
          loaded : Nullable(Artifact)]

At(r, point) == req[r].at = point

Live == {t \in Ticket : ticket[t] # Null}

\* A column after the ORM's UPDATE: it is written only where the attribute
\* differs from the value loaded, over whatever the row holds by then.
Column(now, loaded, edited) == IF edited = loaded THEN now ELSE edited

----------------------------------------------------------------------------
\* A pull request may have been opened before the repository was connected.
Init ==
  /\ hub \in [Pull -> {pull \in Nullable(Payload) : pull # Null => pull.phase = "open"}]
  /\ sent = [d \in Delivery |-> Null]
  /\ claimed = {}
  /\ active = TRUE
  /\ artifact = [p \in Pull |-> Null]
  /\ links = [p \in Pull |-> {}]
  /\ commits = [c \in Commit |-> Null]
  /\ made = {}
  /\ ticket = [t \in Ticket |-> Null]
  /\ texts = [p \in Pull |-> {}]
  /\ req = [r \in Request |-> Idle]

----------------------------------------------------------------------------
(* GitHub *)

\* What may happen to a pull request on GitHub, by the action its event names.
Becomes(action, old, new) ==
  \/ /\ action = "opened"
     /\ old = Null /\ new.phase = "open"
  \/ /\ old # Null
     /\ \/ /\ action = "edited"
           /\ new = [old EXCEPT !.text = new.text]
        \/ /\ action = "synchronize"
           /\ old.phase = "open" /\ new = [old EXCEPT !.head = new.head]
        \/ /\ action = "ready_for_review"
           /\ old.draft /\ new = [old EXCEPT !.draft = FALSE]
        \/ /\ action = "converted_to_draft"
           /\ ~old.draft /\ new = [old EXCEPT !.draft = TRUE]
        \/ /\ action = "closed"
           /\ old.phase = "open"
           /\ new.phase = "closed" \/ (new.phase = "merged" /\ ~old.draft)
           /\ new = [old EXCEPT !.phase = new.phase]
        \/ /\ action = "reopened"
           /\ old.phase = "closed" /\ new = [old EXCEPT !.phase = "open"]

Send(e) == \E d \in Delivery : sent[d] = Null /\ sent' = [sent EXCEPT ![d] = e]

PullChanges ==
  /\ \E p \in Pull, new \in Payload,
        action \in {"opened", "edited", "synchronize", "ready_for_review",
                    "converted_to_draft", "closed", "reopened"} :
       /\ new # hub[p]
       /\ Becomes(action, hub[p], new)
       /\ hub' = [hub EXCEPT ![p] = new]
       /\ Send([type |-> "pull_request", pull |-> p, is |-> new, action |-> action])
  /\ UNCHANGED <<claimed, repoVars, ticketVars, req>>

OtherEvent ==
  /\ \/ \E p \in Pull : Send([type |-> "pull_request_review", pull |-> p])
     \/ \E h \in Head : Send([type |-> "check_run", head |-> h])
     \/ \E C \in SUBSET Commit : C # {} /\ Send([type |-> "push", commits |-> C])
     \/ Send([type |-> "removed"])
  /\ UNCHANGED <<hub, claimed, repoVars, ticketVars, req>>

----------------------------------------------------------------------------
(* Applying a pull request *)

\* _matching_tickets
Matching(text) == text \intersect Live

\* A closed draft stays a draft: the flag is looked at first.
MutStateOf(pull) == IF pull.draft THEN "DRAFT" ELSE pull.phase

StateOf(pull) ==
  IF pull.draft THEN "DRAFT"
  ELSE CASE pull.phase = "open"   -> "OPEN"
         [] pull.phase = "closed" -> "CLOSED"
         [] pull.phase = "merged" -> "MERGED"

\* upsert_pull_request on the row it finds; the verdict on an old head is
\* dropped, the reviews are kept.
MutUpserted(row, pull) ==
  IF row = Null
  THEN [state |-> StateOf(pull), head |-> pull.head, ci |-> Null, review |-> "REVIEW_REQUIRED"]
  ELSE [row EXCEPT !.state = StateOf(pull), !.head = pull.head]

Upserted(row, pull) ==
  IF row = Null
  THEN [state |-> StateOf(pull), head |-> pull.head, ci |-> Null, review |-> "REVIEW_REQUIRED"]
  ELSE [row EXCEPT !.state = StateOf(pull), !.head = pull.head,
                   !.ci = IF row.head = pull.head THEN @ ELSE Null]

\* reconcile_pull_request_links
MutReconciled(linked, text) == linked \union Matching(text)

Reconciled(linked, text) ==
  (linked \intersect Matching(text)) \union (Matching(text) \ linked)

\* What set_status leaves in a row: completed_at tracks DONE.
Moved(status) == [status |-> status, completed |-> status = "DONE"]

\* The status advance_tickets_for_pull_request moves tickets to, from which.
Target(action, state) ==
  IF action \in {"opened", "reopened", "ready_for_review"} /\ state \in {"OPEN", "DRAFT"}
  THEN [to |-> {"IN_PROGRESS"}, from |-> {"BACKLOG", "SELECTED"}]
  ELSE IF action = "closed" /\ state = "MERGED"
  THEN [to |-> {"DONE"}, from |-> Status \ {"DONE"}]
  ELSE [to |-> {}, from |-> {}]

MutAdvanced(t, action, pull) ==
  LET target == Target(action, StateOf(pull)) IN
  IF t \in Matching(pull.text) /\ target.to # {}
  THEN Moved(CHOOSE s \in target.to : TRUE)
  ELSE ticket[t]

Advanced(t, action, pull) ==
  LET target == Target(action, StateOf(pull)) IN
  IF t \in Matching(pull.text) /\ ticket[t].status \in target.from
  THEN Moved(CHOOSE s \in target.to : TRUE)
  ELSE ticket[t]

----------------------------------------------------------------------------
(* Deliveries *)

PullRequestEvent(e) ==
  /\ e.type = "pull_request"
  /\ artifact' = [artifact EXCEPT ![e.pull] = Upserted(@, e.is)]
  /\ links' = [links EXCEPT ![e.pull] = Reconciled(@, e.is.text)]
  /\ texts' = [texts EXCEPT ![e.pull] = e.is.text \intersect made]
  /\ ticket' = [t \in Ticket |-> Advanced(t, e.action, e.is)]
  /\ UNCHANGED <<active, commits, made>>

\* The reviews are fetched anew; if GitHub does not answer, the last verdict
\* is kept.
ReviewEvent(e) ==
  /\ e.type = "pull_request_review"
  /\ \/ UNCHANGED artifact
     \/ /\ artifact[e.pull] # Null
        /\ \E v \in ReviewState : artifact' = [artifact EXCEPT ![e.pull].review = v]
  /\ UNCHANGED <<active, links, texts, commits, ticketVars>>

\* The pull requests GitHub names for the commit, as far as they are known and
\* still at it.
MutAtHead(h) == {p \in Pull : artifact[p] # Null}

AtHead(h) == {p \in Pull : artifact[p] # Null /\ artifact[p].head = h}

\* aggregate_ci_state over the check runs of a commit: NONE or a verdict.
Fetched(h) == {Null, h}

CheckRunEvent(e) ==
  /\ e.type = "check_run"
  /\ \E P \in SUBSET AtHead(e.head), ci \in Fetched(e.head) :
       artifact' = [p \in Pull |-> IF p \in P THEN [artifact[p] EXCEPT !.ci = ci]
                                   ELSE artifact[p]]
  /\ UNCHANGED <<active, links, texts, commits, ticketVars>>

\* insert_linked_commit: a known commit, and one that names no ticket, is passed
\* over.
PushEvent(e) ==
  /\ e.type = "push"
  /\ commits' = [c \in Commit |->
       IF c \in e.commits /\ commits[c] = Null /\ Matching(Names(c)) # {}
       THEN Matching(Names(c)) ELSE commits[c]]
  /\ UNCHANGED <<active, prVars, ticketVars>>

\* installation_repositories/removed, installation/deleted and /suspend reach the
\* repository whether active or not.
RemovedEvent(e) ==
  /\ e.type = "removed"
  /\ active' = FALSE
  /\ UNCHANGED <<prVars, commits, ticketVars>>

\* Of a repository that is not active nothing else is heard.
InactiveEvent(e) ==
  /\ e.type # "removed"
  /\ ~active
  /\ UNCHANGED <<repoVars, ticketVars>>

Dispatch(e) ==
  \/ RemovedEvent(e)
  \/ InactiveEvent(e)
  \/ active /\ (PullRequestEvent(e) \/ ReviewEvent(e) \/ CheckRunEvent(e) \/ PushEvent(e))

\* claim_github_delivery: the unique constraint on the delivery's id.
MutClaimable(d) == TRUE

Claimable(d) == d \notin claimed

Deliver(d) ==
  /\ sent[d] # Null
  /\ Claimable(d)
  /\ claimed' = claimed \union {d}
  /\ Dispatch(sent[d])
  /\ UNCHANGED <<hubVars, req>>

----------------------------------------------------------------------------
(* Requests *)

\* A request that has written nothing ends without effect: GitHub does not
\* answer, the row is gone or inserted by another, the lock times out, or the
\* server stops.
Refuse(r) ==
  /\ req[r] # Idle
  /\ req' = [req EXCEPT ![r] = Idle]
  /\ UNCHANGED <<hubVars, claimed, repoVars, ticketVars>>

\* change_status_form, patch_status, update_ticket_form: load the row
ChangeStatus(r) ==
  /\ req[r] = Idle
  /\ \E t \in Live, s \in Status :
       req' = [req EXCEPT ![r] = [at |-> "set.status", ticket |-> t,
                                  loaded |-> ticket[t], status |-> s]]
  /\ UNCHANGED <<hubVars, claimed, repoVars, ticketVars>>

\* set_status and its commit
SetStatus(r) ==
  LET t == req[r].ticket
      loaded == req[r].loaded
      edited == Moved(req[r].status)
  IN
  /\ At(r, "set.status")
  /\ t \in Live
  /\ ticket' = [ticket EXCEPT ![t] =
       [status |-> Column(@.status, loaded.status, edited.status),
        completed |-> Column(@.completed, loaded.completed, edited.completed)]]
  /\ req' = [req EXCEPT ![r] = Idle]
  /\ UNCHANGED <<hubVars, claimed, repoVars, made>>

\* create_ticket: no pull request or commit is looked through for the new
\* ticket's reference.
CreateTicket ==
  /\ \E t \in Ticket \ made :
       /\ made' = made \union {t}
       /\ ticket' = [ticket EXCEPT ![t] = Moved("BACKLOG")]
  /\ UNCHANGED <<hubVars, claimed, repoVars, req>>

\* delete_ticket_record, which bulk-deletes the links first
DeleteTicket ==
  /\ \E t \in Live :
       /\ ticket' = [ticket EXCEPT ![t] = Null]
       /\ links' = [p \in Pull |-> links[p] \ {t}]
       /\ commits' = [c \in Commit |-> IF commits[c] = Null THEN Null ELSE commits[c] \ {t}]
  /\ UNCHANGED <<hubVars, claimed, active, artifact, texts, made, req>>

\* disconnect_project_github
Disconnect ==
  /\ active' = FALSE
  /\ UNCHANGED <<hubVars, claimed, prVars, commits, ticketVars, req>>

\* save_project_repositories for this repository
Reconnect ==
  /\ active' = TRUE
  /\ UNCHANGED <<hubVars, claimed, prVars, commits, ticketVars, req>>

----------------------------------------------------------------------------
(* Manual sync *)

\* The connection is read and GitHub lists the open pull requests.
ListPulls(r) ==
  /\ req[r] = Idle
  /\ active
  /\ req' = [req EXCEPT ![r] = [at |-> "listed", seen |->
       [p \in Pull |-> IF hub[p] # Null /\ hub[p].phase = "open" THEN hub[p] ELSE Null]]]
  /\ UNCHANGED <<hubVars, claimed, repoVars, ticketVars>>

Relevant(seen) == {p \in Pull : seen[p] # Null /\ Matching(seen[p].text) # {}}

\* Those that mention no ticket are passed over up to the first that does, which
\* is looked up; all without the lock.
LoadPull(r) ==
  LET seen == req[r].seen IN
  /\ At(r, "listed")
  /\ \E p \in Relevant(seen), passed \in SUBSET (Pull \ Relevant(seen)) :
       req' = [req EXCEPT ![r] =
         [at |-> "sync", pull |-> p, loaded |-> artifact[p],
          seen |-> [q \in Pull |-> IF q \in passed THEN Null ELSE seen[q]]]]
  /\ UNCHANGED <<hubVars, claimed, repoVars, ticketVars>>

\* What ci_state may hold after a sync that fetched `ci`: two verdicts on commits
\* may be the same value, and then nothing is written.
SyncedCI(now, loaded, pull, ci) ==
  LET held == Upserted(loaded, pull).ci
      kept == IF loaded = Null THEN held ELSE Column(now.ci, loaded.ci, held)
  IN  CASE held = Null /\ ci = Null -> {kept}
        [] held # Null /\ ci # Null -> {kept, ci}
        [] OTHER -> {ci}

\* The row after a sync that loaded it as `loaded`: the columns of the payload,
\* then the fetched verdicts, each where it differs from what the session holds.
SyncedRow(now, loaded, pull, ci, review) ==
  LET held == Upserted(loaded, pull) IN
  IF loaded = Null
  THEN [held EXCEPT !.ci = ci, !.review = review]
  ELSE [state  |-> Column(now.state, loaded.state, held.state),
        head   |-> Column(now.head, loaded.head, held.head),
        ci     |-> ci,
        review |-> Column(now.review, loaded.review, review)]

\* The first flush takes the lock and keeps it until the commit, so the pull
\* requests after the first one are read under it.
SyncPulls(r) ==
  LET first == req[r].pull
      seen  == req[r].seen
      all   == {first} \union Relevant(seen)
      Read(p) == IF p = first THEN req[r].loaded ELSE artifact[p]
  IN
  /\ At(r, "sync")
  /\ req[r].loaded = Null => artifact[first] = Null
  /\ \E ci \in [all -> Nullable(Head)], review \in [all -> ReviewState] :
       /\ \A p \in all : \E fetched \in Fetched(seen[p].head) :
            ci[p] \in SyncedCI(artifact[p], Read(p), seen[p], fetched)
       /\ artifact' = [p \in Pull |->
            IF p \in all
            THEN SyncedRow(artifact[p], Read(p), seen[p], ci[p], review[p])
            ELSE artifact[p]]
  /\ links' = [p \in Pull |-> IF p \in all THEN Reconciled(links[p], seen[p].text) ELSE links[p]]
  /\ texts' = [p \in Pull |-> IF p \in all THEN seen[p].text \intersect made ELSE texts[p]]
  /\ req' = [req EXCEPT ![r] = Idle]
  /\ UNCHANGED <<hubVars, claimed, active, commits, ticketVars>>

----------------------------------------------------------------------------
Step(r) ==
  \/ Refuse(r)
  \/ ChangeStatus(r) \/ SetStatus(r)
  \/ ListPulls(r) \/ LoadPull(r) \/ SyncPulls(r)

Next ==
  \/ PullChanges \/ OtherEvent
  \/ \E d \in Delivery : Deliver(d)
  \/ \E r \in Request : Step(r)
  \/ CreateTicket \/ DeleteTicket \/ Disconnect \/ Reconnect

Spec == Init /\ [][Next]_vars

----------------------------------------------------------------------------
(* Properties *)

\* The rows, the events and what each request has read keep their types.
TypeOK ==
  /\ hub \in [Pull -> Nullable(Payload)]
  /\ sent \in [Delivery -> Nullable(Event)]
  /\ claimed \subseteq Delivery
  /\ active \in BOOLEAN
  /\ artifact \in [Pull -> Nullable(Artifact)]
  /\ links \in [Pull -> SUBSET Ticket]
  /\ commits \in [Commit -> Nullable(SUBSET Ticket)]
  /\ made \subseteq Ticket
  /\ ticket \in [Ticket -> Nullable(Row)]
  /\ Live \subseteq made
  /\ texts \in [Pull -> SUBSET made]
  /\ req \in [Request -> RequestState]

\* The links of a pull request are exactly the tickets, as far as they still
\* exist, that the texts applied last name and that existed then: a reference
\* taken out of the text unlinks the ticket, also when a sync and deliveries
\* interleave, and a reference to a ticket that is created later stays ignored
\* ("a missing, deleted, or foreign ticket reference is ignored").
LinksFollowText == \A p \in Pull : links[p] = texts[p] \intersect Live

\* A delivery never leaves a pull request with the checks of a commit it no
\* longer points to, in whatever order pushes and check runs are delivered.
DeliveriesKeepChecks ==
  [][claimed' # claimed => \A p \in Pull :
       (artifact[p] = Null \/ artifact[p].ci \in {Null, artifact[p].head})
         => (artifact'[p] = Null \/ artifact'[p].ci \in {Null, artifact'[p].head})]_vars

\* Seen from the board: an event counts once ("a re-delivered event id is a
\* no-op"), moves tickets forward only, and the rest is done by hand.
Promise == INSTANCE Automation WITH
  status <- [t \in Ticket |-> IF t \notin made THEN "new"
                             ELSE IF ticket[t] = Null THEN "gone" ELSE ticket[t].status],
  applied <- claimed,
  asked <- {r \in Request : At(r, "set.status")}

AutomationIsGoverned == Promise!Spec

----------------------------------------------------------------------------
(* What the documentation says and the code does not keep *)

\* "completed_at tracks DONE membership: entering DONE stamps it, leaving
\* clears it" (set_status).
CompletedTracksDone == \A t \in Live : ticket[t].completed = (ticket[t].status = "DONE")
=============================================================================
