-------------------------- MODULE GitHubSyncProofs --------------------------
(* Deliveries and syncs in any order, for any number of tickets, pull       *)
(* requests, deliveries and requests; and the promise of Automation, which  *)
(* GitHubSync is shown to implement step by step.                           *)
EXTENDS GitHubSync, TLAPS

\* A sync has a pull request in hand, and one that it found stays known.
KnownForGood ==
  \A r \in Request : At(r, "sync") =>
    /\ req[r].seen[req[r].pull] # Null
    /\ req[r].loaded # Null => artifact[req[r].pull] # Null

IInv == TypeOK /\ LinksFollowText /\ KnownForGood

\* Null is not a row.
NullIsNoRow == Null \notin Row /\ Null \notin Artifact

----------------------------------------------------------------------------
(* Lemmas about the operators *)

LEMMA MovedOK ==
  ASSUME NEW s \in Status
  PROVE  Moved(s) \in Row /\ Moved(s).status = s
BY DEF Moved, Row

LEMMA StateOfOK ==
  ASSUME NEW pull \in Payload
  PROVE  StateOf(pull) \in {"DRAFT", "OPEN", "CLOSED", "MERGED"}
<1>1. pull.phase \in {"open", "closed", "merged"}
  BY DEF Payload
<1> QED
  BY <1>1 DEF StateOf

\* A pull request that is stored keeps the checks of its own head only.
LEMMA UpsertedOK ==
  ASSUME NEW row \in Nullable(Artifact), NEW pull \in Payload
  PROVE  /\ Upserted(row, pull) \in Artifact
         /\ Upserted(row, pull).head = pull.head
         /\ Upserted(row, pull).ci # Null =>
              row # Null /\ row.head = pull.head /\ Upserted(row, pull).ci = row.ci
<1> DEFINE state == StateOf(pull)
<1>1. state \in {"DRAFT", "OPEN", "CLOSED", "MERGED"} /\ pull.head \in Head
  BY StateOfOK DEF Payload
<1>2. CASE row = Null
  <2> DEFINE new == [state |-> state, head |-> pull.head, ci |-> Null,
                     review |-> "REVIEW_REQUIRED"]
  <2>1. Upserted(row, pull) = new
    BY <1>2 DEF Upserted
  <2>2. new \in Artifact /\ new.head = pull.head /\ new.ci = Null
    BY <1>1 DEF Artifact, Nullable, ReviewState
  <2> QED
    BY <2>1, <2>2
<1>3. CASE row # Null
  <2> DEFINE ci == IF row.head = pull.head THEN row.ci ELSE Null
             r1 == [row EXCEPT !.state = state]
             r2 == [r1 EXCEPT !.head = pull.head]
             r3 == [r2 EXCEPT !.ci = ci]
  <2>1. Upserted(row, pull) = r3
    BY <1>3 DEF Upserted
  <2>2. row = [state |-> row.state, head |-> row.head, ci |-> row.ci, review |-> row.review]
        /\ row.ci \in Nullable(Head) /\ row.review \in ReviewState
    BY <1>3 DEF Artifact, Nullable
  <2>3. ci \in Nullable(Head) /\ (ci # Null => row.head = pull.head /\ ci = row.ci)
    BY <2>2 DEF Nullable
  <2> HIDE DEF state, ci
  <2>4. r1 = [state |-> state, head |-> row.head, ci |-> row.ci, review |-> row.review]
    BY <2>2
  <2> HIDE DEF r1
  <2>5. r2 = [state |-> state, head |-> pull.head, ci |-> row.ci, review |-> row.review]
    BY <2>4
  <2> HIDE DEF r2
  <2>6. r3 = [state |-> state, head |-> pull.head, ci |-> ci, review |-> row.review]
    BY <2>5
  <2> HIDE DEF r3
  <2>7. r3 \in Artifact /\ r3.head = pull.head /\ r3.ci = ci
    BY <1>1, <2>2, <2>3, <2>6 DEF Artifact
  <2> QED
    BY <1>3, <2>1, <2>3, <2>7
<1> QED
  BY <1>2, <1>3

LEMMA SyncedOK ==
  ASSUME NEW now \in Nullable(Artifact), NEW loaded \in Nullable(Artifact),
         loaded # Null => now # Null,
         NEW pull \in Payload, NEW ci \in Nullable(Head), NEW review \in ReviewState
  PROVE  SyncedRow(now, loaded, pull, ci, review) \in Artifact
<1> DEFINE held == Upserted(loaded, pull)
<1>1. held \in Artifact
  BY UpsertedOK
<1> HIDE DEF held
<1>2. CASE loaded = Null
  <2> DEFINE h1 == [held EXCEPT !.ci = ci]
             h2 == [h1 EXCEPT !.review = review]
  <2>1. SyncedRow(now, loaded, pull, ci, review) = h2
    BY <1>2 DEF SyncedRow, held
  <2>2. h1 \in Artifact
    BY <1>1 DEF Artifact
  <2> HIDE DEF h1
  <2>3. h2 \in Artifact
    BY <2>2 DEF Artifact
  <2> QED
    BY <2>1, <2>3
<1>3. CASE loaded # Null
  <2> DEFINE state == Column(now.state, loaded.state, held.state)
             head == Column(now.head, loaded.head, held.head)
             seen == Column(now.review, loaded.review, review)
  <2>1. SyncedRow(now, loaded, pull, ci, review)
          = [state |-> state, head |-> head, ci |-> ci, review |-> seen]
    BY <1>3 DEF SyncedRow, held
  <2>2. now \in Artifact
    BY <1>3 DEF Nullable
  <2>3. /\ state \in {"DRAFT", "OPEN", "CLOSED", "MERGED"}
        /\ head \in Head /\ seen \in ReviewState
    BY <1>1, <2>2 DEF Column, Artifact
  <2> HIDE DEF state, head, seen
  <2> QED
    BY <2>1, <2>3 DEF Artifact
<1> QED
  BY <1>2, <1>3

\* An event moves a ticket that is there, and forward.
LEMMA AdvancedOK ==
  ASSUME TypeOK, NEW t \in Ticket, NEW pull, NEW action
  PROVE  /\ ticket[t] = Null => Advanced(t, action, pull) = Null
         /\ ticket[t] # Null =>
              /\ Advanced(t, action, pull) \in Row
              /\ Advanced(t, action, pull).status # ticket[t].status =>
                   Promise!Forward(ticket[t].status, Advanced(t, action, pull).status)
<1> DEFINE target == Target(action, StateOf(pull))
<1>1. CASE t \in Matching(pull.text) /\ ticket[t].status \in target.from
  <2>1. ticket[t] # Null /\ ticket[t] \in Row
    BY <1>1 DEF Matching, Live, TypeOK, Nullable
  <2>2. PICK s \in {"IN_PROGRESS", "DONE"} :
          target.to = {s} /\ target.from = {x \in Status : Promise!Forward(x, s) /\ x # s}
    <3>1. \/ target = [to |-> {"IN_PROGRESS"}, from |-> {"BACKLOG", "SELECTED"}]
          \/ target = [to |-> {"DONE"}, from |-> Status \ {"DONE"}]
      BY <1>1 DEF Target
    <3>2. /\ {"BACKLOG", "SELECTED"}
               = {x \in Status : Promise!Forward(x, "IN_PROGRESS") /\ x # "IN_PROGRESS"}
          /\ Status \ {"DONE"} = {x \in Status : Promise!Forward(x, "DONE") /\ x # "DONE"}
      BY DEF Status, Promise!Forward, Promise!Place
    <3> HIDE DEF target
    <3> QED
      BY <3>1, <3>2
  <2>3. Advanced(t, action, pull) = Moved(CHOOSE x \in target.to : TRUE)
    BY <1>1 DEF Advanced
  <2> HIDE DEF target
  <2>4. (CHOOSE x \in target.to : TRUE) = s
    BY <2>2
  <2>5. Moved(s) \in Row /\ Moved(s).status = s
    BY MovedOK DEF Status
  <2> QED
    BY <1>1, <2>1, <2>2, <2>3, <2>4, <2>5
<1>2. CASE ~(t \in Matching(pull.text) /\ ticket[t].status \in target.from)
  <2>1. Advanced(t, action, pull) = ticket[t]
    BY <1>2 DEF Advanced
  <2> QED
    BY <2>1 DEF TypeOK, Nullable
<1> QED
  BY <1>1, <1>2

LEMMA ReconciledOK ==
  ASSUME NEW linked, NEW text
  PROVE  Reconciled(linked, text) = text \intersect Live
BY DEF Reconciled, Matching

\* What the states of a request and the events hold
LEMMA RequestFields ==
  ASSUME TypeOK, NEW r \in Request
  PROVE  /\ At(r, "set.status") =>
              req[r].ticket \in Ticket /\ req[r].loaded \in Row /\ req[r].status \in Status
         /\ At(r, "listed") => req[r].seen \in [Pull -> Nullable(Payload)]
         /\ At(r, "sync") => /\ req[r].seen \in [Pull -> Nullable(Payload)]
                             /\ req[r].pull \in Pull
                             /\ req[r].loaded \in Nullable(Artifact)
<1>1. req[r] \in RequestState
  BY DEF TypeOK
<1> QED
  BY <1>1 DEF RequestState, Idle, At

LEMMA EventFields ==
  ASSUME NEW e \in Event, e.type = "pull_request"
  PROVE  e.pull \in Pull /\ e.is \in Payload
BY DEF Event
----------------------------------------------------------------------------
(* The inductive invariant *)

LEMMA InitIInv ==
  ASSUME NullIsNoRow, Init
  PROVE  IInv
<1> USE DEF Init
<1>1. TypeOK
  <2>1. hub \in [Pull -> Nullable(Payload)]
    OBVIOUS
  <2>2. ticket \in [Ticket -> Nullable(Row)]
    BY DEF Row, Status, Nullable
  <2>3. req \in [Request -> RequestState]
    BY DEF RequestState
  <2>4. Live = {}
    BY DEF Live
  <2> QED
    BY <2>1, <2>2, <2>3, <2>4 DEF TypeOK, Nullable
<1>2. LinksFollowText
  BY DEF LinksFollowText
<1>3. KnownForGood
  BY DEF KnownForGood, At, Idle
<1> QED
  BY <1>1, <1>2, <1>3 DEF IInv

\* What does not touch the tables keeps what is said of them.
LEMMA TablesApart ==
  ASSUME IInv, UNCHANGED <<repoVars, ticketVars>>, req' \in [Request -> RequestState],
         hub' \in [Pull -> Nullable(Payload)], sent' \in [Delivery -> Nullable(Event)],
         claimed' \subseteq Delivery,
         \A r \in Request : At(r, "sync")' =>
           \/ req'[r] = req[r]
           \/ /\ req'[r].seen[req'[r].pull] # Null
              /\ req'[r].loaded = artifact[req'[r].pull]
  PROVE  IInv'
<1>1. TypeOK'
  BY DEF IInv, TypeOK, Live, repoVars, prVars, ticketVars
<1>2. LinksFollowText'
  BY DEF IInv, LinksFollowText, Live, repoVars, prVars, ticketVars
<1>3. KnownForGood'
  BY DEF IInv, KnownForGood, At, repoVars, prVars
<1> QED
  BY <1>1, <1>2, <1>3 DEF IInv

LEMMA HubSteps ==
  ASSUME IInv, PullChanges \/ OtherEvent
  PROVE  IInv'
<1>1. UNCHANGED <<repoVars, ticketVars, req, claimed>>
  BY DEF PullChanges, OtherEvent
<1>2. hub' \in [Pull -> Nullable(Payload)] /\ sent' \in [Delivery -> Nullable(Event)]
  <2>1. CASE PullChanges
    <3>1. PICK p \in Pull, new \in Payload,
               action \in {"opened", "edited", "synchronize", "ready_for_review",
                           "converted_to_draft", "closed", "reopened"} :
            /\ hub' = [hub EXCEPT ![p] = new]
            /\ Send([type |-> "pull_request", pull |-> p, is |-> new, action |-> action])
      BY <2>1 DEF PullChanges
    <3> DEFINE e == [type |-> "pull_request", pull |-> p, is |-> new, action |-> action]
    <3>2. e \in Event /\ Send(e)
      BY <3>1 DEF Event
    <3> HIDE DEF e
    <3>3. sent' \in [Delivery -> Nullable(Event)]
      BY <3>2 DEF Send, IInv, TypeOK, Nullable
    <3> QED
      BY <3>1, <3>3 DEF IInv, TypeOK, Nullable
  <2>2. CASE OtherEvent
    <3>1. PICK e \in Event : Send(e)
      <4>1. \A p \in Pull : [type |-> "pull_request_review", pull |-> p] \in Event
        BY DEF Event
      <4>2. \A h \in Head : [type |-> "check_run", head |-> h] \in Event
        BY DEF Event
      <4>3. \A C \in SUBSET Commit : [type |-> "push", commits |-> C] \in Event
        BY DEF Event
      <4>4. [type |-> "removed"] \in Event
        BY DEF Event
      <4> QED
        BY <2>2, <4>1, <4>2, <4>3, <4>4 DEF OtherEvent
    <3>2. hub' = hub
      BY <2>2 DEF OtherEvent
    <3> QED
      BY <3>1, <3>2 DEF Send, IInv, TypeOK, Nullable
  <2> QED
    BY <2>1, <2>2
<1> QED
  BY <1>1, <1>2, TablesApart DEF IInv, TypeOK, At

\* A step that may store pull requests with their links, and move tickets.
LEMMA StoreStep ==
  ASSUME IInv, UNCHANGED <<hubVars, made>>, claimed' \subseteq Delivery, active' \in BOOLEAN,
         artifact' \in [Pull -> Nullable(Artifact)],
         \A p \in Pull : artifact[p] # Null => artifact'[p] # Null,
         texts' \in [Pull -> SUBSET made],
         links' \in [Pull -> SUBSET Ticket],
         \A p \in Pull : \/ links'[p] = texts'[p] \intersect Live
                         \/ links'[p] = links[p] /\ texts'[p] = texts[p],
         commits' \in [Commit -> Nullable(SUBSET Ticket)],
         ticket' \in [Ticket -> Nullable(Row)],
         \A t \in Ticket : ticket'[t] = Null <=> ticket[t] = Null,
         req' \in [Request -> RequestState],
         \A r \in Request : req'[r] = req[r] \/ req'[r].at # "sync"
  PROVE  IInv'
<1>1. Live' = Live
  BY DEF Live
<1>2. TypeOK'
  BY <1>1 DEF IInv, TypeOK, hubVars
<1>3. LinksFollowText'
  BY <1>1 DEF IInv, LinksFollowText
<1>4. KnownForGood'
  <2> SUFFICES ASSUME NEW r \in Request, At(r, "sync")'
               PROVE  /\ req'[r].seen[req'[r].pull] # Null
                      /\ req'[r].loaded # Null => artifact'[req'[r].pull] # Null
    BY DEF KnownForGood
  <2>1. req'[r] = req[r] /\ At(r, "sync")
    BY DEF At
  <2>2. req[r].pull \in Pull
    BY <2>1, RequestFields DEF IInv
  <2> QED
    BY <2>1, <2>2 DEF IInv, KnownForGood
<1> QED
  BY <1>2, <1>3, <1>4 DEF IInv

LEMMA PullRequestStep ==
  ASSUME NullIsNoRow, IInv, NEW e \in Event, PullRequestEvent(e),
         UNCHANGED <<hubVars, req>>, claimed' \subseteq Delivery
  PROVE  IInv'
<1>1. e.pull \in Pull /\ e.is \in Payload /\ e.is.text \in SUBSET Ticket
  BY EventFields DEF PullRequestEvent, Payload
<1>2. artifact \in [Pull -> Nullable(Artifact)] /\ Upserted(artifact[e.pull], e.is) \in Artifact
  BY <1>1, UpsertedOK DEF IInv, TypeOK
<1>3. /\ artifact' \in [Pull -> Nullable(Artifact)]
      /\ \A p \in Pull : artifact[p] # Null => artifact'[p] # Null
  BY <1>1, <1>2 DEF PullRequestEvent, Nullable, NullIsNoRow
<1>4. /\ texts' \in [Pull -> SUBSET made]
      /\ texts'[e.pull] = e.is.text \intersect made /\ \A p \in Pull \ {e.pull} : texts'[p] = texts[p]
  BY <1>1 DEF PullRequestEvent, IInv, TypeOK
<1>5. /\ links' \in [Pull -> SUBSET Ticket]
      /\ \A p \in Pull : \/ links'[p] = texts'[p] \intersect Live
                         \/ links'[p] = links[p] /\ texts'[p] = texts[p]
  <2>1. Reconciled(links[e.pull], e.is.text) = e.is.text \intersect Live
    BY ReconciledOK
  <2> QED
    BY <1>1, <1>4, <2>1 DEF PullRequestEvent, IInv, TypeOK
<1>6. /\ ticket' \in [Ticket -> Nullable(Row)]
      /\ \A t \in Ticket : ticket'[t] = Null <=> ticket[t] = Null
  <2>1. ticket' = [t \in Ticket |-> Advanced(t, e.action, e.is)]
    BY DEF PullRequestEvent
  <2>2. \A t \in Ticket : /\ ticket[t] = Null => Advanced(t, e.action, e.is) = Null
                          /\ ticket[t] # Null => Advanced(t, e.action, e.is) \in Row
    BY AdvancedOK DEF IInv
  <2> QED
    BY <2>1, <2>2 DEF Nullable, NullIsNoRow
<1>7. UNCHANGED <<active, commits, made, req>>
  BY DEF PullRequestEvent
<1> QED
  BY <1>3, <1>4, <1>5, <1>6, <1>7, StoreStep DEF IInv, TypeOK

LEMMA DeliverStep ==
  ASSUME NullIsNoRow, IInv, NEW d \in Delivery, Deliver(d)
  PROVE  IInv'
<1> DEFINE e == sent[d]
<1>1. e \in Event /\ claimed' \subseteq Delivery /\ UNCHANGED <<hubVars, req>>
  BY DEF Deliver, IInv, TypeOK, Nullable
<1>2. Dispatch(e)
  BY DEF Deliver
<1> HIDE DEF e
<1>3. CASE PullRequestEvent(e)
  BY <1>1, <1>3, PullRequestStep
<1>4. CASE \/ RemovedEvent(e) \/ InactiveEvent(e) \/ ReviewEvent(e) \/ CheckRunEvent(e)
           \/ PushEvent(e)
  <2>1. UNCHANGED <<links, texts, made, ticket>> /\ active' \in BOOLEAN
    BY <1>4 DEF RemovedEvent, InactiveEvent, ReviewEvent, CheckRunEvent, PushEvent, prVars,
             repoVars, ticketVars, IInv, TypeOK
  <2>2. /\ artifact' \in [Pull -> Nullable(Artifact)]
        /\ \A p \in Pull : artifact[p] # Null => artifact'[p] # Null
    <3>1. CASE UNCHANGED artifact
      BY <3>1 DEF IInv, TypeOK
    <3>2. CASE ReviewEvent(e) /\ ~UNCHANGED artifact
      <4>1. PICK v \in ReviewState : artifact' = [artifact EXCEPT ![e.pull].review = v]
        BY <3>2 DEF ReviewEvent
      <4>2. e.pull \in Pull => [artifact[e.pull] EXCEPT !.review = v] \in Artifact
        BY <3>2 DEF ReviewEvent, IInv, TypeOK, Nullable, Artifact
      <4> QED
        BY <4>1, <4>2 DEF IInv, TypeOK, Nullable, NullIsNoRow
    <3>3. CASE CheckRunEvent(e)
      <4>1. PICK P \in SUBSET AtHead(e.head), ci \in Fetched(e.head) :
              artifact' = [p \in Pull |-> IF p \in P THEN [artifact[p] EXCEPT !.ci = ci]
                                          ELSE artifact[p]]
        BY <3>3 DEF CheckRunEvent
      <4>2. ci \in Nullable(Head)
        BY <1>1, <3>3 DEF CheckRunEvent, Event, Fetched, Nullable
      <4>3. \A p \in P : p \in Pull /\ [artifact[p] EXCEPT !.ci = ci] \in Artifact
        BY <4>2 DEF AtHead, IInv, TypeOK, Nullable, Artifact
      <4> QED
        BY <4>1, <4>3 DEF IInv, TypeOK, Nullable, NullIsNoRow
    <3> QED
      BY <1>4, <3>1, <3>2, <3>3 DEF RemovedEvent, InactiveEvent, PushEvent, prVars, repoVars
  <2>3. commits' \in [Commit -> Nullable(SUBSET Ticket)]
    <3>1. CASE UNCHANGED commits
      BY <3>1 DEF IInv, TypeOK
    <3>2. CASE PushEvent(e)
      <4>1. \A c \in Commit : Matching(Names(c)) \in SUBSET Ticket
        BY DEF Matching, Live
      <4> QED
        BY <3>2, <4>1 DEF PushEvent, IInv, TypeOK, Nullable
    <3> QED
      BY <1>4, <3>1, <3>2 DEF RemovedEvent, InactiveEvent, ReviewEvent, CheckRunEvent, repoVars
  <2> QED
    BY <1>1, <2>1, <2>2, <2>3, StoreStep DEF IInv, TypeOK
<1> QED
  BY <1>2, <1>3, <1>4 DEF Dispatch

LEMMA AskSteps ==
  ASSUME IInv, NEW r \in Request,
         Refuse(r) \/ ChangeStatus(r) \/ ListPulls(r) \/ LoadPull(r)
  PROVE  IInv'
<1>1. UNCHANGED <<hubVars, claimed, repoVars, ticketVars>>
  BY DEF Refuse, ChangeStatus, ListPulls, LoadPull
<1>2. PICK there \in RequestState :
        /\ req' = [req EXCEPT ![r] = there]
        /\ there.at = "sync" => /\ there.seen[there.pull] # Null
                                /\ there.loaded = artifact[there.pull]
  <2>1. CASE Refuse(r)
    <3>1. Idle \in RequestState /\ Idle.at # "sync"
      BY DEF RequestState, Idle
    <3> QED
      BY <2>1, <3>1 DEF Refuse
  <2>2. CASE ChangeStatus(r)
    <3>1. PICK t \in Live, s \in Status :
            req' = [req EXCEPT ![r] = [at |-> "set.status", ticket |-> t,
                                       loaded |-> ticket[t], status |-> s]]
      BY <2>2 DEF ChangeStatus
    <3>2. t \in Ticket /\ ticket[t] \in Row
      BY DEF Live, IInv, TypeOK, Nullable
    <3>3. [at |-> "set.status", ticket |-> t, loaded |-> ticket[t], status |-> s]
            \in RequestState
      BY <3>2 DEF RequestState
    <3> QED
      BY <3>1, <3>3
  <2>3. CASE ListPulls(r)
    <3> DEFINE seen == [p \in Pull |-> IF hub[p] # Null /\ hub[p].phase = "open"
                                       THEN hub[p] ELSE Null]
    <3>1. seen \in [Pull -> Nullable(Payload)]
      BY DEF IInv, TypeOK, Nullable
    <3>2. req' = [req EXCEPT ![r] = [at |-> "listed", seen |-> seen]]
      BY <2>3 DEF ListPulls
    <3> HIDE DEF seen
    <3>3. [at |-> "listed", seen |-> seen] \in RequestState
      BY <3>1 DEF RequestState
    <3> QED
      BY <3>2, <3>3
  <2>4. CASE LoadPull(r)
    <3> DEFINE all == req[r].seen
               Left(passed) == [q \in Pull |-> IF q \in passed THEN Null ELSE all[q]]
    <3>1. PICK p \in Relevant(all), passed \in SUBSET (Pull \ Relevant(all)) :
            req' = [req EXCEPT ![r] = [at |-> "sync", pull |-> p, loaded |-> artifact[p],
                                       seen |-> Left(passed)]]
      BY <2>4 DEF LoadPull
    <3>2. /\ all \in [Pull -> Nullable(Payload)] /\ p \in Pull
          /\ artifact[p] \in Nullable(Artifact) /\ all[p] # Null
      BY <2>4, RequestFields DEF LoadPull, Relevant, IInv, TypeOK
    <3> DEFINE seen == Left(passed)
    <3>3. seen \in [Pull -> Nullable(Payload)] /\ seen[p] # Null
      BY <3>1, <3>2 DEF Nullable
    <3> HIDE DEF Left
    <3>4. req' = [req EXCEPT ![r] = [at |-> "sync", pull |-> p, loaded |-> artifact[p],
                                     seen |-> seen]]
      BY <3>1
    <3> HIDE DEF seen
    <3>5. [at |-> "sync", pull |-> p, loaded |-> artifact[p], seen |-> seen] \in RequestState
      BY <3>2, <3>3 DEF RequestState
    <3> QED
      BY <3>3, <3>4, <3>5
  <2> QED
    BY <2>1, <2>2, <2>3, <2>4
<1>3. /\ req' \in [Request -> RequestState] /\ req'[r] = there
      /\ \A q \in Request \ {r} : req'[q] = req[q]
  BY <1>2 DEF IInv, TypeOK
<1> QED
  BY <1>1, <1>2, <1>3, TablesApart DEF IInv, TypeOK, At, hubVars

LEMMA SetStatusStep ==
  ASSUME NullIsNoRow, IInv, NEW r \in Request, SetStatus(r)
  PROVE  IInv'
<1> DEFINE t == req[r].ticket
           loaded == req[r].loaded
           edited == Moved(req[r].status)
           status == Column(ticket[t].status, loaded.status, edited.status)
           completed == Column(ticket[t].completed, loaded.completed, edited.completed)
<1>1. /\ t \in Ticket /\ ticket[t] \in Row /\ ticket[t] # Null
      /\ loaded \in Row /\ edited \in Row
  BY RequestFields, MovedOK DEF SetStatus, Live, IInv, TypeOK, Nullable
<1>2. ticket' = [ticket EXCEPT ![t] = [status |-> status, completed |-> completed]]
  BY DEF SetStatus
<1>3. /\ req' = [req EXCEPT ![r] = Idle]
      /\ UNCHANGED <<hubVars, claimed, active, artifact, links, texts, commits, made>>
  BY DEF SetStatus, repoVars, prVars
<1> HIDE DEF t, loaded, edited
<1>4. [status |-> status, completed |-> completed] \in Row
  BY <1>1 DEF Row, Column
<1> HIDE DEF status, completed
<1>5. /\ ticket' \in [Ticket -> Nullable(Row)]
      /\ \A u \in Ticket : ticket'[u] = Null <=> ticket[u] = Null
  BY <1>1, <1>2, <1>4 DEF IInv, TypeOK, Nullable, NullIsNoRow
<1>6. Idle \in RequestState /\ Idle.at # "sync"
  BY DEF RequestState, Idle
<1>7. /\ req' \in [Request -> RequestState]
      /\ \A q \in Request : req'[q] = req[q] \/ req'[q].at # "sync"
  BY <1>3, <1>6 DEF IInv, TypeOK
<1> QED
  BY <1>3, <1>5, <1>7, StoreStep DEF IInv, TypeOK

LEMMA SyncStep ==
  ASSUME NullIsNoRow, IInv, NEW r \in Request, SyncPulls(r)
  PROVE  IInv'
<1> DEFINE first == req[r].pull
           seen == req[r].seen
           all == {first} \union Relevant(seen)
           Read(p) == IF p = first THEN req[r].loaded ELSE artifact[p]
<1>1. /\ At(r, "sync") /\ seen \in [Pull -> Nullable(Payload)] /\ first \in Pull
      /\ req[r].loaded \in Nullable(Artifact)
  BY RequestFields DEF SyncPulls, IInv
<1>2. PICK ci \in [all -> Nullable(Head)] : \E review \in [all -> ReviewState] :
        artifact' = [p \in Pull |->
          IF p \in all
          THEN SyncedRow(artifact[p], Read(p), seen[p], ci[p], review[p])
          ELSE artifact[p]]
  BY DEF SyncPulls
<1>3. PICK review \in [all -> ReviewState] :
        artifact' = [p \in Pull |->
          IF p \in all
          THEN SyncedRow(artifact[p], Read(p), seen[p], ci[p], review[p])
          ELSE artifact[p]]
  BY <1>2
<1>4. /\ links' = [p \in Pull |->
           IF p \in all THEN Reconciled(links[p], seen[p].text) ELSE links[p]]
      /\ texts' = [p \in Pull |-> IF p \in all THEN seen[p].text \intersect made ELSE texts[p]]
      /\ req' = [req EXCEPT ![r] = Idle]
      /\ UNCHANGED <<hubVars, claimed, active, commits, made, ticket>>
  BY DEF SyncPulls, ticketVars
<1>5. ASSUME NEW p \in Pull, p \in all
      PROVE  seen[p] # Null /\ seen[p] \in Payload /\ seen[p].text \in SUBSET Ticket
  <2>1. seen[p] # Null
    BY <1>1, <1>5 DEF Relevant, IInv, KnownForGood
  <2>2. seen[p] \in Payload
    BY <1>1, <2>1 DEF Nullable
  <2> QED
    BY <2>1, <2>2 DEF Payload
<1>6. ASSUME NEW p \in Pull, p \in all
      PROVE  SyncedRow(artifact[p], Read(p), seen[p], ci[p], review[p]) \in Artifact
  <2>1. artifact[p] \in Nullable(Artifact) /\ ci[p] \in Nullable(Head) /\ review[p] \in ReviewState
    BY <1>2, <1>3, <1>6 DEF IInv, TypeOK
  <2>2. Read(p) \in Nullable(Artifact) /\ (Read(p) # Null => artifact[p] # Null)
    BY <1>1, <2>1 DEF IInv, KnownForGood
  <2>3. seen[p] \in Payload
    BY <1>5, <1>6
  <2> HIDE DEF seen, Read
  <2> QED
    BY <2>1, <2>2, <2>3, SyncedOK
<1>7. /\ artifact' \in [Pull -> Nullable(Artifact)]
      /\ \A p \in Pull : artifact[p] # Null => artifact'[p] # Null
  <2> HIDE DEF all, Read, seen
  <2> QED
    BY <1>3, <1>6 DEF IInv, TypeOK, Nullable, NullIsNoRow
<1>8. /\ texts' \in [Pull -> SUBSET made] /\ links' \in [Pull -> SUBSET Ticket]
      /\ \A p \in Pull : \/ links'[p] = texts'[p] \intersect Live
                         \/ links'[p] = links[p] /\ texts'[p] = texts[p]
  <2>1. \A p \in Pull : Reconciled(links[p], seen[p].text) = seen[p].text \intersect Live
    BY ReconciledOK
  <2> HIDE DEF all, seen
  <2> QED
    BY <1>4, <1>5, <2>1 DEF IInv, TypeOK
<1>9. Idle \in RequestState /\ Idle.at # "sync"
  BY DEF RequestState, Idle
<1>10. /\ req' \in [Request -> RequestState]
       /\ \A q \in Request : req'[q] = req[q] \/ req'[q].at # "sync"
  BY <1>4, <1>9 DEF IInv, TypeOK
<1> QED
  BY <1>4, <1>7, <1>8, <1>10, StoreStep DEF IInv, TypeOK

\* A ticket that is new was named by no text that has been applied.
LEMMA CreateStep ==
  ASSUME NullIsNoRow, IInv, CreateTicket
  PROVE  IInv'
<1>1. PICK t \in Ticket \ made :
        made' = made \union {t} /\ ticket' = [ticket EXCEPT ![t] = Moved("BACKLOG")]
  BY DEF CreateTicket
<1>2. UNCHANGED <<hubVars, claimed, active, artifact, links, texts, commits, req>>
  BY DEF CreateTicket, repoVars, prVars
<1>3. Moved("BACKLOG") \in Row
  BY MovedOK DEF Status
<1>4. ticket' \in [Ticket -> Nullable(Row)] /\ Live' = Live \union {t}
  BY <1>1, <1>3 DEF IInv, TypeOK, Nullable, Live, NullIsNoRow
<1>5. TypeOK'
  BY <1>1, <1>2, <1>4 DEF IInv, TypeOK, hubVars
<1>6. LinksFollowText'
  BY <1>1, <1>2, <1>4 DEF IInv, TypeOK, LinksFollowText
<1>7. KnownForGood'
  BY <1>2 DEF IInv, KnownForGood, At
<1> QED
  BY <1>5, <1>6, <1>7 DEF IInv

LEMMA DeleteStep ==
  ASSUME NullIsNoRow, IInv, DeleteTicket
  PROVE  IInv'
<1>1. PICK t \in Live :
        /\ ticket' = [ticket EXCEPT ![t] = Null]
        /\ links' = [p \in Pull |-> links[p] \ {t}]
        /\ commits' = [c \in Commit |-> IF commits[c] = Null THEN Null ELSE commits[c] \ {t}]
  BY DEF DeleteTicket
<1>2. UNCHANGED <<hubVars, claimed, active, artifact, texts, made, req>>
  BY DEF DeleteTicket
<1>3. t \in Ticket /\ Live' = Live \ {t}
  BY <1>1 DEF Live, IInv, TypeOK
<1>4. TypeOK'
  <2>1. commits' \in [Commit -> Nullable(SUBSET Ticket)]
    BY <1>1 DEF IInv, TypeOK, Nullable
  <2>2. ticket' \in [Ticket -> Nullable(Row)] /\ links' \in [Pull -> SUBSET Ticket]
    BY <1>1, <1>3 DEF IInv, TypeOK, Nullable
  <2> QED
    BY <1>2, <1>3, <2>1, <2>2 DEF IInv, TypeOK, hubVars
<1>5. LinksFollowText'
  BY <1>1, <1>2, <1>3 DEF IInv, LinksFollowText
<1>6. KnownForGood'
  BY <1>2 DEF IInv, KnownForGood, At
<1> QED
  BY <1>4, <1>5, <1>6 DEF IInv

LEMMA RepositorySteps ==
  ASSUME IInv, Disconnect \/ Reconnect
  PROVE  IInv'
<1>1. active' \in BOOLEAN /\ UNCHANGED <<hubVars, claimed, prVars, commits, ticketVars, req>>
  BY DEF Disconnect, Reconnect
<1> QED
  BY <1>1, StoreStep DEF IInv, TypeOK, prVars, ticketVars

LEMMA NextIInv ==
  ASSUME NullIsNoRow, IInv, [Next]_vars
  PROVE  IInv'
<1>1. CASE PullChanges \/ OtherEvent
  BY <1>1, HubSteps
<1>2. CASE \E d \in Delivery : Deliver(d)
  BY <1>2, DeliverStep
<1>3. CASE \E r \in Request : Step(r)
  BY <1>3, AskSteps, SetStatusStep, SyncStep DEF Step
<1>4. CASE CreateTicket \/ DeleteTicket
  BY <1>4, CreateStep, DeleteStep
<1>5. CASE Disconnect \/ Reconnect
  BY <1>5, RepositorySteps
<1>6. CASE UNCHANGED vars
  BY <1>6, TablesApart DEF IInv, TypeOK, vars, hubVars
<1> QED
  BY <1>1, <1>2, <1>3, <1>4, <1>5, <1>6 DEF Next

----------------------------------------------------------------------------
(* What the theorems say of a step *)

\* What a delivery does to a row leaves it without the checks of another head.
LEMMA KeepChecks ==
  ASSUME IInv, NEW d \in Delivery, Deliver(d), NEW p \in Pull,
         artifact[p] = Null \/ artifact[p].ci \in {Null, artifact[p].head}
  PROVE  artifact'[p] = Null \/ artifact'[p].ci \in {Null, artifact'[p].head}
<1> DEFINE e == sent[d]
<1>1. e \in Event /\ Dispatch(e) /\ artifact \in [Pull -> Nullable(Artifact)]
  BY DEF Deliver, IInv, TypeOK, Nullable
<1> HIDE DEF e
<1>2. CASE UNCHANGED artifact
  BY <1>2
<1>3. CASE PullRequestEvent(e)
  <2>1. e.pull \in Pull /\ e.is \in Payload
    BY <1>1, <1>3, EventFields DEF PullRequestEvent
  <2>2. artifact' = [artifact EXCEPT ![e.pull] = Upserted(@, e.is)]
    BY <1>3 DEF PullRequestEvent
  <2>3. /\ Upserted(artifact[e.pull], e.is).head = e.is.head
        /\ Upserted(artifact[e.pull], e.is).ci # Null =>
             /\ artifact[e.pull] # Null /\ artifact[e.pull].head = e.is.head
             /\ Upserted(artifact[e.pull], e.is).ci = artifact[e.pull].ci
    BY <1>1, <2>1, UpsertedOK
  <2>4. CASE p = e.pull
    BY <1>1, <2>1, <2>2, <2>3, <2>4
  <2>5. CASE p # e.pull
    BY <1>1, <2>2, <2>5
  <2> QED
    BY <2>4, <2>5
<1>4. CASE CheckRunEvent(e)
  <2>1. PICK P \in SUBSET AtHead(e.head), ci \in Fetched(e.head) :
          artifact' = [q \in Pull |-> IF q \in P THEN [artifact[q] EXCEPT !.ci = ci]
                                      ELSE artifact[q]]
    BY <1>4 DEF CheckRunEvent
  <2>2. CASE p \in P
    <3>1. artifact[p] \in Artifact /\ artifact[p].head = e.head /\ ci \in {Null, e.head}
      BY <1>1, <2>2 DEF AtHead, Nullable, Fetched
    <3>2. /\ [artifact[p] EXCEPT !.ci = ci].ci = ci
          /\ [artifact[p] EXCEPT !.ci = ci].head = e.head
      BY <3>1 DEF Artifact
    <3> QED
      BY <2>1, <2>2, <3>1, <3>2
  <2>3. CASE p \notin P
    BY <2>1, <2>3
  <2> QED
    BY <2>2, <2>3
<1>5. CASE ReviewEvent(e) /\ ~UNCHANGED artifact
  <2>1. PICK v \in ReviewState : artifact' = [artifact EXCEPT ![e.pull].review = v]
    BY <1>5 DEF ReviewEvent
  <2>2. artifact[e.pull] # Null
    BY <1>5 DEF ReviewEvent
  <2>3. CASE p = e.pull
    <3>1. artifact[p] \in Artifact
      BY <1>1, <2>2, <2>3 DEF Nullable
    <3>2. /\ [artifact[p] EXCEPT !.review = v].ci = artifact[p].ci
          /\ [artifact[p] EXCEPT !.review = v].head = artifact[p].head
      BY <3>1 DEF Artifact
    <3>3. artifact'[p] = [artifact[p] EXCEPT !.review = v]
      BY <1>1, <2>1, <2>3
    <3> QED
      BY <2>2, <2>3, <3>2, <3>3
  <2>4. CASE p # e.pull
    BY <1>1, <2>1, <2>4
  <2> QED
    BY <2>3, <2>4
<1> QED
  BY <1>1, <1>2, <1>3, <1>4, <1>5 DEF Dispatch, RemovedEvent, InactiveEvent, PushEvent, prVars,
     repoVars

\* The ticket's column as Automation sees it
BoardStatus ==
  [t \in Ticket |-> IF t \notin made THEN "new"
                    ELSE IF ticket[t] = Null THEN "gone" ELSE ticket[t].status]

Asked == {r \in Request : At(r, "set.status")}

\* A ticket that is there has a column, any other has none.
LEMMA ColumnOf ==
  ASSUME TypeOK, NEW t \in Ticket
  PROVE  /\ ticket[t] # Null => BoardStatus[t] = ticket[t].status
         /\ BoardStatus[t] \in Promise!Status <=> ticket[t] # Null
BY DEF TypeOK, Live, BoardStatus, Nullable, Row, Status, Promise!Status

LEMMA DeliverApplies ==
  ASSUME NullIsNoRow, IInv, NEW d \in Delivery, Deliver(d)
  PROVE  Promise!Apply(d)
<1>1. d \notin claimed /\ claimed' = claimed \union {d} /\ UNCHANGED req
  BY DEF Deliver, Claimable
<1>2. Asked' = Asked
  BY <1>1 DEF Asked, At
<1>3. ASSUME NEW t \in Ticket
      PROVE  /\ ticket[t] = Null => ticket'[t] = Null
             /\ ticket[t] # Null =>
                  /\ ticket'[t] # Null /\ ticket'[t] \in Row
                  /\ ticket'[t].status # ticket[t].status =>
                       Promise!Forward(ticket[t].status, ticket'[t].status)
  <2>1. CASE ticket' = ticket
    BY <2>1 DEF IInv, TypeOK, Nullable
  <2>2. CASE \E e \in {sent[d]} : ticket' = [u \in Ticket |-> Advanced(u, e.action, e.is)]
    BY <2>2, AdvancedOK DEF IInv, NullIsNoRow
  <2> QED
    BY <2>1, <2>2 DEF Deliver, Dispatch, PullRequestEvent, RemovedEvent, InactiveEvent,
       ReviewEvent, CheckRunEvent, PushEvent, ticketVars
<1>4. UNCHANGED made
  BY <1>1 DEF Deliver, Dispatch, PullRequestEvent, RemovedEvent, InactiveEvent,
     ReviewEvent, CheckRunEvent, PushEvent, ticketVars
<1>5. \A t \in Ticket : ticket'[t] # Null => ticket'[t].status \in Promise!Status
  BY <1>3 DEF Row, Status, Promise!Status
<1>6. ASSUME NEW t \in Ticket
      PROVE  /\ BoardStatus'[t] \in Promise!Status \union {"new", "gone"}
             /\ BoardStatus'[t] # BoardStatus[t] =>
                  /\ {BoardStatus[t], BoardStatus'[t]} \subseteq Promise!Status
                  /\ Promise!Forward(BoardStatus[t], BoardStatus'[t])
  <2>1. CASE ticket[t] = Null
    BY <1>3, <1>4, <2>1 DEF BoardStatus
  <2>2. CASE ticket[t] # Null
    <3>1. t \in made /\ ticket'[t] # Null
      BY <1>3, <2>2 DEF IInv, TypeOK, Live
    <3>2. BoardStatus[t] = ticket[t].status /\ BoardStatus'[t] = ticket'[t].status
      BY <1>4, <2>2, <3>1 DEF BoardStatus
    <3>3. BoardStatus[t] \in Promise!Status
      BY <2>2, ColumnOf DEF IInv
    <3> QED
      BY <1>3, <1>5, <2>2, <3>1, <3>2, <3>3
  <2> QED
    BY <2>1, <2>2
<1>7. BoardStatus' = [t \in Ticket |-> BoardStatus'[t]]
  BY DEF BoardStatus
<1> QED
  BY <1>1, <1>2, <1>6, <1>7 DEF Promise!Apply, BoardStatus, Asked

LEMMA RequestMoves ==
  ASSUME NullIsNoRow, IInv, NEW r \in Request, Step(r)
  PROVE  Promise!Ask(r) \/ Promise!Move(r) \/ UNCHANGED <<BoardStatus, claimed, Asked>>
<1>req. req \in [Request -> RequestState]
  BY DEF IInv, TypeOK
<1>1. CASE ChangeStatus(r)
  <2>1. PICK t, s : req' = [req EXCEPT ![r] = [at |-> "set.status", ticket |-> t,
                                               loaded |-> ticket[t], status |-> s]]
    BY <1>1 DEF ChangeStatus
  <2>2. req[r].at = "idle" /\ UNCHANGED <<made, ticket, claimed>>
    BY <1>1 DEF ChangeStatus, Idle, ticketVars
  <2>3. r \notin Asked /\ Asked' = Asked \union {r}
    BY <1>req, <2>1, <2>2 DEF Asked, At
  <2> QED
    BY <2>2, <2>3 DEF Promise!Ask, Asked, BoardStatus
<1>2. CASE SetStatus(r)
  <2> DEFINE t == req[r].ticket
             loaded == req[r].loaded
             edited == Moved(req[r].status)
             status == Column(ticket[t].status, loaded.status, edited.status)
             completed == Column(ticket[t].completed, loaded.completed, edited.completed)
  <2>1. /\ ticket' = [ticket EXCEPT ![t] = [status |-> status, completed |-> completed]]
        /\ req' = [req EXCEPT ![r] = Idle] /\ UNCHANGED claimed /\ At(r, "set.status")
        /\ t \in made /\ t \in Ticket /\ ticket[t] # Null /\ UNCHANGED made
        /\ ticket \in [Ticket -> Nullable(Row)]
    BY <1>2 DEF SetStatus, Live, IInv, TypeOK
  <2>2. r \in Asked /\ Asked' = Asked \ {r}
    BY <1>req, <2>1 DEF Asked, At, Idle
  <2>3. ticket[t] \in Row /\ loaded \in Row /\ edited \in Row
    BY <2>1, RequestFields, MovedOK DEF IInv, Nullable
  <2> HIDE DEF t, loaded, edited
  <2>4. status \in Status /\ [status |-> status, completed |-> completed] \in Row
    BY <2>3 DEF Column, Row
  <2> DEFINE new == [status |-> status, completed |-> completed]
  <2>5. new # Null /\ new.status = status /\ ticket' = [ticket EXCEPT ![t] = new]
    BY <2>1, <2>4 DEF NullIsNoRow
  <2>6. status \in Promise!Status /\ BoardStatus[t] \in Promise!Status
    BY <2>1, <2>3, <2>4 DEF BoardStatus, Row, Status, Promise!Status
  <2> HIDE DEF new, status
  <2>7. BoardStatus' = [BoardStatus EXCEPT ![t] = status]
    BY <2>1, <2>5 DEF BoardStatus
  <2> QED
    BY <2>1, <2>2, <2>6, <2>7 DEF Promise!Move, BoardStatus, Asked
<1>3. CASE Refuse(r)
  <2>1. UNCHANGED <<made, ticket, claimed>> /\ req' = [req EXCEPT ![r] = Idle]
    BY <1>3 DEF Refuse, ticketVars
  <2>2. Asked' = Asked \ {r} /\ BoardStatus' = BoardStatus
    BY <1>req, <2>1 DEF Asked, At, Idle, BoardStatus
  <2>3. CASE r \in Asked
    BY <2>1, <2>2, <2>3 DEF Promise!Move, BoardStatus, Asked
  <2>4. CASE r \notin Asked
    BY <2>1, <2>2, <2>4
  <2> QED
    BY <2>3, <2>4
<1>4. CASE ListPulls(r) \/ LoadPull(r) \/ SyncPulls(r)
  <2>1. /\ UNCHANGED <<made, ticket, claimed>> /\ ~At(r, "set.status")
        /\ req'[r].at # "set.status" /\ \A q \in Request \ {r} : req'[q] = req[q]
    <3>1. CASE ListPulls(r)
      <4>1. PICK seen : req' = [req EXCEPT ![r] = [at |-> "listed", seen |-> seen]]
        BY <3>1 DEF ListPulls
      <4> QED
        BY <1>req, <3>1, <4>1 DEF ListPulls, Idle, At, repoVars, ticketVars
    <3>2. CASE LoadPull(r)
      <4>1. PICK seen, p, loaded : req' = [req EXCEPT ![r] =
              [at |-> "sync", seen |-> seen, pull |-> p, loaded |-> loaded]]
        BY <3>2 DEF LoadPull
      <4> QED
        BY <1>req, <3>2, <4>1 DEF LoadPull, At, repoVars, ticketVars
    <3>3. CASE SyncPulls(r)
      <4>1. /\ At(r, "sync") /\ req' = [req EXCEPT ![r] = Idle]
            /\ UNCHANGED <<made, ticket, claimed>>
        BY <3>3 DEF SyncPulls, ticketVars
      <4> QED
        BY <1>req, <4>1 DEF Idle, At
    <3> QED
      BY <1>4, <3>1, <3>2, <3>3
  <2>2. Asked' = Asked /\ BoardStatus' = BoardStatus
    BY <1>req, <2>1 DEF Asked, At, BoardStatus
  <2> QED
    BY <2>1, <2>2
<1> QED
  BY <1>1, <1>2, <1>3, <1>4 DEF Step

LEMMA DeleteRemoves ==
  ASSUME IInv, DeleteTicket
  PROVE  \E t \in Ticket : Promise!Remove(t)
<1>1. PICK t \in Live : ticket' = [ticket EXCEPT ![t] = Null]
  BY DEF DeleteTicket
<1>2. /\ UNCHANGED <<claimed, made, req>> /\ t \in Ticket /\ t \in made
      /\ ticket \in [Ticket -> Nullable(Row)] /\ BoardStatus[t] \in Promise!Status
  BY ColumnOf DEF DeleteTicket, Live, IInv, TypeOK
<1>3. BoardStatus' = [BoardStatus EXCEPT ![t] = "gone"] /\ Asked' = Asked
  BY <1>1, <1>2 DEF BoardStatus, Asked, At
<1> QED
  BY <1>2, <1>3 DEF Promise!Remove, BoardStatus, Asked

LEMMA CreateCreates ==
  ASSUME NullIsNoRow, IInv, CreateTicket
  PROVE  \E t \in Ticket : Promise!Create(t)
<1>1. PICK t \in Ticket \ made :
        made' = made \union {t} /\ ticket' = [ticket EXCEPT ![t] = Moved("BACKLOG")]
  BY DEF CreateTicket
<1>2. UNCHANGED <<claimed, req>> /\ ticket \in [Ticket -> Nullable(Row)]
  BY DEF CreateTicket, IInv, TypeOK
<1>3. Moved("BACKLOG") # Null /\ Moved("BACKLOG").status = "BACKLOG"
  BY MovedOK DEF NullIsNoRow, Status
<1>4. BoardStatus[t] = "new" /\ BoardStatus' = [BoardStatus EXCEPT ![t] = "BACKLOG"]
  BY <1>1, <1>2, <1>3 DEF BoardStatus
<1>5. Asked' = Asked
  BY <1>2 DEF Asked, At
<1> QED
  BY <1>1, <1>2, <1>4, <1>5 DEF Promise!Create, BoardStatus, Asked

\* Every step is one that Automation allows, or one it does not see.
LEMMA StepsGoverned ==
  ASSUME NullIsNoRow, IInv, [Next]_vars
  PROVE  [Promise!Next]_(Promise!vars)
<1>1. UNCHANGED <<BoardStatus, claimed, Asked>> => UNCHANGED Promise!vars
  BY DEF Promise!vars, BoardStatus, Asked
<1>2. CASE \E d \in Delivery : Deliver(d)
  BY <1>2, DeliverApplies DEF Promise!Next
<1>3. CASE \E r \in Request : Step(r)
  BY <1>1, <1>3, RequestMoves DEF Promise!Next
<1>4. CASE CreateTicket \/ DeleteTicket
  BY <1>4, CreateCreates, DeleteRemoves DEF Promise!Next
<1>5. CASE PullChanges \/ OtherEvent \/ Disconnect \/ Reconnect \/ UNCHANGED vars
  <2>1. UNCHANGED <<made, ticket, claimed, req>>
    BY <1>5 DEF PullChanges, OtherEvent, Disconnect, Reconnect, vars, ticketVars
  <2> QED
    BY <1>1, <2>1 DEF BoardStatus, Asked, At
<1> QED
  BY <1>2, <1>3, <1>4, <1>5 DEF Next

----------------------------------------------------------------------------
(* Theorems *)

\* The inductive invariant holds in every state.
LEMMA Invariant ==
  ASSUME NullIsNoRow
  PROVE  Spec => []IInv
<1>1. Init => IInv
  BY InitIInv
<1>2. IInv /\ [Next]_vars => IInv'
  BY NextIInv
<1> QED
  BY <1>1, <1>2, PTL DEF Spec

\* The rows, the events and what each request has read keep their types.
THEOREM TypeCorrect ==
  ASSUME NullIsNoRow
  PROVE  Spec => []TypeOK
<1>1. IInv => TypeOK
  BY DEF IInv
<1> QED
  BY <1>1, Invariant, PTL

\* However deliveries and syncs interleave with the creation and the deletion of
\* tickets, a pull request is linked to exactly the tickets that its last text
\* names, that existed when the text was applied and that exist still.
THEOREM FollowText ==
  ASSUME NullIsNoRow
  PROVE  Spec => []LinksFollowText
<1>1. IInv => LinksFollowText
  BY DEF IInv
<1> QED
  BY <1>1, Invariant, PTL

\* No order of deliveries leaves a pull request with the checks of an old head.
THEOREM ChecksKept ==
  ASSUME NullIsNoRow
  PROVE  Spec => DeliveriesKeepChecks
<1> DEFINE Kept == claimed' # claimed => \A p \in Pull :
             (artifact[p] = Null \/ artifact[p].ci \in {Null, artifact[p].head})
               => (artifact'[p] = Null \/ artifact'[p].ci \in {Null, artifact'[p].head})
<1>1. IInv /\ [Next]_vars => [Kept]_vars
  <2> SUFFICES ASSUME IInv, Next
               PROVE  Kept
    OBVIOUS
  <2>1. CASE \E d \in Delivery : Deliver(d)
    BY <2>1, KeepChecks
  <2>2. CASE ~\E d \in Delivery : Deliver(d)
    BY <2>2 DEF Next, PullChanges, OtherEvent, Step, Refuse, ChangeStatus, SetStatus, ListPulls,
             LoadPull, SyncPulls, CreateTicket, DeleteTicket, Disconnect, Reconnect
  <2> QED
    BY <2>1, <2>2
<1> QED
  BY <1>1, Invariant, PTL DEF Spec, DeliveriesKeepChecks

\* Seen from the board the code is an Automation: an event counts once and moves
\* tickets forward only, and every other move is a request somebody made.
THEOREM Governed ==
  ASSUME NullIsNoRow
  PROVE  Spec => AutomationIsGoverned
<1>1. Init => Promise!Init
  <2> SUFFICES ASSUME Init
               PROVE  Promise!Init
    OBVIOUS
  <2>1. made = {} /\ claimed = {}
    BY DEF Init
  <2>2. BoardStatus = [t \in Ticket |-> "new"]
    BY <2>1 DEF BoardStatus
  <2>3. Asked = {}
    BY DEF Init, Asked, At, Idle
  <2> QED
    BY <2>1, <2>2, <2>3 DEF Promise!Init, BoardStatus, Asked
<1>2. IInv /\ [Next]_vars => [Promise!Next]_(Promise!vars)
  BY StepsGoverned
<1> QED
  BY <1>1, <1>2, Invariant, PTL DEF Spec, AutomationIsGoverned, Promise!Spec
=============================================================================
