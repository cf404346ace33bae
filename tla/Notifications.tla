--------------------------- MODULE Notifications ---------------------------
(***************************************************************************)
(* Who is told of what. Comments mention people; saving one queues a chat   *)
(* message per webhook about those it newly mentions, and tickets queue one *)
(* when they are created or done. The messages are sent after the response, *)
(* one after the other, each tried up to four times; a request that fails   *)
(* before it has answered, and a process that stops, take their queue with  *)
(* them. Who may comment or be mentioned is left out.                       *)
(***************************************************************************)
EXTENDS Naturals

CONSTANTS
  User,      \* people who can be mentioned
  Hook,      \* chat webhooks, with their urls
  Attempts,  \* how often a message is tried
  Request,   \* requests that can be in flight at once
  Null,      \* before a comment is made
  Deleted    \* after it has been deleted

VARIABLES
  hooks,    \* project_chat_webhook: the webhooks that are set up
  comment,  \* mentioned_user_ids of a comment; Null before it, Deleted after it
  req,      \* where each request stands
  told,     \* history: people mentioned in a message that was queued, or lost with a
            \* request that failed or a process that stopped
  owed      \* history: the messages of each answered request that are not yet tried

vars == <<hooks, comment, req, told, owed>>

----------------------------------------------------------------------------
Mentions == SUBSET User

Exists == comment \notin {Null, Deleted}

\* about: whom the message mentions, nobody for a ticket's message
RequestState ==
  {[at |-> "idle"]}
  \union [at : {"edit"}, mentions : Mentions, previous : Mentions]
  \union [at : {"saved"}, about : Mentions]
  \union [at : {"respond", "tasks"}, queue : SUBSET Hook]
  \union [at : {"sending"}, queue : SUBSET Hook, hook : Hook, attempt : 1 .. Attempts]

Idle == [at |-> "idle"]

At(r, point) == req[r].at = point

Goto(r, there) == req' = [req EXCEPT ![r] = there]

Finish(r) == Goto(r, Idle)

----------------------------------------------------------------------------
Init ==
  /\ hooks = {}
  /\ comment = Null
  /\ req = [r \in Request |-> Idle]
  /\ told = {}
  /\ owed = [r \in Request |-> {}]

\* An owner saves or removes webhooks.
SetHooks ==
  /\ hooks' \in SUBSET Hook
  /\ UNCHANGED <<comment, req, told, owed>>

----------------------------------------------------------------------------
(* Comments and tickets *)

\* add_comment
AddComment(r) ==
  /\ req[r] = Idle
  /\ comment = Null
  /\ \E M \in Mentions :
       /\ comment' = M
       /\ Goto(r, [at |-> "saved", about |-> M])
  /\ UNCHANGED <<hooks, told, owed>>

\* edit_comment, up to its commit
EditComment(r) ==
  /\ req[r] = Idle
  /\ Exists
  /\ \E M \in Mentions : Goto(r, [at |-> "edit", mentions |-> M, previous |-> comment])
  /\ UNCHANGED <<hooks, comment, told, owed>>

\* new_mentions
MutNew(mentions, previous) == mentions \ comment'

New(mentions, previous) == mentions \ previous

\* The column is written only where the edit changed what it had loaded.
WriteComment(r) ==
  LET c == req[r] IN
  /\ At(r, "edit")
  /\ Exists
  /\ comment' = IF c.mentions = c.previous THEN comment ELSE c.mentions
  /\ Goto(r, [at |-> "saved", about |-> New(c.mentions, c.previous)])
  /\ UNCHANGED <<hooks, told, owed>>

\* The UPDATE finds no row.
CommentGone(r) ==
  /\ At(r, "edit")
  /\ comment = Deleted
  /\ Finish(r)
  /\ UNCHANGED <<hooks, comment, told, owed>>

DeleteComment ==
  /\ Exists
  /\ comment' = Deleted
  /\ UNCHANGED <<hooks, req, told, owed>>

\* schedule_comment_mention: one task per webhook, if anybody is newly mentioned
ScheduleMention(r) ==
  LET c == req[r] IN
  /\ At(r, "saved")
  /\ told' = told \union c.about
  /\ Goto(r, [at |-> "respond", queue |-> IF c.about = {} THEN {} ELSE hooks])
  /\ UNCHANGED <<hooks, comment, owed>>

\* schedule, for a ticket that was created or done
ScheduleTicket(r) ==
  /\ req[r] = Idle
  /\ Goto(r, [at |-> "respond", queue |-> hooks])
  /\ UNCHANGED <<hooks, comment, told, owed>>

\* The page is rendered and sent: only then do the queued tasks start.
Respond(r) ==
  LET Q == req[r].queue IN
  /\ At(r, "respond")
  /\ owed' = [owed EXCEPT ![r] = Q]
  /\ Goto(r, [at |-> "tasks", queue |-> Q])
  /\ UNCHANGED <<hooks, comment, told>>

\* An exception after the commit, in scheduling or in rendering the page: a viewer
\* who has left the project meanwhile is enough. The queue goes with the request.
ResponseFails(r) ==
  /\ req[r].at \in {"saved", "respond"}
  /\ told' = told \union (IF At(r, "saved") THEN req[r].about ELSE {})
  /\ Finish(r)
  /\ UNCHANGED <<hooks, comment, owed>>

----------------------------------------------------------------------------
(* Background tasks *)

\* The next dispatch begins, or there is none left.
NextTask(r) ==
  LET Q == req[r].queue IN
  /\ At(r, "tasks")
  /\ IF Q = {} THEN Finish(r)
     ELSE \E h \in Q : Goto(r, [at |-> "sending", queue |-> Q \ {h}, hook |-> h, attempt |-> 1])
  /\ UNCHANGED <<hooks, comment, told, owed>>

\* What is left to do after a dispatch that raised
MutAfterError(Q) == {}

AfterError(Q) == Q

Tried(r) == owed' = [owed EXCEPT ![r] = @ \ {req[r].hook}]

\* One post: taken, refused or timed out. The last refusal ends the dispatch.
Post(r) ==
  LET c == req[r] IN
  /\ At(r, "sending")
  /\ Tried(r)
  /\ \/ Goto(r, [at |-> "tasks", queue |-> c.queue])
     \/ /\ c.attempt < Attempts
        /\ Goto(r, [c EXCEPT !.attempt = @ + 1])
  /\ UNCHANGED <<hooks, comment, told>>

\* dispatch never raises: an invalid url or an unexpected exception is logged.
DispatchError(r) ==
  /\ At(r, "sending")
  /\ Tried(r)
  /\ Goto(r, [at |-> "tasks", queue |-> AfterError(req[r].queue)])
  /\ UNCHANGED <<hooks, comment, told>>

\* The process stops with every request and every queue.
Crash ==
  /\ told' = told \union UNION {IF At(r, "saved") THEN req[r].about ELSE {} : r \in Request}
  /\ owed' = [r \in Request |-> {}]
  /\ req' = [r \in Request |-> Idle]
  /\ UNCHANGED <<hooks, comment>>

----------------------------------------------------------------------------
Step(r) ==
  \/ AddComment(r) \/ EditComment(r) \/ WriteComment(r) \/ CommentGone(r)
  \/ ScheduleMention(r) \/ ScheduleTicket(r) \/ Respond(r) \/ ResponseFails(r)
  \/ NextTask(r) \/ Post(r) \/ DispatchError(r)

Next == SetHooks \/ DeleteComment \/ Crash \/ \E r \in Request : Step(r)

Spec == Init /\ [][Next]_vars

----------------------------------------------------------------------------
(* Properties *)

\* The tables and what each request carries keep their types.
TypeOK ==
  /\ hooks \subseteq Hook
  /\ comment \in Mentions \union {Null, Deleted}
  /\ req \in [Request -> RequestState]
  /\ told \subseteq User
  /\ owed \in [Request -> SUBSET Hook]

\* Whoever a comment mentions has been named in a message that was queued, is about
\* to be, or was lost with a request that failed or a process that stopped, although
\* each of several edits at once only announces whom it adds to the mentions it had
\* loaded.
MentionedAreTold ==
  Exists =>
    \A u \in comment :
      u \in told \/ \E r \in Request : At(r, "saved") /\ u \in req[r].about

\* Once a request has answered, each message it queued is tried, unless the process
\* stops: until then it is in a queue that is still being worked on, whatever became
\* of the messages before it ("Never raises": an exception would stop the later
\* tasks).
AnsweredIsTried ==
  \A r \in Request :
    owed[r] \subseteq CASE At(r, "tasks") -> req[r].queue
                       [] At(r, "sending") -> req[r].queue \union {req[r].hook}
                       [] OTHER -> {}
=============================================================================
