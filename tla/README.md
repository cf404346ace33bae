# Kanban Flow: TLA+ models and proofs

Kanban Flow is a FastAPI application with SQLModel tables in SQLite (WAL mode).
This directory holds TLA+ models of its server, TLC configurations that check
them on small instances, and TLAPS proofs that hold for every size.

## How the server runs, and what that makes atomic

* Nearly all routes are synchronous functions: each request runs in a worker
  thread with a session of its own (`app/db.py`). Two are `async`, to read a body
  (`save_sprint_report_form`, web_sprints.py:332, and `github_webhook`,
  github_webhook.py:27), and the modules treat them like the others. The Gmail
  poller (`gmail_sync.poll_forever`, one thread) writes to the same database.
* pysqlite opens a transaction only at the first INSERT, UPDATE or DELETE. The
  SELECTs before it see whatever is committed at that moment. From the first
  write to the commit SQLite admits no other writer, so **a request is some
  reading steps and one atomic writing step**, and what it read can be stale by
  the time it writes.
* `begin_write` (`app/db.py`) takes the write lock before the reads; a request
  that uses it is one atomic step from there on.
* The ORM writes, by primary key, only the columns whose value differs from the
  one loaded. Two edits of one row merge column by column. Rows already in a
  session are not read again by a later SELECT, unless the code asks for it
  (`populate_existing`, `refresh`). An UPDATE of a row that is gone fails the
  request; a DELETE of one only warns.
* Unique constraints, partial indexes and foreign keys are checked at the write
  and turn a race into an error (409) or a failed request.

## Inventory

| Component | State | Operations | What makes it correct |
| --- | --- | --- | --- |
| Sprint lifecycle (`services.py`, `api_sprints.py`, `web_sprints.py`) | `sprint`, `sprint_report`, `sprint_ticket_history` | create, update, start, close | one planning and one active sprint at most; PLANNING, ACTIVE, CLOSED in that order; a closed sprint's record is frozen; work rolls into the planning sprint |
| Tickets in sprints (`services.py`, `api_tickets.py`, `web_tickets.py`) | `ticket.sprint_id`, points, `first_sprint_entered_at`, `rollover_count`, `delayed_days` | create, edit, plan, delete | in open sprints only; stamped on first entry; kept while recorded in a history |
| Ticket status (`services.set_status`) | `status`, `completed_at`, notes | set status, edit form, merge of a pull request | automation only moves tickets forward; `completed_at` is set exactly while DONE |
| Backlog (`reorder_backlog_ticket`, `allocate_ticket_number`) | `backlog_rank`, `next_ticket_number` | create, move up and down, edit, plan, delete | numbers gapless, ranks distinct, a move passes one ticket |
| Members and projects (`services.py`, `api_projects.py`, `web_settings.py`) | `user`, `project`, `project_member` | add, change role, remove, create and delete project, delete account | an owner always remains; leavers are unassigned |
| Sign-in, accounts and tokens (`auth.py`, `security.py`, `services.py`) | `user`, cookies, `api_token`, attempts in memory | register, sign in, profile, password, issue, stamp, revoke, delete account | a revoked token stays revoked; nobody signs in as a deleted account; a limit on attempts that lets people in again |
| Sprint reports (`sprint_reports.py`) | `sprint_report` | fill, save draft, finalise | nothing changes after finalising; a client's draft is marked and cites true facts |
| Comments, notifications (`comments.py`, `notifications.py`) | `ticket_comment`, background tasks | add, edit, delete, deliver with retries | whoever is mentioned is announced by some request; once a request has answered, a failing message does not stop the others |
| Attachments (`attachments.py`) | `ticket_attachment`, files | upload, import, delete | the row of an upload has its file; a file without a row has one of a few causes; uploads keep to 1 GB per project |
| Gmail import (`gmail_sync.py`, `gmail_connections.py`) | `gmail_connection`, `integration_delivery`, token cache | connect, map labels, poll, rescan, disconnect | a conversation becomes one ticket; the cursor passes no mail except what it may overlook |
| GitHub connection (`github.py`, `web_github.py`) | `github_connect_state`, installations, bindings, repositories | issue state, claim, bind, select, disconnect | a state serves one request; a project has one installation |
| GitHub events (`github_sync.py`) | artifacts, links, deliveries | webhook, manual sync | a delivery counts once; links are to the tickets the text named when it was applied; checks belong to the head |
| Pages, schemas, MCP server | none beyond a request | rendering, validation, HTTP calls | not modelled |

Components meet in the tables: closing a sprint moves tickets others are
editing; removing a member clears assignees; a merged pull request moves
tickets; the poller creates tickets as the member who connected Gmail.
`PROJECT.json` lists the hazards of this code at the lines where they bite.

## Modules

| Module | Models | Run | Proofs |
| --- | --- | --- | --- |
| `Sprints` | sprint lifecycle and tickets in sprints | `sprints`, `board` | `SprintsProofs` |
| `Membership` | projects, members, assignees | `membership` | `TeamProofs` |
| `Governance` | the promise about owners that `Membership` implements | `membership` | `TeamProofs` |
| `GitHubSync` | events, the manual sync and the statuses they meet | `board` | `GitHubSyncProofs` |
| `Automation` | the promise about moved tickets that `GitHubSync` implements | `board` | `GitHubSyncProofs` |
| `GmailIntake` | polling a mailbox | `gmail` | `GmailIntakeProofs` |
| `GitHubConnect` | connecting projects to GitHub | `pages` | `PagesProofs` |
| `Attachments` | rows, files and the quota | `pages` | `AttachmentsProofs`, `PagesProofs` |
| `SprintReports` | drafts and finalisation of a report | `pages` | `PagesProofs` |
| `Notifications` | mentions and chat messages | `pages` | `PagesProofs` |
| `Accounts` | accounts, cookies and tokens | `membership` | `AccountsProofs`, `TeamProofs` |
| `Backlog` | ticket numbers and backlog order | `membership` | `TeamProofs` |
| `RateLimit` | attempts to sign in | `membership` | `TeamProofs` |
| `Team` | `Membership` beside `Accounts`, `RateLimit`, `Backlog` | `membership` | `TeamProofs` |
| `Pages` | `GitHubConnect` beside `Attachments`, `SprintReports`, `Notifications` | `pages` | `PagesProofs` |
| `Sums` | nothing: lemmas about sums over finite sets | | itself |

`MCSprints`, `MCGitHub`, `MCGmail`, `MCTeam`, `MCPages` and `MCMembership` give
the constants values for TLC. `Team` and `Pages` put components that share no
variable into one specification: a behaviour picks one (`part`) and leaves the
others at their initial states. `MCBoard` (`GitHubSync` beside a second instance of
`Sprints`) and `MCMail` (two instances of `GmailIntake`) do the same with instances. The reachable states are the disjoint union of
those of the components, and an invariant or step property of one holds there exactly
when it holds of that component alone. Definitions named `Mut...` are faulty
variants of the code that the properties are tried against.

In every module `Null` is SQL NULL, `req` (or `work`, `cycle`) says which point
a request has reached and what it has read, and `Column` is the ORM's UPDATE of
one column: written only if the request changed it, over whatever the row holds
by then. `Refuse`, where a module has it, ends a request that has written nothing
(in `RateLimit` it is an attempt that is turned away).

### Sprints

`status`, `end`, `committed` and `completed` are columns of `sprint`; `report`
is the set of sprints with a report; `history` the rows of
`sprint_ticket_history`; `phase` and `ticket` the ticket table, with DONE
against the other four statuses, points, the day of first entry, rollovers and
delay. `req[r]` is the point a request has reached and what it has read.

Each service function is one action per database call: `start_sprint` is
`StartSprint` (load, check the status), `CheckNoneActive`, `SumCommitted`,
`Activate` (the UPDATE by id, under the partial unique index); `close_sprint` is
`CloseSprint`, `LoadNextSprint` (both with `populate_existing`) and `Close` (the
claiming UPDATE, history rows, rollovers, report and totals, one transaction).
`EditTicket` and `MoveTicket` load a row and prepare an edit, `ValidateSprint`
is the check between, `WriteTicket` flushes the changed columns over whatever the
row holds by then. `Refuse` ends a request that has written nothing: a check
failed, a constraint was hit, the lock timed out or the server stopped. A
rolled-back transaction is a request that refused.

Left out: names, goals, notes, start dates, the order of the checks that only
read the request's body, and project deletion. A ticket's day of entry is
any day, so a clock that jumps is included. The author's role is not read.

What is checked:

* `LifecycleInv`: one sprint of each open kind; a closed sprint has its report;
  and what a closing request relies on. `close_sprint` checks the next sprint
  before its transaction and not in it. That is enough, and not obviously:
  while the closing sprint is active and unreported it has been active all along,
  so the index kept the next one from starting. If the closing sprint was closed
  and reopened in between, the unique report stops the second close
  (`ReportUnique`).
* `RolloverTargetIsPlanning`: hence tickets only roll into a planning sprint.
* `ReportedSprintFrozen`: the history and completed points of a reported sprint
  never change, although a late start may reopen it.
* `VelocityMatchesHistory`, `CloseAccountsForEveryTicket`: the three loops of
  `close_sprint` agree on every ticket.
* `DatesInv`: a ticket in a sprint has its stamp and a rolled-over ticket its
  age, whatever edits overlap. `PendingEdit` is what an edit in flight must
  satisfy for its column-wise flush to keep this true.
* `HistoryTicketsLive`: the foreign key backs up the early history check.

Two statements of the documentation fail, each in a run of its own:

* `unclose`: "there is no un-close" (`docs/product-specification.md:635`). A
  start checked early and committed late reopens a closed sprint.
* `stranded_ticket`: "sprint must be planning or active"
  (`services.py:729`). A ticket can join a sprint that closes after the check.

### Membership and Governance

`account` and `personal` are columns of `user` (`deleted_at`, and an address of
one's own), `phase` is the project table, `role` the table `project_member` with
NULL for no row, `home` and `assignee` columns of `ticket`.

`SignIn` is `current_user`; `AsOwner` and `AsMember` are the access checks. What
follows depends on the lock. `update_project_member`, `remove_project_member` and
`delete_account` take it before they look at the owners, so `WriteRole`,
`DeleteMember` and `DeleteAccount` are one action each, though the access check
(`ChangeMember`, `RemoveMember`, `SignIn`) comes earlier. Adding a member
(`AddMember`, `FindUser`, `InsertMember`), creating and deleting a project and
assigning a ticket do not take it, so each read is an action. `Seen` is a
consequence of the session's identity map: the caller's own membership was loaded
as OWNER by the access check and the SELECT under the lock does not load it again.
The foreign key of a row inserted in a project that has gone refuses it
(`Referenced`).

`Governance` knows which projects were founded, which of them were dissolved and
who owns them: `Found`, `Appoint`, `Retire` (one person, any number of projects,
never the last owner) and `Dissolve`, once, after which nobody is appointed. `Promise`
is the refinement mapping: `dissolved` is the set of projects that
`delete_project` has deleted, so a live project cannot lose its owners under the name
of `Dissolve`.

What is checked:

* `OwnersRemain`, `NoStrays` (`MembershipInv`): a live project has an owner, and
  a deleted one has no member and no assigned ticket, whatever was on its way.
* `OwnersAreGoverned`: the refinement. It says more than the invariant: no step
  takes two owners away at once or swaps one for another, and only the step that
  deletes the project takes the last one.
* `LeaversAreUnassigned`: losing a membership, by removal, with the account or
  with the project, clears the assignee in the same step.

Two statements fail, each in a run of its own:

* `assignee`: an assignee "must be a member of the same project"
  (`docs/product-specification.md:594`). The check comes before the transaction.
* `deleted_account`: "Anonymize the user and remove their access"
  (`services.py:189`). A profile form signed in before the deletion is saved
  after it.

Left out: project settings and chat webhooks. Registration, passwords and tokens
are in `Accounts`. A project or ticket once deleted does not come back, as ids
are new each time.

### GitHubSync and Automation

`hub` is GitHub: its pull requests now; `sent` the event of each delivery id.
`artifact`, `links`, `commits` and `claimed` are tables. Tickets are created by
`CreateTicket` at any time (`made`), and deleted. `texts` remembers, for
`LinksFollowText`, which of the tickets named by the text last applied to a pull
request existed then: a reference to a ticket that comes later leaves no link, and
none is made when the ticket is created, until a text is applied again.

A webhook delivery takes the write lock before it claims its id, so `Deliver` is
one action: claim, dispatch (`PullRequestEvent`, `ReviewEvent`, `CheckRunEvent`,
`PushEvent`, `RemovedEvent`, or `InactiveEvent` for a repository that is not
connected), commit. Deliveries come in any order; one whose transaction failed
is not claimed and may come again. The manual sync is `ListPulls` (GitHub's list), `LoadPull` (the first
artifact, before any lock) and `SyncPulls` (all others and the commit under the
lock). `ChangeStatus` and `SetStatus` are the forms that set a status. Reviews
come to two values, the state of a commit's checks is abstracted to whose checks
they are: `ci = h` says that the verdict was computed for head `h`.

* `LinksFollowText`: links are the tickets that the last text named and that existed
  when it was applied, except those deleted since, whichever path applied it.
* `DeliveriesKeepChecks`: no delivery leaves an artifact with the checks of an
  old head. It is claimed of deliveries only: a sync computed from an older list
  may write anything that list implied.
* `AutomationIsGoverned`: `Automation` (`Ask`, `Move`, `Apply`, `Remove`) is what
  people rely on: an event counts once, moves tickets only to the right, and
  everything else that moves one is a request somebody made.
* The run `completed_at`: "completed_at tracks DONE membership"
  (`services.py:913`) fails, because `completed_at` is decided from the loaded
  row and written column by column.

Left out: titles, authors, notes and activity entries; the notification of a
ticket that is done (`Notifications` has it). A pull request becomes known by the
events modelled; transfers between repositories do not occur.

### GmailIntake

`log` is what Gmail has recorded for each mailbox, `horizon` how much of it Gmail
has forgotten, `row` the connection (at most one per project), `token` the cached
access tokens of each process. A cycle is `Poll`, `CachedToken` or `FreshToken` (a
token may expire at any time, and a cached one opens the mailbox it was made for),
`ListHistory` (or `RescanLabels` and `ReadProfile` after a 404), then `ReadMail` and
`CreateTicket` or `Duplicate` for each message, and `SaveCursor`. The rescan lists
mail of the last two days only, so `RescanLabels` takes any subset of the mailbox for
recent. A history id of another mailbox stands for any place of the log. `held` is the connection as
the session holds it: after a commit it is Null and the next use reads the row
again. `Fail`, `Revoked`, `Crash` and `Vanished` end cycles at any point.

* `OneTicketPerThread`: the delivery rows keep replayed, retried and overlapping
  cycles from making a second ticket of a conversation.
* `MailArrives` (liveness): mail labelled for import becomes a ticket, or its
  conversation has one, as long as the connection is active and a cycle does not
  overlook it. It does **not** say that every labelled mail arrives. `due` is what is
  asked for, and the actions take out of it what the code gives up: mail labelled
  before its label was mapped, or while a cycle with the older labels runs; after an
  expired history, mail older than two days or labelled between the rescan and the
  profile that follows it; mail before the place for which a foreign cursor happens to
  stand; mail of a mailbox that was replaced. What it does say is that no failure, crash,
  second poller, stale token or reconnection makes the cursor pass anything else.
  `LabelledMailArrives` (in `MCMail`) is this for two pollers of one mailbox, and for a
  connection moved between two mailboxes, where the cursor and the cached token can be
  foreign.
* The run `gmail_cursor`: "Another mailbox: its label ids and history ids mean
  nothing here" (`gmail_connections.py:52`) fails when a cycle is under way while
  the mailbox is replaced.

Left out: MIME parsing, senders, and the text of tickets.

### GitHubConnect

A state row is issued (`StartConnect`, `IssueSelection`), brought back (`Bring`
checks it) and claimed by a conditional UPDATE (`Claim`). Behind the claim are the
three endpoints: `Setup`, `RecordInstallation`, `Choose` with `FirstBinding` or
`FindBinding`, and `SaveSelection`. `Disconnect` and `Removed` only deactivate.
`Expire`, `ChangeOwner` are the time and the members.

* `StatesServeOnce`, `OneInstallation`, `BindingIsFinal`: two requests with one
  state, and two owners with two installations, race.

Left out: GitHub's answers, tokens, signatures; which repositories a user may see.

### Attachments

`disk` takes no part in transactions. `Upload` and `Import` begin with the rows
counted so far; `StoreUpload` and `StoreImport` write one file;
`CommitUpload` recounts under the lock (`Fits`), `CommitImport` does not.
Every failure discards what the worker has recorded (`Fail`, `WriteFails`,
`RejectUpload`, `RejectImport`, `Interrupted`). The disk fails too:

* `WriteFails`: a write that breaks off leaves a part of the file, whose row is not
  yet among those discarded (attachments.py:45, 171-179). `partial` remembers it.
* `Discard`, `UnlinkFails`, `Rmtree`: a removal that fails leaves the file
  and those behind it (services.py:468, attachments.py:213). `orphan` remembers these,
  with the files left by a crash and by a ticket's deletion that listed its files
  before an upload committed.
* `Interrupted`: whatever fails between the commit of an imported ticket and
  `committed = True` (gmail_sync.py:182) discards the files of committed rows.

Deletions remove rows in a transaction and files after it.

* `UploadsHaveFiles`: every row is of a live ticket, and that of an upload has its file.
* `LeftoversHaveACause`: a file without a row is in somebody's hands, or in `partial`
  or `orphan`: interleavings of uploads, imports and deletions add no other.

The documentation promises more. The run `rows_files` shows that "an orphan file on
disk, never a row pointing at a missing file" (`RowsHaveFiles`) fails, by
`Interrupted`. That "on any failure nothing is left on disk" (attachments.py:162) fails
already by `WriteFails`, which is why `LeftoversHaveACause` names `partial`.

Imports can exceed the quota, uploads cannot:

* `UploadsWithinQuota`: the uploads alone never exceed the quota. Imports can:
  they are not recounted.

### SprintReports

`report` is the row, `facts` what the payload would say now. `Load` or `Fill`
(the row is made on first sight), `Save` and `Finalize` decide on the row as read
again under the lock (`Locked`). `FinalizedFrozen`, `DraftsAreMarked`,
`DraftsCiteThePayload`.

### Notifications

A comment is its set of mentions. `AddComment`, `EditComment`, `WriteComment`
save it, `ScheduleMention` queues a message per webhook, `Respond` renders and sends the
page, and only then is the queue worked off by `NextTask`, `Post` and
`DispatchError`. `ResponseFails` is an exception between the commit and the response
(the route still reads, web_tickets.py:351 and 405, 83-88), which loses the queue
with its request; `Crash` loses all queues. `told` and `owed` are histories.

* `MentionedAreTold`: of two edits at once each announces whom it added to what
  it had read; together nobody is missed. "Told" is queued, or lost with a request that
  failed or a process that stopped.
* `AnsweredIsTried`: once a request has answered, a message that fails leaves those
  behind it in the queue, each of which is tried unless the process stops. There is no
  persistence to recover from, and delivery is not claimed.

### Accounts, Backlog, RateLimit

`Accounts`: a request signs in by cookie or token (`ByCookie`, `ByToken`), stamps a token
not used for an hour (`TouchToken`), and writes later what it loaded. `DeleteAccount` is one
transaction under the lock. `RevocationIsFinal`: no stamp gives a revoked token
back. `SignedInAreActive`: the stamp fails with the row, so nobody slips in while
the account goes. What a signed-in request may still do to a deleted account is
the run `deleted_account`.

`Backlog`: `InsertTicket` raises the counter in the statement that reads it,
`Reorder` looks its neighbour up under the lock, `WriteTickets` flushes edits of
loaded rows. `NumbersGapless`, `RanksRearrangeNumbers`, `MovesPassOneTicket`.

`RateLimit`: `Pass` and `Refuse` are one step each: the lock is held from the
`popleft` loop to the `append`. `Recent` is that loop, which stops at the first
attempt that still counts; that nothing expired is left behind it needs the
attempts to be in the order of time, which is proved and not built in.
`WithinLimit` for every window, `RefusalsAreFree` (who waits is let in),
`TableIsBounded`. The promise ends for a client the table forgot when it was full.

## Runs and bounds

| Run | Instance | States | Shows |
| --- | --- | --- | --- |
| `sprints` | 3 sprints, 1 ticket, 2 requests | 2.7 million | the invariants and step properties of `Sprints` |
| `unclose` | 2 sprints, 1 ticket, 2 requests | to the violation | `NoUnclose` fails |
| `stranded_ticket` | 2 sprints, 1 ticket, 2 requests | to the violation | `TicketsEnterOpenSprints` fails |
| `membership` | Membership: 2 users, 2 projects, 1 ticket; Accounts: 2 users, 2 addresses, 1 token; RateLimit: 3 clients of which 2 are remembered; Backlog: 3 tickets; 2 requests each | 610 thousand | owners, leavers, tokens, limit, order |
| `assignee` | 2 users, 1 project, 1 ticket, 2 requests | to the violation | `AssigneesAreMembers` fails |
| `deleted_account` | 2 users, 1 project, 1 ticket, 2 requests | to the violation | `DeletedAccountsAreGone` fails |
| `board` | GitHubSync: 1 ticket, 1 pull request with 2 heads, 1 commit, 2 deliveries, 1 request; Sprints: 2 sprints, 2 tickets of 1 or 2 points, 1 request | 2.2 million | links, checks, and `Automation`; the total of a closed sprint |
| `completed_at` | 1 ticket, 2 requests | to the violation | `CompletedTracksDone` fails |
| `gmail` | 1 mailbox, a conversation of 2 messages, 2 pollers, 1 fault; 2 mailboxes with a message each, 1 poller, 1 fault | 470 thousand | one ticket per conversation; mail arrives unless overlooked |
| `gmail_cursor` | 2 mailboxes with a message each, 1 poller | to the violation | `CursorIsOfMailbox` fails |
| `pages` | GitHubConnect: 1 project, 2 installations, 4 states; Attachments: 2 tickets, 3 files of which 2 fill the quota; SprintReports: 2 fields, 1 fact; Notifications: 2 people, 2 webhooks; 2 requests each | 400 thousand | the properties of these four |
| `rows_files` | as `pages`, files only | to the violation | `RowsHaveFiles` fails |

Nothing in `Sprints` counts without limit: sprints and tickets are finite sets
and a ticket rolls over at most once per closed sprint, so no constraint bounds
the state space. Two requests are enough for one to be overtaken by any sequence
of others, because a finished request starts again; three sprints let one be
reopened while another is active and a third is planned. One day is enough for
`DatesInv`, which asks whether a date is there. The sum over tickets
(`VelocityMatchesHistory`, in `board`) needs two tickets of different sizes and no second request: closing is one step. What
happens to each ticket (`CloseAccountsForEveryTicket`) is checked under two requests.
Two users are enough for two owners who remove each other, two projects for a
sole owner of one who is a co-owner of the other. Nothing counts in `Membership`
either: its sets of projects and tickets are used up, never recycled.

The bounds elsewhere, each named in its module or configuration:

* `GitHubSync`: `Delivery` bounds the events GitHub sends. Two are enough for any
  pair in either order; a sync or a form beside them is the third party. The
  theorems hold for any number.
* `GmailIntake`: `MaxHistory` bounds the log, `MaxRow` the connections,
  `MaxFaults` the failures, crashes and expired histories together. With a past of
  one entry, a labelling of two messages and one fault, the fault can hit
  every point of a cycle, and two pollers can replay each other's mail.
* `RateLimit`: `MaxTime` 4 covers two windows of two units, so a window can begin
  anywhere; a third client pushes one out of a table of two (`MaxKeys`).
* `Attachments`: one file is as large as the quota, two small ones fill it: two
  uploads can each fit alone and not together.
* `GitHubConnect`: four states, because a full connection uses up to three.
* `Notifications`: two attempts instead of four; the number changes nothing but
  the length of a behaviour.
* `Backlog`: three tickets, so that a move can pass one and disturb another.

Most runs treat sets of ids as symmetric; `gmail` does not, as it checks a
liveness property. Deadlock is checked in `sprints` and `board`. It is not where the instance runs out: of accounts and ids in the
composed runs, of history in `gmail`.

## Fairness

Only `GmailIntake` claims liveness. `poll_forever` polls again after every
cycle and swallows every exception, so each poller has weak fairness on the steps
of a cycle (`Advance`). A cached token is used only while it has a minute to live
(gmail_sync.py:41) and tokens last an hour, so a poller that keeps polling keeps asking
for fresh ones: strong fairness of `FreshToken`. Of faults it is assumed that there are at
most `MaxFaults`, at any points: mail cannot arrive if every cycle fails. Nothing is
assumed of people: a disconnected or deactivated connection is released from the
promise.
Elsewhere a request may always be refused and nothing must eventually happen:
messages die with a process, GitHub's deliveries are not claimed to be sent again
and a failed upload is simply reported.

## Proofs

The theorems hold for every value of the constants. They assume that NULL is not
a row or id (`Null \notin Row` and the like, which SQL gives), and of the numbers:

* `Sprints`: there are finitely many tickets; points and days are natural numbers.
* `Attachments`, in `Pages`: finitely many files; sizes and the quota are natural.
* `Notifications`, in `Pages`: a message is tried at least once.
* `RateLimit`, in `Team`: a client has at least one attempt per window (a limit of
  zero would raise on `attempts[0]`, security.py:23); windows, `MaxKeys` and `MaxTime`
  are natural numbers.
* `GmailIntake`: its three bounds are natural numbers; a message has a mailbox and a
  conversation, named by one of its messages.

Nothing else is assumed. Every property of every passing run is a theorem, except
the liveness of `GmailIntake`.

`Sums`: the sum over a finite set does not depend on the order (`SumRemove`), grows
with the set (`SumMonotone`) and with its names exchanged stays the same
(`SumRenamed`). There is no induction over data here: each is shown on a smallest
set that would violate it, which exists because the subsets of a finite set are
well-founded (`SmallestSubset`).

`SprintsProofs`:

* `TypeCorrect`, one case per action, with `StartsOK` as the only strengthening.
* `LifecycleHolds`: `LifecycleInv` is inductive relative to `TypeOK`. Its parts
  `ClosersOK` and `ClaimersOK` are the strengthening: uniqueness of
  the active sprint alone does not say why a claimed sprint's target is planning.
* `RolloverTarget` and `ReportedFrozen` follow from it, step by step.
* `DatesHold`: `SprintTicketsAreDated` is not inductive, since an edit in flight
  may be flushed over it. `EditsOK` and `PlansOK` say what each one holds:
  a stamp present at loading stays, and an edit that brings a sprint brings a stamp.
  `FlushDated` is the lemma about the column-wise write.
* `HistoryHolds`.
* `VelocityHolds`: the record of a sprint is complete when its total is written
  (`HistoryReported`: no history before the report), so the total is the sum over the
  rows added in the same step. The rows of done tickets are those tickets under
  other names, and `CloseSums` is `SumRenamed` for them. That nothing changes the
  rows or the total afterwards is `ReportedFrozen`'s argument.
* `CloseAccounts`: that a rolled-over ticket leaves the sprint rests on
  `ClaimersOK`, by which its target is another sprint than the one that closes.

`TeamProofs`, on `Membership`:

* `TypeCorrect` and `OwnersHold`, by one invariant, `IInv`. `TypeOK` alone is not
  inductive: that a request past its access check is about a project that was
  inserted (`PlacesOK`) follows from roles existing in live projects only
  (`NoStrays`). `CheckedOwner` is the lemma about the check under the lock, with
  the role the session may have seen too early.
* `Governed`: each step maps to a step of `Governance` or to a stutter.
* `LeaversUnassigned`.

`GitHubSyncProofs`:

* `TypeCorrect` and `FollowText`: `TypeOK` is not inductive, since a sync writes
  columns over the row it finds: `KnownForGood` says that a row which a sync has
  loaded does not vanish, and that it has a pull request in hand. `StoreStep`
  covers every step that stores pull requests.
* `ChecksKept`, from the types and `UpsertedOK`, the lemma about the head.
* `Governed`, the refinement: a delivery is `Apply` (`DeliverApplies`, resting on
  `AdvancedOK`: a ticket only moves to the right), a form that ends is `Move`, the
  rest is `Ask`, `Remove` or a stutter.

`AccountsProofs`: `TypeCorrect`, `RevokedForGood`, `ActiveWhenLetIn`; a request
about to stamp a token was let in by it, and as long as the row is there its user
has not been deleted.

`AttachmentsProofs`:

* `FilesOfUploads` and `LeftoversExplained`, by one invariant. Rows of uploads and
  files agree because workers keep apart (`Apart`: no two store one file, nobody
  removes what another stores) and because a file once seen with its row never gets
  another (`WorkerOK`). `Settled` strengthens `LeftoversHaveACause`: the hands that
  hold a file without a row are `Firm`, they will not put it down unsettled.
* `QuotaHolds`: only the commit of an upload adds to what uploads use, and it
  recounts everything under the lock; that everything is no less than the
  uploads among it is `SumMonotone`.
* `TypeCorrect`, where `SumType` gives what a worker has counted.

`GmailIntakeProofs`: `TypeCorrect`, and `OneTicket` by `DeliveriesOK`: the
delivery rows are exactly the mail that has a ticket, each has one, and no two are
of one conversation. `OneTicketPerThread` alone does not say why a replayed message
finds its row.

`TeamProofs`, on `TeamSpec`:

* `TeamRuns`: a behaviour of `TeamSpec` is one of each component, so what is proved
  of a component carries over. `RevokedForGood` and `ActiveWhenLetIn` come
  from `AccountsProofs` that way; `TeamTyped` collects the types.
* `Gapless`, `OneOrder`: the conjunction of the two orders is inductive
  (`BacklogInv`). `OneTicketPassed`: `Neighbours` under the lock does the rest.
* `LimitHolds`, `RefusalsFree`: both compare the table with the history of a client,
  and need `LimitInv`: what the table remembers is the end of that history, the
  rest of it has expired, it is in the order of time, and the table holds at most
  the limit. Then the attempts in any window are among those remembered
  (`LimitHolds`), and those that the loop leaves are all in the window
  (`RefusalsFree`). `RecentIs` is the lemma about the loop.
* `TableBounded`: a forgotten key is the first and only copy.

`PagesProofs`:

* On `GitHubConnect`: `ConnectTyped`, `ServeOnce`, `RowsOfOne`, `BoundForGood`, by
  one invariant: whoever is past the claim has a used state that nobody else has,
  and what a selection or a disconnection has loaded is still there.
* `PagesRun` is `TeamRuns` for `PagesSpec`; `FilesOfUploads`, `LeftoversExplained` and
  `QuotaHolds` come from `AttachmentsProofs`; `PagesTyped` collects the types.
* `DraftsMarked`, `Frozen`, `DraftsCite`, with `OnceClosed`: no report before its
  sprint is closed.
* `MentionedTold`: `MentionedAreTold` is not inductive, since an edit tells only
  those it did not find mentioned. `LoadedAreCovered` says that whomever it found has been told or is in the
  hands of a request, and `StaysCovered` that no step takes that away.
* `AnsweredTried`, from `Waiting`, what a request that has answered still has to try.

Only model-checked: `MailArrives`, the liveness of `GmailIntake`. Its fairness
conditions are ENABLED formulas, which the prover does not handle.

## Not modelled

* The MCP server: it keeps nothing and calls the API, whose operations are
  modelled.
* Pages, templates, schemas and configuration: validation and wording within one
  request. Renaming a project, its settings and its dashboard numbers are reads or
  writes of one row.
* Migrations, seed data and the pragmas of SQLite.
* Cryptography: password hashes, signatures of cookies, webhooks and states are
  taken to work.
* MIME parsing, thumbnails, rendering of Markdown and the text of messages.
* Times: a lock that times out, a request to a service that times out and a
  server that stops are all `Refuse`, `Fail` or `Crash`, which may happen at any
  point and never must.
* Reads that overlap a deletion and only show a stale page.
