---------------------------- MODULE GmailIntake ----------------------------
(***************************************************************************)
(* Tickets from labelled mail. Every 90 seconds a poller reads what Gmail   *)
(* has recorded since the connection's history cursor, makes a ticket of    *)
(* each message under a mapped label, one per conversation, and then moves  *)
(* the cursor. Between these steps it waits for Gmail and holds no lock:    *)
(* owners reconnect the mailbox, change its labels or disconnect it, people *)
(* label mail, Gmail fails, and the server stops.                           *)
(***************************************************************************)
EXTENDS Naturals, Sequences

CONSTANTS
  Mailbox,     \* Gmail accounts
  Message,     \* mail in them
  Box(_),      \* the mailbox of a message
  Thread(_),   \* a conversation, named by its first message
  Label,       \* label ids
  Broken,      \* messages that can never be imported
  Poller,      \* server processes that poll
  MaxHistory,  \* bound on what a mailbox records, its past included
  MaxRow,      \* bound on the connections made
  MaxFaults,   \* bound on failures, crashes and expired histories
  Null         \* SQL NULL

ASSUME BoundsAssumption == MaxHistory \in Nat \ {0} /\ MaxRow \in Nat /\ MaxFaults \in Nat
ASSUME MailAssumption == \A m \in Message : Box(m) \in Mailbox /\ Thread(m) \in Message

VARIABLES
  log,       \* Gmail: what each mailbox has recorded, [messages, label] per labelling
  horizon,   \* Gmail: how much of the log it no longer gives out
  labels,    \* Gmail: the labels on each message
  row,       \* gmail_connection of the project, Null when there is none
  rows,      \* how many connections have been made
  member,    \* whether the person who connected Gmail is in the project
  imported,  \* integration_delivery: the messages with their delivery rows
  tickets,   \* the tickets made of each message
  token,     \* _access_tokens of each process: the mailbox a cached token opens
  cycle,     \* where the polling cycle of each process stands
  faults,    \* how many faults there have been
  due        \* history: mail labelled for import and not overlooked since

gmailVars == <<log, horizon, labels>>
rowVars   == <<row, rows, member>>
mailVars  == <<imported, tickets>>
vars      == <<gmailVars, rowVars, mailVars, token, cycle, faults, due>>

----------------------------------------------------------------------------
Nullable(S) == S \union {Null}

RowId == 1 .. MaxRow

\* A history id is a place in the log of one mailbox.
Cursor == [of : Mailbox, at : 0 .. MaxHistory]

Connection == [id : RowId, box : Mailbox, mapped : SUBSET Label, cursor : Cursor,
               active : BOOLEAN]

ASSUME NullAssumption == Null \notin Mailbox \union Connection

Entry == [messages : SUBSET Message, label : Label]

Idle == [at |-> "idle"]

\* held: the connection as the session has it; Null once a commit or rollback
\* has expired it, and then the next use reads the row again.
CycleState ==
  {Idle}
  \union [at : {"loaded"}, id : RowId, held : Connection]
  \union [at : {"token"}, id : RowId, held : Connection, box : Mailbox]
  \union [at : {"rescan"}, id : RowId, held : Connection, box : Mailbox,
          queue : SUBSET Message, seen : 0 .. MaxHistory]
  \union [at : {"mail"}, id : RowId, held : Nullable(Connection), box : Mailbox,
          queue : SUBSET Message, latest : Cursor]
  \union [at : {"create"}, id : RowId, held : Connection, box : Mailbox,
          queue : SUBSET Message, latest : Cursor, message : Message]

At(w, point) == cycle[w].at = point

Goto(w, there) == cycle' = [cycle EXCEPT ![w] = there]

Finish(w) == Goto(w, Idle)

\* The row a cycle works on is still there.
Exists(w) == row # Null /\ row.id = cycle[w].id

\* A column after the ORM's UPDATE: it is written only where the attribute
\* differs from the value loaded, over whatever the row holds by then.
Column(now, loaded, edited) == IF edited = loaded THEN now ELSE edited

\* The newest history id of a mailbox: nothing recorded so far lies behind it.
MutHere(b) == [of |-> b, at |-> Len(log[b]) + 1]

Here(b) == [of |-> b, at |-> Len(log[b])]

----------------------------------------------------------------------------
\* Every mailbox has a past when it is connected.
Init ==
  /\ \E l \in Label : log = [b \in Mailbox |-> <<[messages |-> {}, label |-> l]>>]
  /\ horizon = [b \in Mailbox |-> 0]
  /\ labels = [m \in Message |-> {}]
  /\ row = Null
  /\ rows = 0
  /\ member = FALSE
  /\ imported = {}
  /\ tickets = [m \in Message |-> 0]
  /\ token = [w \in Poller |-> [i \in RowId |-> Null]]
  /\ cycle = [w \in Poller |-> Idle]
  /\ faults = 0
  /\ due = {}

----------------------------------------------------------------------------
(* Gmail *)

\* Labelling a conversation labels every message in it.
LabelMail ==
  /\ \E t \in {Thread(m) : m \in Message}, l \in Label :
       LET all == {m \in Message : Thread(m) = t}
           b == Box(t)
       IN
       /\ Len(log[b]) < MaxHistory
       /\ \E m \in all : l \notin labels[m]
       /\ log' = [log EXCEPT ![b] = Append(@, [messages |-> all, label |-> l])]
       /\ labels' = [m \in Message |-> labels[m] \union (IF m \in all THEN {l} ELSE {})]
       /\ due' = IF row # Null /\ row.box = b /\ l \in row.mapped THEN due \union all ELSE due
  /\ UNCHANGED <<horizon, rowVars, mailVars, token, cycle, faults>>

\* A label is taken off, or the message is deleted.
UnlabelMail ==
  /\ \E m \in Message :
       /\ labels[m] # {}
       /\ labels' = [labels EXCEPT ![m] = {}]
       /\ due' = due \ {m}
  /\ UNCHANGED <<log, horizon, rowVars, mailVars, token, cycle, faults>>

\* Gmail keeps about a week of history.
Forget ==
  /\ faults < MaxFaults
  /\ faults' = faults + 1
  /\ \E b \in Mailbox : horizon' = [horizon EXCEPT ![b] = Len(log[b])]
  /\ UNCHANGED <<log, labels, rowVars, mailVars, token, cycle, due>>

----------------------------------------------------------------------------
(* Owners *)

\* save_connection for a project without one: the cursor is the mailbox's newest
\* history id, and no label is mapped yet.
Connect ==
  /\ row = Null
  /\ rows < MaxRow
  /\ rows' = rows + 1
  /\ member' = TRUE
  /\ \E b \in Mailbox :
       row' = [id |-> rows + 1, box |-> b, mapped |-> {}, cursor |-> Here(b), active |-> TRUE]
  /\ UNCHANGED <<gmailVars, mailVars, token, cycle, faults, due>>

\* save_connection: another mailbox resets labels and cursor, the same one keeps
\* them.
MutReconnected(b) ==
  [row EXCEPT !.active = TRUE, !.box = b,
              !.mapped = IF b = row.box THEN @ ELSE {},
              !.cursor = Here(b)]

Reconnected(b) ==
  [row EXCEPT !.active = TRUE, !.box = b,
              !.mapped = IF b = row.box THEN @ ELSE {},
              !.cursor = IF b = row.box THEN @ ELSE Here(b)]

Reconnect ==
  /\ row # Null
  /\ \E b \in Mailbox :
       /\ row' = Reconnected(b)
       /\ due' = IF b = row.box THEN due ELSE {}
  /\ member' = TRUE
  /\ UNCHANGED <<gmailVars, rows, mailVars, token, cycle, faults>>

\* save_label_mapping
Mapped(M) == [row EXCEPT !.mapped = M]

\* Mail labelled before its label was mapped is not asked for.
SaveLabels ==
  /\ row # Null
  /\ \E M \in SUBSET Label :
       /\ row' = Mapped(M)
       /\ due' = IF row.mapped \subseteq M THEN due ELSE {}
  /\ UNCHANGED <<gmailVars, rows, member, mailVars, token, cycle, faults>>

Disconnect ==
  /\ row # Null
  /\ row' = Null
  /\ due' = {}
  /\ UNCHANGED <<gmailVars, rows, member, mailVars, token, cycle, faults>>

\* The person who connected Gmail leaves the project.
Leave ==
  /\ member
  /\ member' = FALSE
  /\ UNCHANGED <<gmailVars, row, rows, mailVars, token, cycle, faults, due>>

----------------------------------------------------------------------------
(* A polling cycle *)

\* sync_all picks an active connection and loads it.
Poll(w) ==
  /\ cycle[w] = Idle
  /\ row # Null /\ row.active
  /\ Goto(w, [at |-> "loaded", id |-> row.id, held |-> row])
  /\ UNCHANGED <<gmailVars, rowVars, mailVars, token, faults, due>>

\* mark_needs_reauth, and the end of the cycle
NeedsReauth(w) ==
  /\ row' = [row EXCEPT !.active = FALSE]
  /\ Finish(w)

NoMember(w) ==
  /\ At(w, "loaded")
  /\ ~member
  /\ Exists(w)
  /\ NeedsReauth(w)
  /\ UNCHANGED <<gmailVars, rows, member, mailVars, token, faults, due>>

\* _access_token: a cached token is used, whatever the row says by now, ...
CachedToken(w) ==
  LET id == cycle[w].id IN
  /\ At(w, "loaded")
  /\ member
  /\ token[w][id] # Null
  /\ Goto(w, [at |-> "token", id |-> id, held |-> cycle[w].held, box |-> token[w][id]])
  /\ UNCHANGED <<gmailVars, rowVars, mailVars, token, faults, due>>

\* ... until no more than a minute of its life is left; then, and if there is none,
\* Gmail is asked for one.
FreshToken(w) ==
  LET id == cycle[w].id
      box == cycle[w].held.box
  IN
  /\ At(w, "loaded")
  /\ member
  /\ token' = [token EXCEPT ![w][id] = box]
  /\ Goto(w, [at |-> "token", id |-> id, held |-> cycle[w].held, box |-> box])
  /\ UNCHANGED <<gmailVars, rowVars, mailVars, faults, due>>

\* _labeled_message_ids over the log from a place on
Under(b, from, mapped) ==
  UNION {log[b][k].messages : k \in {k \in from + 1 .. Len(log[b]) : log[b][k].label \in mapped}}

\* The places a history id may stand for in a mailbox: a foreign one is anywhere.
Places(cursor, b) == IF cursor.of = b THEN {cursor.at} ELSE 0 .. Len(log[b])

\* Mail behind the new cursor that is not listed although the connection's own
\* cursor lies before it: its label was mapped too late for this cycle, or the
\* cursor is another mailbox's and stands too far on in this one.
Overlooked(b, cursor, from, mapped) ==
  Under(b, IF cursor.of = b THEN from ELSE 0, Label) \ Under(b, from, mapped)

\* gmail.history, with the labels the session loaded before the call
ListHistory(w) ==
  LET c == cycle[w] IN
  /\ At(w, "token")
  /\ \E from \in Places(c.held.cursor, c.box) :
       /\ from >= horizon[c.box]
       /\ Goto(w, [at |-> "mail", id |-> c.id, held |-> c.held, box |-> c.box,
                   queue |-> Under(c.box, from, c.held.mapped), latest |-> Here(c.box)])
       /\ due' = due \ Overlooked(c.box, c.held.cursor, from, c.held.mapped)
  /\ UNCHANGED <<gmailVars, rowVars, mailVars, token, faults>>

\* 404: the history has expired, and the mail under the labels that is not older
\* than two days is listed. Older mail is overlooked, and so is mail whose label
\* was mapped too late for this cycle.
RescanLabels(w) ==
  LET c == cycle[w]
      mapped == {m \in Message : Box(m) = c.box /\ labels[m] \intersect c.held.mapped # {}}
  IN
  /\ At(w, "token")
  /\ \E from \in Places(c.held.cursor, c.box) : from < horizon[c.box]
  /\ \E recent \in SUBSET {m \in Message : Box(m) = c.box} :
       /\ Goto(w, [at |-> "rescan", id |-> c.id, held |-> c.held, box |-> c.box,
                   queue |-> mapped \intersect recent, seen |-> Len(log[c.box])])
       /\ due' = due \ {m \in Message : Box(m) = c.box /\ (m \notin mapped \/ m \notin recent)}
  /\ UNCHANGED <<gmailVars, rowVars, mailVars, token, faults>>

\* The profile's history id is read after the scan, so mail labelled in between
\* is overlooked.
ReadProfile(w) ==
  LET c == cycle[w] IN
  /\ At(w, "rescan")
  /\ Goto(w, [at |-> "mail", id |-> c.id, held |-> c.held, box |-> c.box,
              queue |-> c.queue, latest |-> Here(c.box)])
  /\ due' = due \ Under(c.box, c.seen, Label)
  /\ UNCHANGED <<gmailVars, rowVars, mailVars, token, faults>>

Seen(m) == \E n \in imported : Thread(n) = Thread(m)

\* The next message, in any order: gmail.message and the checks of
\* _import_message. Mail that is gone, no longer labelled, already imported or
\* broken is passed over.
ReadMail(w) ==
  LET c == cycle[w]
      held == IF c.held = Null THEN row ELSE c.held
  IN
  /\ At(w, "mail")
  /\ c.held = Null => Exists(w)
  /\ \E m \in c.queue :
       IF labels[m] \intersect held.mapped = {} \/ Seen(m) \/ m \in Broken
       THEN Goto(w, [c EXCEPT !.queue = @ \ {m}, !.held = held])
       ELSE Goto(w, [at |-> "create", id |-> c.id, held |-> held, box |-> c.box,
                     queue |-> c.queue \ {m}, latest |-> c.latest, message |-> m])
  /\ UNCHANGED <<gmailVars, rowVars, mailVars, token, faults, due>>

\* The unique keys of a message's delivery rows: its own and its conversation's.
MutFresh(m) == m \notin imported

Fresh(m) == m \notin imported /\ ~Seen(m)

\* The rest of the mail, with the session expired by a commit or rollback.
Continue(w) ==
  Goto(w, [at |-> "mail", id |-> cycle[w].id, held |-> Null, box |-> cycle[w].box,
           queue |-> cycle[w].queue, latest |-> cycle[w].latest])

\* The delivery rows and the ticket in one transaction
CreateTicket(w) ==
  LET m == cycle[w].message IN
  /\ At(w, "create")
  /\ Fresh(m)
  /\ imported' = imported \union {m}
  /\ tickets' = [tickets EXCEPT ![m] = @ + 1]
  /\ Continue(w)
  /\ UNCHANGED <<gmailVars, rowVars, token, faults, due>>

\* IntegrityError: another process imported it first.
Duplicate(w) ==
  /\ At(w, "create")
  /\ ~Fresh(cycle[w].message)
  /\ Continue(w)
  /\ UNCHANGED <<gmailVars, rowVars, mailVars, token, faults, due>>

SaveCursor(w) ==
  LET c == cycle[w] IN
  /\ At(w, "mail")
  /\ c.queue = {}
  /\ Exists(w)
  /\ row' = [row EXCEPT !.cursor =
       IF c.held = Null THEN c.latest ELSE Column(@, c.held.cursor, c.latest)]
  /\ Finish(w)
  /\ UNCHANGED <<gmailVars, rows, member, mailVars, token, faults, due>>

DropToken(w) == token' = [token EXCEPT ![w][cycle[w].id] = Null]

\* The row was deleted under the cycle: an exception ends it.
Vanished(w) ==
  /\ \/ At(w, "loaded") /\ ~member
     \/ At(w, "mail") /\ (cycle[w].held = Null \/ cycle[w].queue = {})
  /\ ~Exists(w)
  /\ DropToken(w)
  /\ Finish(w)
  /\ UNCHANGED <<gmailVars, rowVars, mailVars, faults, due>>

\* Gmail or the network fails anywhere: the transaction is undone, the token
\* dropped, and the cursor stays.
Fail(w) ==
  /\ cycle[w] # Idle
  /\ faults < MaxFaults
  /\ faults' = faults + 1
  /\ DropToken(w)
  /\ Finish(w)
  /\ UNCHANGED <<gmailVars, rowVars, mailVars, due>>

\* GmailAuthError: the refresh token is no longer valid.
Revoked(w) ==
  /\ At(w, "loaded")
  /\ faults < MaxFaults
  /\ faults' = faults + 1
  /\ Exists(w)
  /\ DropToken(w)
  /\ NeedsReauth(w)
  /\ UNCHANGED <<gmailVars, rows, member, mailVars, due>>

\* The process stops, and comes back with nothing in memory.
Crash(w) ==
  /\ faults < MaxFaults
  /\ faults' = faults + 1
  /\ token' = [token EXCEPT ![w] = [i \in RowId |-> Null]]
  /\ Finish(w)
  /\ UNCHANGED <<gmailVars, rowVars, mailVars, due>>

----------------------------------------------------------------------------
Advance(w) ==
  \/ Poll(w) \/ NoMember(w) \/ CachedToken(w) \/ FreshToken(w)
  \/ ListHistory(w) \/ RescanLabels(w) \/ ReadProfile(w)
  \/ ReadMail(w) \/ CreateTicket(w) \/ Duplicate(w)
  \/ SaveCursor(w) \/ Vanished(w)

Next ==
  \/ LabelMail \/ UnlabelMail \/ Forget
  \/ Connect \/ Reconnect \/ SaveLabels \/ Disconnect \/ Leave
  \/ \E w \in Poller : Advance(w) \/ Fail(w) \/ Revoked(w) \/ Crash(w)

\* poll_forever goes on polling, and no cached token lasts: it expires within
\* the hour. Nothing is assumed of people or of Gmail, except that there are no
\* more than MaxFaults faults.
Fairness == \A w \in Poller : WF_vars(Advance(w)) /\ SF_vars(FreshToken(w))

Spec == Init /\ [][Next]_vars /\ Fairness

----------------------------------------------------------------------------
(* Properties *)

\* The rows, the mailboxes and what each cycle holds keep their types.
TypeOK ==
  /\ log \in [Mailbox -> Seq(Entry)]
  /\ \A b \in Mailbox : Len(log[b]) <= MaxHistory
  /\ horizon \in [Mailbox -> 0 .. MaxHistory]
  /\ labels \in [Message -> SUBSET Label]
  /\ row \in Nullable(Connection)
  /\ rows \in 0 .. MaxRow
  /\ member \in BOOLEAN
  /\ imported \subseteq Message
  /\ tickets \in [Message -> Nat]
  /\ token \in [Poller -> [RowId -> Nullable(Mailbox)]]
  /\ cycle \in [Poller -> CycleState]
  /\ faults \in 0 .. MaxFaults
  /\ due \subseteq Message

\* A conversation becomes one ticket, although its messages are replayed after
\* failures and crashes, and however many processes poll ("delivery rows still
\* block duplicate tickets").
OneTicketPerThread ==
  \A m, n \in Message :
    tickets[m] > 0 /\ tickets[n] > 0 /\ Thread(m) = Thread(n) => m = n /\ tickets[m] = 1

\* Mail that need not wait for a ticket any longer
Settled(m) == m \notin due \/ m \in Broken \/ Seen(m) \/ row = Null \/ ~row.active

\* Mail that was labelled for import becomes a ticket, or its conversation has,
\* unless it is broken, taken back or overlooked, or the connection stops
\* working. Overlooked is what a cycle passes unread: mail whose label was mapped
\* while the cycle ran, mail older than two days or labelled during the rescan
\* when the history has expired, and mail before the place that another mailbox's
\* cursor happens to stand for. Nothing else lets the cursor pass mail: no failure
\* or crash of a cycle, no other poller, no stale token, no reconnect.
MailArrives == \A m \in Message : m \in due ~> Settled(m)

----------------------------------------------------------------------------
(* What the documentation says and the code does not keep *)

\* "Another mailbox: its label ids and history ids mean nothing here"
\* (save_connection): the cursor of a connection is a history id of its mailbox.
CursorIsOfMailbox == row # Null => row.cursor.of = row.box
=============================================================================
