------------------------- MODULE GmailIntakeProofs -------------------------
(* Types, and one ticket per conversation, for any number of mailboxes,     *)
(* messages, polling processes and faults.                                  *)
EXTENDS GmailIntake, TLAPS

----------------------------------------------------------------------------
(* What a cycle holds at each point *)

LEMMA CycleTypes ==
  ASSUME TypeOK, NEW w \in Poller
  PROVE  /\ cycle[w] # Idle => cycle[w].at \in {"loaded", "token", "rescan", "mail", "create"}
         /\ cycle[w] # Idle => cycle[w].id \in RowId
         /\ cycle[w].at \in {"loaded", "token", "rescan", "create"} => cycle[w].held \in Connection
         /\ At(w, "mail") => cycle[w].held \in Nullable(Connection)
         /\ cycle[w].at \in {"token", "rescan", "mail", "create"} => cycle[w].box \in Mailbox
         /\ cycle[w].at \in {"rescan", "mail", "create"} => cycle[w].queue \subseteq Message
         /\ At(w, "rescan") => cycle[w].seen \in 0 .. MaxHistory
         /\ cycle[w].at \in {"mail", "create"} => cycle[w].latest \in Cursor
         /\ At(w, "create") => cycle[w].message \in Message
<1> DEFINE c == cycle[w]
<1>1. c \in CycleState
  BY DEF TypeOK
<1> HIDE DEF c
<1>2. /\ c # Idle => c.at \in {"loaded", "token", "rescan", "mail", "create"}
      /\ c # Idle => c.id \in RowId
  BY <1>1 DEF CycleState
<1>5. c.at \in {"loaded", "token", "rescan", "create"} => c.held \in Connection
  BY <1>1 DEF CycleState, Idle
<1>3. /\ c.at = "mail" => c.held \in Nullable(Connection)
      /\ c.at \in {"token", "rescan", "mail", "create"} => c.box \in Mailbox
      /\ c.at \in {"rescan", "mail", "create"} => c.queue \subseteq Message
  BY <1>1 DEF CycleState, Idle
<1>4. /\ c.at = "rescan" => c.seen \in 0 .. MaxHistory
      /\ c.at \in {"mail", "create"} => c.latest \in Cursor
      /\ c.at = "create" => c.message \in Message
  BY <1>1 DEF CycleState, Idle
<1> QED
  BY <1>2, <1>3, <1>4, <1>5 DEF c, At

\* The records a step may go on with
LEMMA States ==
  /\ Idle \in CycleState
  /\ \A i \in RowId, held \in Connection :
       /\ [at |-> "loaded", id |-> i, held |-> held] \in CycleState
       /\ \A box \in Mailbox :
            /\ [at |-> "token", id |-> i, held |-> held, box |-> box] \in CycleState
            /\ \A queue \in SUBSET Message :
                 /\ \A seen \in 0 .. MaxHistory :
                      [at |-> "rescan", id |-> i, held |-> held, box |-> box,
                       queue |-> queue, seen |-> seen] \in CycleState
                 /\ \A latest \in Cursor, m \in Message :
                      [at |-> "create", id |-> i, held |-> held, box |-> box, queue |-> queue,
                       latest |-> latest, message |-> m] \in CycleState
  /\ \A i \in RowId, held \in Nullable(Connection), box \in Mailbox,
        queue \in SUBSET Message, latest \in Cursor :
       [at |-> "mail", id |-> i, held |-> held, box |-> box, queue |-> queue,
        latest |-> latest] \in CycleState
<1>1. /\ Idle \in CycleState
      /\ \A i \in RowId, held \in Connection :
           /\ [at |-> "loaded", id |-> i, held |-> held] \in CycleState
           /\ \A box \in Mailbox : [at |-> "token", id |-> i, held |-> held, box |-> box] \in CycleState
  BY DEF CycleState
<1>2. \A i \in RowId, held \in Connection, box \in Mailbox, queue \in SUBSET Message :
        /\ \A seen \in 0 .. MaxHistory :
             [at |-> "rescan", id |-> i, held |-> held, box |-> box,
              queue |-> queue, seen |-> seen] \in CycleState
        /\ \A latest \in Cursor, m \in Message :
             [at |-> "create", id |-> i, held |-> held, box |-> box, queue |-> queue,
              latest |-> latest, message |-> m] \in CycleState
  BY DEF CycleState
<1>3. \A i \in RowId, held \in Nullable(Connection), box \in Mailbox,
         queue \in SUBSET Message, latest \in Cursor :
        [at |-> "mail", id |-> i, held |-> held, box |-> box, queue |-> queue,
         latest |-> latest] \in CycleState
  BY DEF CycleState
<1> QED
  BY <1>1, <1>2, <1>3

LEMMA MoveType ==
  ASSUME TypeOK, NEW w \in Poller, NEW there \in CycleState, Goto(w, there)
  PROVE  cycle' \in [Poller -> CycleState]
BY DEF TypeOK, Goto

\* The newest history id is one, and what lies behind another is mail.
LEMMA LogTypes ==
  ASSUME TypeOK, NEW b \in Mailbox
  PROVE  /\ Len(log[b]) \in 0 .. MaxHistory
         /\ Here(b) \in Cursor
         /\ \A from \in Nat : \A mapped : Under(b, from, mapped) \subseteq Message
<1>1. log[b] \in Seq(Entry) /\ Len(log[b]) \in Nat /\ Len(log[b]) <= MaxHistory
  BY DEF TypeOK
<1>2. Len(log[b]) \in 0 .. MaxHistory
  BY <1>1, BoundsAssumption
<1>3. Here(b) \in Cursor
  BY <1>2 DEF Here, Cursor
<1>4. \A from \in Nat : \A mapped : Under(b, from, mapped) \subseteq Message
  <2>1. \A k \in 1 .. Len(log[b]) : log[b][k].messages \subseteq Message
    <3>1. \A k \in 1 .. Len(log[b]) : log[b][k] \in Entry
      BY <1>1
    <3> QED
      BY <3>1 DEF Entry
  <2>2. \A from \in Nat : from + 1 .. Len(log[b]) \subseteq 1 .. Len(log[b])
    BY <1>1
  <2> QED
    BY <2>1, <2>2 DEF Under
<1> QED
  BY <1>2, <1>3, <1>4

----------------------------------------------------------------------------
(* Types *)

LEMMA GmailTypes ==
  ASSUME TypeOK, LabelMail \/ UnlabelMail \/ Forget
  PROVE  TypeOK'
<1>1. CASE LabelMail
  <2>1. PICK t \in {Thread(m) : m \in Message}, l \in Label :
          LET all == {m \in Message : Thread(m) = t}
              b == Box(t)
          IN
          /\ Len(log[b]) < MaxHistory
          /\ log' = [log EXCEPT ![b] = Append(@, [messages |-> all, label |-> l])]
          /\ labels' = [m \in Message |-> labels[m] \union (IF m \in all THEN {l} ELSE {})]
          /\ due' = IF row # Null /\ row.box = b /\ l \in row.mapped THEN due \union all ELSE due
    BY <1>1 DEF LabelMail
  <2> DEFINE all == {m \in Message : Thread(m) = t}
             b == Box(t)
             e == [messages |-> all, label |-> l]
  <2>2. b \in Mailbox /\ e \in Entry /\ all \subseteq Message
    BY MailAssumption DEF Entry
  <2>3. log[b] \in Seq(Entry) /\ Len(log[b]) \in Nat
    BY <2>2 DEF TypeOK
  <2>4. Len(log[b]) < MaxHistory /\ log' = [log EXCEPT ![b] = Append(log[b], e)]
    BY <2>1
  <2>5. labels' \in [Message -> SUBSET Label] /\ due' \subseteq Message
    BY <2>1 DEF TypeOK
  <2> HIDE DEF e, b, all
  <2>6. Append(log[b], e) \in Seq(Entry) /\ Len(Append(log[b], e)) <= MaxHistory
    BY <2>2, <2>3, <2>4, BoundsAssumption
  <2>7. log' \in [Mailbox -> Seq(Entry)] /\ \A a \in Mailbox : Len(log'[a]) <= MaxHistory
    BY <2>2, <2>4, <2>6 DEF TypeOK
  <2> QED
    BY <1>1, <2>5, <2>7 DEF LabelMail, TypeOK, rowVars, mailVars
<1>2. CASE UnlabelMail
  BY <1>2 DEF UnlabelMail, TypeOK, rowVars, mailVars
<1>3. CASE Forget
  <2>1. horizon' \in [Mailbox -> 0 .. MaxHistory]
    BY <1>3, LogTypes DEF Forget, TypeOK
  <2>2. faults' \in 0 .. MaxFaults
    BY <1>3, BoundsAssumption DEF Forget, TypeOK
  <2> QED
    BY <1>3, <2>1, <2>2 DEF Forget, TypeOK, rowVars, mailVars
<1> QED
  BY <1>1, <1>2, <1>3

LEMMA OwnerTypes ==
  ASSUME TypeOK, Connect \/ Reconnect \/ SaveLabels \/ Disconnect \/ Leave
  PROVE  TypeOK'
<1>1. row' \in Nullable(Connection)
  <2>1. CASE Connect
    <3>1. PICK b \in Mailbox :
            row' = [id |-> rows + 1, box |-> b, mapped |-> {}, cursor |-> Here(b), active |-> TRUE]
      BY <2>1 DEF Connect
    <3>2. rows + 1 \in RowId
      BY <2>1, BoundsAssumption DEF Connect, TypeOK, RowId
    <3> QED
      BY <3>1, <3>2, LogTypes DEF Connection, Nullable
  <2>2. CASE Reconnect
    <3>1. PICK b \in Mailbox : row' = Reconnected(b)
      BY <2>2 DEF Reconnect
    <3>2. row \in Connection /\ Here(b) \in Cursor
      BY <2>2, LogTypes DEF Reconnect, TypeOK, Nullable
    <3> QED
      BY <3>1, <3>2 DEF Reconnected, Connection, Nullable
  <2>3. CASE SaveLabels
    <3>1. row \in Connection
      BY <2>3 DEF SaveLabels, TypeOK, Nullable
    <3> QED
      BY <2>3, <3>1 DEF SaveLabels, Mapped, Connection, Nullable
  <2>4. CASE Disconnect \/ Leave
    BY <2>4 DEF Disconnect, Leave, TypeOK, Nullable
  <2> QED
    BY <2>1, <2>2, <2>3, <2>4
<1>2. rows' \in 0 .. MaxRow
  <2>1. CASE Connect
    BY <2>1, BoundsAssumption DEF Connect, TypeOK
  <2>2. CASE UNCHANGED rows
    BY <2>2 DEF TypeOK
  <2> QED
    BY <2>1, <2>2 DEF Reconnect, SaveLabels, Disconnect, Leave, rowVars
<1>4. member' \in BOOLEAN
  BY DEF Connect, Reconnect, SaveLabels, Disconnect, Leave, TypeOK
<1>5. due' \subseteq Message
  <2>1. due' = due \/ due' = {}
    BY DEF Connect, Reconnect, SaveLabels, Disconnect, Leave
  <2> QED
    BY <2>1 DEF TypeOK
<1>3. UNCHANGED <<gmailVars, mailVars, token, cycle, faults>>
  BY DEF Connect, Reconnect, SaveLabels, Disconnect, Leave
<1> QED
  BY <1>1, <1>2, <1>3, <1>4, <1>5 DEF TypeOK, gmailVars, mailVars

\* A cycle up to its list of mail
LEMMA ListTypes ==
  ASSUME TypeOK, NEW w \in Poller,
         \/ Poll(w) \/ CachedToken(w) \/ FreshToken(w)
         \/ ListHistory(w) \/ RescanLabels(w) \/ ReadProfile(w)
  PROVE  TypeOK'
<1>1. CASE Poll(w)
  <2>1. row \in Connection /\ row.id \in RowId
    BY <1>1 DEF Poll, TypeOK, Nullable, Connection
  <2>2. cycle' \in [Poller -> CycleState]
    BY <1>1, <2>1, States, MoveType DEF Poll
  <2> QED
    BY <1>1, <2>2 DEF Poll, TypeOK, gmailVars, rowVars, mailVars
<1>2. CASE CachedToken(w) \/ FreshToken(w)
  <2> DEFINE id == cycle[w].id
             box == IF CachedToken(w) THEN token[w][id] ELSE cycle[w].held.box
  <2>1. id \in RowId /\ cycle[w].held \in Connection
    BY <1>2, CycleTypes DEF CachedToken, FreshToken, At, Idle
  <2>2. box \in Mailbox
    BY <2>1 DEF CachedToken, TypeOK, Nullable, Connection
  <2>3. /\ token' = token \/ token' = [token EXCEPT ![w][id] = box]
        /\ Goto(w, [at |-> "token", id |-> id, held |-> cycle[w].held, box |-> box])
    BY <1>2 DEF CachedToken, FreshToken
  <2> HIDE DEF id, box
  <2>4. cycle' \in [Poller -> CycleState]
    BY <2>1, <2>2, <2>3, States, MoveType
  <2>5. token' \in [Poller -> [RowId -> Nullable(Mailbox)]]
    <3>1. CASE token' = token
      BY <3>1 DEF TypeOK
    <3>2. CASE token' = [token EXCEPT ![w][id] = box]
      BY <2>1, <2>2, <3>2 DEF TypeOK, Nullable
    <3> QED
      BY <2>3, <3>1, <3>2
  <2> QED
    BY <1>2, <2>4, <2>5 DEF CachedToken, FreshToken, TypeOK, gmailVars, rowVars, mailVars
<1>3. CASE ListHistory(w)
  <2> DEFINE c == cycle[w]
  <2>1. c.id \in RowId /\ c.held \in Connection /\ c.box \in Mailbox
    BY <1>3, CycleTypes DEF ListHistory, At, Idle
  <2>2. PICK from \in Places(c.held.cursor, c.box) :
          /\ Goto(w, [at |-> "mail", id |-> c.id, held |-> c.held, box |-> c.box,
                      queue |-> Under(c.box, from, c.held.mapped), latest |-> Here(c.box)])
          /\ due' = due \ Overlooked(c.box, c.held.cursor, from, c.held.mapped)
    BY <1>3 DEF ListHistory
  <2>3. from \in Nat
    BY <2>1, LogTypes DEF Places, Connection, Cursor
  <2>4. Under(c.box, from, c.held.mapped) \in SUBSET Message /\ Here(c.box) \in Cursor
    BY <2>1, <2>3, LogTypes
  <2> HIDE DEF c
  <2>5. cycle' \in [Poller -> CycleState]
    BY <2>1, <2>2, <2>4, States, MoveType DEF Nullable
  <2> QED
    BY <1>3, <2>2, <2>5 DEF ListHistory, TypeOK, gmailVars, rowVars, mailVars
<1>4. CASE RescanLabels(w)
  <2> DEFINE c == cycle[w]
             M == {m \in Message : Box(m) = c.box /\ labels[m] \intersect c.held.mapped # {}}
  <2>1. c.id \in RowId /\ c.held \in Connection /\ c.box \in Mailbox
    BY <1>4, CycleTypes DEF RescanLabels, At, Idle
  <2>2. PICK Q \in SUBSET Message :
        /\ Goto(w, [at |-> "rescan", id |-> c.id, held |-> c.held, box |-> c.box,
                    queue |-> Q, seen |-> Len(log[c.box])])
        /\ due' \subseteq due
    <3>1. PICK recent \in SUBSET {m \in Message : Box(m) = c.box} :
            /\ Goto(w, [at |-> "rescan", id |-> c.id, held |-> c.held, box |-> c.box,
                        queue |-> M \intersect recent, seen |-> Len(log[c.box])])
            /\ due' \subseteq due
      BY <1>4 DEF RescanLabels
    <3>2. M \intersect recent \in SUBSET Message
      OBVIOUS
    <3> HIDE DEF c, M
    <3> QED
      BY <3>1, <3>2
  <2>3. Len(log[c.box]) \in 0 .. MaxHistory
    BY <2>1, LogTypes
  <2> HIDE DEF c, M
  <2>4. cycle' \in [Poller -> CycleState]
    BY <2>1, <2>2, <2>3, States, MoveType
  <2> QED
    BY <1>4, <2>2, <2>4 DEF RescanLabels, TypeOK, gmailVars, rowVars, mailVars
<1>5. CASE ReadProfile(w)
  <2> DEFINE c == cycle[w]
  <2>1. c.id \in RowId /\ c.held \in Connection /\ c.box \in Mailbox /\ c.queue \in SUBSET Message
    BY <1>5, CycleTypes DEF ReadProfile, At, Idle
  <2>2. /\ Goto(w, [at |-> "mail", id |-> c.id, held |-> c.held, box |-> c.box,
                    queue |-> c.queue, latest |-> Here(c.box)])
        /\ due' \subseteq due
    BY <1>5 DEF ReadProfile
  <2>3. Here(c.box) \in Cursor
    BY <2>1, LogTypes
  <2> HIDE DEF c
  <2>4. cycle' \in [Poller -> CycleState]
    BY <2>1, <2>2, <2>3, States, MoveType DEF Nullable
  <2> QED
    BY <1>5, <2>2, <2>4 DEF ReadProfile, TypeOK, gmailVars, rowVars, mailVars
<1> QED
  BY <1>1, <1>2, <1>3, <1>4, <1>5

\* The mail of a cycle, one message at a time
LEMMA MailTypes ==
  ASSUME TypeOK, NEW w \in Poller, ReadMail(w) \/ CreateTicket(w) \/ Duplicate(w)
  PROVE  TypeOK'
<1> DEFINE c == cycle[w]
<1>1. c.id \in RowId /\ c.box \in Mailbox /\ c.queue \in SUBSET Message /\ c.latest \in Cursor
  <2>1. c.at \in {"mail", "create"}
    BY DEF ReadMail, CreateTicket, Duplicate, At
  <2>2. c # Idle
    BY <2>1 DEF Idle
  <2> QED
    BY <2>1, <2>2, CycleTypes
<1>2. CASE ReadMail(w)
  <2> DEFINE held == IF c.held = Null THEN row ELSE c.held
  <2>1. held \in Connection
    BY <1>2, CycleTypes DEF ReadMail, At, Exists, TypeOK, Nullable
  <2> DEFINE R == [at : {"mail"}, id : RowId, held : Nullable(Connection), box : Mailbox,
                   queue : SUBSET Message, latest : Cursor]
  <2>2. c \in R
    <3>1. c \in CycleState /\ c.at = "mail"
      BY <1>2 DEF ReadMail, At, TypeOK
    <3> HIDE DEF c
    <3> QED
      BY <3>1 DEF CycleState, Idle
  <2>3. PICK m \in c.queue :
          \/ Goto(w, [c EXCEPT !.queue = @ \ {m}, !.held = held])
          \/ Goto(w, [at |-> "create", id |-> c.id, held |-> held, box |-> c.box,
                      queue |-> c.queue \ {m}, latest |-> c.latest, message |-> m])
    BY <1>2 DEF ReadMail
  <2>4. [c EXCEPT !.queue = @ \ {m}, !.held = held]
          = [at |-> "mail", id |-> c.id, held |-> held, box |-> c.box,
             queue |-> c.queue \ {m}, latest |-> c.latest]
    <3> HIDE DEF c, held
    <3> DEFINE after == [c EXCEPT !.queue = @ \ {m}, !.held = held]
               wanted == [at |-> "mail", id |-> c.id, held |-> held, box |-> c.box,
                          queue |-> c.queue \ {m}, latest |-> c.latest]
    <3>2. after \in R /\ wanted \in R
      BY <1>1, <2>1, <2>2 DEF Nullable
    <3>3. /\ after.at = wanted.at /\ after.id = wanted.id /\ after.held = wanted.held
          /\ after.box = wanted.box /\ after.queue = wanted.queue /\ after.latest = wanted.latest
      BY <2>2
    <3> HIDE DEF after, wanted
    <3>4. after = wanted
      BY <3>2, <3>3
    <3> QED
      BY <3>4 DEF after, wanted
  <2> HIDE DEF c, held
  <2>5. m \in Message /\ c.queue \ {m} \in SUBSET Message /\ held \in Nullable(Connection)
    BY <1>1, <2>1 DEF Nullable
  <2>6. cycle' \in [Poller -> CycleState]
    BY <1>1, <2>1, <2>3, <2>4, <2>5, States, MoveType
  <2> QED
    BY <1>2, <2>6 DEF ReadMail, TypeOK, gmailVars, rowVars, mailVars
<1>3. CASE CreateTicket(w) \/ Duplicate(w)
  <2>1. cycle' \in [Poller -> CycleState]
    BY <1>1, <1>3, States, MoveType DEF CreateTicket, Duplicate, Continue, Nullable
  <2>2. c.message \in Message
    BY <1>3, CycleTypes DEF CreateTicket, Duplicate, At
  <2> QED
    <3>1. imported' \subseteq Message /\ tickets' \in [Message -> Nat]
      BY <1>3, <2>2 DEF CreateTicket, Duplicate, TypeOK, mailVars
    <3> QED
      BY <1>3, <2>1, <3>1 DEF CreateTicket, Duplicate, TypeOK, gmailVars, rowVars
<1> QED
  BY <1>2, <1>3

\* The end of a cycle
LEMMA EndTypes ==
  ASSUME TypeOK, NEW w \in Poller,
         NoMember(w) \/ SaveCursor(w) \/ Vanished(w) \/ Fail(w) \/ Revoked(w) \/ Crash(w)
  PROVE  TypeOK'
<1> DEFINE c == cycle[w]
<1>1. cycle' \in [Poller -> CycleState]
  BY States, MoveType DEF NoMember, SaveCursor, Vanished, Fail, Revoked, Crash, NeedsReauth, Finish
<1>2. row' \in Nullable(Connection)
  <2>1. CASE SaveCursor(w)
    <3>1. row \in Connection /\ c.latest \in Cursor
      BY <2>1, CycleTypes DEF SaveCursor, At, Exists, TypeOK, Nullable
    <3>2. row' = [row EXCEPT !.cursor = c.latest] \/ row' = row
      BY <2>1, <3>1 DEF SaveCursor, Column, Connection
    <3> QED
      BY <3>1, <3>2 DEF Connection, Nullable
  <2>2. CASE NoMember(w) \/ Revoked(w)
    <3>1. row \in Connection /\ row' = [row EXCEPT !.active = FALSE]
      BY <2>2 DEF NoMember, Revoked, NeedsReauth, Exists, TypeOK, Nullable
    <3> QED
      BY <3>1 DEF Connection, Nullable
  <2>3. CASE Vanished(w) \/ Fail(w) \/ Crash(w)
    BY <2>3 DEF Vanished, Fail, Crash, TypeOK, rowVars
  <2> QED
    BY <2>1, <2>2, <2>3
<1>3. token' \in [Poller -> [RowId -> Nullable(Mailbox)]]
  <2>1. CASE Vanished(w) \/ Fail(w) \/ Revoked(w)
    <3>1. c.id \in RowId
      BY <2>1, CycleTypes DEF Vanished, Fail, Revoked, At, Idle
    <3>2. token' = [token EXCEPT ![w][c.id] = Null]
      BY <2>1 DEF Vanished, Fail, Revoked, DropToken
    <3> HIDE DEF c
    <3> QED
      BY <3>1, <3>2 DEF TypeOK, Nullable
  <2>2. CASE Crash(w)
    BY <2>2 DEF Crash, TypeOK, Nullable
  <2>3. CASE UNCHANGED token
    BY <2>3 DEF TypeOK
  <2> QED
    BY <2>1, <2>2, <2>3 DEF NoMember, SaveCursor
<1>4. faults' \in 0 .. MaxFaults
  BY BoundsAssumption DEF NoMember, SaveCursor, Vanished, Fail, Revoked, Crash, TypeOK
<1>5. UNCHANGED <<gmailVars, rows, member, mailVars, due>>
  BY DEF NoMember, SaveCursor, Vanished, Fail, Revoked, Crash, rowVars
<1> QED
  BY <1>1, <1>2, <1>3, <1>4, <1>5 DEF TypeOK, gmailVars, mailVars

LEMMA TypeInit == Init => TypeOK
<1> SUFFICES ASSUME Init PROVE TypeOK
  OBVIOUS
<1>1. PICK l \in Label : log = [b \in Mailbox |-> <<[messages |-> {}, label |-> l]>>]
  BY DEF Init
<1>2. [messages |-> {}, label |-> l] \in Entry
  BY DEF Entry
<1>3. log \in [Mailbox -> Seq(Entry)] /\ \A b \in Mailbox : Len(log[b]) <= MaxHistory
  <2>1. <<[messages |-> {}, label |-> l]>> \in Seq(Entry)
      BY <1>2
  <2> QED
    BY <1>1, <2>1, BoundsAssumption
<1>4. /\ horizon \in [Mailbox -> 0 .. MaxHistory]
      /\ labels \in [Message -> SUBSET Label]
      /\ rows \in 0 .. MaxRow /\ faults \in 0 .. MaxFaults
      /\ tickets \in [Message -> Nat]
  BY BoundsAssumption DEF Init
<1>5. /\ token \in [Poller -> [RowId -> Nullable(Mailbox)]]
      /\ cycle \in [Poller -> CycleState]
      /\ row \in Nullable(Connection)
  BY DEF Init, Nullable, CycleState
<1> QED
  BY <1>3, <1>4, <1>5 DEF Init, TypeOK

LEMMA TypeStep == TypeOK /\ [Next]_vars => TypeOK'
<1> SUFFICES ASSUME TypeOK, [Next]_vars PROVE TypeOK'
  OBVIOUS
<1>1. CASE UNCHANGED vars
  BY <1>1 DEF vars, gmailVars, rowVars, mailVars, TypeOK
<1>2. CASE LabelMail \/ UnlabelMail \/ Forget
  BY <1>2, GmailTypes
<1>3. CASE Connect \/ Reconnect \/ SaveLabels \/ Disconnect \/ Leave
  BY <1>3, OwnerTypes
<1>4. ASSUME NEW w \in Poller, Advance(w) \/ Fail(w) \/ Revoked(w) \/ Crash(w)
      PROVE  TypeOK'
  BY <1>4, ListTypes, MailTypes, EndTypes DEF Advance
<1> QED
  BY <1>1, <1>2, <1>3, <1>4 DEF Next

\* Mailboxes, connections, mail and what each cycle holds keep their types.
THEOREM TypeCorrect == Spec => []TypeOK
BY TypeInit, TypeStep, PTL DEF Spec

----------------------------------------------------------------------------
(* One ticket per conversation *)

\* The delivery rows are the mail with a ticket, one message of a conversation.
DeliveriesOK ==
  /\ \A m \in Message : tickets[m] = IF m \in imported THEN 1 ELSE 0
  /\ \A m, n \in imported : Thread(m) = Thread(n) => m = n

\* A conversation never becomes two tickets, whatever is replayed and whoever
\* else is importing: a ticket is only made in the transaction that adds the
\* delivery rows of its message and of its conversation.
THEOREM OneTicket == Spec => []OneTicketPerThread
<1>1. Init => DeliveriesOK
  BY DEF Init, DeliveriesOK
<1>2. TypeOK /\ DeliveriesOK /\ [Next]_vars => DeliveriesOK'
  <2> SUFFICES ASSUME TypeOK, DeliveriesOK, [Next]_vars PROVE DeliveriesOK'
    OBVIOUS
  <2>1. ASSUME NEW w \in Poller, CreateTicket(w) PROVE DeliveriesOK'
    <3> DEFINE m == cycle[w].message
    <3>1. m \in Message
      BY <2>1, CycleTypes DEF CreateTicket
    <3>2. /\ imported' = imported \union {m} /\ tickets' = [tickets EXCEPT ![m] = @ + 1]
          /\ m \notin imported /\ \A n \in imported : Thread(n) # Thread(m)
      BY <2>1 DEF CreateTicket, Fresh, Seen
    <3> HIDE DEF m
    <3> QED
      BY <3>1, <3>2 DEF DeliveriesOK, TypeOK
  <2>2. CASE UNCHANGED mailVars
    BY <2>2 DEF mailVars, DeliveriesOK
  <2> QED
    BY <2>1, <2>2 DEF Next, Advance, vars, LabelMail, UnlabelMail, Forget, Connect, Reconnect,
       SaveLabels, Disconnect, Leave, Poll, NoMember, CachedToken, FreshToken, ListHistory, RescanLabels, ReadProfile,
       ReadMail, Duplicate, SaveCursor, Vanished, Fail, Revoked, Crash
<1>3. TypeOK /\ DeliveriesOK => OneTicketPerThread
  BY DEF TypeOK, DeliveriesOK, OneTicketPerThread
<1> QED
  BY <1>1, <1>2, <1>3, TypeCorrect, PTL DEF Spec
=============================================================================
