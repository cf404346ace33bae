--------------------------- MODULE SprintReports ---------------------------
(***************************************************************************)
(* The report of one closed sprint. Members and MCP clients save its fields *)
(* and an owner finalises it, all from a copy they loaded earlier; the copy *)
(* is read again under the write lock before anything is decided on it. An  *)
(* MCP client's draft may cite only facts of the payload of that moment.    *)
(***************************************************************************)
CONSTANTS
  Field,    \* REPORT_FIELDS
  Fact,     \* facts a text can cite
  User,     \* members of the project
  Request,  \* requests that can be in flight at once
  Null      \* SQL NULL

VARIABLES
  closed,  \* whether the sprint is closed
  report,  \* the sprint's report, Null when there is none
  facts,   \* what build_payload offers: tickets and their owners go on changing
  req      \* where each request stands and what it has read

vars == <<closed, report, facts, req>>

----------------------------------------------------------------------------
Nullable(S) == S \union {Null}

Author == {"MCP_CLIENT", "HUMAN"}

Text == [cites : SUBSET Fact, author : Author]

Report == [text : [Field -> Nullable(Text)], generated_by : Nullable(Author),
           status : {"PENDING", "OK"}, finalized_by : Nullable(User)]

Idle == [at |-> "idle"]

RequestState ==
  {Idle}
  \union [at : {"missing"}]
  \union [at : {"loaded"}, report : Report]

At(r, point) == req[r].at = point

Goto(r, there) == req' = [req EXCEPT ![r] = there]

Finish(r) == Goto(r, Idle)

NewReport == [text |-> [f \in Field |-> Null], generated_by |-> Null,
              status |-> "PENDING", finalized_by |-> Null]

----------------------------------------------------------------------------
\* A sprint that was closed before reports existed has none.
Init ==
  /\ closed \in BOOLEAN
  /\ report = Null
  /\ facts \in SUBSET Fact
  /\ req = [r \in Request |-> Idle]

\* close_sprint inserts the report, or another request already has.
Close ==
  /\ ~closed
  /\ closed' = TRUE
  /\ report' = NewReport
  /\ UNCHANGED <<facts, req>>

\* Tickets of the sprint are renamed, reassigned, blocked and finished.
ChangeFacts ==
  /\ facts' \in SUBSET Fact
  /\ UNCHANGED <<closed, report, req>>

----------------------------------------------------------------------------
\* get_report: 404 unless the sprint has closed
Load(r) ==
  /\ req[r] = Idle
  /\ IF report # Null THEN Goto(r, [at |-> "loaded", report |-> report])
     ELSE closed /\ Goto(r, [at |-> "missing"])
  /\ UNCHANGED <<closed, report, facts>>

\* sprint_id is unique: of two requests that fill in the report one fails, and
\* both read what is there.
Fill(r) ==
  /\ At(r, "missing")
  /\ report' = IF report = Null THEN NewReport ELSE report
  /\ Goto(r, [at |-> "loaded", report |-> report'])
  /\ UNCHANGED <<closed, facts>>

\* The row as a request sees it under the write lock
MutLocked(r) == req[r].report

Locked(r) == report

Unfinalized(r) == At(r, "loaded") /\ Locked(r).finalized_by = Null

\* The fields of a draft, each with what it cites
Changes == UNION {[F -> SUBSET Fact] : F \in SUBSET Field}

\* build_payload: what a report may cite, read again for every draft
Payload == facts

MutGrounded(changes) == TRUE

Grounded(changes) == \A f \in DOMAIN changes : changes[f] \subseteq Payload

\* A human hand leaves the mark of a generated report as it is.
MutMarked(now, author) ==
  IF author = "MCP_CLIENT" THEN [now EXCEPT !.generated_by = author, !.status = "OK"]
  ELSE [now EXCEPT !.generated_by = author]

Marked(now, author) ==
  IF author = "MCP_CLIENT" THEN [now EXCEPT !.generated_by = author, !.status = "OK"]
  ELSE IF now.generated_by = Null THEN [now EXCEPT !.generated_by = author]
  ELSE now

\* save_report
Save(r) ==
  /\ Unfinalized(r)
  /\ \E changes \in Changes, author \in Author :
       /\ author = "MCP_CLIENT" => Grounded(changes)
       /\ report' = [Marked(Locked(r), author) EXCEPT !.text = [f \in Field |->
            IF f \in DOMAIN changes THEN [cites |-> changes[f], author |-> author] ELSE @[f]]]
  /\ Finish(r)
  /\ UNCHANGED <<closed, facts>>

\* finalize_report
Finalize(r) ==
  /\ Unfinalized(r)
  /\ \E u \in User : report' = [Locked(r) EXCEPT !.finalized_by = u]
  /\ Finish(r)
  /\ UNCHANGED <<closed, facts>>

\* The report was only looked at, has been finalised, or the draft is refused.
Refuse(r) ==
  /\ At(r, "loaded")
  /\ Finish(r)
  /\ UNCHANGED <<closed, report, facts>>

Step(r) == Load(r) \/ Fill(r) \/ Save(r) \/ Finalize(r) \/ Refuse(r)

Next == Close \/ ChangeFacts \/ \E r \in Request : Step(r)

Spec == Init /\ [][Next]_vars

----------------------------------------------------------------------------
(* Properties *)

\* The report and the copies requests hold keep their types, and nobody holds a
\* copy of a report that is not there.
TypeOK ==
  /\ closed \in BOOLEAN
  /\ report \in Nullable(Report)
  /\ facts \subseteq Fact
  /\ req \in [Request -> RequestState]
  /\ \A r \in Request : At(r, "loaded") => report # Null

\* Whatever was loaded before, nothing changes a finalised report ("the copy in
\* hand may predate a finalize that just committed").
FinalizedFrozen ==
  [][report # Null /\ report.finalized_by # Null => report' = report]_vars

\* A reader can tell that a model drafted any of the text: a human's save that
\* began before the draft never takes the mark away.
DraftsAreMarked ==
  report # Null =>
    \A f \in Field :
      report.text[f] # Null /\ report.text[f].author = "MCP_CLIENT" =>
        report.generated_by = "MCP_CLIENT" /\ report.status = "OK"

\* Facts change while a client drafts: whatever a draft adds to the report was
\* true when it was added.
DraftsCiteThePayload ==
  [][report # Null /\ report'.text # report.text =>
       \A f \in Field :
         report'.text[f] \notin {report.text[f], Null} /\ report'.text[f].author = "MCP_CLIENT" =>
           report'.text[f].cites \subseteq facts]_vars
=============================================================================
