---------------------------- MODULE Attachments ----------------------------
(***************************************************************************)
(* Files attached to the tickets of a project. A file is on disk before its *)
(* row is committed and until after its row is deleted, and the disk takes  *)
(* no part in transactions: every failure has to clean up after itself, and *)
(* writing or removing a file may fail as well. The stored bytes are        *)
(* limited by a quota, which an upload counts a second time under the write *)
(* lock and an import from Gmail does not.                                  *)
(***************************************************************************)
EXTENDS Naturals, Functions

CONSTANTS
  Ticket,   \* tickets of the project; a ticket id is used once
  File,     \* attachment ids: each names one file and at most one row
  Size(_),  \* the bytes stored for a file
  Quota,    \* PROJECT_QUOTA_BYTES
  Worker,   \* requests, and the mail import, that can be under way at once
  Null

VARIABLES
  project,  \* whether the project is still there
  ticket,   \* "new", "live" or "deleted"
  row,      \* ticket_attachment: by id, Null without a row
  disk,     \* the files on disk
  used,     \* attachment ids that have been given out
  partial,  \* history: files of which a write that failed left a part
  orphan,   \* history: files that a crash, a removal that failed or a deletion
            \* of the ticket under an upload left behind
  work      \* where each worker stands and what it has read

tables == <<project, ticket, row>>
files  == <<disk, used, partial, orphan>>
vars   == <<tables, files, work>>

----------------------------------------------------------------------------
Row == [ticket : Ticket, source : {"UPLOAD", "GMAIL"}]

Idle == [at |-> "idle"]

\* left: files still to come; stored: files this worker has written.
WorkState ==
  {Idle}
  \union [at : {"upload", "import"}, ticket : Ticket, left : SUBSET File,
          stored : SUBSET File, counted : Nat]
  \union [at : {"imported"}, ticket : Ticket, stored : SUBSET File]
  \union [at : {"detach"}, file : File]
  \union [at : {"drop"}, ticket : Ticket, seen : SUBSET File]
  \union [at : {"unlink"}, stored : SUBSET File]
  \union [at : {"rmtree"}]

At(w, point) == work[w].at = point

Goto(w, there) == work' = [work EXCEPT ![w] = there]

Finish(w) == Goto(w, Idle)

\* Files a worker has written or is about to remove: it will settle them.
InHand(w) ==
  IF At(w, "rmtree") THEN File
  ELSE IF work[w].at \in {"upload", "import", "imported", "unlink"} THEN work[w].stored
  ELSE {}

Rows == {f \in File : row[f] # Null}

\* project_usage over some rows
Usage(S) == SumFunctionOnSet([f \in File |-> Size(f)], S)

----------------------------------------------------------------------------
Init ==
  /\ project = TRUE
  /\ ticket = [t \in Ticket |-> "new"]
  /\ row = [f \in File |-> Null]
  /\ disk = {}
  /\ used = {}
  /\ partial = {}
  /\ orphan = {}
  /\ work = [w \in Worker |-> Idle]

----------------------------------------------------------------------------
(* Uploads *)

\* create_ticket, without files
CreateTicket ==
  /\ project
  /\ \E t \in Ticket : ticket[t] = "new" /\ ticket' = [ticket EXCEPT ![t] = "live"]
  /\ UNCHANGED <<project, row, files, work>>

\* attach_uploads counts the rows before it reads the files.
Upload(w) ==
  /\ work[w] = Idle
  /\ \E t \in Ticket, F \in SUBSET (File \ used) :
       /\ ticket[t] = "live"
       /\ F # {}
       /\ used' = used \union F
       /\ Goto(w, [at |-> "upload", ticket |-> t, left |-> F, stored |-> {},
                   counted |-> Usage(Rows)])
  /\ UNCHANGED <<tables, disk, partial, orphan>>

\* The disk after discard
MutDiscarded(S) == disk

Discarded(S) == disk \ S

\* rollback and discard of what the worker has stored, until a removal fails;
\* part is what it leaves of a file it has not stored to the end.
Discard(w, part) ==
  /\ \E kept \in SUBSET work[w].stored :
       /\ disk' = Discarded(work[w].stored \ kept) \union part
       /\ orphan' = orphan \union (kept \ Rows)
  /\ partial' = partial \union part
  /\ Finish(w)

\* store writes the file; past the quota it goes again with the others.
StoreUpload(w) ==
  LET c == work[w] IN
  /\ At(w, "upload")
  /\ \E f \in c.left :
       IF c.counted + Size(f) > Quota
       THEN Discard(w, {})
       ELSE /\ disk' = disk \union {f}
            /\ Goto(w, [c EXCEPT !.left = @ \ {f}, !.stored = @ \union {f},
                                 !.counted = @ + Size(f)])
            /\ UNCHANGED <<partial, orphan>>
  /\ UNCHANGED <<tables, used>>

\* A file that is too large, a locked database: all or nothing.
Fail(w) ==
  /\ work[w].at \in {"upload", "import"}
  /\ Discard(w, {})
  /\ UNCHANGED <<tables, used>>

\* The disk is full in the middle of a file: that one is not discarded, as its
\* row joins the others only after it is written.
WriteFails(w) ==
  /\ work[w].at \in {"upload", "import"}
  /\ \E f \in work[w].left : Discard(w, {f})
  /\ UNCHANGED <<tables, used>>

\* The usage with the worker's own rows, recounted under the write lock
MutFits(w) == TRUE

Fits(w) == Usage(Rows \union work[w].stored) <= Quota

\* The worker's rows, added to the ticket
MutRecord(w, source) ==
  row' = [f \in File |->
    IF f \in work[w].stored THEN [ticket |-> Null, source |-> source] ELSE row[f]]

Record(w, source) ==
  row' = [f \in File |->
    IF f \in work[w].stored THEN [ticket |-> work[w].ticket, source |-> source] ELSE row[f]]

CommitUpload(w) ==
  /\ At(w, "upload")
  /\ work[w].left = {}
  /\ ticket[work[w].ticket] = "live"
  /\ Fits(w)
  /\ Record(w, "UPLOAD")
  /\ Finish(w)
  /\ UNCHANGED <<project, ticket, files>>

\* 413, or the foreign key of a ticket that has been deleted
RejectUpload(w) ==
  /\ At(w, "upload")
  /\ work[w].left = {}
  /\ ticket[work[w].ticket] # "live" \/ ~Fits(w)
  /\ Discard(w, {})
  /\ UNCHANGED <<tables, used>>

----------------------------------------------------------------------------
(* Files that come with imported mail *)

\* _import_message for mail with attachments; its ticket does not exist yet.
Import(w) ==
  /\ work[w] = Idle
  /\ project
  /\ \E t \in Ticket, F \in SUBSET (File \ used) :
       /\ ticket[t] = "new"
       /\ \A v \in Worker : At(v, "import") => work[v].ticket # t
       /\ F # {}
       /\ used' = used \union F
       /\ Goto(w, [at |-> "import", ticket |-> t, left |-> F, stored |-> {},
                   counted |-> Usage(Rows)])
  /\ UNCHANGED <<tables, disk, partial, orphan>>

\* A file that does not fit is noted in the ticket instead.
StoreImport(w) ==
  LET c == work[w] IN
  /\ At(w, "import")
  /\ \E f \in c.left :
       IF c.counted + Size(f) > Quota
       THEN Goto(w, [c EXCEPT !.left = @ \ {f}]) /\ UNCHANGED disk
       ELSE /\ disk' = disk \union {f}
            /\ Goto(w, [c EXCEPT !.left = @ \ {f}, !.stored = @ \union {f},
                                 !.counted = @ + Size(f)])
  /\ UNCHANGED <<tables, used, partial, orphan>>

\* create_ticket commits the ticket with its rows, uncounted.
CommitImport(w) ==
  LET t == work[w].ticket IN
  /\ At(w, "import")
  /\ work[w].left = {}
  /\ project /\ ticket[t] = "new"
  /\ ticket' = [ticket EXCEPT ![t] = "live"]
  /\ Record(w, "GMAIL")
  /\ Goto(w, [at |-> "imported", ticket |-> t, stored |-> work[w].stored])
  /\ UNCHANGED <<project, files>>

\* The message was imported elsewhere, or the project is gone.
RejectImport(w) ==
  /\ At(w, "import")
  /\ work[w].left = {}
  /\ Discard(w, {})
  /\ UNCHANGED <<tables, used>>

\* After its commit create_ticket reads the ticket again and schedules messages.
Refreshed(w) ==
  /\ At(w, "imported")
  /\ ticket[work[w].ticket] = "live"
  /\ Finish(w)
  /\ UNCHANGED <<tables, files>>

\* If that fails, as it must when the ticket has been deleted meanwhile, the
\* import takes itself for uncommitted and discards the files of its rows.
Interrupted(w) ==
  /\ At(w, "imported")
  /\ Discard(w, {})
  /\ UNCHANGED <<tables, used>>

----------------------------------------------------------------------------
(* Deletions: rows in a transaction, files after it *)

MutDetach(w) ==
  /\ work[w] = Idle
  /\ \E f \in Rows : Goto(w, [at |-> "detach", file |-> f]) /\ disk' = disk \ {f}
  /\ UNCHANGED <<tables, used, partial, orphan>>

Detach(w) ==
  /\ work[w] = Idle
  /\ \E f \in Rows : Goto(w, [at |-> "detach", file |-> f])
  /\ UNCHANGED <<tables, files>>

DeleteAttachment(w) ==
  LET f == work[w].file IN
  /\ At(w, "detach")
  /\ row' = [row EXCEPT ![f] = Null]
  /\ Goto(w, [at |-> "unlink", stored |-> {f}])
  /\ UNCHANGED <<project, ticket, files>>

\* delete_ticket_record lists the attachments outside its transaction.
DropTicket(w) ==
  /\ work[w] = Idle
  /\ \E t \in Ticket :
       /\ ticket[t] = "live"
       /\ Goto(w, [at |-> "drop", ticket |-> t, seen |-> {f \in Rows : row[f].ticket = t}])
  /\ UNCHANGED <<tables, files>>

\* The rows are deleted by their ticket, the files by the list.
DeleteTicket(w) ==
  LET t == work[w].ticket
      mine == {f \in Rows : row[f].ticket = t}
  IN
  /\ At(w, "drop")
  /\ ticket' = [ticket EXCEPT ![t] = "deleted"]
  /\ row' = [f \in File |-> IF f \in mine THEN Null ELSE row[f]]
  /\ orphan' = orphan \union (mine \ work[w].seen)
  /\ Goto(w, [at |-> "unlink", stored |-> work[w].seen])
  /\ UNCHANGED <<project, disk, used, partial>>

\* attachments.delete, one file after the other
Unlink(w) ==
  /\ At(w, "unlink")
  /\ \E f \in work[w].stored :
       /\ disk' = disk \ {f}
       /\ IF work[w].stored = {f} THEN Finish(w) ELSE Goto(w, [work[w] EXCEPT !.stored = @ \ {f}])
  /\ UNCHANGED <<tables, used, partial, orphan>>

\* One removal fails, and the files after it are not tried.
UnlinkFails(w) ==
  /\ At(w, "unlink")
  /\ work[w].stored # {}
  /\ orphan' = orphan \union work[w].stored
  /\ Finish(w)
  /\ UNCHANGED <<tables, disk, used, partial>>

NothingToUnlink(w) ==
  /\ At(w, "unlink")
  /\ work[w].stored = {}
  /\ Finish(w)
  /\ UNCHANGED <<tables, files>>

DeleteProject(w) ==
  /\ work[w] = Idle
  /\ project
  /\ project' = FALSE
  /\ ticket' = [t \in Ticket |-> IF ticket[t] = "live" THEN "deleted" ELSE ticket[t]]
  /\ row' = [f \in File |-> Null]
  /\ Goto(w, [at |-> "rmtree"])
  /\ UNCHANGED files

\* delete_project_files, which also takes what others are storing, as far as the
\* disk allows
Rmtree(w) ==
  /\ At(w, "rmtree")
  /\ \E kept \in SUBSET disk : disk' = kept /\ orphan' = orphan \union kept
  /\ Finish(w)
  /\ UNCHANGED <<tables, used, partial>>

----------------------------------------------------------------------------
\* Files that may be half written
Writing(w) == IF work[w].at \in {"upload", "import"} THEN work[w].left ELSE {}

\* The process stops: what was in hand stays on disk, with the part of a file that
\* each worker may have been writing.
Crash ==
  /\ \E parts \in SUBSET UNION {Writing(w) : w \in Worker} :
       /\ \A w \in Worker : \A f, g \in parts \intersect Writing(w) : f = g
       /\ disk' = disk \union parts
       /\ orphan' = orphan \union (disk' \ Rows)
  /\ work' = [w \in Worker |-> Idle]
  /\ UNCHANGED <<tables, used, partial>>

Step(w) ==
  \/ Upload(w) \/ StoreUpload(w) \/ CommitUpload(w) \/ RejectUpload(w)
  \/ Import(w) \/ StoreImport(w) \/ CommitImport(w) \/ RejectImport(w)
  \/ Fail(w) \/ WriteFails(w) \/ Refreshed(w) \/ Interrupted(w)
  \/ Detach(w) \/ DeleteAttachment(w)
  \/ DropTicket(w) \/ DeleteTicket(w)
  \/ Unlink(w) \/ UnlinkFails(w) \/ NothingToUnlink(w)
  \/ DeleteProject(w) \/ Rmtree(w)

Next == CreateTicket \/ Crash \/ \E w \in Worker : Step(w)

Spec == Init /\ [][Next]_vars

----------------------------------------------------------------------------
(* Properties *)

\* Rows, files and work keep their types.
TypeOK ==
  /\ project \in BOOLEAN
  /\ ticket \in [Ticket -> {"new", "live", "deleted"}]
  /\ row \in [File -> Row \union {Null}]
  /\ disk \subseteq used
  /\ used \subseteq File
  /\ partial \union orphan \subseteq File
  /\ work \in [Worker -> WorkState]

\* A row belongs to a ticket that is there, and the row of an upload has its file:
\* no failure, deletion or crash takes it while the row stays. (Files of imported
\* mail may be missing: see RowsHaveFiles.)
UploadsHaveFiles ==
  \A f \in Rows : ticket[row[f].ticket] = "live" /\ (row[f].source = "UPLOAD" => f \in disk)

\* However many uploads run at once, beside imports that are not recounted, the
\* uploaded files alone never exceed the quota.
UploadsWithinQuota == Usage({f \in Rows : row[f].source = "UPLOAD"}) <= Quota

\* A file without a row is one that a worker will still settle, or a write, a
\* removal or the process failed on it, or its ticket was deleted under an upload:
\* nothing else leaves files behind, whoever else stores and deletes meanwhile.
LeftoversHaveACause ==
  disk \subseteq Rows \union partial \union orphan \union UNION {InHand(w) : w \in Worker}

----------------------------------------------------------------------------
(* What the documentation says and the code does not keep *)

\* The result of a failure "is an orphan file on disk, never a row pointing at a
\* missing file" (2026-09-29-ticket-attachments-design.md).
RowsHaveFiles == Rows \subseteq disk
=============================================================================
