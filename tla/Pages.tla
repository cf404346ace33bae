------------------------------- MODULE Pages -------------------------------
(* The components behind the project's pages, in one specification. They     *)
(* share no state, so a behaviour runs one of them and leaves the others     *)
(* where they started.                                                       *)
EXTENDS GitHubConnect, Naturals, FiniteSets

CONSTANTS
  Ticket, File, Size(_), Quota,    \* Attachments
  Field, Fact,                     \* SprintReports
  Person, Hook, Attempts, Deleted  \* Notifications

VARIABLES
  part,                                            \* the component that runs
  project, ticket, row, disk, used, partial, orphan, work,  \* Attachments
  closed, report, facts, editing,                  \* SprintReports
  hooks, comment, sending, told, owed              \* Notifications

Storage == INSTANCE Attachments WITH Worker <- Request
Reports == INSTANCE SprintReports WITH req <- editing
Chat    == INSTANCE Notifications WITH req <- sending, User <- Person

\* Finitely many files, with sizes in bytes; a message is tried at least once;
\* and SQL NULL is none of what a column holds.
ASSUME PagesAssumption ==
  /\ IsFiniteSet(File) /\ (\A f \in File : Size(f) \in Nat) /\ Quota \in Nat
  /\ Attempts \in Nat \ {0}
  /\ Null \notin Row \union Installation \union ConnectState
  /\ Null \notin Storage!Row
  /\ Null \notin Reports!Report \union Reports!Author

storageVars == <<project, ticket, row, disk, used, partial, orphan, work>>
reportVars  == <<closed, report, facts, editing>>
chatVars    == <<hooks, comment, sending, told, owed>>

pageVars == <<part, vars, storageVars, reportVars, chatVars>>

PagesInit ==
  /\ Init /\ Storage!Init /\ Reports!Init /\ Chat!Init
  /\ part \in {"connect", "storage", "reports", "chat"}
  /\ part # "connect" => known = {}
  /\ part # "reports" => ~closed /\ facts = {}

Alone(p, names) == part = p /\ UNCHANGED <<part, names>>

PagesNext ==
  \/ Next /\ Alone("connect", <<storageVars, reportVars, chatVars>>)
  \/ Storage!Next /\ Alone("storage", <<vars, reportVars, chatVars>>)
  \/ Reports!Next /\ Alone("reports", <<vars, storageVars, chatVars>>)
  \/ Chat!Next /\ Alone("chat", <<vars, storageVars, reportVars>>)

PagesSpec == PagesInit /\ [][PagesNext]_pageVars

\* TypeOK of every component
TypesOK == TypeOK /\ Storage!TypeOK /\ Reports!TypeOK /\ Chat!TypeOK

\* The properties of the other components, under their names there
RowsHaveFiles == Storage!RowsHaveFiles
UploadsHaveFiles == Storage!UploadsHaveFiles
UploadsWithinQuota == Storage!UploadsWithinQuota
LeftoversHaveACause == Storage!LeftoversHaveACause
DraftsAreMarked == Reports!DraftsAreMarked
FinalizedFrozen == Reports!FinalizedFrozen
DraftsCiteThePayload == Reports!DraftsCiteThePayload
MentionedAreTold == Chat!MentionedAreTold
AnsweredIsTried == Chat!AnsweredIsTried
=============================================================================
