------------------------------ MODULE MCBoard ------------------------------
(* What happens to the tickets on a board, in one run: a behaviour is one of *)
(* the instance of MCGitHub, or one of Sprints with tickets of several sizes *)
(* and one request.                                                          *)
EXTENDS MCGitHub

CONSTANTS Sprint, Card, Points, Days

VARIABLES
  part,                                            \* the instance that runs
  status, end, committed, completed, report,       \* Sprints
  history, phase, card, editing

Closing == INSTANCE Sprints WITH Ticket <- Card, ticket <- card, req <- editing

closingVars == <<status, end, committed, completed, report, history, phase, card, editing>>

BoardInit ==
  /\ Init /\ Closing!Init
  /\ part \in {"github", "closing"}
  /\ part = "closing" => hub = [p \in Pull |-> Null]

BoardNext ==
  \/ part = "github" /\ Next /\ UNCHANGED <<part, closingVars>>
  \/ part = "closing" /\ Closing!Next /\ UNCHANGED <<part, vars>>

BoardSpec == BoardInit /\ [][BoardNext]_<<part, vars, closingVars>>

\* The property of Sprints that needs more than one ticket: the total of a closed
\* sprint is the sum over the rows that close_sprint records.
VelocityMatchesHistory == Closing!VelocityMatchesHistory

BoardSymmetry == Symmetry \union Permutations(Sprint) \union Permutations(Card)
=============================================================================
