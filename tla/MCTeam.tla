------------------------------- MODULE MCTeam -------------------------------
(* Small instances of what a team meets first for TLC.                       *)
EXTENDS Team, TLC

\* Two attempts in any two units of time
MCLimit(k) == 2
MCWindow(k) == 2

Symmetry ==
  Permutations(User) \union Permutations(Project) \union Permutations(Ticket)
  \union Permutations(Request) \union Permutations(Item)
=============================================================================
