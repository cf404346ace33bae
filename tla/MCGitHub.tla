------------------------------ MODULE MCGitHub ------------------------------
(* GitHubSync for TLC. *)
EXTENDS GitHubSync, TLC

\* Every commit names every ticket.
MCNames(c) == Ticket

Symmetry == Permutations(Head) \union Permutations(Delivery) \union Permutations(Request)
=============================================================================
