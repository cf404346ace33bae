---------------------------- MODULE MCMembership ----------------------------
(* Small instances of Membership for TLC. *)
EXTENDS Membership, TLC

Symmetry ==
  Permutations(User) \union Permutations(Project) \union Permutations(Ticket)
  \union Permutations(Request)
=============================================================================
