----------------------------- MODULE MCSprints -----------------------------
(* Small instances of Sprints for TLC. *)
EXTENDS Sprints, TLC

Symmetry == Permutations(Sprint) \union Permutations(Ticket) \union Permutations(Request)
============================================================================
