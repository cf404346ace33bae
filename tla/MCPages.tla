------------------------------ MODULE MCPages ------------------------------
(* Small instances of the components behind the pages for TLC.              *)
EXTENDS Pages, TLC

CONSTANT f1

\* One file is larger than the others.
MCSize(f) == IF f = f1 THEN 2 ELSE 1

Symmetry ==
  Permutations(Installation) \union Permutations(State) \union Permutations(Request)
=============================================================================
