----------------------------- MODULE Governance -----------------------------
(***************************************************************************)
(* What the application promises about the owners of projects: from its     *)
(* creation to its deletion a project has an owner. Owners come and go one  *)
(* person at a time; only the deletion of the project takes the last one    *)
(* away, and a deleted project never has an owner again.                    *)
(***************************************************************************)
CONSTANTS Project, User

VARIABLES
  founded,    \* projects that have been created
  dissolved,  \* those of them that have been deleted since
  owners      \* the owners of each project

vars == <<founded, dissolved, owners>>

Init ==
  /\ founded = {}
  /\ dissolved = {}
  /\ owners = [p \in Project |-> {}]

Found(p, u) ==
  /\ p \notin founded
  /\ founded' = founded \union {p}
  /\ owners' = [owners EXCEPT ![p] = {u}]
  /\ UNCHANGED dissolved

Appoint(p, u) ==
  /\ p \in founded \ dissolved
  /\ owners' = [owners EXCEPT ![p] = @ \union {u}]
  /\ UNCHANGED <<founded, dissolved>>

\* One person gives up, or loses, the ownership of any number of projects, each
\* of which keeps another owner.
Retire(u, P) ==
  /\ \A p \in P : owners[p] \ {u} # {}
  /\ owners' = [p \in Project |-> IF p \in P THEN owners[p] \ {u} ELSE owners[p]]
  /\ UNCHANGED <<founded, dissolved>>

\* The project is deleted, and its owners with it.
Dissolve(p) ==
  /\ p \in founded \ dissolved
  /\ dissolved' = dissolved \union {p}
  /\ owners' = [owners EXCEPT ![p] = {}]
  /\ UNCHANGED founded

Next ==
  \/ \E u \in User, p \in Project : Found(p, u) \/ Appoint(p, u)
  \/ \E u \in User, P \in SUBSET Project : Retire(u, P)
  \/ \E p \in Project : Dissolve(p)

Spec == Init /\ [][Next]_vars
=============================================================================
