------------------------------ MODULE MCGmail ------------------------------
(* GmailIntake for TLC. *)
EXTENDS GmailIntake

CONSTANTS m1, m2, box1, box2

\* m2 answers m1.
MCThread(m) == m1

OneBox(m) == box1

MCBox(m) == IF m = m1 THEN box1 ELSE box2

Alone(m) == m
=============================================================================
