------------------------------- MODULE MCMail -------------------------------
(* Two small instances of GmailIntake in one run: a behaviour is one of the  *)
(* instance of MCGmail, or one of a connection that is moved between two     *)
(* mailboxes with a message each, under one poller.                          *)
EXTENDS MCGmail

CONSTANT w1

VARIABLES
  part,                                            \* the instance that runs
  log2, horizon2, labels2, row2, rows2, member2,   \* the other one
  imported2, tickets2, token2, cycle2, faults2, due2

Moved == INSTANCE GmailIntake WITH
  Mailbox <- {box1, box2}, Box <- MCBox, Thread <- Alone, Poller <- {w1},
  log <- log2, horizon <- horizon2, labels <- labels2,
  row <- row2, rows <- rows2, member <- member2,
  imported <- imported2, tickets <- tickets2, token <- token2,
  cycle <- cycle2, faults <- faults2, due <- due2

movedVars == <<log2, horizon2, labels2, row2, rows2, member2,
               imported2, tickets2, token2, cycle2, faults2, due2>>

MailInit == Init /\ Moved!Init /\ part \in {"shared", "moved"}

Shared(A) == part = "shared" /\ A /\ UNCHANGED <<part, movedVars>>
Other(A)  == part = "moved" /\ A /\ UNCHANGED <<part, vars>>

MailNext == Shared(Next) \/ Other(Moved!Next)

\* Fairness of the instance that runs
MailFairness ==
  \A w \in Poller :
    /\ WF_<<vars, movedVars>>(Shared(Advance(w)) \/ (w = w1 /\ Other(Moved!Advance(w))))
    /\ SF_<<vars, movedVars>>(Shared(FreshToken(w)) \/ (w = w1 /\ Other(Moved!FreshToken(w))))

MailSpec == MailInit /\ [][MailNext]_<<part, vars, movedVars>> /\ MailFairness

\* MailArrives of the instance that runs: labelled mail that no cycle has overlooked
\* becomes a ticket while the connection works, also when two processes poll one
\* mailbox, and when the cursor or the cached token is another mailbox's.
LabelledMailArrives ==
  \A m \in Message :
    m \in due \union due2 ~> IF part = "shared" THEN Settled(m) ELSE Moved!Settled(m)
=============================================================================
