-------------------------------- MODULE Team --------------------------------
(* Membership, and what else a team meets first: accounts and their tokens,  *)
(* the limit on signing in, and the backlog. Membership shares no state with *)
(* them, so a behaviour runs one of the four and leaves the others where     *)
(* they started.                                                             *)
EXTENDS Membership, Naturals

CONSTANTS
  Email, Password, Token,                          \* Accounts
  Client, Limit(_), Window(_), MaxKeys, MaxTime,   \* RateLimit
  Item                                             \* Backlog

VARIABLES
  part,                               \* the component that runs
  row, cookie, token, issued, visit,  \* Accounts
  now, keys, attempts, passed,        \* RateLimit
  next, item, moving                  \* Backlog

People  == INSTANCE Accounts WITH account <- row, req <- visit
Limiter == INSTANCE RateLimit WITH Key <- Client
Order   == INSTANCE Backlog WITH Ticket <- Item, row <- item, req <- moving

ASSUME NothingIsNull == Null \notin People!Account \union People!TokenRow \union Order!Row

\* Every client is let in before it is turned away.
ASSUME LimitAssumption ==
  /\ \A k \in Client : Limit(k) \in Nat \ {0} /\ Window(k) \in Nat
  /\ MaxKeys \in Nat /\ MaxTime \in Nat \ {0}

peopleVars == <<row, cookie, token, issued, visit>>
limitVars  == <<now, keys, attempts, passed>>
orderVars  == <<next, item, moving>>

TeamInit ==
  /\ Init /\ People!Init /\ Limiter!Init /\ Order!Init
  /\ part \in {"members", "people", "limiter", "order"}

Alone(p, names) == part = p /\ UNCHANGED <<part, names>>

TeamNext ==
  \/ Next /\ Alone("members", <<peopleVars, limitVars, orderVars>>)
  \/ People!Next /\ Alone("people", <<vars, limitVars, orderVars>>)
  \/ Limiter!Next /\ Alone("limiter", <<vars, peopleVars, orderVars>>)
  \/ Order!Next /\ Alone("order", <<vars, peopleVars, limitVars>>)

TeamSpec == TeamInit /\ [][TeamNext]_<<part, vars, peopleVars, limitVars, orderVars>>

\* TypeOK of the other components
TypesOK == People!TypeOK /\ Limiter!TypeOK /\ Order!TypeOK

\* The properties of the other components, under their names there
RevocationIsFinal == People!RevocationIsFinal
SignedInAreActive == People!SignedInAreActive
WithinLimit == Limiter!WithinLimit
RefusalsAreFree == Limiter!RefusalsAreFree
TableIsBounded == Limiter!TableIsBounded
NumbersGapless == Order!NumbersGapless
RanksRearrangeNumbers == Order!RanksRearrangeNumbers
MovesPassOneTicket == Order!MovesPassOneTicket
=============================================================================
