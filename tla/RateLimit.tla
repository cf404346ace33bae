------------------------------ MODULE RateLimit ------------------------------
(***************************************************************************)
(* How often a client may sign in or register. Each process remembers, per  *)
(* action and client, the attempts it let through in the current window. It *)
(* remembers a bounded number of clients: one too many, and the one it has  *)
(* known longest is forgotten. A lock makes each attempt one step.          *)
(***************************************************************************)
EXTENDS Naturals, Sequences, FiniteSets, Functions

CONSTANTS
  Key,        \* pairs of an action and a client
  Limit(_),   \* attempts a key has in a window
  Window(_),  \* how long a window is
  MaxKeys,    \* how many keys are remembered
  MaxTime     \* bound on the time that passes

VARIABLES
  now,       \* time.monotonic()
  keys,      \* _auth_attempts: its keys in the order they were inserted
  attempts,  \* _auth_attempts: the times it remembers, none for other keys
  passed     \* history: the times a key was let through since it was last forgotten

vars == <<now, keys, attempts, passed>>

----------------------------------------------------------------------------
Time == 1 .. MaxTime

\* An attempt of a key still counts.
MutCounts(k, t) == t + Window(k) > now + 1

Counts(k, t) == t + Window(k) > now

\* popleft() until the first attempt still counts, or none is left
Stops(k, times) == {n \in 0 .. Len(times) : n < Len(times) => Counts(k, times[n + 1])}

Expired(k, times) == CHOOSE n \in Stops(k, times) : \A m \in Stops(k, times) : n <= m

Recent(k, times) == SubSeq(times, Expired(k, times) + 1, Len(times))

Init ==
  /\ now = 1
  /\ keys = <<>>
  /\ attempts = [k \in Key |-> <<>>]
  /\ passed = [k \in Key |-> <<>>]

\* setdefault
Known(k) == IF k \in Range(keys) THEN keys ELSE Append(keys, k)

Full(k) == Len(Recent(k, attempts[k])) >= Limit(k)

\* 429: what has expired is dropped, and the attempt itself does not count.
MutKept(k) == Append(Recent(k, attempts[k]), now)

Kept(k) == Recent(k, attempts[k])

Refuse(k) ==
  /\ Full(k)
  /\ attempts' = [attempts EXCEPT ![k] = Kept(k)]
  /\ UNCHANGED <<now, keys, passed>>

MutCrowded(all) == Len(all) > MaxKeys + 1

Crowded(all) == Len(all) > MaxKeys

\* pop(next(iter(_auth_attempts)))
MutForgotten(gone, times) == times

Forgotten(gone, times) == [k \in Key |-> IF k \in gone THEN <<>> ELSE times[k]]

Pass(k) ==
  LET all == Known(k)
      gone == IF Crowded(all) THEN {Head(all)} ELSE {}
      counted == Append(Recent(k, attempts[k]), now)
  IN
  /\ ~Full(k)
  /\ keys' = IF Crowded(all) THEN Tail(all) ELSE all
  /\ attempts' = Forgotten(gone, [attempts EXCEPT ![k] = counted])
  /\ passed' = [l \in Key |-> IF l \in gone THEN <<>>
                             ELSE IF l = k THEN Append(passed[k], now) ELSE passed[l]]
  /\ UNCHANGED now

Tick ==
  /\ now < MaxTime
  /\ now' = now + 1
  /\ UNCHANGED <<keys, attempts, passed>>

Next == Tick \/ \E k \in Key : Refuse(k) \/ Pass(k)

Spec == Init /\ [][Next]_vars

----------------------------------------------------------------------------
(* Properties *)

\* Times keep their types, and only remembered keys have any.
TypeOK ==
  /\ now \in Time
  /\ keys \in Seq(Key)
  /\ attempts \in [Key -> Seq(Time)]
  /\ passed \in [Key -> Seq(Time)]
  /\ \A k \in Key : attempts[k] # <<>> => k \in Range(keys)

InWindow(k) == Cardinality({i \in DOMAIN passed[k] : passed[k][i] + Window(k) > now})

\* In any window, wherever it begins, no more attempts of a key are let through
\* than its limit, unless the process forgets the key in that window.
WithinLimit == \A k \in Key : InWindow(k) <= Limit(k)

\* Whoever waits is let in again: only attempts that were let through count
\* against a key, however often it tries in between.
RefusalsAreFree == \A k \in Key : Len(Recent(k, attempts[k])) <= InWindow(k)

\* The table stays bounded, and knows each key once.
TableIsBounded == Len(keys) <= MaxKeys /\ \A i, j \in DOMAIN keys : keys[i] = keys[j] => i = j
=============================================================================
