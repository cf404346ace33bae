-------------------------------- MODULE Sums --------------------------------
(* Sums of natural numbers over finite sets, as SumFunctionOnSet computes    *)
(* them: what the proofs about point totals and storage quotas cite. The fold *)
(* takes the elements in an arbitrary order; that the order makes no          *)
(* difference is shown on a smallest set for which it would.                 *)
EXTENDS Integers, FiniteSets, Functions, FiniteSetTheorems, TLAPS

LOCAL Pick(S) == CHOOSE x \in S : TRUE

\* g is the function that SumFunctionOnSet(f, S) evaluates.
LOCAL Sums(f, S, g) ==
  g = [T \in SUBSET S |-> IF T = {} THEN 0 ELSE f[Pick(T)] + g[T \ {Pick(T)}]]

LOCAL Unfolds(f, S) ==
  SumFunctionOnSet(f, S) =
    IF S = {} THEN 0 ELSE f[Pick(S)] + SumFunctionOnSet(f, S \ {Pick(S)})

\* A finite set and all its subsets: a set of subsets that is not empty has a
\* smallest member.
LEMMA SmallestSubset ==
  ASSUME NEW S, IsFiniteSet(S), NEW U \in SUBSET SUBSET S, U # {}
  PROVE  \E T \in U : \A V \in U : V \subseteq T => V = T
<1>1. IsWellFoundedOn(StrictSubsetOrdering(S), SUBSET S)
  BY FS_StrictSubsetOrderingWellFounded, FS_FiniteSubsetsOfFinite
<1>2. PICK T \in U : \A V \in U : <<V, T>> \notin StrictSubsetOrdering(S)
  BY <1>1, WFMin
<1>3. \A V \in U : V \subseteq T => V = T
  BY <1>2 DEF StrictSubsetOrdering
<1> QED
  BY <1>3

\* The sum is the fold over the whole set, with its definitions expanded.
LEMMA Evaluated ==
  ASSUME NEW f, NEW S
  PROVE  SumFunctionOnSet(f, S) = (CHOOSE g : Sums(f, S, g))[S]
BY DEF SumFunctionOnSet, FoldFunctionOnSet, MapThenFoldSet, Sums, Pick

\* If the proper subsets unfold, there is a function to evaluate.
LEMMA UnfoldStep ==
  ASSUME NEW f, NEW S, IsFiniteSet(S), \A T \in SUBSET S : T # S => Unfolds(f, T)
  PROVE  Unfolds(f, S)
<1> DEFINE
  total == [T \in SUBSET S |-> IF T = {} THEN 0
                               ELSE f[Pick(T)] + SumFunctionOnSet(f, T \ {Pick(T)})]
  iter == CHOOSE g : Sums(f, S, g)
<1>1. \A T \in SUBSET S : T # {} => Pick(T) \in T
  BY DEF Pick
<1>2. \A T \in SUBSET S : T # S => total[T] = SumFunctionOnSet(f, T)
  BY DEF Unfolds
<1>3. \A T \in SUBSET S : T # {} => total[T \ {Pick(T)}] = SumFunctionOnSet(f, T \ {Pick(T)})
  BY <1>1, <1>2
<1>4. Sums(f, S, total)
  BY <1>3 DEF Sums
<1>5. Sums(f, S, iter)
  BY <1>4
<1>6. iter[S] = total[S]
  <2> DEFINE Differ == {T \in SUBSET S : iter[T] # total[T]}
  <2>1. SUFFICES Differ = {}
    OBVIOUS
  <2>2. SUFFICES ASSUME Differ # {} PROVE FALSE
    OBVIOUS
  <2>3. PICK T \in Differ : \A V \in Differ : V \subseteq T => V = T
    <3> HIDE DEF total, iter
    <3>1. Differ \in SUBSET SUBSET S
      OBVIOUS
    <3> HIDE DEF Differ
    <3> QED
      BY <2>2, <3>1, SmallestSubset
  <2> HIDE DEF total, iter
  <2>4. T # {} => iter[T \ {Pick(T)}] = total[T \ {Pick(T)}]
    <3>1. T # {} => T \ {Pick(T)} \in SUBSET S /\ T \ {Pick(T)} # T
      BY <1>1
    <3> QED
      BY <2>3, <3>1
  <2> QED
    BY <1>4, <1>5, <2>3, <2>4 DEF Sums
<1>7. SumFunctionOnSet(f, S) = iter[S]
  BY Evaluated
<1> QED
  BY <1>6, <1>7 DEF Unfolds

\* The sum takes out one element after another.
LEMMA SumUnfolds ==
  ASSUME NEW f, NEW S, IsFiniteSet(S)
  PROVE  Unfolds(f, S)
<1> DEFINE Stuck == {T \in SUBSET S : ~Unfolds(f, T)}
<1>1. SUFFICES ASSUME Stuck # {} PROVE FALSE
  OBVIOUS
<1>2. PICK T \in Stuck : \A V \in Stuck : V \subseteq T => V = T
  <2>1. Stuck \in SUBSET SUBSET S
    OBVIOUS
  <2> HIDE DEF Stuck
  <2> QED
    BY <1>1, <2>1, SmallestSubset
<1>3. IsFiniteSet(T) /\ \A V \in SUBSET T : V # T => Unfolds(f, V)
  BY <1>2, FS_Subset
<1> QED
  BY <1>2, <1>3, UnfoldStep

----------------------------------------------------------------------------
\* A sum of natural numbers, one of them set apart, whichever it is.
LOCAL Splits(f, S) ==
  /\ SumFunctionOnSet(f, S) \in Nat
  /\ \A x \in S : SumFunctionOnSet(f, S) = f[x] + SumFunctionOnSet(f, S \ {x})

\* If the sums of the proper subsets do not depend on the order, neither does
\* that of the set: what was picked first and what is set apart can be exchanged.
LEMMA SplitStep ==
  ASSUME NEW f, NEW S, IsFiniteSet(S), \A x \in S : f[x] \in Nat,
         \A T \in SUBSET S : T # S => Splits(f, T)
  PROVE  Splits(f, S)
<1>1. CASE S = {}
  <2>1. SumFunctionOnSet(f, S) = 0
    BY <1>1, SumUnfolds DEF Unfolds
  <2> QED
    BY <1>1, <2>1 DEF Splits
<1>2. CASE S # {}
  <2> DEFINE p == Pick(S)
  <2>1. p \in S
    BY <1>2 DEF Pick
  <2>2. SumFunctionOnSet(f, S) = f[p] + SumFunctionOnSet(f, S \ {p})
    BY <1>2, SumUnfolds DEF Unfolds
  <2> HIDE DEF p
  <2>3. SumFunctionOnSet(f, S \ {p}) \in Nat
    BY <2>1 DEF Splits
  <2>4. ASSUME NEW x \in S, x # p
        PROVE  SumFunctionOnSet(f, S) = f[x] + SumFunctionOnSet(f, S \ {x})
    <3> DEFINE rest == SumFunctionOnSet(f, S \ {x, p})
    <3>1. /\ S \ {p} \in SUBSET S /\ S \ {p} # S /\ x \in S \ {p}
          /\ S \ {x} \in SUBSET S /\ S \ {x} # S /\ p \in S \ {x}
          /\ (S \ {p}) \ {x} = S \ {x, p} /\ (S \ {x}) \ {p} = S \ {x, p}
      BY <2>1, <2>4
    <3>2. SumFunctionOnSet(f, S \ {p}) = f[x] + rest
      BY <3>1 DEF Splits
    <3>3. SumFunctionOnSet(f, S \ {x}) = f[p] + rest
      BY <3>1 DEF Splits
    <3>4. S \ {x, p} \in SUBSET S /\ S \ {x, p} # S
      BY <2>1
    <3>5. rest \in Nat
      BY <3>4 DEF Splits
    <3> HIDE DEF rest
    <3> QED
      BY <2>1, <2>2, <3>2, <3>3, <3>5
  <2> QED
    <3>1. SumFunctionOnSet(f, S) \in Nat
      BY <2>1, <2>2, <2>3
    <3> QED
      BY <2>2, <2>4, <3>1 DEF Splits
<1> QED
  BY <1>1, <1>2

\* The sum is a natural number, and any element can be taken out first.
LEMMA SumSplits ==
  ASSUME NEW f, NEW S, IsFiniteSet(S), \A x \in S : f[x] \in Nat
  PROVE  Splits(f, S)
<1> DEFINE Stuck == {T \in SUBSET S : ~Splits(f, T)}
<1>1. SUFFICES ASSUME Stuck # {} PROVE FALSE
  OBVIOUS
<1>2. PICK T \in Stuck : \A V \in Stuck : V \subseteq T => V = T
  <2>1. Stuck \in SUBSET SUBSET S
    OBVIOUS
  <2> HIDE DEF Stuck
  <2> QED
    BY <1>1, <2>1, SmallestSubset
<1>3. IsFiniteSet(T) /\ \A V \in SUBSET T : V # T => Splits(f, V)
  BY <1>2, FS_Subset
<1> QED
  BY <1>2, <1>3, SplitStep

----------------------------------------------------------------------------
(* What is cited elsewhere *)

\* The sum over a finite set of natural numbers is a natural number.
THEOREM SumType ==
  ASSUME NEW f, NEW S, IsFiniteSet(S), \A x \in S : f[x] \in Nat
  PROVE  SumFunctionOnSet(f, S) \in Nat
BY SumSplits DEF Splits

\* Nothing sums up to zero.
THEOREM SumEmpty == \A f : SumFunctionOnSet(f, {}) = 0
BY SumUnfolds, FS_EmptySet DEF Unfolds

\* An element can be set apart.
THEOREM SumRemove ==
  ASSUME NEW f, NEW S, IsFiniteSet(S), \A x \in S : f[x] \in Nat, NEW x \in S
  PROVE  SumFunctionOnSet(f, S) = f[x] + SumFunctionOnSet(f, S \ {x})
BY SumSplits DEF Splits

\* A larger set sums up to no less.
THEOREM SumMonotone ==
  ASSUME NEW f, NEW S, IsFiniteSet(S), \A x \in S : f[x] \in Nat, NEW T \in SUBSET S
  PROVE  SumFunctionOnSet(f, T) <= SumFunctionOnSet(f, S)
<1> DEFINE Counter == {U \in SUBSET S : T \subseteq U /\ ~(SumFunctionOnSet(f, T) <= SumFunctionOnSet(f, U))}
<1>1. SUFFICES ASSUME Counter # {} PROVE FALSE
  OBVIOUS
<1>2. PICK U \in Counter : \A V \in Counter : V \subseteq U => V = U
  <2>1. Counter \in SUBSET SUBSET S
    OBVIOUS
  <2> HIDE DEF Counter
  <2> QED
    BY <1>1, <2>1, SmallestSubset
<1>3. IsFiniteSet(T) /\ IsFiniteSet(U) /\ \A x \in U : f[x] \in Nat
  BY <1>2, FS_Subset
<1>4. SumFunctionOnSet(f, T) \in Nat /\ SumFunctionOnSet(f, U) \in Nat
  BY <1>3, SumType
<1>5. PICK x \in U : x \notin T
  <2>1. T # U
    BY <1>2, <1>4
  <2> QED
    BY <1>2, <2>1
<1>6. SumFunctionOnSet(f, U) = f[x] + SumFunctionOnSet(f, U \ {x})
  BY <1>3, <1>5, SumRemove
<1>7. IsFiniteSet(U \ {x}) /\ SumFunctionOnSet(f, U \ {x}) \in Nat
  <2>1. IsFiniteSet(U \ {x})
    BY <1>3, FS_RemoveElement
  <2> QED
    BY <1>3, <2>1, SumType
<1>8. SumFunctionOnSet(f, T) <= SumFunctionOnSet(f, U \ {x})
  BY <1>2, <1>5
<1> QED
  BY <1>2, <1>3, <1>4, <1>5, <1>6, <1>7, <1>8

\* A sum over other names for the same numbers: b renames the elements of S.
THEOREM SumRenamed ==
  ASSUME NEW f, NEW g, NEW b, NEW S, IsFiniteSet(S),
         \A x \in S : f[x] \in Nat /\ g[b[x]] = f[x],
         \A x, y \in S : b[x] = b[y] => x = y
  PROVE  SumFunctionOnSet(g, {b[x] : x \in S}) = SumFunctionOnSet(f, S)
<1> DEFINE
  Named(T) == {b[x] : x \in T}
  Counter == {T \in SUBSET S : SumFunctionOnSet(g, Named(T)) # SumFunctionOnSet(f, T)}
<1>1. SUFFICES ASSUME Counter # {} PROVE FALSE
  OBVIOUS
<1>2. PICK T \in Counter : \A V \in Counter : V \subseteq T => V = T
  <2>1. Counter \in SUBSET SUBSET S
    OBVIOUS
  <2> HIDE DEF Counter
  <2> QED
    BY <1>1, <2>1, SmallestSubset
<1>3. IsFiniteSet(T) /\ \A x \in T : f[x] \in Nat /\ g[b[x]] = f[x]
  BY <1>2, FS_Subset
<1>4. T # {}
  BY <1>2, SumEmpty
<1>5. PICK x \in T : TRUE
  BY <1>4
<1>6. SumFunctionOnSet(g, Named(T \ {x})) = SumFunctionOnSet(f, T \ {x})
  BY <1>2
<1>7. /\ b[x] \in Named(T)
      /\ Named(T) \ {b[x]} = Named(T \ {x})
  BY <1>2
<1>8. IsFiniteSet(Named(T)) /\ \A y \in Named(T) : g[y] \in Nat
  <2> DEFINE onto == [y \in T |-> b[y]]
  <2>1. onto \in Surjection(T, Named(T))
    BY DEF Surjection
  <2>2. IsFiniteSet(Named(T))
    <3> HIDE DEF onto, Named
    <3> QED
      BY <1>3, <2>1, FS_Surjection
  <2> QED
    BY <1>3, <2>2
<1>9. SumFunctionOnSet(g, Named(T)) = g[b[x]] + SumFunctionOnSet(g, Named(T) \ {b[x]})
  <2> HIDE DEF Named
  <2> QED
    BY <1>7, <1>8, SumRemove
<1>10. SumFunctionOnSet(f, T) = f[x] + SumFunctionOnSet(f, T \ {x})
  BY <1>3, SumRemove
<1> QED
  BY <1>2, <1>3, <1>6, <1>7, <1>9, <1>10
=============================================================================
