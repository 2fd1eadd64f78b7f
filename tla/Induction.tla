------------------------------- MODULE Induction -------------------------------
(***************************************************************************)
(* The provers cannot use an induction principle that takes a predicate,   *)
(* so induction over the natural numbers, and the existence of recursive   *)
(* functions, are stated of sets and functions: a property is the set of   *)
(* what has it, the right side of a recursive definition is a function of  *)
(* functions.                                                              *)
(***************************************************************************)
EXTENDS Integers, WellFoundedInduction, TLAPS

Smaller(n) == {pair \in n \X n : pair[1] < pair[2]}

LEMMA NatIsWellFounded == IsWellFoundedOn(Smaller(Nat), Nat)
BY NatLessThanWellFounded DEF OpToRel, Smaller

\* A set of natural numbers has a least element.
LEMMA Least ==
  ASSUME NEW T, T \subseteq Nat, T # {}
  PROVE  \E x \in T : \A y \in T : x <= y
<1>1. PICK x \in T : \A y \in T : <<y, x>> \notin Smaller(Nat)
  BY NatIsWellFounded, WFMin, Zenon
<1>2. ASSUME NEW y \in T PROVE x <= y
  <2>1. x \in Nat /\ y \in Nat /\ <<y, x>> \notin Smaller(Nat)
    BY <1>1
  <2>2. ~(y < x)
    BY <2>1 DEF Smaller
  <2> QED
    BY <2>1, <2>2
<1> QED
  BY <1>2

\* One with a bound has a greatest.
LEMMA Greatest ==
  ASSUME NEW N \in Nat, NEW T, T \subseteq 0..N, T # {}
  PROVE  \E x \in T : \A y \in T : y <= x
<1> DEFINE U == {n \in 0..N : N - n \in T}
<1>1. \A x \in T : N - x \in U
  BY SMT
<1>2. U \subseteq Nat /\ U # {}
  <2>1. U \subseteq Nat
    OBVIOUS
  <2>2. PICK x \in T : TRUE
    OBVIOUS
  <2>3. N - x \in U
    BY <1>1
  <2> HIDE DEF U
  <2> QED
    BY <2>1, <2>3
<1>3. PICK u \in U : \A y \in U : u <= y
  BY <1>2, Least
<1>4. N - u \in T
  OBVIOUS
<1>5. ASSUME NEW y \in T PROVE y <= N - u
  BY <1>1, <1>3
<1> QED
  BY <1>4, <1>5

\* What 0 has, and n + 1 when n has it, every natural number has.
THEOREM SetInduction ==
  ASSUME NEW P, 0 \in P, \A n \in Nat : n \in P => n + 1 \in P
  PROVE  Nat \subseteq P
<1> DEFINE T == {n \in Nat : n \notin P}
<1>1. ASSUME T # {} PROVE FALSE
  <2>1. PICK x \in T : \A y \in T : x <= y
    BY <1>1, Least
  <2>2. x # 0 /\ x \in Nat
    OBVIOUS
  <2>3. x - 1 \in Nat /\ x - 1 \notin T
    BY <2>1, <2>2
  <2> QED
    BY <2>2, <2>3
<1>2. ASSUME NEW n \in Nat PROVE n \in P
  <2>1. n \notin P => n \in T
    OBVIOUS
  <2> HIDE DEF T
  <2> QED
    BY <1>1, <2>1
<1> QED
  BY <1>2

\* The right side of a recursive definition: what it makes of a function, it
\* makes for an argument from what the function gives for those of lower rank.
IsStep(D, V, step) == step \in [[D -> V] -> [D -> V]]

IsRank(D, N, rank) == rank \in [D -> 0..N]

Descends(D, V, rank, step) ==
  \A f, g \in [D -> V], d \in D :
    (\A e \in D : rank[e] < rank[d] => f[e] = g[e]) => step[f][d] = step[g][d]

\* Such a definition has a solution.
THEOREM FixedPoint ==
  ASSUME NEW D, NEW V, V # {}, NEW N, N \in Nat, NEW rank, IsRank(D, N, rank),
         NEW step, IsStep(D, V, step), Descends(D, V, rank, step)
  PROVE  \E f \in [D -> V] : f = step[f]
<1> USE DEF IsStep, IsRank, Descends
<1> DEFINE Solves(f, n) == \A d \in D : rank[d] < n => f[d] = step[f][d]
           P == {n \in Nat : \E f \in [D -> V] : Solves(f, n)}
<1>1. 0 \in P
  <2>1. PICK v \in V : TRUE
    OBVIOUS
  <2>2. [d \in D |-> v] \in [D -> V] /\ Solves([d \in D |-> v], 0)
    OBVIOUS
  <2> QED
    BY <2>2
<1>2. ASSUME NEW n \in Nat, n \in P PROVE n + 1 \in P
  <2>1. PICK f \in [D -> V] : Solves(f, n)
    BY <1>2
  <2>2. step[f] \in [D -> V]
    OBVIOUS
  <2>3. ASSUME NEW d \in D, rank[d] < n + 1 PROVE step[f][d] = step[step[f]][d]
    <3>1. \A e \in D : rank[e] < rank[d] => f[e] = step[f][e]
      BY <2>1, <2>3
    <3> QED
      BY <2>2, <3>1
  <2> QED
    BY <2>2, <2>3
<1>3. N + 1 \in P
  <2> HIDE DEF P
  <2>1. \A n \in Nat : n \in P => n + 1 \in P
    BY <1>2
  <2>2. Nat \subseteq P
    BY <1>1, <2>1, SetInduction, Zenon
  <2> QED
    BY <2>2
<1>4. PICK f \in [D -> V] : Solves(f, N + 1)
  BY <1>3
<1>5. \A d \in D : f[d] = step[f][d]
  BY <1>4
<1> QED
  BY <1>5

\* Of functions on a range of numbers, a definition may look back or ahead.
IsRange(D, N) == N \in Nat /\ D \subseteq 0..N

LooksBack(D, V, step) ==
  \A f, g \in [D -> V], p \in D :
    (\A q \in D : q < p => f[q] = g[q]) => step[f][p] = step[g][p]

LooksAhead(D, V, step) ==
  \A f, g \in [D -> V], p \in D :
    (\A q \in D : q > p => f[q] = g[q]) => step[f][p] = step[g][p]

\* Recursion up from 0.
THEOREM Upward ==
  ASSUME NEW N, NEW D, IsRange(D, N), NEW V, V # {}, NEW step, IsStep(D, V, step),
         LooksBack(D, V, step)
  PROVE  \E f \in [D -> V] : f = step[f]
<1> DEFINE rank == [p \in D |-> p]
<1>1. rank \in [D -> 0..N] /\ \A p \in D : rank[p] = p
  BY DEF IsRange
<1> HIDE DEF rank
<1>2. \A p, q \in D : rank[q] < rank[p] <=> q < p
  BY <1>1 DEF IsRange
<1>3. IsRank(D, N, rank) /\ N \in Nat
  BY <1>1 DEF IsRank, IsRange
<1>4. Descends(D, V, rank, step)
  <2> SUFFICES ASSUME NEW f \in [D -> V], NEW g \in [D -> V], NEW d \in D,
                      \A e \in D : rank[e] < rank[d] => f[e] = g[e]
               PROVE  step[f][d] = step[g][d]
    BY DEF Descends
  <2> QED
    BY <1>2, Zenon DEF LooksBack
<1> QED
  BY <1>3, <1>4, FixedPoint

\* Recursion down from N.
THEOREM Downward ==
  ASSUME NEW N, NEW D, IsRange(D, N), NEW V, V # {}, NEW step, IsStep(D, V, step),
         LooksAhead(D, V, step)
  PROVE  \E f \in [D -> V] : f = step[f]
<1> DEFINE rank == [p \in D |-> N - p]
<1>1. rank \in [D -> 0..N] /\ \A p \in D : rank[p] = N - p
  BY DEF IsRange
<1> HIDE DEF rank
<1>2. \A p, q \in D : rank[q] < rank[p] <=> q > p
  BY <1>1 DEF IsRange
<1>3. IsRank(D, N, rank) /\ N \in Nat
  BY <1>1 DEF IsRank, IsRange
<1>4. Descends(D, V, rank, step)
  <2> SUFFICES ASSUME NEW f \in [D -> V], NEW g \in [D -> V], NEW d \in D,
                      \A e \in D : rank[e] < rank[d] => f[e] = g[e]
               PROVE  step[f][d] = step[g][d]
    BY DEF Descends
  <2> QED
    BY <1>2, Zenon DEF LooksAhead
<1> QED
  BY <1>3, <1>4, FixedPoint

\* What a number has when all below it, or all above it, have it, all have.
THEOREM UpInduction ==
  ASSUME NEW N, NEW D, IsRange(D, N), NEW P,
         \A p \in D : (\A q \in D : q < p => q \in P) => p \in P
  PROVE  D \subseteq P
<1> DEFINE Bad == {p \in D : p \notin P}
<1>1. ASSUME Bad # {} PROVE FALSE
  <2>1. \A p \in D : p \in 0..N /\ N \in Nat
    BY DEF IsRange
  <2>2. Bad \subseteq Nat
    BY <2>1
  <2>3. PICK p \in Bad : \A q \in Bad : p <= q
    <3> HIDE DEF Bad
    <3> QED
      BY <1>1, <2>2, Least
  <2>4. \A q \in D : q < p => q \in P
    BY <2>1, <2>3
  <2> QED
    BY <2>4
<1> QED
  BY <1>1

THEOREM DownInduction ==
  ASSUME NEW N, NEW D, IsRange(D, N), NEW P,
         \A p \in D : (\A q \in D : q > p => q \in P) => p \in P
  PROVE  D \subseteq P
<1> DEFINE Bad == {p \in D : p \notin P}
<1>1. ASSUME Bad # {} PROVE FALSE
  <2>1. Bad \subseteq 0..N /\ N \in Nat
    BY DEF IsRange
  <2>2. PICK p \in Bad : \A q \in Bad : q <= p
    <3> HIDE DEF Bad
    <3> QED
      BY <1>1, <2>1, Greatest
  <2>3. \A q \in D : q > p => q \in P
    BY <2>1, <2>2 DEF IsRange
  <2> QED
    BY <2>3
<1> QED
  BY <1>1
================================================================================
