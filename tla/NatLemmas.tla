------------------------------- MODULE NatLemmas -------------------------------
(***************************************************************************)
(* Facts about natural numbers that the proofs of several components need: *)
(* least elements, induction and remainders. Induction is stated about a   *)
(* set: the provers cannot find the operator that the induction theorems   *)
(* of the library are about, but they can be told of a set.                *)
(***************************************************************************)
EXTENDS WellFoundedInduction, TLAPS

Less == {pair \in Nat \X Nat : pair[1] < pair[2]}

LEMMA LessIsWellFounded == IsWellFoundedOn(Less, Nat)
<1>1. Less = OpToRel(<, Nat)
  BY DEF Less, OpToRel
<1>. QED
  BY <1>1, NatLessThanWellFounded

(* A set of natural numbers that is not empty has a least element.         *)
LEMMA LeastNatural ==
  ASSUME NEW T, T \subseteq Nat, T # {}
  PROVE  \E m \in T : \A n \in T : m <= n
<1>1. PICK m \in T : \A n \in T : <<n, m>> \notin Less
  BY LessIsWellFounded, WFMin
<1>2. ASSUME NEW n \in T PROVE m <= n
  <2>1. m \in Nat /\ n \in Nat /\ <<n, m>> \notin Less
    BY <1>1
  <2>2. <<n, m>> \in Nat \X Nat /\ <<n, m>>[1] = n /\ <<n, m>>[2] = m
    BY <2>1
  <2>3. ~(n < m)
    BY <2>1, <2>2 DEF Less
  <2>. QED
    BY <2>1, <2>3
<1>. QED
  BY <1>2

(* A set that holds 0 and the successor of each natural number it holds,   *)
(* holds them all.                                                         *)
LEMMA Induction ==
  ASSUME NEW T, 0 \in T, \A n \in Nat : n \in T => n + 1 \in T
  PROVE  Nat \subseteq T
<1>. DEFINE Missing == Nat \ T
<1>. SUFFICES ASSUME Missing # {} PROVE FALSE
  OBVIOUS
<1>1. PICK m \in Missing : \A n \in Missing : m <= n
  <2>1. Missing \subseteq Nat
    OBVIOUS
  <2>. HIDE DEF Missing
  <2>. QED
    BY <2>1, LeastNatural
<1>2. m # 0 /\ m - 1 \in Nat /\ m - 1 < m /\ (m - 1) + 1 = m
  BY <1>1
<1>3. m - 1 \in T
  BY <1>1, <1>2
<1>. QED
  BY <1>1, <1>2, <1>3

(* A set of natural numbers with a bound has a greatest element.           *)
LEMMA GreatestNatural ==
  ASSUME NEW T, T \subseteq Nat, T # {}, NEW bound \in Nat, \A n \in T : n <= bound
  PROVE  \E m \in T : \A n \in T : n <= m
<1>. DEFINE Bounds == {b \in Nat : \A n \in T : n <= b}
<1>1. PICK b \in Bounds : \A c \in Bounds : b <= c
  <2>1. Bounds \subseteq Nat /\ bound \in Bounds
    OBVIOUS
  <2>. HIDE DEF Bounds
  <2>. QED
    BY <2>1, LeastNatural
<1>2. CASE b \in T
  BY <1>1, <1>2
<1>3. CASE b \notin T
  <2>1. PICK n \in T : TRUE
    OBVIOUS
  <2>2. b \in Nat /\ b # 0 /\ b - 1 \in Nat
    BY <1>1, <1>3, <2>1
  <2>3. \A k \in T : k <= b - 1
    BY <1>1, <1>3, <2>2
  <2>4. b - 1 \in Bounds /\ ~ (b <= b - 1)
    BY <2>2, <2>3
  <2>. QED
    BY <1>1, <2>4
<1>. QED
  BY <1>2, <1>3

-------------------------------------------------------------------------------
(* Recursion: where each step leads to something smaller, until it stops,  *)
(* there is a function that does what the steps say.                       *)
SolvesUpTo(f, n, D, R, size, Stops, base, step, next) ==
  /\ f \in [{x \in D : size[x] <= n} -> R]
  /\ \A x \in D : size[x] <= n => f[x] = IF x \in Stops THEN base[x] ELSE step[x][f[next[x]]]

LEMMA SolutionsAgree ==
  ASSUME NEW D, NEW R, NEW size \in [D -> Nat], NEW Stops, NEW base, NEW step,
         NEW next \in [D -> D], \A x \in D : x \notin Stops => size[next[x]] < size[x],
         NEW n \in Nat, NEW m \in Nat, NEW f, NEW g,
         SolvesUpTo(f, n, D, R, size, Stops, base, step, next),
         SolvesUpTo(g, m, D, R, size, Stops, base, step, next)
  PROVE  \A x \in D : size[x] <= n /\ size[x] <= m => f[x] = g[x]
<1>. DEFINE T == {k \in Nat : \A x \in D : size[x] <= k /\ size[x] <= n /\ size[x] <= m => f[x] = g[x]}
<1>1. 0 \in T
  <2>. SUFFICES ASSUME NEW x \in D, size[x] <= 0 PROVE f[x] = g[x]
    OBVIOUS
  <2>1. size[x] = 0 /\ x \in Stops
    OBVIOUS
  <2>. QED
    BY <2>1 DEF SolvesUpTo
<1>2. ASSUME NEW k \in Nat, k \in T PROVE k + 1 \in T
  <2>. SUFFICES ASSUME NEW x \in D, size[x] <= k + 1, size[x] <= n, size[x] <= m PROVE f[x] = g[x]
    OBVIOUS
  <2>1. /\ f[x] = IF x \in Stops THEN base[x] ELSE step[x][f[next[x]]]
        /\ g[x] = IF x \in Stops THEN base[x] ELSE step[x][g[next[x]]]
    BY DEF SolvesUpTo
  <2>2. CASE x \in Stops
    BY <2>1, <2>2
  <2>3. CASE x \notin Stops
    <3>1. next[x] \in D /\ size[next[x]] < size[x] /\ size[next[x]] \in Nat /\ size[x] \in Nat
      BY <2>3
    <3>2. f[next[x]] = g[next[x]]
      BY <1>2, <3>1
    <3>. QED
      BY <2>1, <3>2
  <2>. QED
    BY <2>2, <2>3
<1>3. Nat \subseteq T
  <2>. HIDE DEF T
  <2>. QED
    BY <1>1, <1>2, Induction
<1>. QED
  BY <1>3

Descends(D, R, size, Stops, base, step, next) ==
  /\ size \in [D -> Nat] /\ Stops \in SUBSET D
  /\ base \in [D -> R] /\ step \in [D -> [R -> R]] /\ next \in [D -> D]
  /\ \A x \in D : x \notin Stops => size[next[x]] < size[x]

LEMMA RecursionExists ==
  ASSUME NEW D, NEW R, NEW size, NEW Stops, NEW base, NEW step, NEW next,
         Descends(D, R, size, Stops, base, step, next)
  PROVE  \E f \in [D -> R] :
           \A x \in D : f[x] = IF x \in Stops THEN base[x] ELSE step[x][f[next[x]]]
<1>. /\ size \in [D -> Nat] /\ Stops \in SUBSET D
     /\ base \in [D -> R] /\ step \in [D -> [R -> R]] /\ next \in [D -> D]
     /\ \A x \in D : x \notin Stops => size[next[x]] < size[x]
  BY DEF Descends
<1>. DEFINE Solves(f, n) == SolvesUpTo(f, n, D, R, size, Stops, base, step, next)
            T == {n \in Nat : \E f : Solves(f, n)}
<1>1. 0 \in T
  <2>. DEFINE f == [x \in {y \in D : size[y] <= 0} |-> base[x]]
  <2>1. ASSUME NEW x \in D, size[x] <= 0 PROVE x \in Stops
    BY <2>1
  <2>2. Solves(f, 0)
    BY <2>1 DEF SolvesUpTo
  <2>. QED
    BY <2>2
<1>2. ASSUME NEW n \in Nat, n \in T PROVE n + 1 \in T
  <2>1. PICK f : Solves(f, n)
    BY <1>2
  <2>. DEFINE Value(x) == IF x \in Stops THEN base[x] ELSE step[x][f[next[x]]]
              g == [x \in {y \in D : size[y] <= n + 1} |-> Value(x)]
  <2>2. ASSUME NEW x \in D, size[x] <= n + 1
        PROVE  /\ Value(x) \in R
               /\ x \notin Stops => next[x] \in D /\ size[next[x]] <= n
    <3>1. x \notin Stops => next[x] \in D /\ size[next[x]] \in Nat /\ size[next[x]] <= n
      BY <2>2
    <3>2. x \notin Stops => f[next[x]] \in R
      BY <2>1, <3>1 DEF SolvesUpTo
    <3>3. x \notin Stops => step[x][f[next[x]]] \in R
      BY <3>2
    <3>. QED
      BY <3>1, <3>3
  <2>3. \A x \in D : size[x] <= n => f[x] = Value(x)
    BY <2>1 DEF SolvesUpTo
  <2>4. \A x \in D : size[x] <= n => size[x] <= n + 1
    OBVIOUS
  <2>. HIDE DEF Value
  <2>5. \A x \in D : size[x] <= n => g[x] = f[x]
    BY <2>3, <2>4
  <2>6. g \in [{x \in D : size[x] <= n + 1} -> R]
    BY <2>2
  <2>7. \A x \in D : size[x] <= n + 1 => g[x] = Value(x)
    OBVIOUS
  <2>. HIDE DEF g
  <2>8. \A x \in D : size[x] <= n + 1 =>
          g[x] = IF x \in Stops THEN base[x] ELSE step[x][g[next[x]]]
    BY <2>2, <2>5, <2>7 DEF Value
  <2>9. Solves(g, n + 1)
    BY <2>6, <2>8 DEF SolvesUpTo
  <2>. QED
    BY <2>9
<1>3. Nat \subseteq T
  <2>. HIDE DEF T
  <2>. QED
    BY <1>1, <1>2, Induction
<1>. DEFINE Upto(n) == CHOOSE f : Solves(f, n)
            F == [x \in D |-> Upto(size[x])[x]]
<1>4. \A n \in Nat : Solves(Upto(n), n)
  BY <1>3
<1>. HIDE DEF Upto
<1>5. \A n \in Nat : \A x \in D : size[x] <= n => Upto(n)[x] = F[x]
  <2>. SUFFICES ASSUME NEW n \in Nat, NEW x \in D, size[x] <= n PROVE Upto(n)[x] = Upto(size[x])[x]
    OBVIOUS
  <2>1. size[x] \in Nat /\ Solves(Upto(n), n) /\ Solves(Upto(size[x]), size[x])
    BY <1>4
  <2>. QED
    BY <2>1, SolutionsAgree
<1>6. ASSUME NEW x \in D
      PROVE  F[x] \in R /\ F[x] = IF x \in Stops THEN base[x] ELSE step[x][F[next[x]]]
  <2>. DEFINE n == size[x]
  <2>1. n \in Nat /\ Solves(Upto(n), n) /\ F[x] = Upto(n)[x]
    BY <1>4
  <2>2. Upto(n)[x] \in R /\ Upto(n)[x] = IF x \in Stops THEN base[x] ELSE step[x][Upto(n)[next[x]]]
    BY <2>1 DEF SolvesUpTo
  <2>3. x \notin Stops => next[x] \in D /\ size[next[x]] <= n
    OBVIOUS
  <2>4. x \notin Stops => Upto(n)[next[x]] = F[next[x]]
    BY <1>5, <2>1, <2>3
  <2>. QED
    BY <2>1, <2>2, <2>4
<1>7. F \in [D -> R]
  BY <1>6
<1>. QED
  BY <1>6, <1>7

-------------------------------------------------------------------------------
(* What divides without remainder, and the remainder of a number that is   *)
(* once around at most.                                                    *)
LEMMA Multiple ==
  ASSUME NEW n \in Nat, NEW d \in Nat \ {0}, n % d = 0
  PROVE  n = d * (n \div d) /\ n \div d \in Nat
OBVIOUS

LEMMA SmallRemainder ==
  ASSUME NEW n \in Nat \ {0}, NEW x \in 0 .. n - 1
  PROVE  x % n = x /\ (x + n) % n = x
OBVIOUS

LEMMA RemainderBelow ==
  ASSUME NEW n \in Nat \ {0}, NEW x \in Nat
  PROVE  x % n \in 0 .. n - 1
OBVIOUS

LEMMA QuotientBelow ==
  ASSUME NEW x \in Nat, NEW d \in Nat \ {0}, NEW q \in Nat, x < d * q
  PROVE  x \div d \in 0 .. q - 1
OBVIOUS
===============================================================================
