------------------------- MODULE PartialSums_proofs -------------------------
(***************************************************************************)
(* What the proofs about trains and bit buffers need of the sums: they     *)
(* grow entry by entry, and depend on the entries summed only.             *)
(*                                                                         *)
(* The sum is a recursive function, chosen by CHOOSE: that there is one,   *)
(* and only one, is shown by induction. The induction is over a set S of   *)
(* numbers: the relation < on Nat is well founded, so the numbers outside  *)
(* S, if there were any, would have a least one.                           *)
(***************************************************************************)
EXTENDS PartialSums, WellFoundedInduction, TLAPS

\* The relation < as a set of pairs.
Less == {ss \in Nat \X Nat : ss[1] < ss[2]}

\* No sequence of natural numbers descends for ever.
LEMMA LessWF == IsWellFoundedOn(Less, Nat)
<1>1. OpToRel(<, Nat) = Less
  BY Zenon DEF OpToRel, Less
<1> QED BY <1>1, NatLessThanWellFounded, Zenon

\* A set of natural numbers that is not empty has a least one.
LEMMA LeastNatural ==
  ASSUME NEW T, T \subseteq Nat, T # {}
  PROVE  \E x \in T : \A y \in T : ~(y < x)
<1>1. PICK x \in T : \A y \in T : <<y, x>> \notin Less
  BY LessWF, WFMin, Zenon
<1>2. ASSUME NEW y \in T PROVE ~(y < x)
  <2>1. y \in Nat /\ x \in Nat
    OBVIOUS
  <2> QED BY <1>1, <2>1 DEF Less
<1> QED BY <1>2

\* A set that has 0, and with a number the next one, has all of them.
LEMMA Induction ==
  ASSUME NEW S, 0 \in S, \A n \in S : n \in Nat => n + 1 \in S
  PROVE  \A n \in Nat : n \in S
<1> DEFINE T == Nat \ S
<1> SUFFICES ASSUME T # {} PROVE FALSE
  OBVIOUS
<1>1. PICK x \in T : \A y \in T : ~(y < x)
  BY LeastNatural
<1>2. x \in Nat /\ x # 0
  OBVIOUS
<1>3. x - 1 \in Nat /\ x - 1 < x /\ (x - 1) + 1 = x
  BY <1>2
<1>4. x - 1 \in S
  BY <1>1, <1>3
<1> QED BY <1>3, <1>4

\* f holds the sums of the first 0 to n entries of a.
IsSum(f, a, n) == f = [i \in 0..n |-> IF i = 0 THEN 0 ELSE f[i - 1] + a[i - 1]]

\* There are such sums up to every n.
LEMMA SumsExist ==
  ASSUME NEW a
  PROVE  \A n \in Nat : \E f : IsSum(f, a, n)
<1> DEFINE S == {n \in Nat : \E f : IsSum(f, a, n)}
<1>1. 0 \in S
  <2> DEFINE f == [i \in 0..0 |-> 0]
  <2>1. f = [i \in 0..0 |-> IF i = 0 THEN 0 ELSE f[i - 1] + a[i - 1]]
    OBVIOUS
  <2> QED BY <2>1 DEF IsSum
<1>2. ASSUME NEW n \in S, n \in Nat PROVE n + 1 \in S
  <2>1. PICK f : IsSum(f, a, n)
    OBVIOUS
  <2> DEFINE g == [i \in 0..n + 1 |-> IF i = n + 1 THEN f[n] + a[n] ELSE f[i]]
  <2>2. ASSUME NEW i \in 0..n + 1
        PROVE  g[i] = IF i = 0 THEN 0 ELSE g[i - 1] + a[i - 1]
    <3>1. CASE i = 0
      BY <2>1, <3>1 DEF IsSum
    <3>2. CASE i # 0 /\ i # n + 1
      <4>1. i \in 0..n /\ i - 1 \in 0..n /\ i - 1 # n + 1 /\ i - 1 \in 0..n + 1
        BY <3>2
      <4>2. f[i] = f[i - 1] + a[i - 1]
        BY <2>1, <3>2, <4>1 DEF IsSum
      <4> QED BY <3>2, <4>1, <4>2
    <3>3. CASE i = n + 1
      BY <3>3
    <3> QED BY <3>1, <3>2, <3>3
  <2>3. g = [i \in 0..n + 1 |-> IF i = 0 THEN 0 ELSE g[i - 1] + a[i - 1]]
    <3> DEFINE h == [i \in 0..n + 1 |-> IF i = 0 THEN 0 ELSE g[i - 1] + a[i - 1]]
    <3>1. \A i \in 0..n + 1 : h[i] = IF i = 0 THEN 0 ELSE g[i - 1] + a[i - 1]
      OBVIOUS
    <3>2. g = [i \in 0..n + 1 |-> g[i]]
      OBVIOUS
    <3> QED BY <2>2, <3>2
  <2> HIDE DEF g
  <2>4. IsSum(g, a, n + 1)
    BY <2>3 DEF IsSum
  <2> QED BY <2>4
<1>3. \A n \in Nat : n \in S
  <2> HIDE DEF S
  <2> QED BY <1>1, <1>2, Induction
<1> QED BY <1>3

\* Two functions that agree below n have the same sums there.
LEMMA SumsAgree ==
  ASSUME NEW a, NEW b, NEW n \in Nat, \A i \in 0..n - 1 : a[i] = b[i],
         NEW m \in Nat, NEW f, IsSum(f, a, n), NEW g, IsSum(g, b, m), n <= m
  PROVE  f[n] = g[n]
<1> DEFINE S == {k \in Nat : k <= n => f[k] = g[k]}
<1>1. 0 \in S
  BY DEF IsSum
<1>2. ASSUME NEW k \in S, k \in Nat PROVE k + 1 \in S
  <2> SUFFICES ASSUME k + 1 <= n PROVE f[k + 1] = g[k + 1]
    OBVIOUS
  <2>1. k + 1 \in 0..n /\ k + 1 \in 0..m /\ k + 1 # 0 /\ k + 1 - 1 = k /\ k \in 0..n - 1
    OBVIOUS
  <2>2. f[k + 1] = f[k] + a[k] /\ g[k + 1] = g[k] + b[k]
    BY <2>1 DEF IsSum
  <2> QED BY <2>1, <2>2
<1>3. \A k \in Nat : k \in S
  <2> HIDE DEF S
  <2> QED BY <1>1, <1>2, Induction
<1> QED BY <1>3

\* What SumBelow() chooses is such a sum.
LEMMA SumIs ==
  ASSUME NEW a, NEW n \in Nat
  PROVE  \E f : IsSum(f, a, n) /\ SumBelow(a, n) = f[n]
<1> DEFINE f == CHOOSE g : IsSum(g, a, n)
<1>1. IsSum(f, a, n)
  BY SumsExist
<1>2. SumBelow(a, n) = f[n]
  BY DEF SumBelow, IsSum
<1> QED BY <1>1, <1>2

\* The empty sum.
LEMMA SumOfNone == ASSUME NEW a PROVE SumBelow(a, 0) = 0
  BY SumIs DEF IsSum

\* Only the entries below n count.
LEMMA SumSame ==
  ASSUME NEW a, NEW b, NEW n \in Nat, \A i \in 0..n - 1 : a[i] = b[i]
  PROVE  SumBelow(a, n) = SumBelow(b, n)
<1>1. PICK f : IsSum(f, a, n) /\ SumBelow(a, n) = f[n]
  BY SumIs
<1>2. PICK g : IsSum(g, b, n) /\ SumBelow(b, n) = g[n]
  BY SumIs
<1> QED BY <1>1, <1>2, SumsAgree

\* One entry more.
LEMMA SumNext ==
  ASSUME NEW a, NEW n \in Nat
  PROVE  SumBelow(a, n + 1) = SumBelow(a, n) + a[n]
<1>1. PICK f : IsSum(f, a, n) /\ SumBelow(a, n) = f[n]
  BY SumIs
<1>2. n + 1 \in Nat
  OBVIOUS
<1>3. PICK g : IsSum(g, a, n + 1) /\ SumBelow(a, n + 1) = g[n + 1]
  BY <1>2, SumIs
<1>4. g[n + 1] = g[n] + a[n]
  BY <1>3 DEF IsSum
<1>5. f[n] = g[n]
  <2> DEFINE m == n + 1
  <2>1. m \in Nat /\ n <= m /\ IsSum(g, a, m)
    BY <1>3
  <2> HIDE DEF m
  <2> QED BY <1>1, <2>1, SumsAgree
<1> QED BY <1>1, <1>3, <1>4, <1>5

\* A sum of counts is a count.
LEMMA SumType ==
  ASSUME NEW a, NEW m \in Nat, \A i \in 0..m - 1 : a[i] \in Nat
  PROVE  \A n \in 0..m : SumBelow(a, n) \in Nat
<1> DEFINE S == {k \in Nat : k <= m => SumBelow(a, k) \in Nat}
<1>1. 0 \in S
  BY SumOfNone
<1>2. ASSUME NEW k \in S, k \in Nat PROVE k + 1 \in S
  BY SumNext
<1>3. \A k \in Nat : k \in S
  <2> HIDE DEF S
  <2> QED BY <1>1, <1>2, Induction
<1> QED BY <1>3

\* The sum changes by what one of the entries changes by.
LEMMA SumChanged ==
  ASSUME NEW a, NEW b, NEW n \in Nat, NEW k \in 0..n - 1, NEW d \in Int,
         \A i \in 0..n - 1 : a[i] \in Int,
         \A i \in 0..n - 1 : i # k => b[i] = a[i],
         b[k] = a[k] + d
  PROVE  SumBelow(b, n) = SumBelow(a, n) + d
<1> DEFINE S == {m \in Nat : m <= n =>
                  /\ SumBelow(a, m) \in Int
                  /\ SumBelow(b, m) = SumBelow(a, m) + (IF k < m THEN d ELSE 0)}
<1>1. 0 \in S
  BY SumOfNone
<1>2. ASSUME NEW m \in S, m \in Nat PROVE m + 1 \in S
  <2> SUFFICES ASSUME m + 1 <= n
               PROVE  /\ SumBelow(a, m + 1) \in Int
                      /\ SumBelow(b, m + 1)
                           = SumBelow(a, m + 1) + (IF k < m + 1 THEN d ELSE 0)
    OBVIOUS
  <2>1. /\ SumBelow(a, m + 1) = SumBelow(a, m) + a[m]
        /\ SumBelow(b, m + 1) = SumBelow(b, m) + b[m]
    BY <1>2, SumNext
  <2>2. /\ SumBelow(a, m) \in Int /\ a[m] \in Int
        /\ SumBelow(b, m) = SumBelow(a, m) + (IF k < m THEN d ELSE 0)
    OBVIOUS
  <2>3. CASE m = k
    BY <2>1, <2>2, <2>3
  <2>4. CASE m # k
    BY <2>1, <2>2, <2>4
  <2> QED BY <2>3, <2>4
<1>3. \A m \in Nat : m \in S
  <2> HIDE DEF S
  <2> QED BY <1>1, <1>2, Induction
<1> QED BY <1>3

\* Entries of 0 add nothing.
LEMMA SumPadded ==
  ASSUME NEW a, NEW n \in Nat, NEW m \in 0..n,
         \A i \in 0..n - 1 : a[i] \in Int, \A i \in m..n - 1 : a[i] = 0
  PROVE  SumBelow(a, n) = SumBelow(a, m)
<1> DEFINE S == {k \in Nat : k <= n =>
                  /\ SumBelow(a, k) \in Int
                  /\ k >= m => SumBelow(a, k) = SumBelow(a, m)}
<1>1. 0 \in S
  BY SumOfNone
<1>2. ASSUME NEW k \in S, k \in Nat PROVE k + 1 \in S
  <2>1. SumBelow(a, k + 1) = SumBelow(a, k) + a[k]
    BY <1>2, SumNext
  <2>2. CASE k >= m
    BY <1>2, <2>1, <2>2
  <2>3. CASE k + 1 = m
    BY <1>2, <2>1, <2>3
  <2>4. CASE k + 1 < m
    BY <1>2, <2>1, <2>4
  <2> QED BY <1>2, <2>2, <2>3, <2>4
<1>3. \A k \in Nat : k \in S
  <2> HIDE DEF S
  <2> QED BY <1>1, <1>2, Induction
<1> QED BY <1>3

=============================================================================
