---------------------------- MODULE NumberLemmas ----------------------------
(***************************************************************************)
(* The least and the greatest of a set of numbers, which the models choose *)
(* (a descriptor number, a last report, a first interface): they exist.    *)
(* Induction up to a number, with the property as the set of the numbers   *)
(* that have it, and recursion up to a number, with the step as a          *)
(* function: what a loop computes turn by turn.                            *)
(***************************************************************************)
EXTENDS Naturals, WellFoundedInduction, TLAPS

\* A nonempty set of natural numbers has a least element.
LEMMA LeastNatural ==
  ASSUME NEW T \in SUBSET Nat, T # {}
  PROVE  \E x \in T : \A y \in T : x <= y
<1> DEFINE R == {ss \in Nat \X Nat : ss[1] < ss[2]}
<1>1. IsWellFoundedOn(R, Nat)
  BY NatLessThanWellFounded, Zenon DEF OpToRel
<1>2. \A x, y \in Nat : y < x => <<y, x>> \in R
  OBVIOUS
<1> HIDE DEF R
<1>3. PICK x \in T : \A y \in T : ~(<<y, x>> \in R)
  BY <1>1, WFMin, Zenon
<1>4. ASSUME NEW y \in T
      PROVE  x <= y
  <2>1. x \in Nat /\ y \in Nat
    OBVIOUS
  <2>2. ~(y < x)
    BY <1>2, <1>3, <2>1, Zenon
  <2>3. QED
    BY <2>1, <2>2
<1>5. QED
  BY <1>4

\* A nonempty set of the numbers up to n has a greatest element.
LEMMA Greatest ==
  ASSUME NEW n \in Nat, NEW T \in SUBSET (1..n), T # {}
  PROVE  \E x \in T : \A y \in T : y <= x
<1> DEFINE D == {n - k : k \in T}
<1>1. D \in SUBSET Nat
  BY SMT
<1>2. D # {}
  OBVIOUS
<1>3. PICK d \in D : \A e \in D : d <= e
  <2> HIDE DEF D
  <2>1. QED
    BY <1>1, <1>2, LeastNatural, Zenon
<1>4. PICK x \in T : d = n - x
  BY <1>3
<1>5. ASSUME NEW y \in T
      PROVE  y <= x
  <2>1. n - y \in D
    OBVIOUS
  <2>2. n - x <= n - y
    BY <1>3, <1>4, <2>1
  <2>3. QED
    BY <2>2
<1>6. QED
  BY <1>5

\* What holds at 0 and passes on from each number to the next holds up to n.
LEMMA InductionUpTo ==
  ASSUME NEW n \in Nat, NEW P \in SUBSET (0..n), 0 \in P,
         \A k \in 1..n : k - 1 \in P => k \in P
  PROVE  P = 0..n
<1> DEFINE Missing == (0..n) \ P
<1> SUFFICES ASSUME Missing # {}
             PROVE  FALSE
  OBVIOUS
<1>1. Missing \in SUBSET Nat
  OBVIOUS
<1>2. PICK k \in Missing : \A j \in Missing : k <= j
  <2> HIDE DEF Missing
  <2>1. QED
    BY <1>1, LeastNatural
<1>3. k \in 1..n /\ k - 1 \in 0..n /\ ~(k <= k - 1)
  OBVIOUS
<1>4. k - 1 \in P
  BY <1>2, <1>3
<1>5. QED
  BY <1>3, <1>4

\* A function stays in a set from each number to the next.
LEMMA StaysIn ==
  ASSUME NEW V, NEW n \in Nat, NEW f, f = [k \in 0..n |-> f[k]], f[0] \in V,
         \A k \in 1..n : f[k - 1] \in V => f[k] \in V
  PROVE  f \in [0..n -> V]
<1> DEFINE P == {k \in 0..n : f[k] \in V}
<1>1. 0 \in P /\ P \in SUBSET (0..n)
  OBVIOUS
<1>2. \A k \in 1..n : k - 1 \in P => k \in P
  OBVIOUS
<1>3. P = 0..n
  <2> HIDE DEF P
  <2>1. QED
    BY <1>1, <1>2, InductionUpTo
<1>4. \A k \in 0..n : f[k] \in V
  BY <1>3
<1>5. QED
  BY <1>4

\* A loop of n turns as a function: it starts with first, and its value after turn k
\* is what the turn makes of the value before.
Loops(V, n, first, turn) ==
    {f \in [0..n -> V] : f[0] = first /\ \A k \in 1..n : f[k] = turn[<<k, f[k - 1]>>]}

\* There is such a function.
LEMMA RecursionUpTo ==
  ASSUME NEW V, NEW n \in Nat, NEW first \in V, NEW turn \in [(1..n) \X V -> V]
  PROVE  Loops(V, n, first, turn) # {}
<1> DEFINE Computes(m, f) == f[0] = first /\ \A k \in 1..m : f[k] = turn[<<k, f[k - 1]>>]
           P == {m \in 0..n : \E f \in [0..m -> V] : Computes(m, f)}
<1>1. 0 \in P
  <2> DEFINE g == [k \in 0..0 |-> first]
  <2>1. g \in [0..0 -> V] /\ g[0] = first /\ \A k \in 1..0 : FALSE
    OBVIOUS
  <2> HIDE DEF g
  <2>2. QED
    BY <2>1
<1>2. ASSUME NEW m \in 1..n, m - 1 \in P
      PROVE  m \in P
  <2>1. PICK f \in [0..(m - 1) -> V] : Computes(m - 1, f)
    BY <1>2
  <2> DEFINE g == [k \in 0..m |-> IF k = m THEN turn[<<m, f[m - 1]>>] ELSE f[k]]
  <2>2. f[m - 1] \in V /\ turn[<<m, f[m - 1]>>] \in V
    BY <2>1
  <2>3. g \in [0..m -> V]
    BY <2>1, <2>2
  <2>4. \A k \in 0..(m - 1) : g[k] = f[k]
    OBVIOUS
  <2>5. g[m] = turn[<<m, f[m - 1]>>]
    OBVIOUS
  <2> HIDE DEF g
  <2>6. Computes(m, g)
    <3>1. g[0] = first
      BY <2>1, <2>4
    <3>2. ASSUME NEW k \in 1..m
          PROVE  g[k] = turn[<<k, g[k - 1]>>]
      <4>1. g[k - 1] = f[k - 1]
        BY <2>4
      <4>2. CASE k = m
        BY <2>5, <4>1, <4>2
      <4>3. CASE k # m
        <5>1. k \in 1..(m - 1) /\ g[k] = f[k]
          BY <2>4, <4>3
        <5>2. QED
          BY <2>1, <4>1, <5>1
      <4>4. QED
        BY <4>2, <4>3
    <3>3. QED
      BY <3>1, <3>2
  <2>7. QED
    BY <2>3, <2>6
<1>3. P = 0..n
  <2>1. P \in SUBSET (0..n)
    OBVIOUS
  <2> HIDE DEF P
  <2>2. QED
    BY <1>1, <1>2, <2>1, InductionUpTo
<1>4. \E f \in [0..n -> V] : Computes(n, f)
  BY <1>3
<1>5. QED
  BY <1>4 DEF Loops
=============================================================================
