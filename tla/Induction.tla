------------------------------ MODULE Induction ------------------------------
(***************************************************************************)
(* Induction for the proofs, over an interval and over the subsets of a    *)
(* finite set, and two recursions that rest on it: repeating a step, as a  *)
(* loop does, and summing over a set.  All statements quantify over sets   *)
(* and functions instead of operators.                                     *)
(***************************************************************************)
EXTENDS FiniteSetTheorems, TLAPS

(* A set of naturals that is not empty has a least element.                *)
LEMMA LeastNatural ==
  ASSUME NEW T, T \subseteq Nat, T # {}
  PROVE  \E m \in T : \A k \in T : m <= k
<1> DEFINE less == OpToRel(<, Nat)
<1>1. IsWellFoundedOn(less, Nat)
  BY NatLessThanWellFounded, Zenon
<1>2. \A i, j \in Nat : i < j => <<i, j>> \in less
  BY DEF OpToRel
<1> HIDE DEF less
<1>3. PICK m \in T : \A k \in T : ~(<<k, m>> \in less)
  BY <1>1, WFMin
<1>4. ASSUME NEW k \in T PROVE m <= k
  <2>1. m \in Nat /\ k \in Nat
    OBVIOUS
  <2>2. ~(k < m)
    BY <1>2, <1>3, <2>1, Zenon
  <2> QED BY ONLY <2>1, <2>2
<1> QED BY <1>4

(* What holds at 0 and is passed on holds everywhere in an interval.       *)
LEMMA IntervalInduction ==
  ASSUME NEW L \in Nat, NEW P, 0 \in P,
         \A n \in 1..L : n - 1 \in P => n \in P
  PROVE  0..L \subseteq P
<1> DEFINE T == {n \in 0..L : n \notin P}
<1> SUFFICES ASSUME T # {} PROVE FALSE
  OBVIOUS
<1>1. PICK m \in T : \A k \in T : m <= k
  <2>1. T \subseteq Nat
    OBVIOUS
  <2> HIDE DEF T
  <2> QED BY <2>1, LeastNatural
<1>2. m \in 1..L
  BY <1>1
<1>3. m - 1 \in P
  BY <1>1, <1>2
<1> QED BY <1>1, <1>2, <1>3

(* A step computes a value in V from its number and the value before; what *)
(* L steps compute from base.                                              *)
StepsWithin(step, L, V) == \A n \in 1..L, v \in V : step[<<n, v>>] \in V

Iterates(f, step, base, L) ==
  f[0] = base /\ \A n \in 1..L : f[n] = step[<<n, f[n - 1]>>]

(* Steps can be repeated any number of times.                              *)
LEMMA IterationExists ==
  ASSUME NEW L \in Nat, NEW V, NEW base \in V, NEW step, StepsWithin(step, L, V)
  PROVE  \E f \in [0..L -> V] : Iterates(f, step, base, L)
<1> DEFINE P == {m \in 0..L : \E f \in [0..m -> V] : Iterates(f, step, base, m)}
<1>1. 0 \in P
  <2> DEFINE f == [i \in 0..0 |-> base]
  <2>1. f \in [0..0 -> V] /\ Iterates(f, step, base, 0)
    BY DEF Iterates
  <2>2. 0 \in 0..L
    OBVIOUS
  <2> HIDE DEF f
  <2> QED BY <2>1, <2>2
<1>2. ASSUME NEW n \in 1..L, n - 1 \in P
      PROVE  n \in P
  <2>1. PICK f \in [0..(n - 1) -> V] : Iterates(f, step, base, n - 1)
    BY <1>2
  <2> DEFINE next == step[<<n, f[n - 1]>>]
             g == [i \in 0..n |-> IF i = n THEN next ELSE f[i]]
  <2>2. next \in V
    <3>1. n - 1 \in 0..(n - 1)
      OBVIOUS
    <3>2. f[n - 1] \in V
      BY <3>1
    <3>3. n \in 1..L
      OBVIOUS
    <3> QED BY <3>2, <3>3 DEF StepsWithin
  <2>3. g \in [0..n -> V] /\ g[n] = next /\ \A i \in 0..(n - 1) : g[i] = f[i]
    <3> HIDE DEF next
    <3> QED BY <2>2
  <2>4. Iterates(g, step, base, n)
    <3>1. g[0] = base
      BY <2>1, <2>3 DEF Iterates
    <3>2. ASSUME NEW k \in 1..n PROVE g[k] = step[<<k, g[k - 1]>>]
      <4>1. k - 1 \in 0..(n - 1) /\ g[k - 1] = f[k - 1]
        BY <2>3
      <4>2. CASE k = n
        BY <2>3, <4>1, <4>2
      <4>3. CASE k # n
        <5>1. k \in 1..(n - 1) /\ k \in 0..(n - 1)
          BY <4>3
        <5>2. f[k] = step[<<k, f[k - 1]>>]
          BY <2>1, <5>1 DEF Iterates
        <5> QED BY <2>3, <4>1, <5>1, <5>2
      <4> QED BY <4>2, <4>3
    <3> HIDE DEF g, next
    <3> QED BY <3>1, <3>2 DEF Iterates
  <2>5. n \in 0..L
    OBVIOUS
  <2> HIDE DEF g
  <2> QED BY <2>3, <2>4, <2>5
<1>3. 0..L \subseteq P
  <2> HIDE DEF P
  <2> QED BY <1>1, <1>2, IntervalInduction
<1> QED BY <1>3

-----------------------------------------------------------------------------
(* The recursion behind MapThenSumSet, for weights given as a function.    *)
Picked(s) == CHOOSE x \in s : TRUE

SumFrom(g, weight, s) ==
  IF s = {} THEN 0 ELSE weight[Picked(s)] + g[s \ {Picked(s)}]

SumsUp(g, weight, S) == g = [s \in SUBSET S |-> SumFrom(g, weight, s)]

(* Taking an element from a finite set leaves a smaller one.               *)
LEMMA PickedShrinks ==
  ASSUME NEW S, IsFiniteSet(S), NEW s \in SUBSET S, s # {}
  PROVE  /\ Picked(s) \in S
         /\ s \ {Picked(s)} \in SUBSET S
         /\ Cardinality(s) \in Nat /\ Cardinality(s) > 0
         /\ Cardinality(s \ {Picked(s)}) = Cardinality(s) - 1
<1>1. Picked(s) \in s
  BY DEF Picked
<1>2. IsFiniteSet(s)
  BY FS_Subset
<1>3. Cardinality(s) \in Nat /\ Cardinality(s) # 0
  BY <1>2, FS_CardinalityType, FS_EmptySet
<1>4. Cardinality(s \ {Picked(s)}) = Cardinality(s) - 1
  BY <1>1, <1>2, FS_RemoveElement
<1> QED BY <1>1, <1>3, <1>4

(* Every sum of naturals is a natural.                                     *)
LEMMA SumType ==
  ASSUME NEW S, IsFiniteSet(S), NEW weight \in [S -> Nat],
         NEW g, SumsUp(g, weight, S)
  PROVE  \A s \in SUBSET S : g[s] \in Nat
<1> DEFINE Bad == {s \in SUBSET S : g[s] \notin Nat}
           Sizes == {Cardinality(s) : s \in Bad}
<1> SUFFICES ASSUME Bad # {} PROVE FALSE
  OBVIOUS
<1>1. \A s \in SUBSET S : Cardinality(s) \in Nat
  BY FS_Subset, FS_CardinalityType
<1>2. Sizes \subseteq Nat /\ Sizes # {}
  BY <1>1
<1>3. PICK m \in Sizes : \A k \in Sizes : m <= k
  <2> HIDE DEF Sizes
  <2> QED BY <1>2, LeastNatural
<1>4. PICK s \in Bad : Cardinality(s) = m
  BY <1>3
<1> DEFINE rest == s \ {Picked(s)}
<1>5. g[s] = SumFrom(g, weight, s)
  BY DEF SumsUp
<1>6. s # {}
  BY <1>5 DEF SumFrom
<1>7. /\ Picked(s) \in S /\ rest \in SUBSET S
      /\ Cardinality(s) \in Nat /\ Cardinality(rest) = Cardinality(s) - 1
  BY <1>6, PickedShrinks
<1>8. g[rest] \in Nat
  <2>1. CASE rest \in Bad
    <3>1. m <= Cardinality(rest)
      BY <1>3, <2>1
    <3> QED BY <1>4, <1>7, <3>1
  <2> QED BY <1>7, <2>1
<1>9. weight[Picked(s)] \in Nat
  BY <1>7
<1> HIDE DEF rest
<1>10. weight[Picked(s)] + g[rest] \in Nat
  BY <1>8, <1>9
<1> QED BY <1>4, <1>5, <1>6, <1>10 DEF SumFrom, rest

(* And there is one.                                                       *)
LEMMA SumExists ==
  ASSUME NEW S, IsFiniteSet(S), NEW weight \in [S -> Nat]
  PROVE  \E g : SumsUp(g, weight, S)
<1> DEFINE L == Cardinality(S)
           Small(n) == {s \in SUBSET S : Cardinality(s) <= n}
           SumsSmall(g, n) == g = [s \in Small(n) |-> SumFrom(g, weight, s)]
           P == {n \in 0..L : \E g : SumsSmall(g, n)}
<1>1. L \in Nat /\ \A s \in SUBSET S : Cardinality(s) \in 0..L
  BY FS_Subset, FS_CardinalityType
<1>2. 0 \in P
  <2> DEFINE g == [s \in Small(0) |-> 0]
  <2>1. \A s \in Small(0) : s = {}
    BY <1>1, FS_Subset, FS_EmptySet
  <2>2. \A s \in Small(0) : SumFrom(g, weight, s) = 0
    BY <2>1 DEF SumFrom
  <2>3. SumsSmall(g, 0)
    BY <2>2
  <2>4. 0 \in 0..L
    BY <1>1
  <2> HIDE DEF g, SumsSmall
  <2> QED BY <2>3, <2>4
<1>3. ASSUME NEW n \in 1..L, n - 1 \in P PROVE n \in P
  <2>1. PICK f : SumsSmall(f, n - 1)
    BY <1>3
  <2> DEFINE g == [s \in Small(n) |-> IF Cardinality(s) = n THEN SumFrom(f, weight, s) ELSE f[s]]
  <2>2. \A s \in Small(n - 1) : s \in Small(n) /\ Cardinality(s) # n
    BY <1>1
  <2>3. \A s \in Small(n - 1) : g[s] = f[s]
    BY <2>2
  <2>4. ASSUME NEW s \in Small(n) PROVE g[s] = SumFrom(g, weight, s)
    <3> DEFINE rest == s \ {Picked(s)}
    <3>1. s # {} => rest \in Small(n - 1)
      <4> SUFFICES ASSUME s # {} PROVE rest \in Small(n - 1)
        OBVIOUS
      <4>1. rest \in SUBSET S /\ Cardinality(s) \in Nat /\ Cardinality(rest) = Cardinality(s) - 1
        BY PickedShrinks
      <4>2. Cardinality(s) <= n
        OBVIOUS
      <4> HIDE DEF rest
      <4> QED BY <4>1, <4>2
    <3>2. s # {} => g[rest] = f[rest]
      BY <2>3, <3>1
    <3>3. SumFrom(g, weight, s) = SumFrom(f, weight, s)
      <4> HIDE DEF g
      <4> QED BY <3>2 DEF SumFrom
    <3>4. CASE Cardinality(s) = n
      BY <3>3, <3>4
    <3>5. CASE Cardinality(s) # n
      <4>1. s \in Small(n - 1)
        <5>1. Cardinality(s) \in Nat /\ Cardinality(s) <= n
          BY <1>1
        <5> QED BY <3>5, <5>1
      <4>2. g[s] = f[s]
        BY <2>3, <4>1
      <4>3. f[s] = SumFrom(f, weight, s)
        <5> HIDE DEF Small
        <5> QED BY <2>1, <4>1
      <4> QED BY <3>3, <4>2, <4>3
    <3> QED BY <3>4, <3>5
  <2>5. SumsSmall(g, n)
    BY <2>4
  <2> HIDE DEF SumsSmall, g
  <2> QED BY <2>5
<1>4. L \in P
  <2> HIDE DEF P
  <2>1. 0..L \subseteq P
    BY <1>1, <1>2, <1>3, IntervalInduction
  <2> QED BY <1>1, <2>1
<1>5. PICK g : SumsSmall(g, L)
  BY <1>4
<1>6. Small(L) = SUBSET S
  BY <1>1
<1> QED BY <1>5, <1>6 DEF SumsUp
=============================================================================
