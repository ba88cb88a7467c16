----------------------------- MODULE DataLemmas -----------------------------
(***************************************************************************)
(* Induction for the data of the modules: over the naturals and over       *)
(* finite sets, for a set of those that have a property, and the existence *)
(* of functions defined by recursion, for a step that is a function. The   *)
(* naturals are well founded, so a set of them has a least element; the    *)
(* rest follows from that.                                                 *)
(*                                                                         *)
(* Then what these give for the operators of the community modules that    *)
(* the models use: sums over a set, lists without repetitions, and lists   *)
(* of lists.                                                               *)
(***************************************************************************)
EXTENDS SequencesExt, SequenceTheorems, FiniteSetTheorems, TLAPS

-----------------------------------------------------------------------------
(* The naturals.                                                           *)

\* A set of naturals that is not empty has a least element.
LEMMA LeastNatural ==
  ASSUME NEW T, T \subseteq Nat, T # {}
  PROVE  \E m \in T : \A k \in T : m <= k
<1> DEFINE R == OpToRel(<, Nat)
<1>1. IsWellFoundedOn(R, Nat)
  BY NatLessThanWellFounded
<1>2. \A x, y \in Nat : x < y => <<x, y>> \in R
  BY DEF OpToRel
<1> HIDE DEF R
<1>3. PICK x \in T : \A y \in T : ~(<<y, x>> \in R)
  BY <1>1, WFMin
<1>4. \A y \in T : ~(y < x)
  BY <1>2, <1>3
<1> QED
  BY <1>3, <1>4

\* What holds of 0 and is passed on from each natural to the next holds of all.
LEMMA NatSetInduction ==
  ASSUME NEW S, 0 \in S, \A n \in Nat : n \in S => n + 1 \in S
  PROVE  \A n \in Nat : n \in S
<1> SUFFICES ASSUME Nat \ S # {} PROVE FALSE
  OBVIOUS
<1>1. PICK m \in Nat \ S : \A k \in Nat \ S : m <= k
  BY LeastNatural
<1>2. m - 1 \in Nat /\ (m - 1) + 1 = m
  BY <1>1
<1>3. m - 1 \notin S
  BY <1>1, <1>2
<1> QED
  BY <1>1, <1>2, <1>3

Recurs(a, step, k, g) == /\ g[0] = a
                         /\ \A i \in 1..k : g[i] = step[<<i, g[i - 1]>>]

\* Recursion over an interval that begins with 0.
LEMMA NatRecursion ==
  ASSUME NEW A, NEW a \in A, NEW step \in [Nat \X A -> A], NEW n \in Nat
  PROVE  \E g \in [0..n -> A] : Recurs(a, step, n, g)
<1> DEFINE Good(k, g) == Recurs(a, step, k, g)
           S == {k \in Nat : \E g \in [0..k -> A] : Good(k, g)}
<1> USE DEF Recurs
<1>1. 0 \in S
  <2>1. [i \in 0..0 |-> a] \in [0..0 -> A] /\ Good(0, [i \in 0..0 |-> a])
    OBVIOUS
  <2> QED
    BY <2>1
<1>2. ASSUME NEW k \in Nat, k \in S
      PROVE  k + 1 \in S
  <2>1. PICK g \in [0..k -> A] : Good(k, g)
    BY <1>2
  <2> DEFINE h == [i \in 0..(k + 1) |-> IF i = k + 1 THEN step[<<k + 1, g[k]>>] ELSE g[i]]
  <2>2. h \in [0..(k + 1) -> A]
    OBVIOUS
  <2>3. h[0] = a
    BY <2>1
  <2>4. ASSUME NEW i \in 1..(k + 1)
        PROVE  h[i] = step[<<i, h[i - 1]>>]
    <3>1. CASE i = k + 1
      <4>1. i - 1 = k /\ k \in 0..(k + 1) /\ k # k + 1 /\ i \in 0..(k + 1)
        BY <3>1
      <4>2. h[i - 1] = g[k] /\ h[i] = step[<<k + 1, g[k]>>]
        BY <4>1, <3>1
      <4> QED
        BY <4>2, <3>1
    <3>2. CASE i # k + 1
      <4>1. i \in 1..k /\ i - 1 \in 0..k /\ i - 1 # k + 1 /\ i \in 0..(k + 1)
        BY <3>2
      <4> QED
        BY <4>1, <3>2, <2>1
    <3> QED
      BY <3>1, <3>2
  <2>5. Good(k + 1, h)
    BY <2>3, <2>4
  <2> HIDE DEF h, Good
  <2> QED
    BY <2>2, <2>5
<1>3. n \in S
  <2> HIDE DEF S
  <2> QED
    BY <1>1, <1>2, NatSetInduction
<1> QED
  BY <1>3

\* Two functions that a recursion over 0..n defines are the same there.
LEMMA RecursAgree ==
  ASSUME NEW a, NEW step, NEW n \in Nat, NEW f, NEW g, Recurs(a, step, n, f), Recurs(a, step, n, g)
  PROVE  \A i \in 0..n : f[i] = g[i]
<1> DEFINE S == {i \in Nat : i \in 0..n => f[i] = g[i]}
<1>1. 0 \in S
  BY DEF Recurs
<1>2. ASSUME NEW i \in Nat, i \in S
      PROVE  i + 1 \in S
  <2>1. CASE i + 1 \in 0..n
    <3>1. i \in 0..n /\ i + 1 \in 1..n /\ (i + 1) - 1 = i
      BY <2>1
    <3>2. f[i] = g[i]
      BY <3>1, <1>2
    <3>3. f[i + 1] = step[<<i + 1, f[i]>>] /\ g[i + 1] = step[<<i + 1, g[i]>>]
      BY <3>1 DEF Recurs
    <3> QED
      BY <3>2, <3>3
  <2> QED
    BY <2>1
<1>3. \A i \in Nat : i \in S
  <2> HIDE DEF S
  <2> QED
    BY <1>1, <1>2, NatSetInduction
<1> QED
  BY <1>3

\* The function g starts with a and goes on with step.
RecursAlways(a, step, g) == /\ g[0] = a
                            /\ \A i \in Nat : g[i + 1] = step[<<i + 1, g[i]>>]

\* Recursion over all naturals.
LEMMA NatRecursionAlways ==
  ASSUME NEW A, NEW a \in A, NEW step \in [Nat \X A -> A]
  PROVE  \E g \in [Nat -> A] : RecursAlways(a, step, g)
<1> DEFINE upTo(n) == CHOOSE g \in [0..n -> A] : Recurs(a, step, n, g)
           g == [n \in Nat |-> upTo(n)[n]]
<1>1. ASSUME NEW n \in Nat
      PROVE  upTo(n) \in [0..n -> A] /\ Recurs(a, step, n, upTo(n))
  BY NatRecursion
<1> HIDE DEF upTo
<1>2. g \in [Nat -> A]
  BY <1>1
<1>3. g[0] = a
  BY <1>1 DEF Recurs
<1>4. ASSUME NEW i \in Nat
      PROVE  g[i + 1] = step[<<i + 1, g[i]>>]
  <2>1. Recurs(a, step, i, upTo(i)) /\ Recurs(a, step, i + 1, upTo(i + 1))
    BY <1>1
  <2>2. Recurs(a, step, i, upTo(i + 1))
    <3>1. \A j \in 1..i : j \in 1..(i + 1)
      OBVIOUS
    <3> QED
      BY <2>1, <3>1 DEF Recurs
  <2>3. upTo(i + 1)[i] = upTo(i)[i]
    <3>1. \A j \in 0..i : upTo(i + 1)[j] = upTo(i)[j]
      BY <2>1, <2>2, RecursAgree
    <3> QED
      BY <3>1
  <2>4. i + 1 \in 1..(i + 1) /\ (i + 1) - 1 = i
    OBVIOUS
  <2>5. upTo(i + 1)[i + 1] = step[<<i + 1, upTo(i + 1)[i]>>]
    BY <2>1, <2>4 DEF Recurs
  <2> QED
    BY <2>3, <2>5
<1>5. RecursAlways(a, step, g)
  BY <1>3, <1>4 DEF RecursAlways
<1> HIDE DEF g
<1> QED
  BY <1>2, <1>5

\* A set of integers with a bound above it that is not empty has a greatest element.
LEMMA GreatestInteger ==
  ASSUME NEW n \in Int, NEW T \in SUBSET Int, T # {}, \A k \in T : k <= n
  PROVE  Max(T) \in T /\ \A k \in T : k <= Max(T)
<1> DEFINE R == {n - k : k \in T}
<1>1. PICK r \in R : \A k \in R : r <= k
  <2>1. \A k \in T : n - k \in Nat
    OBVIOUS
  <2>2. R \subseteq Nat /\ R # {}
    BY <2>1
  <2> HIDE DEF R
  <2> QED
    BY <2>2, LeastNatural
<1>2. PICK m \in T : r = n - m
  BY <1>1
<1>3. \A k \in T : m >= k
  <2> SUFFICES ASSUME NEW k \in T PROVE m >= k
    OBVIOUS
  <2>1. r <= n - k
    BY <1>1
  <2> QED
    BY <2>1, <1>2
<1>4. \E x \in T : \A y \in T : x >= y
  BY <1>3
<1> DEFINE it == CHOOSE x \in T : \A y \in T : x >= y
<1>5. it \in T /\ \A y \in T : it >= y
  BY <1>4
<1>6. Max(T) = it
  BY DEF Max
<1> HIDE DEF it
<1> QED
  BY <1>5, <1>6

\* A set of numbers up to n that is not empty has a greatest element.
LEMMA GreatestNatural ==
  ASSUME NEW n \in Nat, NEW T \in SUBSET (0..n), T # {}
  PROVE  Max(T) \in T /\ \A k \in T : k <= Max(T)
<1>1. n \in Int /\ T \in SUBSET Int /\ \A k \in T : k <= n
  OBVIOUS
<1> QED
  BY <1>1, GreatestInteger

-----------------------------------------------------------------------------
(* Finite sets.                                                            *)

\* What holds of the empty set, and still holds when an element is added, holds of
\* a finite set.
LEMMA FiniteSetInduction ==
  ASSUME NEW S, IsFiniteSet(S), NEW F, {} \in F,
         \A T \in SUBSET S, x \in S : T \in F /\ x \notin T => T \cup {x} \in F
  PROVE  \A T \in SUBSET S : T \in F
<1> DEFINE N == {n \in Nat : \A T \in SUBSET S : Cardinality(T) = n => T \in F}
<1>1. 0 \in N
  <2>1. \A T \in SUBSET S : Cardinality(T) = 0 => T = {}
    BY FS_Subset, FS_EmptySet
  <2> QED
    BY <2>1
<1>2. ASSUME NEW n \in Nat, n \in N
      PROVE  n + 1 \in N
  <2>1. ASSUME NEW T \in SUBSET S, Cardinality(T) = n + 1
        PROVE  T \in F
    <3>1. IsFiniteSet(T)
      BY FS_Subset
    <3>2. T # {}
      <4>1. Cardinality({}) = 0
        BY FS_EmptySet
      <4> QED
        BY <4>1, <2>1
    <3>3. PICK x \in T : TRUE
      BY <3>2
    <3>4. Cardinality(T \ {x}) = Cardinality(T) - 1
      BY <3>1, FS_RemoveElement
    <3>5. Cardinality(T \ {x}) = n
      BY <3>4, <2>1
    <3>6. T \ {x} \in F /\ T = (T \ {x}) \cup {x} /\ x \in S
      BY <3>5, <1>2
    <3> QED
      BY <3>6
  <2> QED
    BY <2>1
<1>3. \A n \in Nat : n \in N
  <2> HIDE DEF N
  <2> QED
    BY <1>1, <1>2, NatSetInduction
<1>4. \A T \in SUBSET S : Cardinality(T) \in Nat
  BY FS_Subset, FS_CardinalityType
<1> QED
  BY <1>3, <1>4

RecursOver(a, step, pick, Sets, g) ==
  \A T \in Sets : g[T] = IF T = {} THEN a ELSE step[<<pick[T], g[T \ {pick[T]}]>>]

\* Recursion over the subsets of a finite set, from which one element at a time is
\* taken.
LEMMA SetRecursion ==
  ASSUME NEW S, IsFiniteSet(S), NEW A, NEW a \in A, NEW step \in [S \X A -> A],
         NEW pick, \A T \in SUBSET S : T # {} => pick[T] \in T
  PROVE  \E g \in [SUBSET S -> A] : RecursOver(a, step, pick, SUBSET S, g)
<1> DEFINE Sub(n) == {T \in SUBSET S : Cardinality(T) <= n}
           Good(g, n) == RecursOver(a, step, pick, Sub(n), g)
           N == {n \in Nat : \E g \in [SUBSET S -> A] : Good(g, n)}
<1> USE DEF RecursOver
<1>0. \A T \in SUBSET S : IsFiniteSet(T) /\ Cardinality(T) \in Nat
  BY FS_Subset, FS_CardinalityType
<1>1. 0 \in N
  <2> DEFINE g == [T \in SUBSET S |-> a]
  <2>1. \A T \in SUBSET S : Cardinality(T) <= 0 => T = {}
    BY <1>0, FS_EmptySet
  <2>2. Good(g, 0)
    BY <2>1
  <2>3. g \in [SUBSET S -> A]
    OBVIOUS
  <2> HIDE DEF g, Good
  <2> QED
    BY <2>2, <2>3
<1>2. ASSUME NEW n \in Nat, n \in N
      PROVE  n + 1 \in N
  <2>1. PICK g \in [SUBSET S -> A] : Good(g, n)
    BY <1>2
  <2> DEFINE h == [T \in SUBSET S |-> IF Cardinality(T) <= n \/ T = {} THEN g[T]
                                      ELSE step[<<pick[T], g[T \ {pick[T]}]>>]]
  <2>2. h \in [SUBSET S -> A]
    OBVIOUS
  <2>3. ASSUME NEW T \in Sub(n + 1)
        PROVE  h[T] = IF T = {} THEN a ELSE step[<<pick[T], h[T \ {pick[T]}]>>]
    <3>1. CASE T = {}
      <4>1. T \in Sub(n) /\ h[T] = g[T]
        BY <3>1, FS_EmptySet
      <4> QED
        BY <4>1, <3>1, <2>1
    <3>2. CASE T # {}
      <4>1. pick[T] \in T /\ T \ {pick[T]} \in SUBSET S
        BY <3>2
      <4>2. Cardinality(T \ {pick[T]}) = Cardinality(T) - 1
        BY <4>1, <1>0, FS_RemoveElement
      <4>3. Cardinality(T \ {pick[T]}) <= n
        BY <4>2, <1>0
      <4>4. h[T \ {pick[T]}] = g[T \ {pick[T]}]
        BY <4>3, <4>1
      <4>5. h[T] = step[<<pick[T], g[T \ {pick[T]}]>>]
        <5>1. CASE Cardinality(T) <= n
          BY <5>1, <2>1, <3>2
        <5>2. CASE ~(Cardinality(T) <= n)
          BY <5>2, <3>2
        <5> QED
          BY <5>1, <5>2
      <4> QED
        BY <4>4, <4>5, <3>2
    <3> QED
      BY <3>1, <3>2
  <2>4. Good(h, n + 1)
    BY <2>3
  <2> HIDE DEF h, Good
  <2> QED
    BY <2>2, <2>4
<1>3. Cardinality(S) \in N
  <2> HIDE DEF N
  <2>1. \A n \in Nat : n \in N
    BY <1>1, <1>2, NatSetInduction
  <2> QED
    BY <2>1, <1>0
<1>4. \A T \in SUBSET S : Cardinality(T) <= Cardinality(S)
  BY FS_Subset
<1> QED
  BY <1>3, <1>4

-----------------------------------------------------------------------------
(* Sums of a function over finite sets (SumFunctionOnSet).                 *)

\* The function has an integer for each element.
IntsOn(f, S) == \A x \in S : f[x] \in Int

Picked(T) == CHOOSE x \in T : TRUE

\* Such a sum takes one element after the other.
SumsUp(f, S, g) ==
  g = [T \in SUBSET S |-> IF T = {} THEN 0 ELSE f[Picked(T)] + g[T \ {Picked(T)}]]

SumsUpTo(f, S, g) ==
  \A T \in SUBSET S : g[T] = IF T = {} THEN 0 ELSE f[Picked(T)] + g[T \ {Picked(T)}]

LEMMA SumIsUnique ==
  ASSUME NEW S, IsFiniteSet(S), NEW f, NEW g, SumsUpTo(f, S, g), NEW h, SumsUpTo(f, S, h)
  PROVE  \A T \in SUBSET S : g[T] = h[T]
<1> DEFINE differ == {T \in SUBSET S : g[T] # h[T]}
           sizes == {Cardinality(T) : T \in differ}
<1> SUFFICES ASSUME differ # {} PROVE FALSE
  OBVIOUS
<1>1. \A T \in SUBSET S : IsFiniteSet(T) /\ Cardinality(T) \in Nat
  BY FS_Subset, FS_CardinalityType
<1>2. sizes \subseteq Nat /\ sizes # {}
  BY <1>1
<1>3. PICK m \in sizes : \A k \in sizes : m <= k
  <2> HIDE DEF sizes
  <2> QED
    BY <1>2, LeastNatural
<1>4. PICK T \in differ : Cardinality(T) = m
  BY <1>3
<1>5. T # {}
  BY <1>4 DEF SumsUpTo
<1>6. Picked(T) \in T
  BY <1>5 DEF Picked
<1>7. Cardinality(T \ {Picked(T)}) = m - 1 /\ m \in Nat
  BY <1>1, <1>4, <1>6, FS_RemoveElement
<1>8. T \ {Picked(T)} \notin differ
  BY <1>3, <1>7
<1>9. g[T \ {Picked(T)}] = h[T \ {Picked(T)}]
  BY <1>8
<1> QED
  BY <1>9, <1>5, <1>4 DEF SumsUpTo

LEMMA SumIsRecursive ==
  ASSUME NEW S, IsFiniteSet(S), NEW f, IntsOn(f, S)
  PROVE  \E g \in [SUBSET S -> Int] : SumsUp(f, S, g) /\ SumFunctionOnSet(f, S) = g[S]
<1> DEFINE step == [p \in S \X Int |-> f[p[1]] + p[2]]
           pick == [T \in SUBSET S |-> Picked(T)]
<1>1. step \in [S \X Int -> Int]
  BY DEF IntsOn
<1>2. \A T \in SUBSET S : T # {} => pick[T] \in T
  BY DEF Picked
<1>3. PICK h \in [SUBSET S -> Int] : RecursOver(0, step, pick, SUBSET S, h)
  <2> HIDE DEF step, pick
  <2>1. 0 \in Int
    OBVIOUS
  <2> QED
    BY <1>1, <1>2, <2>1, SetRecursion
<1>4. SumsUp(f, S, h)
  <2>1. ASSUME NEW T \in SUBSET S
        PROVE  h[T] = IF T = {} THEN 0 ELSE f[Picked(T)] + h[T \ {Picked(T)}]
    <3>1. CASE T = {}
      BY <3>1, <1>3 DEF RecursOver
    <3>2. CASE T # {}
      <4>1. Picked(T) \in S /\ T \ {Picked(T)} \in SUBSET S /\ pick[T] = Picked(T)
        BY <3>2 DEF Picked
      <4>2. h[T \ {Picked(T)}] \in Int
        BY <4>1
      <4> QED
        BY <4>1, <4>2, <3>2, <1>3 DEF RecursOver
    <3> QED
      BY <3>1, <3>2
  <2> QED
    BY <2>1 DEF SumsUp
<1>5. PICK g : SumsUp(f, S, g) /\ SumFunctionOnSet(f, S) = g[S]
  <2> DEFINE it == CHOOSE g : SumsUp(f, S, g)
  <2>1. SumsUp(f, S, it)
    BY <1>4
  <2>2. SumFunctionOnSet(f, S) = it[S]
    BY DEF SumFunctionOnSet, FoldFunctionOnSet, MapThenFoldSet, SumsUp, Picked
  <2> HIDE DEF it
  <2> QED
    BY <2>1, <2>2
<1>6. SumsUpTo(f, S, g) /\ SumsUpTo(f, S, h)
  BY <1>4, <1>5 DEF SumsUp, SumsUpTo
<1>7. \A T \in SUBSET S : g[T] = h[T]
  BY <1>6, SumIsUnique
<1> QED
  BY <1>4, <1>5, <1>7

LEMMA SumUnfolds ==
  ASSUME NEW S, IsFiniteSet(S), NEW f, IntsOn(f, S), NEW T \in SUBSET S
  PROVE  /\ SumFunctionOnSet(f, T) \in Int
         /\ SumFunctionOnSet(f, T) = IF T = {} THEN 0
              ELSE f[Picked(T)] + SumFunctionOnSet(f, T \ {Picked(T)})
<1>1. PICK g \in [SUBSET S -> Int] : SumsUp(f, S, g) /\ SumFunctionOnSet(f, S) = g[S]
  BY SumIsRecursive
<1>2. ASSUME NEW U \in SUBSET S
      PROVE  SumFunctionOnSet(f, U) = g[U]
  <2>1. IsFiniteSet(U) /\ IntsOn(f, U)
    BY FS_Subset DEF IntsOn
  <2>2. PICK h \in [SUBSET U -> Int] : SumsUp(f, U, h) /\ SumFunctionOnSet(f, U) = h[U]
    BY <2>1, SumIsRecursive
  <2>3. SumsUpTo(f, U, g) /\ SumsUpTo(f, U, h)
    BY <1>1, <2>2 DEF SumsUp, SumsUpTo
  <2>4. \A V \in SUBSET U : h[V] = g[V]
    BY <2>1, <2>3, SumIsUnique
  <2> QED
    BY <2>2, <2>4
<1>3. g[T] = IF T = {} THEN 0 ELSE f[Picked(T)] + g[T \ {Picked(T)}]
  BY <1>1 DEF SumsUp
<1> QED
  BY <1>2, <1>3

\* An element is summed on top of the others.
OnTop(f, S, x) == SumFunctionOnSet(f, S) = f[x] + SumFunctionOnSet(f, S \ {x})

\* The order in which the elements are taken makes no difference.
LEMMA SumRemove ==
  ASSUME NEW S, IsFiniteSet(S), NEW f, IntsOn(f, S)
  PROVE  \A T \in SUBSET S : \A x \in T : OnTop(f, T, x)
<1> DEFINE sum(T) == SumFunctionOnSet(f, T)
           bad == {T \in SUBSET S : \E x \in T : sum(T) # f[x] + sum(T \ {x})}
           sizes == {Cardinality(T) : T \in bad}
<1> USE DEF OnTop
<1> SUFFICES ASSUME bad # {} PROVE FALSE
  OBVIOUS
<1>1. \A T \in SUBSET S : IsFiniteSet(T) /\ Cardinality(T) \in Nat
  BY FS_Subset, FS_CardinalityType
<1>2. sizes \subseteq Nat /\ sizes # {}
  BY <1>1
<1>3. PICK m \in sizes : \A k \in sizes : m <= k
  <2> HIDE DEF sizes
  <2> QED
    BY <1>2, LeastNatural
<1>4. PICK T \in bad : Cardinality(T) = m
  BY <1>3
<1>5. PICK x \in T : sum(T) # f[x] + sum(T \ {x})
  BY <1>4
<1> DEFINE p == Picked(T)
<1>6. p \in T
  BY <1>5 DEF Picked
<1>7. \A y \in T : Cardinality(T \ {y}) = m - 1 /\ m \in Nat
  BY <1>1, <1>4, FS_RemoveElement
<1>8. ASSUME NEW y \in T, T \ {y} \in bad
      PROVE  FALSE
  <2>1. Cardinality(T \ {y}) \in sizes
    BY <1>8
  <2> QED
    BY <2>1, <1>3, <1>7
<1>9. \A U \in SUBSET S : sum(U) \in Int
  BY SumUnfolds
<1>10. sum(T) = f[p] + sum(T \ {p})
  BY <1>6, SumUnfolds
<1> HIDE DEF p, sum
<1>11. x # p
  BY <1>10, <1>5
<1>12. sum(T \ {p}) = f[x] + sum((T \ {p}) \ {x})
  BY <1>8, <1>6, <1>11, <1>5
<1>13. sum(T \ {x}) = f[p] + sum((T \ {x}) \ {p})
  BY <1>8, <1>6, <1>11, <1>5
<1>14. (T \ {p}) \ {x} = (T \ {x}) \ {p} /\ (T \ {x}) \ {p} \in SUBSET S
  OBVIOUS
<1>16. sum(T \ {p}) = f[x] + sum((T \ {x}) \ {p})
  BY <1>12, <1>14
<1>15. f[x] \in Int /\ f[p] \in Int /\ sum((T \ {x}) \ {p}) \in Int
  BY <1>6, <1>5, <1>9, <1>14 DEF IntsOn
<1>17. ASSUME NEW a \in Int, NEW b \in Int, NEW c \in Int
      PROVE  b + (a + c) = a + (b + c)
  OBVIOUS
<1>18. sum(T) = f[x] + sum(T \ {x})
  BY <1>10, <1>16, <1>13, <1>15, <1>17
<1> QED
  BY <1>18, <1>5 DEF sum

LEMMA SumProperties ==
  ASSUME NEW S, IsFiniteSet(S), NEW f, IntsOn(f, S)
  PROVE  /\ SumFunctionOnSet(f, {}) = 0
         /\ SumFunctionOnSet(f, S) \in Int
         /\ \A x \in S : OnTop(f, S, x)
         /\ \A x \in S : SumFunctionOnSet(f, {x}) = f[x]
<1>1. SumFunctionOnSet(f, {}) = 0 /\ SumFunctionOnSet(f, S) \in Int
  BY SumUnfolds
<1>2. \A x \in S : OnTop(f, S, x)
  BY SumRemove
<1>3. ASSUME NEW x \in S
      PROVE  SumFunctionOnSet(f, {x}) = f[x]
  <2>1. OnTop(f, {x}, x)
    BY SumRemove
  <2>2. {x} \ {x} = {}
    OBVIOUS
  <2>3. SumFunctionOnSet(f, {x}) = f[x] + 0
    BY <2>1, <2>2, <1>1 DEF OnTop
  <2> QED
    BY <2>3 DEF IntsOn
<1> QED
  BY <1>1, <1>2, <1>3

\* The sum of a union is the sum of the sums, when nothing is counted twice.
LEMMA SumUnion ==
  ASSUME NEW W, IsFiniteSet(W), NEW f, IntsOn(f, W),
         NEW S \in SUBSET W, NEW U \in SUBSET W, S \cap U = {}
  PROVE  SumFunctionOnSet(f, S \cup U) = SumFunctionOnSet(f, S) + SumFunctionOnSet(f, U)
<1> DEFINE sum(T) == SumFunctionOnSet(f, T)
           F == {T \in SUBSET U : sum(S \cup T) = sum(S) + sum(T)}
<1>1. \A T \in SUBSET W : sum(T) \in Int
  BY SumUnfolds
<1>2. \A T \in SUBSET W : \A x \in T : OnTop(f, T, x)
  BY SumRemove
<1>3. {} \in F
  <2>1. sum({}) = 0 /\ sum(S) \in Int /\ S \cup {} = S
    BY <1>1, SumProperties
  <2> HIDE DEF sum
  <2> QED
    BY <2>1
<1>4. ASSUME NEW T \in SUBSET U, NEW x \in U, T \in F, x \notin T
      PROVE  T \cup {x} \in F
  <2>1. T \cup {x} \in SUBSET W /\ S \cup T \cup {x} \in SUBSET W
    OBVIOUS
  <2>2. (T \cup {x}) \ {x} = T /\ (S \cup T \cup {x}) \ {x} = S \cup T
    BY <1>4
  <2>8. OnTop(f, T \cup {x}, x) /\ OnTop(f, S \cup T \cup {x}, x)
    BY <2>1, <1>2
  <2>3. sum(T \cup {x}) = f[x] + sum(T) /\ sum(S \cup T \cup {x}) = f[x] + sum(S \cup T)
    BY <2>2, <2>8 DEF OnTop
  <2> HIDE DEF sum
  <2>4. sum(S \cup T) = sum(S) + sum(T)
    BY <1>4
  <2>5. f[x] \in Int /\ sum(S) \in Int /\ sum(T) \in Int
    BY <1>1 DEF IntsOn
  <2>6. ASSUME NEW a \in Int, NEW b \in Int, NEW c \in Int
        PROVE  a + (b + c) = b + (a + c)
    OBVIOUS
  <2>7. sum(S \cup T \cup {x}) = sum(S) + sum(T \cup {x})
    BY <2>3, <2>4, <2>5, <2>6
  <2> QED
    BY <2>7
<1>5. IsFiniteSet(U)
  BY FS_Subset
<1>6. \A T \in SUBSET U : T \in F
  <2> HIDE DEF F
  <2> QED
    BY <1>3, <1>4, <1>5, FiniteSetInduction
<1> QED
  BY <1>6

\* A sum depends only on what is summed.
LEMMA SumAgrees ==
  ASSUME NEW S, IsFiniteSet(S), NEW f, IntsOn(f, S), NEW g, \A x \in S : g[x] = f[x]
  PROVE  SumFunctionOnSet(g, S) = SumFunctionOnSet(f, S)
<1> DEFINE F == {T \in SUBSET S : SumFunctionOnSet(g, T) = SumFunctionOnSet(f, T)}
<1>1. IntsOn(g, S)
  BY DEF IntsOn
<1>2. {} \in F
  <2>1. SumFunctionOnSet(g, {}) = 0 /\ SumFunctionOnSet(f, {}) = 0
    BY <1>1, SumProperties
  <2> QED
    BY <2>1
<1>3. ASSUME NEW T \in SUBSET S, NEW x \in S, T \in F, x \notin T
      PROVE  T \cup {x} \in F
  <2>1. OnTop(f, T \cup {x}, x) /\ OnTop(g, T \cup {x}, x)
    BY <1>1, SumRemove
  <2>2. (T \cup {x}) \ {x} = T
    BY <1>3
  <2> QED
    BY <2>1, <2>2, <1>3 DEF OnTop
<1>4. \A T \in SUBSET S : T \in F
  <2> HIDE DEF F
  <2> QED
    BY <1>2, <1>3, FiniteSetInduction
<1> QED
  BY <1>4

-----------------------------------------------------------------------------
(* Lists: their front and back, and the removal of an element.             *)

\* The front and the back of a list.
LEMMA FrontOf ==
  ASSUME NEW S, NEW s \in Seq(S), NEW n \in 0..Len(s)
  PROVE  /\ SubSeq(s, 1, n) \in Seq(S) /\ Len(SubSeq(s, 1, n)) = n
         /\ \A j \in 1..n : SubSeq(s, 1, n)[j] = s[j]
<1>1. Len(s) \in Nat /\ \A j \in 1..n : s[j] \in S
  OBVIOUS
<1> QED
  BY <1>1

LEMMA BackOf ==
  ASSUME NEW S, NEW s \in Seq(S), NEW n \in 0..Len(s)
  PROVE  /\ SubSeq(s, n + 1, Len(s)) \in Seq(S) /\ Len(SubSeq(s, n + 1, Len(s))) = Len(s) - n
         /\ \A j \in 1..(Len(s) - n) : SubSeq(s, n + 1, Len(s))[j] = s[j + n]
<1>1. Len(s) \in Nat /\ \A j \in (n + 1)..Len(s) : s[j] \in S
  OBVIOUS
<1>2. /\ SubSeq(s, n + 1, Len(s)) \in Seq(S)
      /\ Len(SubSeq(s, n + 1, Len(s))) =
           IF n + 1 <= Len(s) THEN Len(s) - (n + 1) + 1 ELSE 0
      /\ \A j \in 1..(Len(s) - (n + 1) + 1) : SubSeq(s, n + 1, Len(s))[j] = s[(n + 1) + j - 1]
  BY <1>1, SubSeqProperties
<1>3. Len(s) - (n + 1) + 1 = Len(s) - n /\ \A j \in 1..(Len(s) - n) : (n + 1) + j - 1 = j + n
  BY <1>1
<1>4. Len(SubSeq(s, n + 1, Len(s))) = Len(s) - n
  BY <1>1, <1>2
<1> QED
  BY <1>2, <1>3, <1>4

\* A prefix of a list has what the list begins with.
LEMMA PrefixIs ==
  ASSUME NEW S, NEW s \in Seq(S), NEW t \in Seq(S)
  PROVE  IsPrefix(s, t) <=> Len(s) <= Len(t) /\ \A i \in 1..Len(s) : s[i] = t[i]
<1>1. Len(s) \in Nat /\ Len(t) \in Nat
  OBVIOUS
<1>2. CASE Len(s) <= Len(t)
  <2>1. /\ Len(s) \in 0..Len(s) /\ Len(s) \in 0..Len(t)
    BY <1>1, <1>2
  <2>2. /\ SubSeq(s, 1, Len(s)) \in Seq(S) /\ Len(SubSeq(s, 1, Len(s))) = Len(s)
        /\ \A j \in 1..Len(s) : SubSeq(s, 1, Len(s))[j] = s[j]
    BY <2>1, FrontOf
  <2>3. /\ SubSeq(t, 1, Len(s)) \in Seq(S) /\ Len(SubSeq(t, 1, Len(s))) = Len(s)
        /\ \A j \in 1..Len(s) : SubSeq(t, 1, Len(s))[j] = t[j]
    BY <2>1, FrontOf
  <2>4. SubSeq(s, 1, Len(s)) = SubSeq(t, 1, Len(s)) <=> \A i \in 1..Len(s) : s[i] = t[i]
    <3>1. ASSUME \A i \in 1..Len(s) : s[i] = t[i]
          PROVE  SubSeq(s, 1, Len(s)) = SubSeq(t, 1, Len(s))
      BY <2>2, <2>3, <3>1, SeqEqual
    <3>2. ASSUME SubSeq(s, 1, Len(s)) = SubSeq(t, 1, Len(s)), NEW i \in 1..Len(s)
          PROVE  s[i] = t[i]
      <4>1. SubSeq(s, 1, Len(s))[i] = s[i] /\ SubSeq(t, 1, Len(s))[i] = t[i]
        BY <2>2, <2>3
      <4> QED
        BY <3>2, <4>1
    <3> QED
      BY <3>1, <3>2
  <2> QED
    BY <1>2, <2>4 DEF IsPrefix
<1>3. CASE ~(Len(s) <= Len(t))
  BY <1>3 DEF IsPrefix
<1> QED
  BY <1>2, <1>3

\* RemoveFirst takes the element out of a list that has it once, and leaves the order.
LEMMA RemoveFirstWhole ==
  ASSUME NEW S, NEW s \in Seq(S), IsInjective(s), NEW e
  PROVE  /\ RemoveFirst(s, e) \in Seq(S) /\ IsInjective(RemoveFirst(s, e))
         /\ Range(RemoveFirst(s, e)) = Range(s) \ {e}
         /\ Len(RemoveFirst(s, e)) = IF e \in Range(s) THEN Len(s) - 1 ELSE Len(s)
<1> DEFINE r == RemoveFirst(s, e)
<1>0. Len(s) \in Nat /\ DOMAIN s = 1..Len(s) /\ \A i \in 1..Len(s) : s[i] \in S
  OBVIOUS
<1>1. CASE ~\E i \in 1..Len(s) : s[i] = e
  BY <1>0, <1>1 DEF RemoveFirst, Range
<1>2. CASE \E i \in 1..Len(s) : s[i] = e
  <2>1. PICK i \in 1..Len(s) : s[i] = e
    BY <1>2
  <2>2. {j \in 1..Len(s) : s[j] = e} = {i}
    BY <2>1, <1>0 DEF IsInjective
  <2>3. Min({i}) = i
    BY DEF Min
  <2>4. SelectInSeq(s, LAMBDA v : v = e) = i
    BY <2>2, <2>3 DEF SelectInSeq
  <2>5. r = SubSeq(s, 1, i - 1) \o SubSeq(s, i + 1, Len(s))
    BY <1>2, <2>4 DEF RemoveFirst, RemoveAt
  <2> DEFINE front == SubSeq(s, 1, i - 1)
             back == SubSeq(s, i + 1, Len(s))
             n == Len(s)
  <2>12. /\ front \in Seq(S) /\ Len(front) = i - 1
         /\ \A j \in 1..(i - 1) : front[j] = s[j]
    <3>1. i - 1 \in 0..Len(s)
      BY <1>0
    <3> QED
      BY <3>1, FrontOf
  <2>13. /\ back \in Seq(S) /\ Len(back) = n - i
         /\ \A j \in 1..(n - i) : back[j] = s[j + i]
    <3>1. i \in 0..Len(s)
      BY <1>0
    <3> QED
      BY <3>1, BackOf
  <2>14. r = front \o back
    BY <2>5
  <2>15. n \in Nat /\ i \in 1..n
    BY <1>0
  <2> HIDE DEF front, back, r, n
  <2>16. (i - 1) + (n - i) = n - 1
    BY <2>15
  <2>17. /\ r \in Seq(S) /\ Len(r) = n - 1
         /\ \A j \in 1..(n - 1) : r[j] = IF j <= i - 1 THEN front[j] ELSE back[j - (i - 1)]
    <3>1. /\ r \in Seq(S) /\ Len(r) = Len(front) + Len(back)
          /\ \A j \in 1..Len(front) + Len(back) :
               r[j] = IF j <= Len(front) THEN front[j] ELSE back[j - Len(front)]
      BY <2>12, <2>13, <2>14, ConcatProperties
    <3>2. Len(front) = i - 1 /\ Len(front) + Len(back) = n - 1
      BY <2>12, <2>13, <2>16
    <3> QED
      BY <3>1, <3>2
  <2>18. ASSUME NEW j \in 1..(n - 1)
         PROVE  r[j] = IF j < i THEN s[j] ELSE s[j + 1]
    <3>1. CASE j <= i - 1
      BY <3>1, <2>12, <2>15, <2>17
    <3>2. CASE ~(j <= i - 1)
      <4>1. j - (i - 1) \in 1..(n - i) /\ (j - (i - 1)) + i = j + 1 /\ ~(j < i)
        BY <3>2, <2>15
      <4> QED
        BY <3>2, <4>1, <2>13, <2>17
    <3> QED
      BY <3>1, <3>2
  <2>6. /\ r \in Seq(S) /\ Len(r) = Len(s) - 1
        /\ \A j \in 1..(Len(s) - 1) : r[j] = IF j < i THEN s[j] ELSE s[j + 1]
    BY <2>17, <2>18 DEF n
  <2>7. DOMAIN r = 1..(Len(s) - 1)
    BY <2>6
  <2>8. IsInjective(r)
    <3> DEFINE at(j) == IF j < i THEN j ELSE j + 1
    <3>1. \A j \in DOMAIN r : at(j) \in DOMAIN s /\ r[j] = s[at(j)]
      BY <2>6, <2>7, <1>0
    <3>2. \A j, k \in DOMAIN r : at(j) = at(k) => j = k
      BY <2>7, <1>0
    <3> HIDE DEF at
    <3> QED
      BY <3>1, <3>2 DEF IsInjective
  <2>9. ASSUME NEW j \in DOMAIN r
        PROVE  r[j] \in Range(s) \ {e}
    <3>1. PICK k \in DOMAIN s : r[j] = s[k] /\ k # i
      <4>1. CASE j < i
        BY <4>1, <2>6, <2>7, <1>0
      <4>2. CASE ~(j < i)
        <5>1. j + 1 \in DOMAIN s /\ j + 1 # i /\ r[j] = s[j + 1]
          BY <4>2, <2>6, <2>7, <1>0
        <5> QED
          BY <5>1
      <4> QED
        BY <4>1, <4>2
    <3> QED
      BY <3>1, <2>1, <1>0 DEF IsInjective, Range
  <2>10. ASSUME NEW j \in 1..Len(s), s[j] # e
         PROVE  \E k \in DOMAIN r : r[k] = s[j]
    <3>1. CASE j < i
      <4>1. j \in DOMAIN r /\ r[j] = s[j]
        BY <3>1, <2>6, <2>7, <2>1, <1>0
      <4> QED
        BY <4>1
    <3>2. CASE j > i
      <4>1. j - 1 \in DOMAIN r /\ r[j - 1] = s[j]
        BY <3>2, <2>6, <2>7, <2>1, <1>0
      <4> QED
        BY <4>1
    <3> QED
      BY <3>1, <3>2, <2>10, <2>1, <1>0
  <2>11. Range(r) = Range(s) \ {e}
    BY <2>9, <2>10, <1>0 DEF Range
  <2> QED
    BY <2>6, <2>8, <2>11, <2>1, <1>0 DEF r, Range
<1> QED
  BY <1>1, <1>2

\* The front and the back of a list without repetitions have nothing in common.
LEMMA CutInTwo ==
  ASSUME NEW S, NEW s \in Seq(S), IsInjective(s), NEW n \in 0..Len(s)
  PROVE  LET front == SubSeq(s, 1, n)  back == SubSeq(s, n + 1, Len(s))
         IN  /\ front \in Seq(S) /\ Len(front) = n /\ IsInjective(front)
             /\ Range(front) \cup Range(back) = Range(s)
             /\ Range(front) \cap Range(back) = {}
             /\ Range(back) \subseteq S
<1> DEFINE front == SubSeq(s, 1, n)
           back == SubSeq(s, n + 1, Len(s))
<1>1. Len(s) \in Nat /\ DOMAIN s = 1..Len(s) /\ \A i \in 1..Len(s) : s[i] \in S
  OBVIOUS
<1>2. /\ front \in Seq(S) /\ Len(front) = n
      /\ DOMAIN front = 1..n /\ \A i \in 1..n : front[i] = s[i]
  BY <1>1
<1>3. DOMAIN back = 1..(Len(s) - n) /\ \A i \in 1..(Len(s) - n) : back[i] = s[i + n]
  BY <1>1
<1> HIDE DEF front, back
<1>4. IsInjective(front)
  BY <1>1, <1>2 DEF IsInjective
<1>5. Range(front) = {s[i] : i \in 1..n}
  BY <1>2 DEF Range
<1>6. Range(back) = {s[i] : i \in (n + 1)..Len(s)}
  <2>1. ASSUME NEW i \in (n + 1)..Len(s)
        PROVE  i - n \in DOMAIN back /\ back[i - n] = s[i]
    BY <1>1, <1>3
  <2>2. ASSUME NEW i \in DOMAIN back
        PROVE  i + n \in (n + 1)..Len(s) /\ back[i] = s[i + n]
    BY <1>1, <1>3
  <2> QED
    BY <2>1, <2>2 DEF Range
<1>7. Range(front) \cup Range(back) = Range(s)
  <2>1. Range(s) = {s[i] : i \in 1..Len(s)}
    BY <1>1 DEF Range
  <2>2. 1..Len(s) = (1..n) \cup ((n + 1)..Len(s))
    BY <1>1
  <2> QED
    BY <2>1, <2>2, <1>5, <1>6
<1>8. Range(front) \cap Range(back) = {}
  BY <1>1, <1>5, <1>6 DEF IsInjective
<1>9. Range(back) \subseteq S
  BY <1>1, <1>6
<1> QED
  BY <1>2, <1>4, <1>7, <1>8, <1>9 DEF front, back

\* The keys in a list are finitely many.
LEMMA ListIsFinite ==
  ASSUME NEW S, NEW s \in Seq(S)
  PROVE  IsFiniteSet(Range(s)) /\ Range(s) \subseteq S
<1>1. IsFiniteSet(1..Len(s))
  BY FS_Interval
<1>2. s \in Surjection(1..Len(s), Range(s))
  BY DEF Surjection, Range
<1>4. IsFiniteSet(Range(s))
  BY <1>1, <1>2, FS_Surjection
<1> QED
  BY <1>4 DEF Range

\* An element put before a list that does not have it.
LEMMA PutInFront ==
  ASSUME NEW S, NEW s \in Seq(S), IsInjective(s), NEW e \in S, e \notin Range(s)
  PROVE  /\ <<e>> \o s \in Seq(S) /\ IsInjective(<<e>> \o s)
         /\ Range(<<e>> \o s) = Range(s) \cup {e}
         /\ Len(<<e>> \o s) = Len(s) + 1
<1> DEFINE r == <<e>> \o s
<1>1. Len(s) \in Nat /\ DOMAIN s = 1..Len(s)
  OBVIOUS
<1>2. /\ r \in Seq(S) /\ Len(r) = Len(s) + 1
      /\ \A j \in 1..(Len(s) + 1) : r[j] = IF j = 1 THEN e ELSE s[j - 1]
  BY <1>1
<1> HIDE DEF r
<1>3. DOMAIN r = 1..(Len(s) + 1)
  BY <1>2
<1>4. \A j \in 2..(Len(s) + 1) : j - 1 \in DOMAIN s /\ r[j] = s[j - 1] /\ r[j] # e
  BY <1>1, <1>2 DEF Range
<1>5. IsInjective(r)
  <2> SUFFICES ASSUME NEW a \in DOMAIN r, NEW b \in DOMAIN r, r[a] = r[b]
               PROVE  a = b
    BY DEF IsInjective
  <2>1. CASE a = 1 \/ b = 1
    <3>1. a \in 2..(Len(s) + 1) \/ b \in 2..(Len(s) + 1) => r[a] # r[b]
      BY <2>1, <1>1, <1>2, <1>4
    <3> QED
      BY <2>1, <3>1, <1>1, <1>3
  <2>2. CASE a # 1 /\ b # 1
    <3>1. a \in 2..(Len(s) + 1) /\ b \in 2..(Len(s) + 1)
      BY <2>2, <1>1, <1>3
    <3>2. a - 1 = b - 1
      BY <3>1, <1>4 DEF IsInjective
    <3> QED
      BY <3>1, <3>2, <1>1
  <2> QED
    BY <2>1, <2>2
<1>6. Range(r) = Range(s) \cup {e}
  <2>1. \A j \in DOMAIN r : r[j] \in Range(s) \cup {e}
    BY SMTT(30), <1>1, <1>2, <1>3, <1>4 DEF Range
  <2>2. \A i \in DOMAIN s : i + 1 \in DOMAIN r /\ r[i + 1] = s[i]
    BY <1>1, <1>2, <1>3
  <2>3. 1 \in DOMAIN r /\ r[1] = e
    BY <1>1, <1>2, <1>3
  <2> QED
    BY <2>1, <2>2, <2>3 DEF Range
<1> QED
  BY <1>2, <1>5, <1>6 DEF r

-----------------------------------------------------------------------------
(* FlattenSeq.                                                             *)

FlattensTo(s, n, f) == \A i \in 1..n : f[i] = IF i = 1 THEN s[i] ELSE f[i - 1] \o s[i]

\* The recursion in FlattenSeq.
Flattening(s, f) == f = [i \in 1..Len(s) |-> IF i = 1 THEN s[i] ELSE f[i - 1] \o s[i]]

LEMMA FlattenIsUnique ==
  ASSUME NEW s, NEW n \in Nat, NEW f, NEW h, FlattensTo(s, n, f), FlattensTo(s, n, h)
  PROVE  \A i \in 1..n : f[i] = h[i]
<1> DEFINE S == {i \in Nat : i \in 1..n => f[i] = h[i]}
<1>1. 0 \in S
  OBVIOUS
<1>2. ASSUME NEW i \in Nat, i \in S
      PROVE  i + 1 \in S
  <2>1. CASE i + 1 \in 1..n /\ i = 0
    BY <2>1 DEF FlattensTo
  <2>2. CASE i + 1 \in 1..n /\ i # 0
    <3>1. i \in 1..n /\ (i + 1) - 1 = i /\ i + 1 # 1
      BY <2>2
    <3> QED
      BY <3>1, <2>2, <1>2 DEF FlattensTo
  <2> QED
    BY <2>1, <2>2
<1>3. \A i \in Nat : i \in S
  <2> HIDE DEF S
  <2> QED
    BY <1>1, <1>2, NatSetInduction
<1> QED
  BY <1>3

LEMMA FlattenIsRecursive ==
  ASSUME NEW S, NEW s \in Seq(Seq(S)), Len(s) # 0
  PROVE  \E f : Flattening(s, f) /\ FlattenSeq(s) = f[Len(s)] /\ f[Len(s)] \in Seq(S)
<1> DEFINE n == Len(s)
           step == [p \in Nat \X Seq(S) |-> IF p[1] \in 1..n THEN p[2] \o s[p[1]] ELSE <<>>]
<1>0. n \in Nat /\ \A i \in 1..n : s[i] \in Seq(S)
  OBVIOUS
<1>1. step \in [Nat \X Seq(S) -> Seq(S)]
  <2>1. ASSUME NEW p \in Nat \X Seq(S), p[1] \in 1..n
        PROVE  p[2] \o s[p[1]] \in Seq(S)
    <3>1. p[2] \in Seq(S) /\ s[p[1]] \in Seq(S)
      BY <1>0, <2>1
    <3> QED
      BY <3>1, ConcatProperties
  <2>2. <<>> \in Seq(S)
    OBVIOUS
  <2> QED
    BY <2>1, <2>2
<1>2. PICK g \in [0..n -> Seq(S)] : Recurs(<<>>, step, n, g)
  <2> HIDE DEF step, n
  <2>1. <<>> \in Seq(S)
    OBVIOUS
  <2> QED
    BY <1>0, <1>1, <2>1, NatRecursion
<1> DEFINE h == [i \in 1..n |-> g[i]]
<1>3. h \in [1..n -> Seq(S)]
  BY <1>0
<1>4. ASSUME NEW i \in 1..n
      PROVE  h[i] = IF i = 1 THEN s[i] ELSE h[i - 1] \o s[i]
  <2>1. i \in Nat /\ i - 1 \in 0..n /\ g[i - 1] \in Seq(S) /\ s[i] \in Seq(S)
    <3>1. i \in Nat /\ i - 1 \in 0..n
      BY <1>0
    <3> HIDE DEF n, step, h
    <3> QED
      BY <1>0, <3>1
  <2>2. g[i] = step[<<i, g[i - 1]>>]
    BY <1>2 DEF Recurs
  <2>3. g[i] = g[i - 1] \o s[i]
    <3>1. <<i, g[i - 1]>> \in Nat \X Seq(S)
      BY <2>1
    <3> QED
      BY <3>1, <2>2
  <2>4. CASE i = 1
    <3>1. g[i - 1] = <<>>
      BY <2>4, <1>2 DEF Recurs
    <3>2. <<>> \o s[i] = s[i]
      BY <2>1, ConcatEmptySeq
    <3> QED
      BY <2>3, <2>4, <3>1, <3>2
  <2>5. CASE i # 1
    <3>1. i - 1 \in 1..n
      BY <1>0, <2>5
    <3> QED
      BY <3>1, <2>3, <2>5
  <2> QED
    BY <2>4, <2>5
<1>5. Flattening(s, h)
  BY <1>4 DEF Flattening
<1>6. PICK f : Flattening(s, f) /\ FlattenSeq(s) = f[n]
  <2> DEFINE it == CHOOSE f : Flattening(s, f)
  <2>1. Flattening(s, it)
    <3> HIDE DEF h
    <3> QED
      BY <1>5
  <2>2. FlattenSeq(s) = it[n]
    BY DEF FlattenSeq, Flattening
  <2> HIDE DEF it
  <2> QED
    BY <2>1, <2>2
<1> HIDE DEF h
<1>7. FlattensTo(s, n, f) /\ FlattensTo(s, n, h)
  BY <1>5, <1>6 DEF Flattening, FlattensTo
<1>8. f[n] = h[n]
  <2>1. n \in 1..n
    BY <1>0
  <2> HIDE DEF n
  <2> QED
    BY <1>0, <1>7, <2>1, FlattenIsUnique
<1>9. h[n] \in Seq(S)
  <2>1. n \in 1..n
    BY <1>0
  <2> HIDE DEF n, step
  <2> QED
    BY <1>3, <2>1
<1> QED
  BY <1>5, <1>6, <1>8, <1>9

\* What is appended to the list of parts comes at the end of the whole.
LEMMA FlattenAppend ==
  ASSUME NEW S, NEW s \in Seq(Seq(S)), NEW x \in Seq(S)
  PROVE  /\ FlattenSeq(s) \in Seq(S)
         /\ FlattenSeq(Append(s, x)) = FlattenSeq(s) \o x
<1> DEFINE n == Len(s)
           t == Append(s, x)
<1>0. /\ n \in Nat /\ t \in Seq(Seq(S)) /\ Len(t) = n + 1
      /\ \A i \in 1..n : t[i] = s[i]
      /\ t[n + 1] = x
  BY AppendProperties
<1>1. Len(t) # 0
  BY <1>0
<1>2. PICK h : Flattening(t, h) /\ FlattenSeq(t) = h[Len(t)]
  <2> HIDE DEF t
  <2> QED
    BY <1>0, <1>1, FlattenIsRecursive
<1>3. \A i \in 1..(n + 1) : h[i] = IF i = 1 THEN t[i] ELSE h[i - 1] \o t[i]
  BY <1>0, <1>2 DEF Flattening
<1> HIDE DEF t
<1>4. CASE n = 0
  <2>1. s = <<>> /\ FlattenSeq(s) = s
    BY <1>4, EmptySeq DEF FlattenSeq
  <2>2. FlattenSeq(t) = x
    BY <1>0, <1>2, <1>3, <1>4
  <2>3. <<>> \in Seq(S) /\ <<>> \o x = x
    BY ConcatEmptySeq
  <2> QED
    BY <2>1, <2>2, <2>3 DEF t
<1>5. CASE n # 0
  <2>1. PICK f : Flattening(s, f) /\ FlattenSeq(s) = f[n] /\ f[n] \in Seq(S)
    BY <1>5, FlattenIsRecursive
  <2>2. FlattensTo(s, n, f)
    BY <2>1 DEF Flattening, FlattensTo
  <2>3. FlattensTo(s, n, h)
    <3>1. ASSUME NEW i \in 1..n
          PROVE  i \in 1..(n + 1) /\ t[i] = s[i]
      BY <1>0
    <3> HIDE DEF n
    <3> QED
      BY <1>3, <3>1 DEF FlattensTo
  <2>4. n \in 1..n /\ n + 1 \in 1..(n + 1) /\ n + 1 # 1 /\ (n + 1) - 1 = n
    BY <1>0, <1>5
  <2> HIDE DEF n
  <2>5. f[n] = h[n]
    <3>1. n \in Nat
      BY <1>0
    <3>2. \A i \in 1..n : f[i] = h[i]
      BY <3>1, <2>2, <2>3, FlattenIsUnique
    <3> QED
      BY <2>4, <3>2
  <2>6. FlattenSeq(t) = h[n] \o x
    BY <1>0, <1>2, <1>3, <2>4
  <2> QED
    BY <2>1, <2>4, <2>5, <2>6 DEF t
<1> QED
  BY <1>4, <1>5

\* A list of lists joined together has what the lists have.
LEMMA FlattenRange ==
  ASSUME NEW S, NEW s \in Seq(Seq(S))
  PROVE  /\ FlattenSeq(s) \in Seq(S)
         /\ Range(FlattenSeq(s)) = UNION {Range(s[i]) : i \in DOMAIN s}
<1> DEFINE Has(q) == UNION {Range(q[i]) : i \in DOMAIN q}
           All(k) == \A q \in Seq(Seq(S)) : Len(q) = k =>
                       FlattenSeq(q) \in Seq(S) /\ Range(FlattenSeq(q)) = Has(q)
           N == {k \in Nat : All(k)}
<1>1. 0 \in N
  <2> SUFFICES ASSUME NEW q \in Seq(Seq(S)), Len(q) = 0
               PROVE  FlattenSeq(q) \in Seq(S) /\ Range(FlattenSeq(q)) = Has(q)
    OBVIOUS
  <2>1. q = <<>> /\ FlattenSeq(q) = q
    BY EmptySeq DEF FlattenSeq
  <2>2. DOMAIN q = {}
    BY <2>1
  <2>3. <<>> \in Seq(S)
    OBVIOUS
  <2> QED
    BY <2>1, <2>2, <2>3 DEF Range
<1>2. ASSUME NEW k \in Nat, k \in N
      PROVE  k + 1 \in N
  <2> SUFFICES ASSUME NEW q \in Seq(Seq(S)), Len(q) = k + 1
               PROVE  FlattenSeq(q) \in Seq(S) /\ Range(FlattenSeq(q)) = Has(q)
    OBVIOUS
  <2> DEFINE p == SubSeq(q, 1, k)
  <2>1. p \in Seq(Seq(S)) /\ Len(p) = k /\ \A i \in 1..k : p[i] = q[i]
    <3>1. k \in 0..Len(q)
      OBVIOUS
    <3> QED
      BY <3>1, FrontOf
  <2> HIDE DEF p
  <2>2. q[k + 1] \in Seq(S)
    OBVIOUS
  <2>3. q = Append(p, q[k + 1])
    <3>1. Append(p, q[k + 1]) \in Seq(Seq(S)) /\ Len(Append(p, q[k + 1])) = k + 1
      BY <2>1, <2>2, AppendProperties
    <3>2. ASSUME NEW i \in 1..(k + 1) PROVE Append(p, q[k + 1])[i] = q[i]
      BY <2>1, <2>2
    <3> QED
      BY <3>1, <3>2, SeqEqual
  <2>4. FlattenSeq(p) \in Seq(S) /\ Range(FlattenSeq(p)) = Has(p)
    BY <1>2, <2>1
  <2>5. FlattenSeq(q) = FlattenSeq(p) \o q[k + 1]
    <3>1. FlattenSeq(Append(p, q[k + 1])) = FlattenSeq(p) \o q[k + 1]
      BY <2>1, <2>2, FlattenAppend
    <3> QED
      BY <2>3, <3>1
  <2>6. /\ FlattenSeq(q) \in Seq(S)
        /\ Range(FlattenSeq(q)) = Range(FlattenSeq(p)) \cup Range(q[k + 1])
    BY <2>2, <2>4, <2>5, ConcatProperties, RangeConcatenation
  <2>7. Has(q) = Has(p) \cup Range(q[k + 1])
    <3>1. DOMAIN q = DOMAIN p \cup {k + 1}
      BY <2>1
    <3>2. \A i \in DOMAIN p : p[i] = q[i]
      BY <2>1
    <3> HIDE DEF N
    <3> QED
      BY <3>1, <3>2
  <2> QED
    BY <2>4, <2>6, <2>7
<1>3. \A k \in Nat : k \in N
  <2> HIDE DEF N
  <2> QED
    BY <1>1, <1>2, NatSetInduction
<1>4. Len(s) \in Nat
  OBVIOUS
<1> QED
  BY <1>3, <1>4
=============================================================================
