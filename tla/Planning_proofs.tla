-------------------------- MODULE Planning_proofs --------------------------
(***************************************************************************)
(* Proofs about the schedules that the dependency graph makes              *)
(* (internal/core/orchestrator/dependency.go), for any graph of any size:  *)
(* ExecutionBatches by the invariant of its loop, TopologicalOrder by what *)
(* a call of visit promises when a given number of calls may nest in it;   *)
(* and about the plans that the planner makes (internal/core/task), for    *)
(* any request: by the ids that a decomposition gives, and by what the     *)
(* tasks of it wait for.                                                   *)
(***************************************************************************)
EXTENDS GraphAlgorithms, TaskPlanning, DataLemmas, TLAPS

-----------------------------------------------------------------------------
(* ExecutionBatches: the rounds of its loop.                               *)

\* The tasks that wait for nothing: the next batch.
Ready(s) == {n \in DOMAIN s.inDegree : s.inDegree[n] = 0}
\* What the first k batches hold.
Upto(s, k) == UNION {s.batches[b] : b \in 1..k}

\* inDegree and batches, at any time of the loop.
RoundStates == [inDegree : UNION {[S -> Int] : S \in SUBSET Nodes}, batches : Seq(SUBSET Nodes)]

\* What the lists of reverse are after any additions: a task's list names only tasks
\* that depend on it.
EdgesListed ==
  /\ reverse \in [Nodes -> [Nodes -> Nat]]
  /\ \A d, n \in Nodes : reverse[d][n] > 0 => d \in dependsOn[n]

\* The tasks of S are intact.
Kept(S) == S \in SUBSET Nodes /\ ListedOnce(S)

\* The loop's invariant: no task is in two batches.  And for a set of intact tasks:
\* inDegree counts what one still waits for, and each is in the first batch after
\* all it depends on, so one that is left waits for a task of the last batch or for
\* one that is left as well.
BatchesOK(S, s) ==
  LET last == Len(s.batches)
  IN  /\ s \in RoundStates
      /\ Upto(s, last) = Nodes \ DOMAIN s.inDegree
      /\ \A n \in S \cap DOMAIN s.inDegree :
           /\ s.inDegree[n] = Cardinality(dependsOn[n] \ Upto(s, last))
           /\ last > 0 => ~(dependsOn[n] \subseteq Upto(s, last - 1))
      /\ \A b \in 1..last : \A n \in s.batches[b] :
           /\ n \notin Upto(s, b - 1)
           /\ n \in S => /\ dependsOn[n] \subseteq Upto(s, b - 1)
                         /\ b > 1 => ~(dependsOn[n] \subseteq Upto(s, b - 2))

\* The graph is finite, and so is what a task of it depends on.
LEMMA NodesAreFinite ==
  /\ IsFiniteSet(Nodes) /\ Cardinality(Nodes) = MaxNodes /\ MaxNodes \in Nat
  /\ \A S \in SUBSET (Nodes \cup {Missing}) : IsFiniteSet(S) /\ Cardinality(S) \in Nat
<1>1. IsFiniteSet(Nodes) /\ Cardinality(Nodes) = MaxNodes /\ MaxNodes \in Nat
  BY FS_Interval, GraphAssumption DEF Nodes
<1>2. IsFiniteSet(Nodes \cup {Missing})
  BY <1>1, FS_AddElement
<1> QED
  BY <1>1, <1>2, FS_Subset, FS_CardinalityType

\* How often the lists of reverse that a round goes through name a task.
Named(n) == [d \in Nodes |-> reverse[d][n]]

\* The lists of any tasks name a task a natural number of times.
LEMMA NamedTyped ==
  ASSUME EdgesListed, NEW n \in Nodes, NEW R \in SUBSET Nodes
  PROVE  IntsOn(Named(n), R) /\ SumFunctionOnSet(Named(n), R) \in Int
<1>1. IntsOn(Named(n), R)
  <2>1. \A d \in Nodes : reverse[d][n] \in Int
    BY DEF EdgesListed
  <2> QED
    BY <2>1 DEF IntsOn, Named
<1>2. IsFiniteSet(R)
  BY NodesAreFinite
<1> QED
  BY <1>1, <1>2, SumProperties

\* An intact task has one less for each of the tasks done that it depends on.
LEMMA NamedOnce ==
  ASSUME EdgesListed, NEW S, Kept(S), NEW n \in S, NEW R \in SUBSET Nodes
  PROVE  SumFunctionOnSet(Named(n), R) = Cardinality(dependsOn[n] \cap R)
<1> DEFINE f == Named(n)
           A == dependsOn[n]
           F == {T \in SUBSET R : SumFunctionOnSet(f, T) = Cardinality(A \cap T)}
<1>1. n \in Nodes /\ IsFiniteSet(R) /\ IntsOn(f, R)
  BY NamedTyped, NodesAreFinite DEF Kept
<1>2. \A d \in R : f[d] = IF d \in A THEN 1 ELSE 0
  <2> SUFFICES ASSUME NEW d \in R
               PROVE  reverse[d][n] = IF d \in A THEN 1 ELSE 0
    BY DEF Named
  <2>1. CASE d \in A
    BY <2>1 DEF Kept, ListedOnce
  <2>2. CASE d \notin A
    <3>1. reverse[d][n] \in Nat /\ ~(reverse[d][n] > 0)
      BY <1>1, <2>2 DEF EdgesListed
    <3> QED
      BY <2>2, <3>1
  <2> QED
    BY <2>1, <2>2
<1> HIDE DEF f
<1>3. {} \in F
  <2>1. SumFunctionOnSet(f, {}) = 0 /\ Cardinality({}) = 0 /\ A \cap {} = {}
    BY <1>1, SumProperties, FS_EmptySet
  <2> QED
    BY <2>1
<1>4. ASSUME NEW T \in SUBSET R, NEW x \in R, T \in F, x \notin T
      PROVE  T \cup {x} \in F
  <2>1. OnTop(f, T \cup {x}, x) /\ (T \cup {x}) \ {x} = T
    BY <1>1, <1>4, SumRemove
  <2>2. SumFunctionOnSet(f, T \cup {x}) = f[x] + Cardinality(A \cap T)
    BY <1>4, <2>1 DEF OnTop
  <2>3. IsFiniteSet(A \cap T) /\ Cardinality(A \cap T) \in Nat
    BY NodesAreFinite
  <2>4. CASE x \in A
    <3>1. A \cap (T \cup {x}) = (A \cap T) \cup {x} /\ x \notin A \cap T
      BY <1>4, <2>4
    <3>2. Cardinality(A \cap (T \cup {x})) = Cardinality(A \cap T) + 1
      BY <2>3, <3>1, FS_AddElement
    <3> QED
      BY <1>2, <2>2, <2>3, <2>4, <3>2
  <2>5. CASE x \notin A
    <3>1. A \cap (T \cup {x}) = A \cap T
      BY <2>5
    <3>2. f[x] = 0
      BY <1>2, <2>5
    <3>3. SumFunctionOnSet(f, T \cup {x}) = Cardinality(A \cap T)
      BY <2>2, <2>3, <3>2
    <3> QED
      BY <3>1, <3>3
  <2> QED
    BY <2>4, <2>5
<1>5. \A T \in SUBSET R : T \in F
  <2> HIDE DEF F
  <2> QED
    BY <1>1, <1>3, <1>4, FiniteSetInduction
<1> QED
  BY <1>5 DEF f

\* A round keeps the types of inDegree and batches.
LEMMA RoundTyped ==
  ASSUME EdgesListed, NEW s \in RoundStates
  PROVE  Round(reverse, s) \in RoundStates
<1> DEFINE D == DOMAIN s.inDegree
           R == Ready(s)
           rest == [n \in D \ R |-> s.inDegree[n] - SumFunctionOnSet(Named(n), R)]
<1>1. D \in SUBSET Nodes /\ s.inDegree \in [D -> Int] /\ s.batches \in Seq(SUBSET Nodes)
  BY DEF RoundStates
<1>2. CASE R = {}
  BY <1>2 DEF Round, Ready
<1>3. CASE R # {}
  <2>1. Round(reverse, s) = [inDegree |-> rest, batches |-> Append(s.batches, R)]
    BY <1>3 DEF Round, Ready, Named
  <2>2. R \in SUBSET Nodes
    BY <1>1 DEF Ready
  <2>3. \A n \in Nodes : SumFunctionOnSet(Named(n), R) \in Int
    BY <2>2, NamedTyped
  <2> HIDE DEF R
  <2>4. rest \in [D \ R -> Int]
    <3>1. \A n \in D \ R : s.inDegree[n] \in Int /\ n \in Nodes
      BY <1>1
    <3>2. ASSUME NEW n \in D \ R
          PROVE  s.inDegree[n] - SumFunctionOnSet(Named(n), R) \in Int
      <4>1. s.inDegree[n] \in Int /\ SumFunctionOnSet(Named(n), R) \in Int
        BY <2>3, <3>1
      <4> HIDE DEF rest
      <4> QED
        BY <4>1
    <3> HIDE DEF D
    <3> QED
      BY <3>2
  <2>5. Append(s.batches, R) \in Seq(SUBSET Nodes)
    BY <1>1, <2>2
  <2>6. D \ R \in SUBSET Nodes
    BY <1>1
  <2> HIDE DEF rest, D
  <2>7. rest \in UNION {[S -> Int] : S \in SUBSET Nodes}
    BY <2>4, <2>6
  <2> QED
    BY <2>1, <2>5, <2>7 DEF RoundStates
<1> QED
  BY <1>2, <1>3

\* A round that finds a ready task keeps the loop's invariant, adds one batch and
\* takes a task out of inDegree.
LEMMA RoundKeeps ==
  ASSUME dependsOn \in DependencyGraphs, EdgesListed, NEW S, Kept(S),
         NEW s, BatchesOK(S, s), Ready(s) # {}
  PROVE  LET t == Round(reverse, s)
         IN  /\ BatchesOK(S, t) /\ Len(t.batches) = Len(s.batches) + 1
             /\ Cardinality(DOMAIN t.inDegree) + 1 <= Cardinality(DOMAIN s.inDegree)
<1> DEFINE t == Round(reverse, s)
           D == DOMAIN s.inDegree
           R == Ready(s)
           l == Len(s.batches)
           U == Upto(s, l)
           rest == [n \in D \ R |-> s.inDegree[n] - SumFunctionOnSet(Named(n), R)]
<1>1. /\ s \in RoundStates /\ D \in SUBSET Nodes /\ s.batches \in Seq(SUBSET Nodes)
      /\ l \in Nat /\ U = Nodes \ D
      /\ \A n \in S \cap D : s.inDegree[n] = Cardinality(dependsOn[n] \ U)
      /\ \A b \in 1..l : \A n \in s.batches[b] :
           /\ n \notin Upto(s, b - 1)
           /\ n \in S => /\ dependsOn[n] \subseteq Upto(s, b - 1)
                         /\ b > 1 => ~(dependsOn[n] \subseteq Upto(s, b - 2))
  BY DEF BatchesOK, RoundStates
<1>2. \A n \in Nodes : dependsOn[n] \in SUBSET (Nodes \cup {Missing})
  BY DEF DependencyGraphs
<1>3. t = [inDegree |-> rest, batches |-> Append(s.batches, R)]
  BY DEF Round, Ready, Named
<1>4. R \subseteq D /\ \A n \in D : n \in R <=> s.inDegree[n] = 0
  BY DEF Ready
<1>5. t \in RoundStates
  BY <1>1, RoundTyped
<1> HIDE DEF R
<1>6. /\ DOMAIN t.inDegree = D \ R /\ Len(t.batches) = l + 1 /\ t.batches[l + 1] = R
      /\ \A b \in 1..l : t.batches[b] = s.batches[b]
  <2>1. R \in SUBSET Nodes
    BY <1>1, <1>4
  <2>2. t.batches = Append(s.batches, R) /\ t.inDegree = rest
    BY <1>3
  <2> QED
    BY <1>1, <2>1, <2>2
<1>7. \A n \in S \cap (D \ R) :
        t.inDegree[n] = s.inDegree[n] - Cardinality(dependsOn[n] \cap R)
  <2>1. \A n \in D \ R : t.inDegree[n] = s.inDegree[n] - SumFunctionOnSet(Named(n), R)
    BY <1>3
  <2>2. \A n \in S : SumFunctionOnSet(Named(n), R) = Cardinality(dependsOn[n] \cap R)
    BY <1>1, <1>4, NamedOnce
  <2> QED
    BY <2>1, <2>2
<1> HIDE DEF t, l
<1>8. /\ \A k \in Int : k <= l => Upto(t, k) = Upto(s, k)
      /\ Upto(t, l + 1) = U \cup R
  <2>1. ASSUME NEW k \in Int, k <= l
        PROVE  Upto(t, k) = Upto(s, k)
    <3>1. \A b \in 1..k : b \in 1..l
      BY <1>1, <2>1
    <3>2. \A b \in 1..k : t.batches[b] = s.batches[b]
      BY <1>6, <3>1
    <3> QED
      BY <3>2 DEF Upto
  <2>2. \A b : b \in 1..(l + 1) <=> b \in 1..l \/ b = l + 1
    BY <1>1
  <2>3. Upto(t, l + 1) = Upto(t, l) \cup t.batches[l + 1]
    BY <2>2 DEF Upto
  <2> QED
    BY <1>1, <1>6, <2>1, <2>3
<1> HIDE DEF U
<1>9. Upto(t, l + 1) = Nodes \ DOMAIN t.inDegree
  BY <1>1, <1>4, <1>6, <1>8
<1>10. ASSUME NEW n \in S \cap (D \ R)
       PROVE  /\ t.inDegree[n] = Cardinality(dependsOn[n] \ (U \cup R))
              /\ ~(dependsOn[n] \subseteq U)
  <2> DEFINE A == dependsOn[n] \ U
  <2>1. IsFiniteSet(A) /\ Cardinality(A) \in Nat
    BY <1>1, <1>2, NodesAreFinite
  <2>2. A \cap R = dependsOn[n] \cap R /\ A \ R = dependsOn[n] \ (U \cup R)
    BY <1>1, <1>4
  <2>3. Cardinality(A \ R) = Cardinality(A) - Cardinality(A \cap R)
    <3> HIDE DEF A
    <3>1. IsFiniteSet(R)
      BY <1>1, <1>4, NodesAreFinite
    <3> QED
      BY <2>1, <3>1, FS_Difference
  <2>4. A # {}
    <3>1. Cardinality(A) # 0
      BY <1>1, <1>4
    <3> QED
      BY <3>1, FS_EmptySet
  <2>5. t.inDegree[n] = Cardinality(A) - Cardinality(A \cap R)
    <3>1. s.inDegree[n] = Cardinality(A)
      BY <1>1
    <3> HIDE DEF A, D
    <3> QED
      BY <1>7, <2>2, <3>1
  <2>6. ~(dependsOn[n] \subseteq U)
    BY <2>4
  <2> HIDE DEF A
  <2> QED
    BY <2>2, <2>3, <2>5, <2>6
<1>11. ASSUME NEW b \in 1..(l + 1), NEW n \in t.batches[b]
       PROVE  /\ n \notin Upto(t, b - 1)
              /\ n \in S => /\ dependsOn[n] \subseteq Upto(t, b - 1)
                            /\ b > 1 => ~(dependsOn[n] \subseteq Upto(t, b - 2))
  <2>1. b - 1 \in Int /\ b - 2 \in Int /\ b - 1 <= l /\ b - 2 <= l
    BY <1>1
  <2>2. Upto(t, b - 1) = Upto(s, b - 1) /\ Upto(t, b - 2) = Upto(s, b - 2)
    BY <1>8, <2>1
  <2>3. CASE b \in 1..l
    BY <1>1, <1>6, <2>2, <2>3
  <2>4. CASE b = l + 1
    <3>1. n \in R /\ n \in D /\ s.inDegree[n] = 0 /\ b - 1 = l /\ b - 2 = l - 1
      BY <1>1, <1>4, <1>6, <2>4
    <3>2. n \in S => dependsOn[n] \subseteq U
      <4> SUFFICES ASSUME n \in S
                   PROVE  dependsOn[n] \subseteq U
        OBVIOUS
      <4>1. Cardinality(dependsOn[n] \ U) = 0 /\ IsFiniteSet(dependsOn[n] \ U)
        BY <1>1, <1>2, <3>1, NodesAreFinite
      <4> QED
        BY <4>1, FS_EmptySet
    <3>3. n \in S /\ l > 0 => ~(dependsOn[n] \subseteq Upto(s, l - 1))
      BY <3>1 DEF BatchesOK, l
    <3>4. n \notin U
      BY <1>1, <3>1
    <3>5. b > 1 => l > 0
      BY <1>1, <2>4
    <3> QED
      BY <2>2, <3>1, <3>2, <3>3, <3>4, <3>5 DEF U
  <2> QED
    BY <1>1, <2>3, <2>4
<1>12. (l + 1) - 1 = l /\ Upto(t, l) = U
  BY <1>1, <1>8 DEF U
<1>13. BatchesOK(S, t)
  BY <1>5, <1>6, <1>8, <1>9, <1>10, <1>11, <1>12 DEF BatchesOK
<1>14. Cardinality(D \ R) + 1 <= Cardinality(D)
  <2>1. PICK n \in R : TRUE
    BY DEF R
  <2>2. D \ R \subseteq D \ {n} /\ n \in D /\ IsFiniteSet(D)
    BY <1>1, <1>4, <2>1, NodesAreFinite
  <2>3. Cardinality(D \ {n}) = Cardinality(D) - 1 /\ IsFiniteSet(D \ {n})
    BY <2>2, FS_RemoveElement
  <2>4. Cardinality(D \ R) <= Cardinality(D \ {n})
    BY <2>2, <2>3, FS_Subset
  <2>5. Cardinality(D \ R) \in Nat /\ Cardinality(D) \in Nat
    BY <1>1, NodesAreFinite
  <2> QED
    BY <2>3, <2>4, <2>5
<1> QED
  BY <1>6, <1>13, <1>14 DEF t, l

\* The loop begins with every task in inDegree and no batch.
FirstRound == [inDegree |-> InDegree(dependsOn), batches |-> <<>>]

\* The recursion of ExecutionBatches.
RoundEquation(round) ==
  round = [k \in Nat |-> IF k = 0 THEN FirstRound ELSE Round(reverse, round[k - 1])]

\* The invariant of the loop holds when it begins.
LEMMA FirstRoundOK ==
  ASSUME dependsOn \in DependencyGraphs, NEW S
  PROVE  BatchesOK(S, FirstRound) /\ DOMAIN FirstRound.inDegree = Nodes /\ FirstRound.batches = <<>>
<1> DEFINE s == FirstRound
<1>1. s.inDegree = [n \in Nodes |-> Cardinality(dependsOn[n])] /\ s.batches = <<>>
  BY DEF FirstRound, InDegree
<1>2. s.inDegree \in [Nodes -> Int]
  BY <1>1, NodesAreFinite DEF DependencyGraphs
<1>3. s \in RoundStates
  <2>1. s.inDegree \in UNION {[T -> Int] : T \in SUBSET Nodes}
    BY <1>2
  <2>2. s = [inDegree |-> s.inDegree, batches |-> s.batches] /\ s.batches \in Seq(SUBSET Nodes)
    BY <1>1 DEF FirstRound
  <2> HIDE DEF s
  <2> QED
    BY <2>1, <2>2 DEF RoundStates
<1> HIDE DEF s
<1>4. Len(s.batches) = 0 /\ Upto(s, 0) = {}
  BY <1>1 DEF Upto
<1>5. \A n \in Nodes : dependsOn[n] \ {} = dependsOn[n]
  OBVIOUS
<1>6. BatchesOK(S, s)
  <2>1. Upto(s, 0) = Nodes \ DOMAIN s.inDegree /\ 1..0 = {} /\ ~(0 > 0)
    BY <1>1, <1>4
  <2>2. \A n \in DOMAIN s.inDegree : s.inDegree[n] = Cardinality(dependsOn[n] \ Upto(s, 0))
    BY <1>1, <1>4, <1>5
  <2> QED
    BY <1>3, <1>4, <2>1, <2>2 DEF BatchesOK
<1> QED
  BY <1>1, <1>6 DEF s

\* The rounds of ExecutionBatches: the recursion defines a function of them.
LEMMA BatchesAre ==
  ASSUME dependsOn \in DependencyGraphs, EdgesListed
  PROVE  \E round : /\ round[0] = FirstRound
                    /\ \A k \in Nat : round[k + 1] = Round(reverse, round[k])
                    /\ ExecutionBatches(dependsOn, reverse) = round[MaxNodes].batches
<1> DEFINE step == [p \in Nat \X RoundStates |-> Round(reverse, p[2])]
           a == FirstRound
<1>1. step \in [Nat \X RoundStates -> RoundStates]
  BY RoundTyped
<1>2. a \in RoundStates
  BY FirstRoundOK DEF BatchesOK
<1>3. PICK g \in [Nat -> RoundStates] : RecursAlways(a, step, g)
  <2> HIDE DEF step, a
  <2> QED
    BY <1>1, <1>2, NatRecursionAlways
<1>4. ASSUME NEW k \in Nat
      PROVE  g[k + 1] = Round(reverse, g[k])
  <2>1. g[k + 1] = step[<<k + 1, g[k]>>]
    <3> HIDE DEF step
    <3> QED
      BY <1>3 DEF RecursAlways
  <2>2. <<k + 1, g[k]>> \in Nat \X RoundStates
    OBVIOUS
  <2> QED
    BY <2>1, <2>2
<1>5. RoundEquation(g)
  <2>1. ASSUME NEW k \in Nat
        PROVE  g[k] = IF k = 0 THEN FirstRound ELSE Round(reverse, g[k - 1])
    <3>1. CASE k = 0
      BY <1>3, <3>1 DEF RecursAlways
    <3>2. CASE k # 0
      <4>1. k - 1 \in Nat /\ (k - 1) + 1 = k
        BY <3>2
      <4> QED
        BY <1>4, <3>2, <4>1
    <3> QED
      BY <3>1, <3>2
  <2> QED
    BY <2>1 DEF RoundEquation
<1> DEFINE it == CHOOSE round : RoundEquation(round)
<1>6. RoundEquation(it)
  BY <1>5
<1>7. ExecutionBatches(dependsOn, reverse) = it[MaxNodes].batches
  BY DEF ExecutionBatches, RoundEquation, FirstRound
<1> HIDE DEF it
<1>8. it[0] = FirstRound
  BY <1>6 DEF RoundEquation
<1>9. ASSUME NEW k \in Nat
      PROVE  it[k + 1] = Round(reverse, it[k])
  <2>1. k + 1 \in Nat /\ k + 1 # 0 /\ (k + 1) - 1 = k
    OBVIOUS
  <2> QED
    BY <1>6, <2>1 DEF RoundEquation
<1> QED
  BY <1>7, <1>8, <1>9

\* After a round for each task no task is ready, so ExecutionBatches returns what
\* the loop ends with.
LEMMA RoundsEnd ==
  ASSUME dependsOn \in DependencyGraphs, EdgesListed, NEW S, Kept(S)
  PROVE  \E s : /\ BatchesOK(S, s) /\ Ready(s) = {} /\ Len(s.batches) <= MaxNodes
                /\ ExecutionBatches(dependsOn, reverse) = s.batches
<1>1. PICK round : /\ round[0] = FirstRound
                   /\ \A k \in Nat : round[k + 1] = Round(reverse, round[k])
                   /\ ExecutionBatches(dependsOn, reverse) = round[MaxNodes].batches
  BY BatchesAre
<1> DEFINE left(k) == Cardinality(DOMAIN round[k].inDegree)
           K == {k \in Nat : /\ BatchesOK(S, round[k]) /\ Len(round[k].batches) <= k
                             /\ Ready(round[k]) = {} \/ left(k) + k <= MaxNodes}
<1>2. 0 \in K
  <2>1. /\ BatchesOK(S, round[0]) /\ DOMAIN round[0].inDegree = Nodes /\ round[0].batches = <<>>
    BY <1>1, FirstRoundOK
  <2> QED
    BY <2>1, NodesAreFinite
<1>3. ASSUME NEW k \in Nat, k \in K
      PROVE  k + 1 \in K
  <2> DEFINE s == round[k]
             t == round[k + 1]
  <2>1. /\ t = Round(reverse, s) /\ BatchesOK(S, s) /\ Len(s.batches) <= k
        /\ Ready(s) = {} \/ Cardinality(DOMAIN s.inDegree) + k <= MaxNodes
    BY <1>1, <1>3
  <2>2. Len(s.batches) \in Nat /\ Cardinality(DOMAIN s.inDegree) \in Nat
    BY <2>1, NodesAreFinite DEF BatchesOK, RoundStates
  <2> HIDE DEF s
  <2>3. CASE Ready(s) = {}
    <3>1. t = s
      BY <2>1, <2>3 DEF Round, Ready
    <3> QED
      BY <2>1, <2>2, <2>3, <3>1
  <2>4. CASE Ready(s) # {}
    <3> HIDE DEF t
    <3>1. /\ BatchesOK(S, t) /\ Len(t.batches) = Len(s.batches) + 1
          /\ Cardinality(DOMAIN t.inDegree) + 1 <= Cardinality(DOMAIN s.inDegree)
      BY <2>1, <2>4, RoundKeeps
    <3>2. Cardinality(DOMAIN t.inDegree) \in Nat
      BY <3>1, NodesAreFinite DEF BatchesOK, RoundStates
    <3>3. Len(t.batches) <= k + 1 /\ Cardinality(DOMAIN t.inDegree) + (k + 1) <= MaxNodes
      BY <2>1, <2>2, <2>4, <3>1, <3>2, NodesAreFinite
    <3> QED
      BY <3>1, <3>3 DEF t
  <2> QED
    BY <2>3, <2>4
<1>4. \A k \in Nat : k \in K
  <2> HIDE DEF K
  <2> QED
    BY <1>2, <1>3, NatSetInduction
<1> DEFINE s == round[MaxNodes]
<1>5. /\ BatchesOK(S, s) /\ Len(s.batches) <= MaxNodes
      /\ Ready(s) = {} \/ Cardinality(DOMAIN s.inDegree) + MaxNodes <= MaxNodes
  BY <1>4, NodesAreFinite
<1> HIDE DEF s
<1>6. Ready(s) = {}
  <2> SUFFICES ASSUME Cardinality(DOMAIN s.inDegree) + MaxNodes <= MaxNodes
               PROVE  Ready(s) = {}
    BY <1>5
  <2>1. IsFiniteSet(DOMAIN s.inDegree) /\ Cardinality(DOMAIN s.inDegree) \in Nat
    BY <1>5, NodesAreFinite DEF BatchesOK, RoundStates
  <2>2. Cardinality(DOMAIN s.inDegree) = 0
    BY <2>1, NodesAreFinite
  <2>3. DOMAIN s.inDegree = {}
    BY <2>1, <2>2, FS_EmptySet
  <2> QED
    BY <2>3 DEF Ready
<1> QED
  BY <1>1, <1>5, <1>6 DEF s

-----------------------------------------------------------------------------
(* The batches and the chains of dependencies.                             *)

\* A chain of dependencies, of any length.
IsChain(c) == /\ c \in Seq(Nodes) /\ Len(c) \in Nat \ {0}
              /\ \A i \in 1..(Len(c) - 1) : c[i + 1] \in dependsOn[c[i]]

\* The property's chains are those of a limited length.
LEMMA ChainsAre ==
  ASSUME NEW n
  PROVE  \A c : c \in Chains(n) <=> IsChain(c) /\ Len(c) <= MaxNodes + 1 /\ c[1] = n
<1> SUFFICES ASSUME NEW c
             PROVE  c \in SeqOf(Nodes, MaxNodes + 1) <=> c \in Seq(Nodes) /\ Len(c) <= MaxNodes + 1
  <2>1. \A c \in Seq(Nodes) : c # <<>> <=> Len(c) \in Nat \ {0}
    BY EmptySeq
  <2> QED
    BY <2>1 DEF Chains, IsChain
<1>1. MaxNodes + 1 \in Nat
  BY GraphAssumption
<1>2. ASSUME c \in SeqOf(Nodes, MaxNodes + 1)
      PROVE  c \in Seq(Nodes) /\ Len(c) <= MaxNodes + 1
  <2>1. PICK m \in 0..(MaxNodes + 1) : c \in [1..m -> Nodes]
    BY <1>2 DEF SeqOf
  <2>2. m \in Nat /\ m <= MaxNodes + 1
    BY <1>1, <2>1
  <2>3. c \in Seq(Nodes)
    BY <2>1, <2>2, SeqDef
  <2>4. Len(c) \in Nat /\ 1..Len(c) = 1..m
    BY <2>1, <2>3, LenProperties
  <2>5. Len(c) = m
    BY <2>2, <2>4
  <2> QED
    BY <2>2, <2>3, <2>5
<1>3. ASSUME c \in Seq(Nodes), Len(c) <= MaxNodes + 1
      PROVE  c \in SeqOf(Nodes, MaxNodes + 1)
  <2>1. c \in [1..Len(c) -> Nodes] /\ Len(c) \in 0..(MaxNodes + 1)
    BY <1>1, <1>3, LenProperties
  <2> QED
    BY <2>1 DEF SeqOf
<1> QED
  BY <1>2, <1>3

\* An intact task that has a place depends on what has an earlier one.
LEMMA UptoGoesDown ==
  ASSUME NEW S, NEW s, BatchesOK(S, s), NEW k \in Int, k <= Len(s.batches),
         NEW n \in S \cap Upto(s, k)
  PROVE  dependsOn[n] \subseteq Upto(s, k - 1)
<1>1. PICK b \in 1..k : n \in s.batches[b]
  BY DEF Upto
<1>2. Len(s.batches) \in Nat
  BY DEF BatchesOK, RoundStates
<1>3. b \in 1..Len(s.batches) /\ \A a \in 1..(b - 1) : a \in 1..(k - 1)
  BY <1>1, <1>2
<1>4. dependsOn[n] \subseteq Upto(s, b - 1)
  BY <1>1, <1>3 DEF BatchesOK
<1>5. Upto(s, b - 1) \subseteq Upto(s, k - 1)
  BY <1>3 DEF Upto
<1> QED
  BY <1>4, <1>5

\* No chain from an intact task is longer than the number of its batch, and none
\* leads out.
LEMMA ChainsAreShort ==
  ASSUME NEW S, Kept(S), NEW s, BatchesOK(S, s), NEW b \in 1..Len(s.batches),
         NEW c, IsChain(c), c[1] \in S \cap s.batches[b]
  PROVE  Len(c) <= b /\ Missing \notin dependsOn[c[Len(c)]]
<1> DEFINE l == Len(c)
           K == {i \in Nat : i + 1 \in 1..l => c[i + 1] \in S \cap Upto(s, b - i)}
<1>1. /\ l \in Nat \ {0} /\ Len(s.batches) \in Nat /\ b \in Nat /\ b <= Len(s.batches)
      /\ \A i \in 1..(l - 1) : c[i + 1] \in dependsOn[c[i]]
      /\ \A i \in 1..l : c[i] \in Nodes
  BY DEF IsChain, BatchesOK, RoundStates
<1> HIDE DEF l
<1>2. 0 \in K
  <2>1. c[1] \in S \cap Upto(s, b)
    BY <1>1 DEF Upto
  <2>2. b - 0 = b /\ 0 + 1 = 1
    BY <1>1
  <2> QED
    BY <2>1, <2>2
<1>3. ASSUME NEW i \in Nat, i \in K
      PROVE  i + 1 \in K
  <2> SUFFICES ASSUME (i + 1) + 1 \in 1..l
               PROVE  c[(i + 1) + 1] \in S \cap Upto(s, b - (i + 1))
    OBVIOUS
  <2>1. i + 1 \in 1..(l - 1) /\ i + 1 \in 1..l
    BY <1>1
  <2>2. c[i + 1] \in S \cap Upto(s, b - i) /\ c[(i + 1) + 1] \in dependsOn[c[i + 1]]
    BY <1>1, <1>3, <2>1
  <2>3. b - i \in Int /\ b - i <= Len(s.batches) /\ (b - i) - 1 = b - (i + 1)
    BY <1>1
  <2>4. dependsOn[c[i + 1]] \subseteq Upto(s, (b - i) - 1)
    BY <2>2, <2>3, UptoGoesDown
  <2>5. c[(i + 1) + 1] \in S
    BY <1>1, <2>2 DEF Kept, ListedOnce
  <2> QED
    BY <2>2, <2>3, <2>4, <2>5
<1>4. \A i \in Nat : i \in K
  <2> HIDE DEF K
  <2> QED
    BY <1>2, <1>3, NatSetInduction
<1>5. l - 1 \in Nat /\ (l - 1) + 1 = l /\ l \in 1..l /\ b - (l - 1) = b - l + 1
  BY <1>1
<1>6. c[l] \in S \cap Upto(s, b - l + 1)
  BY <1>4, <1>5
<1>7. 1..(b - l + 1) # {}
  BY <1>6 DEF Upto
<1>8. l <= b
  BY <1>1, <1>7
<1>9. b - l + 1 \in Int /\ b - l + 1 <= Len(s.batches) /\ (b - l + 1) - 1 = b - l
      /\ b - l \in Int
  BY <1>1
<1>10. dependsOn[c[l]] \subseteq Upto(s, b - l)
  BY <1>6, <1>9, UptoGoesDown
<1>11. Upto(s, b - l) \subseteq Nodes
  <2>1. \A a \in 1..(b - l) : a \in 1..Len(s.batches)
    BY <1>1
  <2>2. \A a \in 1..Len(s.batches) : s.batches[a] \subseteq Nodes
    BY DEF BatchesOK, RoundStates
  <2> QED
    BY <2>1, <2>2 DEF Upto
<1>12. Missing \notin Nodes
  BY GraphAssumption
<1> QED
  BY <1>8, <1>10, <1>11, <1>12 DEF l

\* And there is one that long.
LEMMA ChainAsLong ==
  ASSUME dependsOn \in DependencyGraphs, NEW S, Kept(S), NEW s, BatchesOK(S, s),
         NEW b \in 1..Len(s.batches), NEW n \in S \cap s.batches[b]
  PROVE  \E c : IsChain(c) /\ c[1] = n /\ Len(c) = b
<1> DEFINE last == Len(s.batches)
           K == {i \in Nat : i + 1 \in 1..last =>
                   \A m \in S \cap s.batches[i + 1] : \E c : IsChain(c) /\ c[1] = m /\ Len(c) = i + 1}
<1>1. last \in Nat /\ \A a \in 1..last : s.batches[a] \subseteq Nodes
  BY DEF BatchesOK, RoundStates
<1> HIDE DEF last
<1>2. 0 \in K
  <2>1. ASSUME 1 \in 1..last, NEW m \in S \cap s.batches[1]
        PROVE  \E c : IsChain(c) /\ c[1] = m /\ Len(c) = 1
    <3>1. m \in Nodes
      BY <1>1, <2>1
    <3>2. <<m>> \in Seq(Nodes) /\ Len(<<m>>) = 1 /\ <<m>>[1] = m
      BY <3>1
    <3>3. IsChain(<<m>>)
      BY <3>2 DEF IsChain
    <3> QED
      BY <3>2, <3>3
  <2>2. 0 + 1 = 1
    OBVIOUS
  <2> QED
    BY <2>1, <2>2
<1>3. ASSUME NEW i \in Nat, i \in K
      PROVE  i + 1 \in K
  <2> SUFFICES ASSUME (i + 1) + 1 \in 1..last, NEW m \in S \cap s.batches[(i + 1) + 1]
               PROVE  \E c : IsChain(c) /\ c[1] = m /\ Len(c) = (i + 1) + 1
    OBVIOUS
  <2> DEFINE j == (i + 1) + 1
  <2>1. i + 1 \in 1..last /\ m \in Nodes
    BY <1>1
  <2>2. PICK d \in dependsOn[m] : d \in S \cap s.batches[i + 1]
    <3>1. j \in 1..last /\ j > 1 /\ j - 1 = i + 1 /\ j - 2 = i
      OBVIOUS
    <3>2. dependsOn[m] \subseteq Upto(s, j - 1) /\ ~(dependsOn[m] \subseteq Upto(s, j - 2))
      <4> HIDE DEF j
      <4> QED
        BY <3>1 DEF BatchesOK, last, j
    <3>3. dependsOn[m] \subseteq Upto(s, i + 1) /\ ~(dependsOn[m] \subseteq Upto(s, i))
      <4> HIDE DEF j
      <4> QED
        BY <3>1, <3>2
    <3>4. \A a : a \in 1..(i + 1) => a \in 1..i \/ a = i + 1
      OBVIOUS
    <3>5. Upto(s, i + 1) \subseteq Upto(s, i) \cup s.batches[i + 1]
      BY <3>4 DEF Upto
    <3>6. PICK d \in dependsOn[m] : d \in s.batches[i + 1]
      BY <3>3, <3>5
    <3>7. d \in S
      BY <1>1, <2>1, <3>6 DEF Kept, ListedOnce
    <3> QED
      BY <3>6, <3>7
  <2>3. PICK e : IsChain(e) /\ e[1] = d /\ Len(e) = i + 1
    BY <1>3, <2>1, <2>2
  <2> DEFINE c == <<m>> \o e
  <2>4. <<m>> \in Seq(Nodes) /\ Len(<<m>>) = 1 /\ <<m>>[1] = m /\ e \in Seq(Nodes)
    BY <2>1, <2>3 DEF IsChain
  <2>5. /\ c \in Seq(Nodes) /\ Len(c) = 1 + (i + 1)
        /\ \A k \in 1..(1 + (i + 1)) : c[k] = IF k <= 1 THEN <<m>>[k] ELSE e[k - 1]
    <3>1. /\ c \in Seq(Nodes) /\ Len(c) = Len(<<m>>) + Len(e)
          /\ \A k \in 1..(Len(<<m>>) + Len(e)) :
               c[k] = IF k <= Len(<<m>>) THEN <<m>>[k] ELSE e[k - Len(<<m>>)]
      BY <2>4, ConcatProperties
    <3> HIDE DEF c
    <3> QED
      BY <2>3, <2>4, <3>1
  <2> HIDE DEF c
  <2>6. 1 + (i + 1) = (i + 1) + 1 /\ 1 \in 1..(1 + (i + 1)) /\ (i + 1) + 1 \in Nat \ {0}
        /\ ((i + 1) + 1) - 1 = i + 1
    OBVIOUS
  <2>7. c[1] = m
    BY <2>4, <2>5, <2>6
  <2>8. ASSUME NEW k \in 1..(i + 1)
        PROVE  c[k + 1] \in dependsOn[c[k]]
    <3>1. k + 1 \in 1..(1 + (i + 1)) /\ k \in 1..(1 + (i + 1)) /\ ~(k + 1 <= 1)
          /\ (k + 1) - 1 = k
      OBVIOUS
    <3>2. c[k + 1] = e[k]
      BY <2>5, <3>1
    <3>3. CASE k = 1
      BY <2>2, <2>3, <2>7, <3>2, <3>3
    <3>4. CASE k # 1
      <4>1. ~(k <= 1) /\ k - 1 \in 1..((i + 1) - 1) /\ (k - 1) + 1 = k
        BY <3>4
      <4>2. c[k] = e[k - 1]
        BY <2>5, <3>1, <4>1
      <4>3. e[(k - 1) + 1] \in dependsOn[e[k - 1]]
        BY <2>3, <4>1 DEF IsChain
      <4> QED
        BY <3>2, <4>1, <4>2, <4>3
    <3> QED
      BY <3>3, <3>4
  <2>9. IsChain(c)
    BY <2>5, <2>6, <2>8 DEF IsChain
  <2> QED
    BY <2>5, <2>6, <2>7, <2>9
<1>4. \A i \in Nat : i \in K
  <2> HIDE DEF K
  <2> QED
    BY <1>2, <1>3, NatSetInduction
<1>5. b - 1 \in Nat /\ (b - 1) + 1 = b /\ b \in 1..last
  BY <1>1 DEF last
<1> QED
  BY <1>4, <1>5

\* An intact task that is left over when no task is ready can never run.
LEMMA LeftOverIsStuck ==
  ASSUME dependsOn \in DependencyGraphs, NEW S, Kept(S), NEW s, BatchesOK(S, s),
         Ready(s) = {}, NEW n \in S \cap DOMAIN s.inDegree
  PROVE  ~Schedulable(n)
<1> DEFINE D == S \cap DOMAIN s.inDegree
           L == DOMAIN s.inDegree
           K == {i \in Nat : i <= MaxNodes =>
                   \E c : /\ IsChain(c) /\ c[1] = n /\ Len(c) = i + 1 /\ c[i + 1] \in D}
<1> SUFFICES ASSUME Schedulable(n)
             PROVE  FALSE
  OBVIOUS
<1>1. MaxNodes \in Nat /\ D \subseteq Nodes /\ Upto(s, Len(s.batches)) = Nodes \ L
  BY GraphAssumption DEF BatchesOK, RoundStates
<1> HIDE DEF D
<1>2. \A c : IsChain(c) /\ c[1] = n /\ Len(c) <= MaxNodes + 1 =>
        Len(c) <= MaxNodes /\ Missing \notin dependsOn[c[Len(c)]]
  BY ChainsAre DEF Schedulable, Last
<1>3. ASSUME NEW m \in D
      PROVE  \E d \in dependsOn[m] : d \in D \/ d = Missing
  <2>1. s.inDegree[m] # 0 /\ s.inDegree[m] = Cardinality(dependsOn[m] \ (Nodes \ L))
    BY <1>1, <1>3 DEF Ready, BatchesOK, D
  <2>2. PICK d \in dependsOn[m] : d \notin Nodes \ L
    <3>1. dependsOn[m] \ (Nodes \ L) # {}
      BY <2>1, FS_EmptySet
    <3> QED
      BY <3>1
  <2>3. dependsOn[m] \subseteq Nodes \cup {Missing}
    BY <1>1, <1>3 DEF DependencyGraphs
  <2>4. d \in Nodes => d \in S
    BY <1>3, <2>2 DEF Kept, ListedOnce, D
  <2> QED
    BY <2>2, <2>3, <2>4 DEF D
<1>4. 0 \in K
  <2>1. n \in D /\ n \in Nodes
    BY <1>1 DEF D
  <2>2. <<n>> \in Seq(Nodes) /\ Len(<<n>>) = 1 /\ <<n>>[1] = n
    BY <2>1
  <2>3. IsChain(<<n>>)
    BY <2>2 DEF IsChain
  <2> QED
    BY <2>1, <2>2, <2>3
<1>5. ASSUME NEW i \in Nat, i \in K
      PROVE  i + 1 \in K
  <2> SUFFICES ASSUME i + 1 <= MaxNodes
               PROVE  \E c : /\ IsChain(c) /\ c[1] = n /\ Len(c) = (i + 1) + 1
                             /\ c[(i + 1) + 1] \in D
    OBVIOUS
  <2>1. i <= MaxNodes /\ i + 1 <= MaxNodes + 1 /\ i + 1 \in Nat \ {0}
    BY <1>1
  <2>2. PICK c : IsChain(c) /\ c[1] = n /\ Len(c) = i + 1 /\ c[i + 1] \in D
    BY <1>5, <2>1
  <2>3. PICK d \in dependsOn[c[i + 1]] : d \in D \/ d = Missing
    BY <1>3, <2>2
  <2>4. d \in D /\ d \in Nodes
    BY <1>1, <1>2, <2>1, <2>2, <2>3
  <2> DEFINE e == Append(c, d)
  <2>5. c \in Seq(Nodes) /\ \A k \in 1..((i + 1) - 1) : c[k + 1] \in dependsOn[c[k]]
    BY <2>2 DEF IsChain
  <2>6. /\ e \in Seq(Nodes) /\ Len(e) = (i + 1) + 1 /\ e[(i + 1) + 1] = d
        /\ \A k \in 1..(i + 1) : e[k] = c[k]
    BY <2>2, <2>4, <2>5
  <2> HIDE DEF e
  <2>7. ASSUME NEW k \in 1..(i + 1)
        PROVE  e[k + 1] \in dependsOn[e[k]]
    <3>1. CASE k = i + 1
      BY <2>3, <2>6, <3>1
    <3>2. CASE k # i + 1
      <4>1. k \in 1..((i + 1) - 1) /\ k + 1 \in 1..(i + 1)
        BY <3>2
      <4> QED
        BY <2>5, <2>6, <4>1
    <3> QED
      BY <3>1, <3>2
  <2>8. ((i + 1) + 1) - 1 = i + 1 /\ (i + 1) + 1 \in Nat \ {0} /\ 1 \in 1..(i + 1)
    OBVIOUS
  <2>9. IsChain(e) /\ e[1] = n
    BY <2>2, <2>6, <2>7, <2>8 DEF IsChain
  <2> QED
    BY <2>4, <2>6, <2>9
<1>6. \A i \in Nat : i \in K
  <2> HIDE DEF K
  <2> QED
    BY <1>4, <1>5, NatSetInduction
<1>7. PICK c : IsChain(c) /\ c[1] = n /\ Len(c) = MaxNodes + 1
  BY <1>1, <1>6
<1> QED
  BY <1>1, <1>2, <1>7

\* No task is in two batches.
LEMMA OneBatch ==
  ASSUME NEW S, NEW s, BatchesOK(S, s), NEW n, NEW a \in 1..Len(s.batches),
         NEW b \in 1..Len(s.batches), n \in s.batches[a], n \in s.batches[b]
  PROVE  a = b
<1>1. Len(s.batches) \in Nat
  BY DEF BatchesOK, RoundStates
<1>2. ASSUME NEW x \in 1..Len(s.batches), NEW y \in 1..Len(s.batches),
             n \in s.batches[x], n \in s.batches[y], x < y
      PROVE  FALSE
  <2>1. x \in 1..(y - 1)
    BY <1>1, <1>2
  <2>2. n \in Upto(s, y - 1)
    BY <1>2, <2>1 DEF Upto
  <2> QED
    BY <1>2, <2>2 DEF BatchesOK
<1>3. a < b \/ b < a \/ a = b
  BY <1>1
<1> QED
  BY <1>2, <1>3

\* ExecutionBatches puts an intact task in the batch that its longest chain says,
\* and leaves it out if it can never run.
LEMMA IntactPlaced ==
  ASSUME dependsOn \in DependencyGraphs, NEW S, Kept(S), NEW s, BatchesOK(S, s),
         Ready(s) = {}, Len(s.batches) <= MaxNodes, NEW n \in S
  PROVE  {b \in DOMAIN s.batches : n \in s.batches[b]} =
           IF Schedulable(n) THEN {Max({Len(c) : c \in Chains(n)})} ELSE {}
<1> DEFINE last == Len(s.batches)
           B == {b \in DOMAIN s.batches : n \in s.batches[b]}
<1>1. last \in Nat /\ last <= MaxNodes /\ MaxNodes \in Nat /\ DOMAIN s.batches = 1..last
  BY GraphAssumption DEF BatchesOK, RoundStates
<1>2. Upto(s, last) = Nodes \ DOMAIN s.inDegree
  BY DEF BatchesOK
<1>3. CASE n \in DOMAIN s.inDegree
  <2>1. ~Schedulable(n)
    BY <1>3, LeftOverIsStuck
  <2>2. B = {}
    BY <1>1, <1>2, <1>3 DEF Upto
  <2> QED
    BY <2>1, <2>2
<1>4. CASE n \notin DOMAIN s.inDegree
  <2>1. PICK b \in 1..last : n \in s.batches[b]
    BY <1>2, <1>4 DEF Upto, Kept
  <2>2. \A c \in Chains(n) : Len(c) <= b /\ Len(c) \in Nat /\ Missing \notin dependsOn[c[Len(c)]]
    <3>1. \A c \in Chains(n) : IsChain(c) /\ c[1] \in S \cap s.batches[b]
      BY <2>1, ChainsAre
    <3> QED
      BY <2>1, <3>1, ChainsAreShort DEF IsChain
  <2>3. PICK c \in Chains(n) : Len(c) = b
    <3>1. PICK c : IsChain(c) /\ c[1] = n /\ Len(c) = b
      BY <2>1, ChainAsLong
    <3>2. b <= MaxNodes + 1
      BY <1>1
    <3> QED
      BY <3>1, <3>2, ChainsAre
  <2>4. Schedulable(n)
    <3>1. \A e \in Chains(n) : Len(e) <= MaxNodes
      BY <1>1, <2>2
    <3> QED
      BY <2>2, <3>1 DEF Schedulable, Last
  <2>5. Max({Len(e) : e \in Chains(n)}) = b
    <3> DEFINE L == {Len(e) : e \in Chains(n)}
    <3>1. b \in L /\ \A x \in L : b >= x /\ x \in Nat
      <4>1. b \in L
        BY <2>3
      <4>2. \A x \in L : b >= x /\ x \in Nat
        BY <1>1, <2>2
      <4> QED
        BY <4>1, <4>2
    <3> HIDE DEF L
    <3>2. Max(L) \in L /\ \A x \in L : Max(L) >= x
      BY <3>1 DEF Max
    <3>3. Max(L) = b
      <4>1. Max(L) \in Nat /\ b >= Max(L) /\ b \in Nat /\ Max(L) >= b
        BY <3>1, <3>2
      <4> QED
        BY <4>1
    <3> QED
      BY <3>3 DEF L
  <2>6. \A a \in 1..last : n \in s.batches[a] => a = b
    BY <2>1, OneBatch
  <2>7. B = {b}
    BY <1>1, <2>1, <2>6
  <2> QED
    BY <2>4, <2>5, <2>7
<1> QED
  BY <1>3, <1>4

\* ExecutionBatches places each task once, and the intact ones as it should.
LEMMA BatchesCorrect ==
  ASSUME dependsOn \in DependencyGraphs, EdgesListed, batches = ExecutionBatches(dependsOn, reverse)
  PROVE  BatchesAreLevels
<1> SUFFICES ASSUME NEW n \in Nodes
             PROVE  LET places == {b \in DOMAIN batches : n \in batches[b]}
                    IN  /\ \A a, b \in places : a = b
                        /\ Intact(n) =>
                             places = IF Schedulable(n)
                                      THEN {Max({Len(c) : c \in Chains(n)})} ELSE {}
  BY DEF BatchesAreLevels
<1> DEFINE places == {b \in DOMAIN batches : n \in batches[b]}
<1>1. \A a, b \in places : a = b
  <2>1. Kept({})
    BY DEF Kept, ListedOnce
  <2>2. PICK s : BatchesOK({}, s) /\ batches = s.batches
    BY <2>1, RoundsEnd
  <2>3. DOMAIN s.batches = 1..Len(s.batches)
    BY <2>2 DEF BatchesOK, RoundStates
  <2> QED
    BY <2>2, <2>3, OneBatch
<1>2. ASSUME Intact(n)
      PROVE  places = IF Schedulable(n) THEN {Max({Len(c) : c \in Chains(n)})} ELSE {}
  <2>1. PICK S : Kept(S) /\ n \in S
    BY <1>2 DEF Intact, Kept
  <2>2. PICK s : /\ BatchesOK(S, s) /\ Ready(s) = {} /\ Len(s.batches) <= MaxNodes
                 /\ batches = s.batches
    BY <2>1, RoundsEnd
  <2> QED
    BY <2>1, <2>2, IntactPlaced
<1> QED
  BY <1>1, <1>2

-----------------------------------------------------------------------------
(* TopologicalOrder: its recursion.                                        *)

\* What a task depends on.  Missing has no task in the graph.
DepsOf(id) == IF id \in Nodes THEN dependsOn[id] ELSE {}

\* A way round: tasks each of which depends on one of them.
Loop(S) == S # {} /\ S \subseteq Nodes /\ \A n \in S : dependsOn[n] \cap S # {}
HasLoop == \E S : Loop(S)

\* SetToSeq lists a finite set: all of it and nothing else.
LEMMA SetListed ==
  ASSUME NEW S, IsFiniteSet(S)
  PROVE  /\ SetToSeq(S) \in Seq(S) /\ DOMAIN SetToSeq(S) = 1..Len(SetToSeq(S))
         /\ \A x : x \in S <=> \E i \in 1..Len(SetToSeq(S)) : SetToSeq(S)[i] = x
<1> DEFINE n == Cardinality(S)
           f == SetToSeq(S)
<1>1. n \in Nat /\ ExistsBijection(1..n, S)
  BY FS_CardinalityType
<1>2. \E g \in [1..n -> S] : IsInjective(g)
  <2> HIDE DEF n
  <2> QED
    BY <1>1 DEF ExistsBijection, Bijection, Injection
<1>3. f \in [1..n -> S] /\ IsInjective(f)
  BY <1>2 DEF SetToSeq
<1> HIDE DEF f
<1>4. f \in Seq(S) /\ Len(f) = n /\ DOMAIN f = 1..n
  <2> HIDE DEF n
  <2>1. f \in Seq(S)
    BY <1>1, <1>3, SeqDef
  <2>2. Len(f) \in Nat /\ 1..Len(f) = 1..n
    BY <1>3, <2>1, LenProperties
  <2>3. Len(f) = n
    BY <1>1, <2>2
  <2> QED
    BY <1>3, <2>1, <2>3
<1>5. f \in Surjection(1..n, S)
  <2>1. f \in Injection(1..n, S)
    BY <1>3 DEF Injection
  <2>2. Cardinality(1..n) = n
    <3>1. Cardinality(1..n) = IF 1 > n THEN 0 ELSE n - 1 + 1
      BY <1>1, FS_Interval
    <3> HIDE DEF n
    <3> QED
      BY <1>1, <3>1
  <2> QED
    BY <2>1, <2>2, FS_Injection
<1>6. \A x : x \in S <=> \E i \in 1..n : f[i] = x
  <2> HIDE DEF n
  <2> QED
    BY <1>3, <1>5 DEF Surjection
<1> QED
  BY <1>4, <1>6 DEF f

\* So visit's loop goes over what the task depends on.
LEMMA DependenciesListed ==
  ASSUME dependsOn \in DependencyGraphs, NEW id
  PROVE  /\ Dependencies(dependsOn, id) \in Seq(Ids)
         /\ \A x : x \in DepsOf(id) <=>
              \E i \in 1..Len(Dependencies(dependsOn, id)) : Dependencies(dependsOn, id)[i] = x
<1>1. DepsOf(id) \in SUBSET Ids
  BY DEF DepsOf, DependencyGraphs, Ids
<1>2. IsFiniteSet(DepsOf(id))
  BY <1>1, NodesAreFinite DEF Ids
<1>3. Dependencies(dependsOn, id) = SetToSeq(DepsOf(id))
  BY DEF Dependencies, DepsOf
<1>4. \A q \in Seq(DepsOf(id)) : q \in Seq(Ids)
  BY <1>1
<1> QED
  BY <1>2, <1>3, <1>4, SetListed

\* The searches after each of the calls that VisitEach makes.
Walked(visit, ids, s, after) ==
  /\ after[0] = s
  /\ \A i \in 1..Len(ids) : after[i] = visit[<<ids[i], after[i - 1]>>]
  /\ \A i \in 0..Len(ids) : after[i] \in Searches
  /\ VisitEach(visit, ids, s) = after[Len(ids)]

\* VisitEach makes the calls one after the other.
LEMMA VisitEachIs ==
  ASSUME NEW visit \in [Ids \X Searches -> Searches], NEW ids \in Seq(Ids), NEW s \in Searches
  PROVE  \E after : Walked(visit, ids, s, after)
<1> DEFINE n == Len(ids)
           step == [p \in Nat \X Searches |->
                      IF p[1] \in 1..n THEN visit[<<ids[p[1]], p[2]>>] ELSE p[2]]
           Is(after) == after = [i \in 0..n |-> IF i = 0 THEN s ELSE visit[<<ids[i], after[i - 1]>>]]
<1>1. n \in Nat /\ \A i \in 1..n : ids[i] \in Ids
  BY ElementOfSeq
<1> HIDE DEF n
<1>2. step \in [Nat \X Searches -> Searches]
  BY <1>1
<1>3. PICK g \in [0..n -> Searches] : Recurs(s, step, n, g)
  <2> HIDE DEF step
  <2> QED
    BY <1>1, <1>2, NatRecursion
<1>4. ASSUME NEW i \in 1..n
      PROVE  g[i] = visit[<<ids[i], g[i - 1]>>]
  <2>1. g[i] = step[<<i, g[i - 1]>>]
    <3> HIDE DEF step
    <3> QED
      BY <1>3 DEF Recurs
  <2>2. i \in Nat /\ i - 1 \in 0..n
    BY <1>1
  <2>3. <<i, g[i - 1]>> \in Nat \X Searches
    BY <1>3, <2>2
  <2> QED
    BY <2>1, <2>3
<1>5. Is(g)
  <2>1. g[0] = s
    BY <1>3 DEF Recurs
  <2>2. \A i \in 0..n : i = 0 \/ i \in 1..n
    BY <1>1
  <2>3. \A i \in 0..n : g[i] = IF i = 0 THEN s ELSE visit[<<ids[i], g[i - 1]>>]
    BY <1>4, <2>1, <2>2
  <2> QED
    BY <1>3, <2>3
<1> DEFINE it == CHOOSE after : Is(after)
<1>6. Is(it)
  <2> HIDE DEF Is
  <2> QED
    BY <1>5
<1>7. VisitEach(visit, ids, s) = it[n]
  BY DEF VisitEach, n
<1> HIDE DEF it
<1>8. \A i \in 0..n : it[i] = IF i = 0 THEN s ELSE visit[<<ids[i], it[i - 1]>>]
  BY <1>6
<1>9. 0 \in 0..n /\ \A i \in 1..n : i \in 0..n /\ i # 0
  BY <1>1
<1>10. it[0] = s /\ \A i \in 1..n : it[i] = visit[<<ids[i], it[i - 1]>>]
  BY <1>8, <1>9
<1> DEFINE S == {i \in Nat : i \in 0..n => it[i] \in Searches}
<1>11. 0 \in S
  BY <1>10
<1>12. ASSUME NEW i \in Nat, i \in S
       PROVE  i + 1 \in S
  <2> SUFFICES ASSUME i + 1 \in 0..n
               PROVE  it[i + 1] \in Searches
    OBVIOUS
  <2>1. i \in 0..n /\ i + 1 \in 1..n /\ (i + 1) - 1 = i
    BY <1>1
  <2>2. it[i] \in Searches /\ ids[i + 1] \in Ids
    BY <1>1, <1>12, <2>1
  <2>3. it[i + 1] = visit[<<ids[i + 1], it[i]>>]
    BY <1>10, <2>1
  <2> QED
    BY <2>2, <2>3
<1>13. \A i \in Nat : i \in S
  <2> HIDE DEF S
  <2> QED
    BY <1>11, <1>12, NatSetInduction
<1> HIDE DEF Is
<1> QED
  BY <1>7, <1>10, <1>13 DEF n, Walked

\* A call of visit keeps the types of visited, temp and result.
LEMMA VisitTyped ==
  ASSUME dependsOn \in DependencyGraphs, NEW deeper \in [Ids \X Searches -> Searches],
         NEW id \in Ids, NEW s \in Searches
  PROVE  Visit(dependsOn, deeper, id, s) \in Searches
<1> DEFINE into == [s EXCEPT !.temp = @ \cup {id}]
           t == VisitEach(deeper, Dependencies(dependsOn, id), into)
           out == [t EXCEPT !.temp = @ \ {id}, !.visited = @ \cup {id}, !.result = Append(@, id)]
<1>1. into \in Searches /\ [s EXCEPT !.cyclic = TRUE] \in Searches
  BY DEF Searches
<1>2. t \in Searches
  <2>1. Dependencies(dependsOn, id) \in Seq(Ids)
    BY DependenciesListed
  <2>2. Len(Dependencies(dependsOn, id)) \in 0..Len(Dependencies(dependsOn, id))
    BY <2>1
  <2> DEFINE ids == Dependencies(dependsOn, id)
  <2> HIDE DEF into, ids
  <2>3. PICK after : Walked(deeper, ids, into, after)
    <3>1. into \in Searches /\ ids \in Seq(Ids)
      BY <1>1, <2>1 DEF ids
    <3> HIDE DEF t, out
    <3> QED
      BY <3>1, VisitEachIs
  <2> QED
    BY <2>2, <2>3 DEF ids, Walked
<1>3. out \in Searches
  <2> HIDE DEF t
  <2>1. /\ t.visited \in SUBSET Ids /\ t.temp \in SUBSET Ids /\ t.cyclic \in BOOLEAN
        /\ t.result \in Seq(Ids)
    BY <1>2 DEF Searches
  <2>2. Append(t.result, id) \in Seq(Ids)
    BY <2>1
  <2> DEFINE r == Append(t.result, id)
  <2>3. out = [visited |-> t.visited \cup {id}, temp |-> t.temp \ {id}, cyclic |-> t.cyclic,
               result |-> r]
    <3> HIDE DEF r
    <3>1. out = [t EXCEPT !.temp = @ \ {id}, !.visited = @ \cup {id}, !.result = r]
      BY DEF r
    <3> HIDE DEF out
    <3>2. t = [visited |-> t.visited, temp |-> t.temp, cyclic |-> t.cyclic, result |-> t.result]
      BY <1>2 DEF Searches
    <3> QED
      BY <3>1, <3>2
  <2> HIDE DEF out
  <2> QED
    BY <2>1, <2>2, <2>3 DEF Searches
<1> QED
  BY <1>1, <1>2, <1>3 DEF Visit

\* NestedVisits lets the calls nest one deeper from one function to the next.
LEMMA NestedVisitsAre ==
  ASSUME dependsOn \in DependencyGraphs
  PROVE  \E visits : /\ visits \in [Nat -> [Ids \X Searches -> Searches]]
                     /\ \A id \in Ids, s \in Searches : visits[0][<<id, s>>] = s
                     /\ \A k \in Nat : \A id \in Ids, s \in Searches :
                          visits[k + 1][<<id, s>>] = Visit(dependsOn, visits[k], id, s)
                     /\ NestedVisits(dependsOn) = visits[MaxNodes + 2]
<1> DEFINE Calls == Ids \X Searches
           Functions == [Calls -> Searches]
           a == [c \in Calls |-> c[2]]
           next(v) == [c \in Calls |-> Visit(dependsOn, v, c[1], c[2])]
           step == [p \in Nat \X Functions |-> next(p[2])]
           Is(visits) == visits = [k \in Nat |-> [c \in Calls |->
                            IF k = 0 THEN c[2] ELSE Visit(dependsOn, visits[k - 1], c[1], c[2])]]
<1>1. a \in Functions
  OBVIOUS
<1>2. ASSUME NEW v \in Functions
      PROVE  next(v) \in Functions
  <2>1. \A c \in Calls : c[1] \in Ids /\ c[2] \in Searches
    OBVIOUS
  <2>2. \A c \in Calls : Visit(dependsOn, v, c[1], c[2]) \in Searches
    BY <2>1, VisitTyped
  <2> HIDE DEF Calls
  <2> QED
    BY <2>2
<1>3. step \in [Nat \X Functions -> Functions]
  <2> HIDE DEF next, Functions
  <2> QED
    BY <1>2
<1>4. PICK g \in [Nat -> Functions] : RecursAlways(a, step, g)
  <2> HIDE DEF step, a, Functions
  <2> QED
    BY <1>1, <1>3, NatRecursionAlways
<1>5. ASSUME NEW k \in Nat
      PROVE  g[k + 1] = next(g[k])
  <2>1. g[k + 1] = step[<<k + 1, g[k]>>]
    <3> HIDE DEF step
    <3> QED
      BY <1>4 DEF RecursAlways
  <2>2. <<k + 1, g[k]>> \in Nat \X Functions
    <3> HIDE DEF Functions
    <3> QED
      BY <1>4
  <2> HIDE DEF next, Functions
  <2> QED
    BY <2>1, <2>2
<1>6. Is(g)
  <2>1. ASSUME NEW k \in Nat
        PROVE  g[k] = [c \in Calls |->
                         IF k = 0 THEN c[2] ELSE Visit(dependsOn, g[k - 1], c[1], c[2])]
    <3>1. CASE k = 0
      BY <1>4, <3>1 DEF RecursAlways
    <3>2. CASE k # 0
      <4>1. k - 1 \in Nat /\ (k - 1) + 1 = k
        BY <3>2
      <4>2. g[(k - 1) + 1] = next(g[k - 1])
        <5> HIDE DEF next
        <5> QED
          BY <1>5, <4>1
      <4>3. g[k] = next(g[k - 1])
        <5> HIDE DEF next
        <5> QED
          BY <4>1, <4>2
      <4> HIDE DEF Calls
      <4> QED
        BY <3>2, <4>3
    <3> QED
      BY <3>1, <3>2
  <2>2. DOMAIN g = Nat /\ g = [k \in Nat |-> g[k]]
    <3> HIDE DEF Functions
    <3> QED
      BY <1>4
  <2> HIDE DEF Calls
  <2> QED
    BY <2>1, <2>2
<1> DEFINE it == CHOOSE visits : Is(visits)
<1>7. Is(it)
  <2> HIDE DEF Is
  <2> QED
    BY <1>6
<1>8. NestedVisits(dependsOn) = it[MaxNodes + 2]
  BY DEF NestedVisits
<1> HIDE DEF it
<1>9. \A k \in Nat : it[k] = [c \in Calls |->
                         IF k = 0 THEN c[2] ELSE Visit(dependsOn, it[k - 1], c[1], c[2])]
  <2> HIDE DEF Calls
  <2> QED
    BY <1>7
<1> HIDE DEF Is
<1>10. \A id \in Ids, s \in Searches : <<id, s>> \in Calls /\ <<id, s>>[1] = id /\ <<id, s>>[2] = s
  OBVIOUS
<1>11. \A id \in Ids, s \in Searches : it[0][<<id, s>>] = s
  <2>1. it[0] = [c \in Calls |-> c[2]]
    <3> HIDE DEF Calls
    <3>1. 0 \in Nat
      OBVIOUS
    <3> QED
      BY <1>9, <3>1
  <2> HIDE DEF Calls
  <2> QED
    BY <1>10, <2>1
<1>12. ASSUME NEW k \in Nat
       PROVE  it[k + 1] = next(it[k])
  <2>1. k + 1 \in Nat /\ k + 1 # 0 /\ (k + 1) - 1 = k
    OBVIOUS
  <2>2. it[k + 1] = [c \in Calls |->
               IF k + 1 = 0 THEN c[2] ELSE Visit(dependsOn, it[(k + 1) - 1], c[1], c[2])]
    <3> HIDE DEF Calls
    <3> QED
      BY <1>9, <2>1
  <2> HIDE DEF Calls
  <2> QED
    BY <2>1, <2>2
<1>13. ASSUME NEW k \in Nat, NEW id \in Ids, NEW s \in Searches
       PROVE  it[k + 1][<<id, s>>] = Visit(dependsOn, it[k], id, s)
  <2>1. it[k + 1] = next(it[k])
    <3> HIDE DEF next
    <3> QED
      BY <1>12
  <2>2. <<id, s>> \in Calls /\ <<id, s>>[1] = id /\ <<id, s>>[2] = s
    OBVIOUS
  <2> HIDE DEF Calls
  <2> QED
    BY <2>1, <2>2
<1>14. it \in [Nat -> Functions]
  <2> DEFINE S == {k \in Nat : it[k] \in Functions}
  <2>1. 0 \in S
    <3>1. it[0] = a
      <4> HIDE DEF Calls
      <4>1. 0 \in Nat
        OBVIOUS
      <4> QED
        BY <1>9, <4>1
    <3> HIDE DEF Functions, a
    <3> QED
      BY <1>1, <3>1
  <2>2. ASSUME NEW k \in Nat, k \in S
        PROVE  k + 1 \in S
    <3> HIDE DEF Functions, next
    <3> QED
      BY <1>2, <1>12, <2>2
  <2>3. \A k \in Nat : k \in S
    <3> HIDE DEF S
    <3> QED
      BY <2>1, <2>2, NatSetInduction
  <2>4. \A k \in Nat : it[k] \in Functions
    <3> HIDE DEF Functions
    <3> QED
      BY <2>3
  <2>5. it = [k \in Nat |-> it[k]]
    BY <1>7 DEF Is
  <2> HIDE DEF Functions, S
  <2> QED
    BY <2>4, <2>5
<1> HIDE DEF next, step, a
<1> QED
  BY <1>8, <1>11, <1>13, <1>14

-----------------------------------------------------------------------------
(* What a call of visit promises.                                          *)

\* Each of a list comes after all it depends on.
Ordered(q) == \A i \in 1..Len(q) : DepsOf(q[i]) \subseteq {q[j] : j \in 1..(i - 1)}

\* The tasks listed are those visited, each once and after all it depends on.
Listed(s) ==
  /\ s.visited \cap s.temp = {} /\ Range(s.result) = s.visited /\ IsInjective(s.result)
  /\ Ordered(s.result)

\* The invariant of the search: it gave up at a loop, or what it listed is in order.
Sound(s) == s \in Searches /\ IF s.cyclic THEN HasLoop ELSE Listed(s)

\* Each call that is not over was entered for a dependency of the one before, the
\* last of them for id.
Open(s, id) == \A u \in s.temp : DepsOf(u) \cap (s.temp \cup {id}) # {}

\* From s to t the search gave up, or it visited S and went back to where it was.
Visited(S, s, t) ==
  /\ Sound(t) /\ (s.cyclic => t.cyclic)
  /\ t.cyclic \/ (t.temp = s.temp /\ S \subseteq t.visited /\ s.visited \subseteq t.visited)

\* What a call of visit does when k more of them can be nested.
Contract(visit, k) ==
  /\ visit \in [Ids \X Searches -> Searches]
  /\ \A id \in Ids, s \in Searches :
       Sound(s) /\ (s.cyclic \/ (Open(s, id) /\ k + Cardinality(s.temp) >= MaxNodes + 2))
         => Visited({id}, s, visit[<<id, s>>])

\* No more calls are open than there are ids.
LEMMA TempIsFinite ==
  ASSUME NEW s \in Searches
  PROVE  /\ IsFiniteSet(s.temp) /\ Cardinality(s.temp) \in Nat /\ Cardinality(s.temp) <= MaxNodes + 1
         /\ \A id : id \notin s.temp => Cardinality(s.temp \cup {id}) = Cardinality(s.temp) + 1
<1>1. s.temp \in SUBSET Ids
  BY DEF Searches
<1>2. IsFiniteSet(Ids) /\ Cardinality(Ids) = MaxNodes + 1
  <2>1. Missing \notin Nodes
    BY GraphAssumption
  <2> QED
    BY <2>1, NodesAreFinite, FS_AddElement DEF Ids
<1>3. IsFiniteSet(s.temp) /\ Cardinality(s.temp) \in Nat
  BY <1>1, NodesAreFinite DEF Ids
<1> QED
  BY <1>1, <1>2, <1>3, FS_Subset, FS_AddElement

\* A loop of calls that do what they should visits all of its list.
LEMMA EachVisited ==
  ASSUME NEW k \in Nat, NEW visit, Contract(visit, k), NEW ids \in Seq(Ids), NEW s,
         Sound(s), ~s.cyclic, k + Cardinality(s.temp) >= MaxNodes + 2,
         \A i \in 1..Len(ids) : Open(s, ids[i])
  PROVE  Visited({ids[i] : i \in 1..Len(ids)}, s, VisitEach(visit, ids, s))
<1> DEFINE n == Len(ids)
           done(i) == {ids[j] : j \in 1..i}
<1>1. s \in Searches /\ visit \in [Ids \X Searches -> Searches]
  BY DEF Sound, Contract
<1>2. PICK after : Walked(visit, ids, s, after)
  BY <1>1, VisitEachIs
<1>3. n \in Nat /\ \A i \in 1..n : ids[i] \in Ids
  BY ElementOfSeq
<1>4. /\ after[0] = s /\ \A i \in 1..n : after[i] = visit[<<ids[i], after[i - 1]>>]
      /\ \A i \in 0..n : after[i] \in Searches
      /\ VisitEach(visit, ids, s) = after[n]
  BY <1>2 DEF Walked
<1> HIDE DEF n
<1> DEFINE S == {i \in Nat : i \in 0..n => Visited(done(i), s, after[i])}
<1>5. 0 \in S
  <2>1. done(0) = {}
    OBVIOUS
  <2> HIDE DEF done
  <2> QED
    BY <1>4, <2>1 DEF Visited
<1>6. ASSUME NEW i \in Nat, i \in S
      PROVE  i + 1 \in S
  <2> SUFFICES ASSUME i + 1 \in 0..n
               PROVE  Visited(done(i + 1), s, after[i + 1])
    OBVIOUS
  <2> DEFINE r == after[i]
             t == after[i + 1]
             id == ids[i + 1]
  <2>1. i \in 0..n /\ i + 1 \in 1..n /\ (i + 1) - 1 = i
    BY <1>3
  <2>2. Visited(done(i), s, r)
    <3> HIDE DEF done, r
    <3> QED
      BY <1>6, <2>1 DEF r
  <2>3. t = visit[<<id, r>>] /\ id \in Ids /\ r \in Searches /\ Open(s, id)
    BY <1>3, <1>4, <2>1 DEF n
  <2>4. done(i + 1) = done(i) \cup {id}
    <3>1. \A j : j \in 1..(i + 1) <=> j \in 1..i \/ j = i + 1
      OBVIOUS
    <3> QED
      BY <3>1
  <2> HIDE DEF done, r, t, id
  <2>5. Sound(r) /\ (r.cyclic \/ (Open(r, id) /\ k + Cardinality(r.temp) >= MaxNodes + 2))
    BY <2>2, <2>3 DEF Visited, Open
  <2>6. Visited({id}, r, t)
    BY <2>3, <2>5 DEF Contract
  <2>7. CASE t.cyclic
    BY <2>6, <2>7 DEF Visited, t
  <2>8. ~t.cyclic => ~r.cyclic
    BY <2>6 DEF Visited
  <2>9. CASE ~t.cyclic
    BY <2>2, <2>4, <2>6, <2>8, <2>9 DEF Visited, t
  <2> QED
    BY <2>7, <2>9
<1>7. \A i \in Nat : i \in S
  <2> HIDE DEF S
  <2> QED
    BY <1>5, <1>6, NatSetInduction
<1>8. n \in 0..n
  BY <1>3
<1>9. Visited(done(n), s, after[n])
  <2> HIDE DEF done
  <2> QED
    BY <1>3, <1>7, <1>8
<1> QED
  BY <1>4, <1>9 DEF n
\* So a call of visit may nest one call more than the calls in it.
LEMMA VisitKept ==
  ASSUME dependsOn \in DependencyGraphs, NEW k \in Nat, NEW deeper, Contract(deeper, k),
         NEW id \in Ids, NEW s, Sound(s),
         s.cyclic \/ (Open(s, id) /\ (k + 1) + Cardinality(s.temp) >= MaxNodes + 2)
  PROVE  Visited({id}, s, Visit(dependsOn, deeper, id, s))
<1> DEFINE ids == Dependencies(dependsOn, id)
           into == [s EXCEPT !.temp = @ \cup {id}]
           t == VisitEach(deeper, ids, into)
           list == Append(t.result, id)
           out == [t EXCEPT !.temp = @ \ {id}, !.visited = @ \cup {id}, !.result = list]
           cut == [s EXCEPT !.cyclic = TRUE]
<1>1. s \in Searches /\ deeper \in [Ids \X Searches -> Searches]
  BY DEF Sound, Contract
<1>2. CASE s.cyclic \/ id \in s.visited
  <2>1. Visit(dependsOn, deeper, id, s) = s
    BY <1>2 DEF Visit
  <2> QED
    BY <1>2, <2>1 DEF Visited
<1>3. CASE ~s.cyclic /\ id \notin s.visited /\ id \in s.temp
  <2>1. Visit(dependsOn, deeper, id, s) = cut
    BY <1>3 DEF Visit
  <2>2. cut \in Searches /\ cut.cyclic
    BY <1>1 DEF Searches
  <2>3. Loop(s.temp)
    <3>1. \A u \in s.temp : DepsOf(u) \cap s.temp # {}
      BY <1>3 DEF Open
    <3>2. \A u \in s.temp : u \in Nodes /\ dependsOn[u] \cap s.temp # {}
      BY <3>1 DEF DepsOf
    <3> QED
      BY <1>3, <3>2 DEF Loop
  <2> HIDE DEF cut
  <2>4. Visited({id}, s, cut)
    BY <2>2, <2>3 DEF Visited, Sound, HasLoop
  <2> QED
    BY <2>1, <2>4
<1>4. CASE ~s.cyclic /\ id \notin s.visited /\ id \notin s.temp
  <2>1. /\ into \in Searches /\ ~into.cyclic /\ into.temp = s.temp \cup {id}
        /\ into.visited = s.visited /\ into.result = s.result
    BY <1>1, <1>4 DEF Searches
  <2>2. Visit(dependsOn, deeper, id, s) = IF t.cyclic THEN t ELSE out
    BY <1>4 DEF Visit
  <2> HIDE DEF into
  <2>3. Sound(into)
    <3>1. Listed(s)
      BY <1>4 DEF Sound
    <3>2. into.visited \cap into.temp = {}
      BY <1>4, <2>1, <3>1 DEF Listed
    <3>3. Range(into.result) = into.visited /\ IsInjective(into.result)
      BY <2>1, <3>1 DEF Listed
    <3>4. Ordered(into.result)
      BY <2>1, <3>1 DEF Listed
    <3>5. Listed(into)
      BY <3>2, <3>3, <3>4 DEF Listed
    <3> QED
      BY <2>1, <3>5 DEF Sound
  <2>4. k + Cardinality(into.temp) >= MaxNodes + 2
    <3>1. Cardinality(into.temp) = Cardinality(s.temp) + 1 /\ Cardinality(s.temp) \in Nat
      BY <1>1, <1>4, <2>1, TempIsFinite
    <3>2. (k + 1) + Cardinality(s.temp) >= MaxNodes + 2
      BY <1>4
    <3> QED
      BY <3>1, <3>2, GraphAssumption
  <2>5. /\ ids \in Seq(Ids)
        /\ \A x : x \in DepsOf(id) <=> \E i \in 1..Len(ids) : ids[i] = x
    BY DependenciesListed
  <2> HIDE DEF ids
  <2>6. \A i \in 1..Len(ids) : Open(into, ids[i])
    <3> SUFFICES ASSUME NEW i \in 1..Len(ids), NEW u \in into.temp
                 PROVE  DepsOf(u) \cap (into.temp \cup {ids[i]}) # {}
      BY DEF Open
    <3>1. CASE u = id
      BY <2>5, <3>1
    <3>2. CASE u # id
      <4>1. DepsOf(u) \cap (s.temp \cup {id}) # {}
        BY <1>4, <2>1, <3>2 DEF Open
      <4> QED
        BY <2>1, <4>1
    <3> QED
      BY <3>1, <3>2
  <2> DEFINE D == {ids[i] : i \in 1..Len(ids)}
  <2>7. Visited(D, into, t)
    BY <2>1, <2>3, <2>4, <2>5, <2>6, EachVisited
  <2>8. D = DepsOf(id)
    BY <2>5
  <2> HIDE DEF t, D
  <2>9. CASE t.cyclic
    BY <1>4, <2>2, <2>7, <2>9 DEF Visited
  <2>10. CASE ~t.cyclic
    <3>1. /\ t \in Searches /\ Listed(t) /\ t.temp = s.temp \cup {id}
          /\ DepsOf(id) \subseteq t.visited /\ s.visited \subseteq t.visited
      BY <2>1, <2>7, <2>8, <2>10 DEF Visited, Sound
    <3>2. t.result \in Seq(Ids) /\ t.visited \in SUBSET Ids /\ t.temp \in SUBSET Ids
      BY <3>1 DEF Searches
    <3> DEFINE l == Len(t.result)
    <3>3. /\ list \in Seq(Ids) /\ Len(list) = l + 1 /\ list[l + 1] = id /\ l \in Nat
          /\ \A i \in 1..l : list[i] = t.result[i]
      BY <3>2
    <3>4. DOMAIN list = 1..(l + 1) /\ DOMAIN t.result = 1..l
      <4>1. \A q \in Seq(Ids) : DOMAIN q = 1..Len(q)
        OBVIOUS
      <4> QED
        BY <3>2, <3>3, <4>1
    <3> HIDE DEF list, l
    <3>5. /\ out \in Searches /\ ~out.cyclic /\ out.temp = t.temp \ {id}
          /\ out.visited = t.visited \cup {id} /\ out.result = list
      BY <2>10, <3>1, <3>3 DEF Searches
    <3> HIDE DEF out
    <3>6. out.temp = s.temp /\ id \notin t.visited
      BY <1>4, <3>1, <3>5 DEF Listed
    <3>7. out.visited \cap out.temp = {}
      BY <1>4, <3>1, <3>5, <3>6 DEF Listed
    <3>8. /\ \A i \in 1..l : t.result[i] \in t.visited
          /\ \A x \in t.visited : \E i \in 1..l : t.result[i] = x
      BY <3>1, <3>4 DEF Listed, Range
    <3>9. \A i : i \in 1..(l + 1) <=> i \in 1..l \/ i = l + 1
      BY <3>3
    <3>10. Range(list) = out.visited
      <4>1. Range(list) = {list[i] : i \in 1..(l + 1)}
        BY <3>4 DEF Range
      <4>2. \A x \in out.visited : \E i \in 1..(l + 1) : list[i] = x
        BY <3>3, <3>5, <3>8, <3>9
      <4>3. \A i \in 1..(l + 1) : list[i] \in out.visited
        BY <3>3, <3>5, <3>8, <3>9
      <4> QED
        BY <4>1, <4>2, <4>3
    <3>11. IsInjective(list)
      <4>1. \A i, j \in 1..l : t.result[i] = t.result[j] => i = j
        BY <3>1, <3>4 DEF Listed, IsInjective
      <4>2. \A i \in 1..l : list[i] # id
        BY <3>3, <3>6, <3>8
      <4>3. \A i, j \in 1..(l + 1) : list[i] = list[j] => i = j
        BY <3>3, <3>9, <4>1, <4>2
      <4> QED
        BY <3>4, <4>3 DEF IsInjective
    <3>12. ASSUME NEW i \in 1..(l + 1), NEW x \in DepsOf(list[i])
           PROVE  x \in {list[j] : j \in 1..(i - 1)}
      <4>1. CASE i \in 1..l
        <5>1. \A m \in 1..l : DepsOf(t.result[m]) \subseteq {t.result[j] : j \in 1..(m - 1)}
          BY <3>1 DEF Listed, Ordered, l
        <5>2. x \in DepsOf(t.result[i])
          BY <3>3, <3>12, <4>1
        <5>3. PICK j \in 1..(i - 1) : t.result[j] = x
          BY <4>1, <5>1, <5>2
        <5>4. j \in 1..l
          BY <3>3, <4>1
        <5> QED
          BY <3>3, <5>3, <5>4
      <4>2. CASE i = l + 1
        <5>1. x \in t.visited /\ i - 1 = l
          BY <3>1, <3>3, <3>12, <4>2
        <5>2. PICK j \in 1..l : t.result[j] = x
          BY <3>8, <5>1
        <5> QED
          BY <3>3, <5>1, <5>2
      <4> QED
        BY <3>9, <4>1, <4>2
    <3>13. Listed(out)
      <4>1. Ordered(list)
        BY <3>3, <3>12 DEF Ordered
      <4> QED
        BY <3>5, <3>7, <3>10, <3>11, <4>1 DEF Listed
    <3>14. Visited({id}, s, out)
      BY <1>4, <3>1, <3>5, <3>6, <3>13 DEF Visited, Sound
    <3> QED
      BY <2>2, <2>10, <3>14
  <2> QED
    BY <2>9, <2>10
<1> QED
  BY <1>2, <1>3, <1>4

\* With as many calls to nest as there are ids, and one more, none is missing.
LEMMA NestedVisitsKept ==
  ASSUME dependsOn \in DependencyGraphs
  PROVE  Contract(NestedVisits(dependsOn), MaxNodes + 2)
<1>1. PICK visits : /\ visits \in [Nat -> [Ids \X Searches -> Searches]]
                    /\ \A id \in Ids, s \in Searches : visits[0][<<id, s>>] = s
                    /\ \A k \in Nat : \A id \in Ids, s \in Searches :
                         visits[k + 1][<<id, s>>] = Visit(dependsOn, visits[k], id, s)
                    /\ NestedVisits(dependsOn) = visits[MaxNodes + 2]
  BY NestedVisitsAre
<1> DEFINE S == {k \in Nat : Contract(visits[k], k)}
<1>2. 0 \in S
  <2> SUFFICES ASSUME NEW id \in Ids, NEW s \in Searches, Sound(s),
                      s.cyclic \/ 0 + Cardinality(s.temp) >= MaxNodes + 2
               PROVE  Visited({id}, s, s)
    BY <1>1 DEF Contract
  <2>1. Cardinality(s.temp) \in Nat /\ Cardinality(s.temp) <= MaxNodes + 1 /\ MaxNodes \in Nat
    BY TempIsFinite, GraphAssumption
  <2>2. s.cyclic
    BY <2>1
  <2> QED
    BY <2>2 DEF Visited
<1>3. ASSUME NEW k \in Nat, k \in S
      PROVE  k + 1 \in S
  <2> DEFINE F == [Ids \X Searches -> Searches]
  <2>1. visits[k + 1] \in F /\ k + 1 \in Nat
    <3>1. visits \in [Nat -> F]
      BY <1>1
    <3>2. k + 1 \in Nat
      OBVIOUS
    <3> HIDE DEF F
    <3> QED
      BY <3>1, <3>2
  <2>2. ASSUME NEW id \in Ids, NEW s \in Searches, Sound(s),
               s.cyclic \/ (Open(s, id) /\ (k + 1) + Cardinality(s.temp) >= MaxNodes + 2)
        PROVE  Visited({id}, s, visits[k + 1][<<id, s>>])
    <3>1. Visited({id}, s, Visit(dependsOn, visits[k], id, s))
      BY <1>3, <2>2, VisitKept
    <3> QED
      BY <1>1, <3>1
  <2>3. Contract(visits[k + 1], k + 1)
    BY <2>1, <2>2 DEF Contract
  <2> QED
    BY <2>1, <2>3
<1>4. \A k \in Nat : k \in S
  <2> HIDE DEF S
  <2> QED
    BY <1>2, <1>3, NatSetInduction
<1>5. MaxNodes + 2 \in Nat
  BY GraphAssumption
<1> QED
  BY <1>1, <1>4, <1>5

\* The list of all tasks, or the cycle that rules one out.
LEMMA OrderIs ==
  ASSUME dependsOn \in DependencyGraphs, NEW walk \in SetToSeqs(Nodes)
  PROVE  \/ HasLoop /\ TopologicalOrder(dependsOn, walk) = NoOrder
         \/ \E t : /\ Listed(t) /\ t.result \in Seq(Ids) /\ Nodes \subseteq t.visited
                   /\ TopologicalOrder(dependsOn, walk) = t.result
<1> DEFINE t == VisitEach(NestedVisits(dependsOn), walk, Unvisited)
<1>1. /\ walk \in Seq(Ids) /\ Nodes \subseteq {walk[i] : i \in 1..Len(walk)}
  <2>1. walk \in [1..MaxNodes -> Nodes] /\ \A i, j \in 1..MaxNodes : i # j => walk[i] # walk[j]
    BY NodesAreFinite DEF SetToSeqs
  <2>2. walk \in Seq(Ids) /\ Len(walk) = MaxNodes
    <3>1. MaxNodes \in Nat /\ walk \in [1..MaxNodes -> Ids]
      BY <2>1, GraphAssumption DEF Ids
    <3>2. walk \in Seq(Ids)
      BY <3>1, SeqDef
    <3>3. Len(walk) \in Nat /\ 1..Len(walk) = 1..MaxNodes
      BY <3>1, <3>2, LenProperties
    <3>4. Len(walk) = MaxNodes
      BY <3>1, <3>3
    <3> QED
      BY <3>2, <3>4
  <2>3. walk \in Injection(1..MaxNodes, Nodes)
    BY <2>1 DEF Injection, IsInjective
  <2>4. walk \in Surjection(1..MaxNodes, Nodes)
    BY <2>3, NodesAreFinite, FS_Injection DEF Nodes
  <2> QED
    BY <2>2, <2>4 DEF Surjection
<1>2. Sound(Unvisited) /\ ~Unvisited.cyclic /\ Unvisited.temp = {}
  <2>1. Unvisited \in Searches
    BY DEF Unvisited, Searches
  <2>2. Range(<<>>) = {} /\ IsInjective(<<>>) /\ Len(<<>>) = 0
    BY DEF Range, IsInjective
  <2>3. Listed(Unvisited)
    BY <2>2 DEF Listed, Ordered, Unvisited
  <2> QED
    BY <2>1, <2>3 DEF Sound, Unvisited
<1>3. Contract(NestedVisits(dependsOn), MaxNodes + 2)
  BY NestedVisitsKept
<1>4. \A i \in 1..Len(walk) : Open(Unvisited, walk[i])
  BY <1>2 DEF Open
<1>5. MaxNodes + 2 \in Nat /\ (MaxNodes + 2) + Cardinality(Unvisited.temp) >= MaxNodes + 2
  BY <1>2, FS_EmptySet, GraphAssumption
<1>6. Visited({walk[i] : i \in 1..Len(walk)}, Unvisited, t)
  BY <1>1, <1>2, <1>3, <1>4, <1>5, EachVisited
<1>7. TopologicalOrder(dependsOn, walk) = IF t.cyclic THEN NoOrder ELSE t.result
  BY DEF TopologicalOrder
<1> HIDE DEF t
<1>8. CASE t.cyclic
  BY <1>6, <1>7, <1>8 DEF Visited, Sound
<1>9. CASE ~t.cyclic
  <2>1. Listed(t) /\ t \in Searches /\ Nodes \subseteq t.visited
    BY <1>1, <1>6, <1>9 DEF Visited, Sound
  <2>2. t.result \in Seq(Ids)
    BY <2>1 DEF Searches
  <2> QED
    BY <1>7, <1>9, <2>1, <2>2
<1> QED
  BY <1>8, <1>9

-----------------------------------------------------------------------------
(* The order and the loops of the graph.                                   *)

\* A chain of more tasks than there are goes round a loop.
LEMMA LongChainHasLoop ==
  ASSUME NEW c, IsChain(c), Len(c) > MaxNodes
  PROVE  HasLoop
<1> DEFINE l == Len(c)
<1>1. l \in Nat /\ c \in [1..l -> Nodes] /\ \A i \in 1..(l - 1) : c[i + 1] \in dependsOn[c[i]]
  BY LenProperties DEF IsChain
<1>2. IsFiniteSet(1..l) /\ Cardinality(1..l) = l /\ l > MaxNodes
  <2>1. l > MaxNodes
    OBVIOUS
  <2> HIDE DEF l
  <2>2. IsFiniteSet(1..l) /\ Cardinality(1..l) = IF 1 > l THEN 0 ELSE l - 1 + 1
    BY <1>1, FS_Interval
  <2>3. Cardinality(1..l) = l
    BY <1>1, <2>2
  <2> QED
    BY <2>1, <2>2, <2>3
<1> HIDE DEF l
<1>3. \E x, y \in 1..l : x # y /\ c[x] = c[y]
  BY <1>1, <1>2, NodesAreFinite, FS_PigeonHole
<1>4. PICK x \in 1..l, y \in 1..l : x < y /\ c[x] = c[y]
  BY <1>1, <1>3
<1> DEFINE S == {c[i] : i \in x..(y - 1)}
<1>5. c[x] \in S
  BY <1>1, <1>4
<1>6. S \subseteq Nodes
  <2>1. \A i \in x..(y - 1) : i \in 1..l
    BY <1>1
  <2> QED
    BY <1>1, <2>1
<1>7. ASSUME NEW i \in x..(y - 1)
      PROVE  dependsOn[c[i]] \cap S # {}
  <2>1. i \in 1..(l - 1)
    BY <1>1
  <2>2. c[i + 1] \in dependsOn[c[i]]
    BY <1>1, <2>1
  <2>3. CASE i + 1 \in x..(y - 1)
    BY <2>2, <2>3
  <2>4. CASE i + 1 \notin x..(y - 1)
    <3>1. i + 1 = y
      <4>1. x \in Int /\ y \in Int /\ i \in Int /\ x <= i /\ i <= y - 1
        BY <1>1
      <4> HIDE DEF S
      <4> QED
        BY <2>4, <4>1
    <3>2. c[i + 1] = c[x]
      BY <1>4, <3>1
    <3> QED
      BY <1>5, <2>2, <3>2
  <2> QED
    BY <2>3, <2>4
<1>8. Loop(S)
  BY <1>5, <1>6, <1>7 DEF Loop
<1> QED
  BY <1>8 DEF HasLoop

\* And round a loop there is a chain as long.
LEMMA LoopHasLongChain ==
  ASSUME NEW S, Loop(S)
  PROVE  \E n \in Nodes : \E c \in Chains(n) : Len(c) > MaxNodes
<1>1. S # {} /\ S \subseteq Nodes /\ \A n \in S : dependsOn[n] \cap S # {}
  BY DEF Loop
<1>2. PICK n \in S : TRUE
  BY <1>1
<1> DEFINE T == {i \in Nat : \E c : IsChain(c) /\ c[1] = n /\ Len(c) = i + 1 /\ c[i + 1] \in S}
<1>3. 0 \in T
  <2>1. n \in Nodes
    BY <1>1
  <2>2. <<n>> \in Seq(Nodes) /\ Len(<<n>>) = 1 /\ <<n>>[1] = n
    BY <2>1
  <2>3. IsChain(<<n>>)
    BY <2>2 DEF IsChain
  <2> QED
    BY <2>2, <2>3
<1>4. ASSUME NEW i \in Nat, i \in T
      PROVE  i + 1 \in T
  <2>1. PICK c : IsChain(c) /\ c[1] = n /\ Len(c) = i + 1 /\ c[i + 1] \in S
    BY <1>4
  <2>2. PICK d \in dependsOn[c[i + 1]] : d \in S
    BY <1>1, <2>1
  <2> DEFINE e == Append(c, d)
  <2>3. d \in Nodes /\ c \in Seq(Nodes) /\ \A k \in 1..((i + 1) - 1) : c[k + 1] \in dependsOn[c[k]]
    BY <1>1, <2>1, <2>2 DEF IsChain
  <2>4. /\ e \in Seq(Nodes) /\ Len(e) = (i + 1) + 1 /\ e[(i + 1) + 1] = d
        /\ \A k \in 1..(i + 1) : e[k] = c[k]
    BY <2>1, <2>3
  <2> HIDE DEF e
  <2>5. ASSUME NEW k \in 1..(i + 1)
        PROVE  e[k + 1] \in dependsOn[e[k]]
    <3>1. CASE k = i + 1
      BY <2>2, <2>4, <3>1
    <3>2. CASE k # i + 1
      <4>1. k \in 1..((i + 1) - 1) /\ k + 1 \in 1..(i + 1)
        BY <3>2
      <4> QED
        BY <2>3, <2>4, <4>1
    <3> QED
      BY <3>1, <3>2
  <2>6. ((i + 1) + 1) - 1 = i + 1 /\ (i + 1) + 1 \in Nat \ {0} /\ 1 \in 1..(i + 1)
    OBVIOUS
  <2>7. IsChain(e) /\ e[1] = n
    BY <2>1, <2>4, <2>5, <2>6 DEF IsChain
  <2> QED
    BY <2>2, <2>4, <2>7
<1>5. \A i \in Nat : i \in T
  <2> HIDE DEF T
  <2> QED
    BY <1>3, <1>4, NatSetInduction
<1>6. MaxNodes \in Nat
  BY GraphAssumption
<1>7. PICK c : IsChain(c) /\ c[1] = n /\ Len(c) = MaxNodes + 1
  BY <1>5, <1>6
<1>8. Len(c) <= MaxNodes + 1 /\ Len(c) > MaxNodes
  BY <1>6, <1>7
<1>9. c \in Chains(n) /\ n \in Nodes
  BY <1>1, <1>2, <1>7, <1>8, ChainsAre
<1> QED
  BY <1>8, <1>9

\* Where every task is listed after all it depends on, no loop is possible.
LEMMA ListedHasNoLoop ==
  ASSUME NEW t, Listed(t), t.result \in Seq(Ids), Nodes \subseteq t.visited
  PROVE  ~HasLoop
<1> DEFINE r == t.result
           l == Len(r)
<1>1. /\ r \in Seq(Ids) /\ l \in Nat /\ Range(r) = t.visited
      /\ \A i \in 1..l : DepsOf(r[i]) \subseteq {r[j] : j \in 1..(i - 1)}
  <2>1. r \in Seq(Ids) /\ Range(r) = t.visited /\ Ordered(r)
    BY DEF Listed
  <2> HIDE DEF r
  <2>2. l \in Nat
    BY <2>1
  <2>3. \A i \in 1..l : DepsOf(r[i]) \subseteq {r[j] : j \in 1..(i - 1)}
    BY <2>1 DEF Ordered
  <2> HIDE DEF l
  <2> QED
    BY <2>1, <2>2, <2>3
<1>2. DOMAIN r = 1..l
  BY <1>1
<1> SUFFICES ASSUME NEW S, Loop(S)
             PROVE  FALSE
  BY DEF HasLoop
<1>3. S # {} /\ S \subseteq Nodes /\ \A n \in S : dependsOn[n] \cap S # {}
  BY DEF Loop
<1> DEFINE P == {i \in 1..l : r[i] \in S}
<1>4. \A n \in S : \E i \in 1..l : r[i] = n
  BY <1>1, <1>2, <1>3 DEF Range
<1> HIDE DEF r, l
<1>5. P # {} /\ P \subseteq Nat
  BY <1>1, <1>3, <1>4
<1>6. PICK i \in P : \A j \in P : i <= j
  <2> HIDE DEF P
  <2> QED
    BY <1>5, LeastNatural
<1>7. PICK d \in dependsOn[r[i]] : d \in S
  BY <1>3, <1>6
<1>8. d \in DepsOf(r[i])
  BY <1>3, <1>6, <1>7 DEF DepsOf
<1>9. PICK j \in 1..(i - 1) : r[j] = d
  BY <1>1, <1>6, <1>8
<1>10. j \in P /\ j < i
  BY <1>1, <1>6, <1>7, <1>9
<1> QED
  BY <1>1, <1>6, <1>10

\* TopologicalOrder keeps its promise.
LEMMA OrderCorrect ==
  ASSUME dependsOn \in DependencyGraphs, NEW walk \in SetToSeqs(Nodes),
         order = TopologicalOrder(dependsOn, walk)
  PROVE  OrderFollowsDependencies
<1>1. CASE HasLoop /\ order = NoOrder
  <2>1. \E n \in Nodes : \E c \in Chains(n) : Len(c) > MaxNodes
    BY <1>1, LoopHasLongChain DEF HasLoop
  <2> QED
    BY <1>1, <2>1 DEF OrderFollowsDependencies
<1>2. ASSUME NEW t, Listed(t), t.result \in Seq(Ids), Nodes \subseteq t.visited, order = t.result
      PROVE  OrderFollowsDependencies
  <2>1. ~HasLoop
    BY <1>2, ListedHasNoLoop
  <2>2. ~\E n \in Nodes : \E c \in Chains(n) : Len(c) > MaxNodes
    BY <2>1, LongChainHasLoop, ChainsAre
  <2>3. Nodes \subseteq Range(order) /\ IsInjective(order)
    BY <1>2 DEF Listed
  <2>4. ASSUME NEW i \in DOMAIN order, order[i] \in Nodes
        PROVE  dependsOn[order[i]] \subseteq {order[j] : j \in 1..(i - 1)}
    <3>1. i \in 1..Len(order)
      BY <1>2
    <3>2. DepsOf(order[i]) \subseteq {order[j] : j \in 1..(i - 1)}
      <4>1. Ordered(order)
        BY <1>2 DEF Listed
      <4> QED
        BY <3>1, <4>1 DEF Ordered
    <3> QED
      BY <2>4, <3>2 DEF DepsOf
  <2> QED
    BY <2>2, <2>3, <2>4 DEF OrderFollowsDependencies
<1> QED
  BY <1>1, <1>2, OrderIs

\* An answer is the one that the code gives for the graph.
Answered ==
  /\ dependsOn \in DependencyGraphs /\ EdgesListed
  /\ batches # NoBatchesYet => batches = ExecutionBatches(dependsOn, reverse)
  /\ order # NoOrderYet => \E walk \in SetToSeqs(Nodes) : order = TopologicalOrder(dependsOn, walk)

\* Such answers are as the properties say.
LEMMA AnsweredCorrectly == Answered => SchedulesFollowDependencies
<1> SUFFICES ASSUME Answered
             PROVE  SchedulesFollowDependencies
  OBVIOUS
<1>1. BatchesAreLevels
  <2>1. CASE batches = NoBatchesYet
    BY <2>1 DEF BatchesAreLevels
  <2>2. CASE batches # NoBatchesYet
    BY <2>2, BatchesCorrect DEF Answered
  <2> QED
    BY <2>1, <2>2
<1>2. OrderFollowsDependencies
  <2>1. CASE order = NoOrderYet
    BY <2>1 DEF OrderFollowsDependencies
  <2>2. CASE order # NoOrderYet
    BY <2>2, OrderCorrect DEF Answered
  <2> QED
    BY <2>1, <2>2
<1> QED
  BY <1>1, <1>2 DEF SchedulesFollowDependencies

\* A graph into which every task was added once has such lists.
LEMMA OnceIsListed ==
  ASSUME reverse = OnceEach(dependsOn)
  PROVE  EdgesListed
<1>1. reverse \in [Nodes -> [Nodes -> Nat]]
  BY DEF OnceEach
<1>2. \A d, n \in Nodes : reverse[d][n] > 0 => d \in dependsOn[n]
  BY DEF OnceEach
<1> QED
  BY <1>1, <1>2 DEF EdgesListed

\* Adding a task again keeps them so.
LEMMA AddAgainLists ==
  ASSUME EdgesListed, NEW n \in Nodes, AddAgain(n)
  PROVE  EdgesListed'
<1>1. /\ reverse' \in [Nodes -> [Nodes -> Nat]] /\ dependsOn' = dependsOn
      /\ \A d, m \in Nodes : reverse'[d][m] =
           IF m = n /\ d \in dependsOn[n] THEN reverse[d][m] + 1 ELSE reverse[d][m]
  BY DEF AddAgain, Addition, EdgesListed
<1>2. \A d, m \in Nodes : reverse'[d][m] > 0 => d \in dependsOn'[m]
  BY <1>1 DEF EdgesListed
<1> QED
  BY <1>1, <1>2 DEF EdgesListed, Nodes

\* And so does taking a task out before it is added again.
LEMMA ResubmitLists ==
  ASSUME EdgesListed, NEW n \in Nodes, Resubmit(n)
  PROVE  EdgesListed'
<1>1. /\ dependsOn' = dependsOn
      /\ reverse' = [d \in Nodes |-> [m \in Nodes |->
                       IF m = n THEN OnceEach(dependsOn)[d][n]
                       ELSE IF d = n THEN 0 ELSE reverse[d][m]]]
  BY DEF Resubmit, Addition
<1>2. \A d, m \in Nodes : reverse[d][m] \in Nat /\ (reverse[d][m] > 0 => d \in dependsOn[m])
  BY DEF EdgesListed
<1>3. \A d \in Nodes : OnceEach(dependsOn)[d][n] = IF d \in dependsOn[n] THEN 1 ELSE 0
  BY DEF OnceEach
<1>4. reverse' \in [Nodes -> [Nodes -> Nat]]
  BY <1>1, <1>2, <1>3
<1>5. \A d, m \in Nodes : reverse'[d][m] > 0 => d \in dependsOn'[m]
  BY <1>1, <1>2, <1>3
<1> QED
  BY <1>4, <1>5 DEF EdgesListed, Nodes

\* A query answers for the graph it is asked of.
LEMMA AnsweredInductive == Answered /\ [GraphNext]_graphVars => Answered'
<1> SUFFICES ASSUME Answered, [GraphNext]_graphVars
             PROVE  Answered'
  OBVIOUS
<1>1. NoOrderYet' = NoOrderYet /\ NoBatchesYet' = NoBatchesYet /\ Nodes' = Nodes
      /\ DependencyGraphs' = DependencyGraphs
  BY DEF NoOrderYet, NoBatchesYet, DependencyGraphs, Nodes
<1>2. ASSUME NEW n \in Nodes, AddAgain(n) \/ Resubmit(n)
      PROVE  Answered'
  <2>1. EdgesListed'
    BY <1>2, AddAgainLists, ResubmitLists DEF Answered
  <2>2. dependsOn' = dependsOn /\ batches' = NoBatchesYet /\ order' = NoOrderYet
    BY <1>2 DEF AddAgain, Resubmit, Addition
  <2> QED
    BY <1>1, <2>1, <2>2 DEF Answered
<1>3. CASE AskBatches
  <2>1. /\ dependsOn' = dependsOn /\ reverse' = reverse /\ order' = NoOrderYet
        /\ batches' = ExecutionBatches(dependsOn', reverse')
    BY <1>3 DEF AskBatches
  <2>2. EdgesListed'
    BY <2>1 DEF Answered, EdgesListed, Nodes
  <2>3. (ExecutionBatches(dependsOn, reverse))' = ExecutionBatches(dependsOn', reverse')
    BY DEF ExecutionBatches
  <2> QED
    BY <1>1, <2>1, <2>2, <2>3 DEF Answered
<1>4. CASE AskOrder
  <2>1. /\ dependsOn' = dependsOn /\ reverse' = reverse /\ batches' = NoBatchesYet
        /\ \E walk \in SetToSeqs(Nodes) : order' = TopologicalOrder(dependsOn', walk)
    BY <1>4 DEF AskOrder
  <2>2. EdgesListed'
    BY <2>1 DEF Answered, EdgesListed, Nodes
  <2> QED
    BY <1>1, <2>1, <2>2 DEF Answered
<1>5. CASE UNCHANGED graphVars
  BY <1>5 DEF Answered, EdgesListed, graphVars
<1> QED
  BY <1>2, <1>3, <1>4, <1>5 DEF GraphNext

\* Neither schedule of dependency.go has a task before one it depends on, or
\* leaves out one that could run, whatever the graph, the tasks that were added
\* again and the order in which Go visits the map; the batches as long as neither
\* the task nor one it waits for was added twice or has lost an edge.
THEOREM SchedulesAlwaysFollow == GraphSpec => []SchedulesFollowDependencies
<1>1. GraphInit => Answered
  BY OnceIsListed DEF GraphInit, Answered, DependencyGraphs
<1>2. Answered /\ [GraphNext]_graphVars => Answered'
  BY AnsweredInductive
<1>3. Answered => SchedulesFollowDependencies
  BY AnsweredCorrectly
<1> QED
  BY <1>1, <1>2, <1>3, PTL DEF GraphSpec

-----------------------------------------------------------------------------
(* Plan: the parts of a task.                                              *)

\* What the rules may find in the input of a task or of a part of one.
AnyShape == Shapes \cup {NotAMap}

\* The kinds of shapes: only steps have parts with parts.
LEMMA ShapeKinds ==
  ASSUME NEW s \in AnyShape
  PROVE  /\ s.parts \in Seq(AnyShape)
         /\ s.parts = <<>> => s \in {Whole, NotAMap}
         /\ s.parts # <<>> => s.by \in {"chunks", "maps", "steps"}
         /\ s.by \in {"chunks", "maps"} => s.parts = Wholes(MaxParts)
<1>1. ASSUME NEW n \in Nat
      PROVE  /\ Wholes(n) \in Seq(AnyShape) /\ Len(Wholes(n)) = n
             /\ n # 0 => Wholes(n) # <<>>
  <2>1. Whole \in AnyShape
    BY DEF AnyShape, Shapes, Flat
  <2>2. Wholes(n) \in Seq(AnyShape) /\ Len(Wholes(n)) = n
    <3> HIDE DEF AnyShape
    <3> QED
      BY <2>1 DEF Wholes
  <2> QED
    BY <2>2
<1>2. Flat \subseteq AnyShape /\ MaxParts \in Nat /\ MaxParts # 0
  BY PlanningAssumption DEF AnyShape, Shapes
<1>3. CASE s \in {Whole, NotAMap}
  <2>1. s.parts = <<>> /\ ~(s.by \in {"chunks", "maps"})
    BY <1>3 DEF Whole, NotAMap
  <2>2. <<>> \in Seq(AnyShape)
    BY EmptySeq
  <2> QED
    BY <1>3, <2>1, <2>2
<1>4. CASE s \in [by : {"chunks", "maps"}, parts : {Wholes(MaxParts)}]
  BY <1>1, <1>2, <1>4
<1>5. CASE s \in [by : {"steps"}, parts : {Wholes(n) : n \in 1..MaxParts}]
  <2>1. PICK n \in 1..MaxParts : s.parts = Wholes(n)
    BY <1>5
  <2>2. n \in Nat /\ n # 0
    BY <1>2
  <2>3. s.by = "steps"
    BY <1>5
  <2> QED
    BY <1>1, <2>1, <2>2, <2>3
<1>6. CASE s \in [by : {"steps"}, parts : UNION {[1..n -> Flat \cup {NotAMap}] : n \in 1..MaxParts}]
  <2>1. PICK n \in 1..MaxParts : s.parts \in [1..n -> Flat \cup {NotAMap}]
    BY <1>6
  <2>2. n \in Nat /\ n # 0
    BY <1>2
  <2>3. s.by = "steps"
    BY <1>6
  <2>4. Flat \cup {NotAMap} \subseteq AnyShape
    BY <1>2 DEF AnyShape
  <2>5. s.parts \in [1..n -> AnyShape]
    BY <2>1, <2>4
  <2>6. s.parts \in Seq(AnyShape) /\ Len(s.parts) = n
    <3> HIDE DEF AnyShape
    <3> QED
      BY <2>2, <2>5
  <2>7. s.parts # <<>>
    BY <2>2, <2>6
  <2> QED
    BY <2>3, <2>6, <2>7
<1> QED
  BY <1>3, <1>4, <1>5, <1>6 DEF AnyShape, Shapes, Flat

\* The parts of a chunked task: they depend on what the task depends on.
LEMMA ChunksAre ==
  ASSUME NEW t \in Tasks
  PROVE  /\ Chunked(t) \in Seq(Tasks) /\ DOMAIN Chunked(t) = DOMAIN t.shape.parts
         /\ \A i \in DOMAIN t.shape.parts :
              /\ i \in Nat /\ Chunked(t)[i].id = PartId(t, i)
              /\ Chunked(t)[i].deps = t.deps
              /\ Chunked(t)[i].shape = t.shape.parts[i]
<1> DEFINE n == Len(t.shape.parts)
<1>1. /\ t.id \in Seq(Nat) /\ t.deps \in SUBSET Seq(Nat) /\ t.shape.parts \in Seq(AnyShape)
      /\ n \in Nat /\ DOMAIN t.shape.parts = 1..n
  <2>1. t.shape \in AnyShape /\ t.id \in Seq(Nat) /\ t.deps \in SUBSET Seq(Nat)
    BY DEF Tasks, AnyShape
  <2>2. t.shape.parts \in Seq(AnyShape)
    BY <2>1, ShapeKinds
  <2> QED
    BY <2>1, <2>2
<1>2. ASSUME NEW i \in 1..n
      PROVE  TaskOf(PartId(t, i), t.deps, t.shape.parts[i]) \in Tasks
  <2>1. PartId(t, i) \in Seq(Nat)
    BY <1>1 DEF PartId
  <2>2. t.shape.parts[i] \in AnyShape
    BY <1>1, ElementOfSeq
  <2> QED
    BY <1>1, <2>1, <2>2 DEF Tasks, TaskOf, AnyShape
<1>3. Chunked(t) \in [1..n -> Tasks]
  BY <1>1, <1>2 DEF Chunked
<1>4. Chunked(t) \in Seq(Tasks) /\ DOMAIN Chunked(t) = 1..n
  BY <1>1, <1>3
<1>5. \A i \in DOMAIN t.shape.parts :
        Chunked(t)[i] = TaskOf(PartId(t, i), t.deps, t.shape.parts[i])
  BY DEF Chunked
<1>6. \A id, deps, shape : /\ TaskOf(id, deps, shape).id = id
                           /\ TaskOf(id, deps, shape).deps = deps
                           /\ TaskOf(id, deps, shape).shape = shape
  BY DEF TaskOf
<1>7. \A i \in 1..n : i \in Nat
  BY <1>1
<1> HIDE DEF n
<1> QED
  BY <1>1, <1>4, <1>5, <1>6, <1>7

\* What a step depends on.
StepBefore(t, i) == IF i = 1 THEN {} ELSE {PartId(t, i - 1)}

\* The steps of a task: each depends on the one before.
LEMMA StepsAre ==
  ASSUME NEW t \in Tasks
  PROVE  /\ Stepped(t) \in Seq(Tasks) /\ DOMAIN Stepped(t) = DOMAIN t.shape.parts
         /\ \A i \in DOMAIN t.shape.parts :
              /\ i \in Nat /\ Stepped(t)[i].id = PartId(t, i)
              /\ Stepped(t)[i].deps = StepBefore(t, i)
              /\ Stepped(t)[i].shape = t.shape.parts[i]
<1> DEFINE n == Len(t.shape.parts)
<1>1. /\ t.id \in Seq(Nat) /\ t.shape.parts \in Seq(AnyShape)
      /\ n \in Nat /\ DOMAIN t.shape.parts = 1..n
  <2>1. t.shape \in AnyShape /\ t.id \in Seq(Nat)
    BY DEF Tasks, AnyShape
  <2>2. t.shape.parts \in Seq(AnyShape)
    BY <2>1, ShapeKinds
  <2> QED
    BY <2>1, <2>2
<1>2. ASSUME NEW i \in 1..n
      PROVE  TaskOf(PartId(t, i), StepBefore(t, i), t.shape.parts[i]) \in Tasks
  <2>1. PartId(t, i) \in Seq(Nat)
    BY <1>1 DEF PartId
  <2>2. StepBefore(t, i) \in SUBSET Seq(Nat)
    <3>1. i # 1 => i - 1 \in Nat
      OBVIOUS
    <3>2. i # 1 => PartId(t, i - 1) \in Seq(Nat)
      BY <1>1, <3>1 DEF PartId
    <3> QED
      BY <3>2 DEF StepBefore
  <2>3. t.shape.parts[i] \in AnyShape
    BY <1>1, ElementOfSeq
  <2> QED
    BY <1>1, <2>1, <2>2, <2>3 DEF Tasks, TaskOf, AnyShape
<1>3. Stepped(t) = [i \in 1..n |-> TaskOf(PartId(t, i), StepBefore(t, i), t.shape.parts[i])]
  BY <1>1 DEF Stepped, StepBefore
<1>4. Stepped(t) \in Seq(Tasks) /\ DOMAIN Stepped(t) = 1..n
  <2> HIDE DEF n
  <2> QED
    BY <1>1, <1>2, <1>3
<1>5. \A i \in DOMAIN t.shape.parts :
        Stepped(t)[i] = TaskOf(PartId(t, i), StepBefore(t, i), t.shape.parts[i])
  BY DEF Stepped, StepBefore
<1>6. \A id, deps, shape : /\ TaskOf(id, deps, shape).id = id
                           /\ TaskOf(id, deps, shape).deps = deps
                           /\ TaskOf(id, deps, shape).shape = shape
  BY DEF TaskOf
<1>7. \A i \in 1..n : i \in Nat
  BY <1>1
<1> HIDE DEF n
<1> QED
  BY <1>1, <1>4, <1>5, <1>6, <1>7

\* The parts of a map task and the one that reduces what they yield.
LEMMA MapsAre ==
  ASSUME NEW t \in Tasks
  PROVE  LET n == Len(t.shape.parts)
         IN  /\ n \in Nat
             /\ MapReduced(t) \in Seq(Tasks) /\ DOMAIN MapReduced(t) = 1..(n + 1)
             /\ \A i \in 1..n : MapReduced(t)[i] = Chunked(t)[i]
             /\ MapReduced(t)[n + 1].id = PartId(t, 0)
             /\ MapReduced(t)[n + 1].shape = Whole
             /\ \A i \in 1..n : Chunked(t)[i].id \in MapReduced(t)[n + 1].deps
<1> DEFINE n == Len(t.shape.parts)
           c == Chunked(t)
           last == TaskOf(PartId(t, 0), {m.id : m \in Range(c)}, Whole)
<1>1. /\ n \in Nat /\ c \in Seq(Tasks) /\ DOMAIN c = 1..n /\ Len(c) = n
  <2>1. t.shape.parts \in Seq(AnyShape)
    <3>1. t.shape \in AnyShape
      BY DEF Tasks, AnyShape
    <3> QED
      BY <3>1, ShapeKinds
  <2>2. c \in Seq(Tasks) /\ DOMAIN c = DOMAIN t.shape.parts
    BY ChunksAre
  <2> HIDE DEF c
  <2> QED
    BY <2>1, <2>2
<1> HIDE DEF c, n
<1>2. last \in Tasks
  <2>1. PartId(t, 0) \in Seq(Nat)
    BY DEF Tasks, PartId
  <2>2. \A m \in Range(c) : m.id \in Seq(Nat)
    <3>1. Range(c) \in SUBSET Tasks
      BY <1>1, RangeOfSeq
    <3> QED
      BY <3>1 DEF Tasks
  <2>3. Whole \in Shapes
    BY DEF Shapes, Flat
  <2> QED
    BY <2>1, <2>2, <2>3 DEF Tasks, TaskOf
<1>3. MapReduced(t) = Append(c, last)
  BY DEF MapReduced, c
<1>4. last.id = PartId(t, 0) /\ last.shape = Whole /\ last.deps = {m.id : m \in Range(c)}
  BY DEF TaskOf
<1> HIDE DEF last
<1>5. /\ MapReduced(t) \in Seq(Tasks) /\ DOMAIN MapReduced(t) = 1..(n + 1)
      /\ \A i \in 1..n : MapReduced(t)[i] = c[i]
      /\ MapReduced(t)[n + 1] = last
  BY <1>1, <1>2, <1>3
<1>6. \A i \in 1..n : c[i].id \in last.deps
  BY <1>1, <1>4 DEF Range
<1> QED
  BY <1>1, <1>4, <1>5, <1>6 DEF c, n

\* Every part is a task whose id is that of the task and a number.
LEMMA PartsAre ==
  ASSUME NEW t \in Tasks, t.shape.parts # <<>>
  PROVE  /\ Split(t) \in Seq(Tasks)
         /\ \A i \in DOMAIN Split(t) : \E k \in Nat : Split(t)[i].id = PartId(t, k)
<1>1. t.shape \in AnyShape
  BY DEF Tasks, AnyShape
<1>2. t.shape.by \in {"chunks", "maps", "steps"}
  BY <1>1, ShapeKinds
<1>3. CASE t.shape.by = "chunks"
  <2>1. Split(t) = Chunked(t)
    BY <1>3 DEF Split
  <2>2. /\ Chunked(t) \in Seq(Tasks) /\ DOMAIN Chunked(t) = DOMAIN t.shape.parts
        /\ \A i \in DOMAIN t.shape.parts : i \in Nat /\ Chunked(t)[i].id = PartId(t, i)
    BY ChunksAre
  <2> QED
    BY <2>1, <2>2
<1>4. CASE t.shape.by = "steps"
  <2>1. Split(t) = Stepped(t)
    BY <1>4 DEF Split
  <2>2. /\ Stepped(t) \in Seq(Tasks) /\ DOMAIN Stepped(t) = DOMAIN t.shape.parts
        /\ \A i \in DOMAIN t.shape.parts : i \in Nat /\ Stepped(t)[i].id = PartId(t, i)
    BY StepsAre
  <2> QED
    BY <2>1, <2>2
<1>5. CASE t.shape.by = "maps"
  <2>1. Split(t) = MapReduced(t)
    BY <1>5 DEF Split
  <2> DEFINE n == Len(t.shape.parts)
  <2>2. /\ n \in Nat /\ MapReduced(t) \in Seq(Tasks) /\ DOMAIN MapReduced(t) = 1..(n + 1)
        /\ \A i \in 1..n : MapReduced(t)[i] = Chunked(t)[i]
        /\ MapReduced(t)[n + 1].id = PartId(t, 0)
    BY MapsAre
  <2>3. DOMAIN t.shape.parts = 1..n
    BY <1>1, ShapeKinds
  <2>4. \A i \in 1..n : i \in Nat /\ Chunked(t)[i].id = PartId(t, i)
    BY <2>3, ChunksAre
  <2>5. \A i \in 1..(n + 1) : i \in 1..n \/ i = n + 1
    BY <2>2
  <2> HIDE DEF n
  <2> QED
    BY <2>1, <2>2, <2>4, <2>5
<1> QED
  BY <1>2, <1>3, <1>4, <1>5

-----------------------------------------------------------------------------
(* Plan: what the decomposition of a task consists of.                     *)

\* One level takes lists of tasks to a list of tasks.
LEMMA DividedIs ==
  ASSUME NEW deeper \in [Tasks -> Seq(Tasks)], NEW t \in Tasks
  PROVE  /\ Divided(t, deeper) \in Seq(Tasks)
         /\ t.shape.parts = <<>> => Divided(t, deeper) = <<t>>
         /\ t.shape.parts # <<>> =>
              Range(Divided(t, deeper)) = UNION {Range(deeper[Split(t)[i]]) : i \in DOMAIN Split(t)}
<1>1. CASE t.shape.parts = <<>>
  BY <1>1 DEF Divided
<1>2. CASE t.shape.parts # <<>>
  <2> DEFINE s == [i \in DOMAIN Split(t) |-> deeper[Split(t)[i]]]
             n == Len(Split(t))
  <2>1. Split(t) \in Seq(Tasks) /\ n \in Nat /\ DOMAIN Split(t) = 1..n
    BY <1>2, PartsAre
  <2>2. \A i \in DOMAIN Split(t) : deeper[Split(t)[i]] \in Seq(Tasks)
    BY <2>1
  <2>3. s \in Seq(Seq(Tasks)) /\ DOMAIN s = DOMAIN Split(t)
    <3>1. s \in [1..n -> Seq(Tasks)]
      BY <2>1, <2>2
    <3> HIDE DEF s, n
    <3> QED
      BY <2>1, <3>1
  <2>4. \A i \in DOMAIN Split(t) : s[i] = deeper[Split(t)[i]]
    OBVIOUS
  <2>5. Divided(t, deeper) = FlattenSeq(s)
    BY <1>2 DEF Divided
  <2> HIDE DEF s, n
  <2>6. /\ FlattenSeq(s) \in Seq(Tasks)
        /\ Range(FlattenSeq(s)) = UNION {Range(s[i]) : i \in DOMAIN s}
    BY <2>3, FlattenRange
  <2>7. {Range(s[i]) : i \in DOMAIN s} = {Range(deeper[Split(t)[i]]) : i \in DOMAIN Split(t)}
    BY <2>3, <2>4
  <2> QED
    BY <1>2, <2>5, <2>6, <2>7
<1> QED
  BY <1>1, <1>2

\* The recursion in Decompose.
Decomposing(f) ==
  f = [k \in Nat |-> [u \in Tasks |-> IF k = 0 THEN <<u>> ELSE Divided(u, f[k - 1])]]

\* There is a function that Decompose describes.
LEMMA DecomposeIsDefined == \E f : Decomposing(f)
<1> DEFINE Lists == [Tasks -> Seq(Tasks)]
           a == [u \in Tasks |-> <<u>>]
           next(v) == [u \in Tasks |-> Divided(u, v)]
           step == [p \in Nat \X Lists |-> next(p[2])]
<1>1. a \in Lists
  <2>1. \A u \in Tasks : <<u>> \in Seq(Tasks)
    OBVIOUS
  <2> QED
    BY <2>1
<1>2. ASSUME NEW v \in Lists
      PROVE  next(v) \in Lists
  BY DividedIs
<1>3. step \in [Nat \X Lists -> Lists]
  <2> HIDE DEF next, Lists
  <2> QED
    BY <1>2
<1>4. PICK g \in [Nat -> Lists] : RecursAlways(a, step, g)
  <2> HIDE DEF step, a, Lists
  <2> QED
    BY <1>1, <1>3, NatRecursionAlways
<1>5. ASSUME NEW k \in Nat
      PROVE  g[k + 1] = next(g[k])
  <2>1. g[k + 1] = step[<<k + 1, g[k]>>]
    <3> HIDE DEF step
    <3> QED
      BY <1>4 DEF RecursAlways
  <2>2. <<k + 1, g[k]>> \in Nat \X Lists
    <3> HIDE DEF Lists
    <3> QED
      BY <1>4
  <2> HIDE DEF next, Lists
  <2> QED
    BY <2>1, <2>2
<1>6. ASSUME NEW k \in Nat
      PROVE  g[k] = [u \in Tasks |-> IF k = 0 THEN <<u>> ELSE Divided(u, g[k - 1])]
  <2>1. CASE k = 0
    BY <1>4, <2>1 DEF RecursAlways
  <2>2. CASE k # 0
    <3>1. k - 1 \in Nat /\ (k - 1) + 1 = k
      BY <2>2
    <3>2. g[(k - 1) + 1] = next(g[k - 1])
      <4> HIDE DEF next
      <4> QED
        BY <1>5, <3>1
    <3>3. g[k] = next(g[k - 1])
      <4> HIDE DEF next
      <4> QED
        BY <3>1, <3>2
    <3> QED
      BY <2>2, <3>3
  <2> QED
    BY <2>1, <2>2
<1>7. DOMAIN g = Nat /\ g = [k \in Nat |-> g[k]]
  <2> HIDE DEF Lists
  <2> QED
    BY <1>4
<1>8. Decomposing(g)
  BY <1>6, <1>7 DEF Decomposing
<1> QED
  BY <1>8

\* The tasks that a task is decomposed into.
Pieces(t, depth) == Range(Decompose(t, depth))

\* Decompose leaves a task alone that has no parts, or is nested too deep, and
\* otherwise decomposes its parts.
LEMMA DecomposeIs ==
  ASSUME NEW t \in Tasks, NEW depth \in Nat
  PROVE  /\ Decompose(t, depth) \in Seq(Tasks)
         /\ depth = 0 \/ t.shape.parts = <<>> => Decompose(t, depth) = <<t>>
         /\ depth # 0 /\ t.shape.parts # <<>> =>
              Pieces(t, depth) = UNION {Pieces(Split(t)[i], depth - 1) : i \in DOMAIN Split(t)}
<1> DEFINE Lists == [Tasks -> Seq(Tasks)]
           it == CHOOSE f : Decomposing(f)
<1>1. Decomposing(it)
  BY DecomposeIsDefined
<1>2. \A u, k : Decompose(u, k) = it[k][u]
  BY DEF Decompose, Decomposing
<1> HIDE DEF it
<1>3. ASSUME NEW k \in Nat
      PROVE  it[k] = [u \in Tasks |-> IF k = 0 THEN <<u>> ELSE Divided(u, it[k - 1])]
  BY <1>1 DEF Decomposing
<1>4. ASSUME NEW u \in Tasks
      PROVE  /\ it[0][u] = <<u>>
             /\ \A k \in Nat : it[k + 1][u] = Divided(u, it[k])
  <2>1. it[0][u] = <<u>>
    <3>1. 0 \in Nat
      OBVIOUS
    <3> QED
      BY <1>3, <3>1
  <2>2. ASSUME NEW k \in Nat
        PROVE  it[k + 1][u] = Divided(u, it[k])
    <3>1. k + 1 \in Nat /\ k + 1 # 0 /\ (k + 1) - 1 = k
      OBVIOUS
    <3>2. it[k + 1] = [w \in Tasks |-> IF k + 1 = 0 THEN <<w>> ELSE Divided(w, it[(k + 1) - 1])]
      BY <1>3, <3>1
    <3> QED
      BY <3>1, <3>2
  <2> QED
    BY <2>1, <2>2
<1> DEFINE S == {k \in Nat : it[k] \in Lists}
<1>5. \A k \in Nat : it[k] \in Lists
  <2>1. 0 \in S
    <3>1. \A u \in Tasks : <<u>> \in Seq(Tasks)
      OBVIOUS
    <3>2. it[0] = [u \in Tasks |-> <<u>>]
      <4>1. 0 \in Nat
        OBVIOUS
      <4> QED
        BY <1>3, <4>1
    <3> QED
      BY <3>1, <3>2
  <2>2. ASSUME NEW k \in Nat, k \in S
        PROVE  k + 1 \in S
    <3>1. it[k] \in Lists
      BY <2>2
    <3>2. \A u \in Tasks : it[k + 1][u] \in Seq(Tasks)
      BY <1>4, <3>1, DividedIs
    <3>3. it[k + 1] = [u \in Tasks |-> it[k + 1][u]]
      <4>1. k + 1 \in Nat
        OBVIOUS
      <4>2. it[k + 1] = [w \in Tasks |-> IF k + 1 = 0 THEN <<w>> ELSE Divided(w, it[(k + 1) - 1])]
        BY <1>3, <4>1
      <4> QED
        BY <4>2
    <3>4. it[k + 1] \in Lists
      BY <3>2, <3>3
    <3> QED
      BY <3>4
  <2>3. \A k \in Nat : k \in S
    <3> HIDE DEF S
    <3> QED
      BY <2>1, <2>2, NatSetInduction
  <2> QED
    BY <2>3
<1>6. Decompose(t, depth) \in Seq(Tasks)
  BY <1>2, <1>5
<1>7. CASE depth = 0
  BY <1>2, <1>4, <1>6, <1>7
<1>8. CASE depth # 0
  <2>1. depth - 1 \in Nat /\ (depth - 1) + 1 = depth
    BY <1>8
  <2>2. Decompose(t, depth) = Divided(t, it[depth - 1])
    <3>1. it[(depth - 1) + 1][t] = Divided(t, it[depth - 1])
      BY <1>4, <2>1
    <3> QED
      BY <1>2, <2>1, <3>1
  <2>3. it[depth - 1] \in Lists
    BY <1>5, <2>1
  <2>4. /\ t.shape.parts = <<>> => Decompose(t, depth) = <<t>>
        /\ t.shape.parts # <<>> =>
             Range(Decompose(t, depth)) =
               UNION {Range(it[depth - 1][Split(t)[i]]) : i \in DOMAIN Split(t)}
    BY <2>2, <2>3, DividedIs
  <2>5. \A i : Range(it[depth - 1][Split(t)[i]]) = Pieces(Split(t)[i], depth - 1)
    BY <1>2 DEF Pieces
  <2> QED
    BY <1>6, <1>8, <2>4, <2>5 DEF Pieces
<1> QED
  BY <1>7, <1>8

-----------------------------------------------------------------------------
(* Plan: the ids of the tasks and what they depend on.                     *)

\* What an id with one more number is a prefix of.
LEMMA LongerPrefix ==
  ASSUME NEW id \in Seq(Nat), NEW k \in Nat, NEW later \in Seq(Nat),
         IsPrefix(Append(id, k), later)
  PROVE  IsPrefix(id, later) /\ later # id /\ later[Len(id) + 1] = k
<1> DEFINE n == Len(id)
           a == Append(id, k)
<1>1. /\ a \in Seq(Nat) /\ Len(a) = n + 1 /\ n \in Nat /\ a[n + 1] = k
      /\ \A i \in 1..n : a[i] = id[i]
  BY AppendProperties
<1> HIDE DEF a
<1>2. n + 1 <= Len(later) /\ \A i \in 1..(n + 1) : a[i] = later[i]
  <2>1. IsPrefix(a, later)
    BY DEF a
  <2>2. Len(a) <= Len(later) /\ \A i \in 1..Len(a) : a[i] = later[i]
    <3>1. a \in Seq(Nat) /\ later \in Seq(Nat)
      BY <1>1
    <3> HIDE DEF n
    <3> QED
      BY <2>1, <3>1, PrefixIs
  <2> QED
    BY <1>1, <2>2
<1>3. \A i \in 1..n : i \in 1..(n + 1)
  BY <1>1
<1>4. n + 1 \in 1..(n + 1) /\ n <= Len(later) /\ Len(later) # n
  BY <1>1, <1>2
<1>5. IsPrefix(id, later)
  <2>1. \A i \in 1..Len(id) : id[i] = later[i]
    BY <1>1, <1>2, <1>3
  <2> QED
    BY <1>4, <2>1, PrefixIs
<1> QED
  BY <1>1, <1>2, <1>4, <1>5

\* The ids in R are that of t or begin with it, and that of t is there alone.
Below(R, t) == \A u \in R : IsPrefix(t.id, u.id) /\ (u.id = t.id => R = {t})

\* What a task is decomposed into has longer ids, unless it is the task.
LEMMA PiecesBelow ==
  ASSUME NEW t \in Tasks, NEW depth \in Nat
  PROVE  Below(Pieces(t, depth), t) /\ Pieces(t, depth) \in SUBSET Tasks
<1> DEFINE S == {k \in Nat : \A u \in Tasks : Below(Pieces(u, k), u)}
<1>1. \A u \in Tasks, k \in Nat : Pieces(u, k) \in SUBSET Tasks
  <2> SUFFICES ASSUME NEW u \in Tasks, NEW k \in Nat PROVE Pieces(u, k) \in SUBSET Tasks
    OBVIOUS
  <2>1. Decompose(u, k) \in Seq(Tasks)
    BY DecomposeIs
  <2> QED
    BY <2>1, RangeOfSeq DEF Pieces
<1>2. ASSUME NEW u \in Tasks, NEW k \in Nat, k = 0 \/ u.shape.parts = <<>>
      PROVE  Pieces(u, k) = {u} /\ Below(Pieces(u, k), u)
  <2>1. Decompose(u, k) = <<u>>
    BY <1>2, DecomposeIs
  <2>2. Pieces(u, k) = {u}
    BY <2>1 DEF Pieces, Range
  <2>3. IsPrefix(u.id, u.id)
    BY DEF Tasks, IsPrefix
  <2> QED
    BY <2>2, <2>3 DEF Below
<1>3. 0 \in S
  BY <1>2
<1>4. ASSUME NEW k \in Nat, k \in S
      PROVE  k + 1 \in S
  <2> SUFFICES ASSUME NEW u \in Tasks, u.shape.parts # <<>>
               PROVE  Below(Pieces(u, k + 1), u)
    BY <1>2
  <2>1. Pieces(u, k + 1) = UNION {Pieces(Split(u)[i], k) : i \in DOMAIN Split(u)}
    <3>1. k + 1 \in Nat /\ k + 1 # 0 /\ (k + 1) - 1 = k
      OBVIOUS
    <3>2. Pieces(u, k + 1) = UNION {Pieces(Split(u)[i], (k + 1) - 1) : i \in DOMAIN Split(u)}
      BY <3>1, DecomposeIs
    <3> QED
      BY <3>1, <3>2
  <2> SUFFICES ASSUME NEW v \in Pieces(u, k + 1)
               PROVE  IsPrefix(u.id, v.id) /\ v.id # u.id
    BY DEF Below
  <2>2. PICK i \in DOMAIN Split(u) : v \in Pieces(Split(u)[i], k)
    BY <2>1
  <2>3. Split(u)[i] \in Tasks
    BY PartsAre
  <2>4. PICK m \in Nat : Split(u)[i].id = PartId(u, m)
    BY PartsAre
  <2>5. IsPrefix(Append(u.id, m), v.id)
    BY <1>4, <2>2, <2>3, <2>4 DEF Below, PartId
  <2>6. u.id \in Seq(Nat) /\ v.id \in Seq(Nat)
    <3>1. v \in Tasks
      BY <1>1, <2>2, <2>3
    <3> QED
      BY <3>1 DEF Tasks
  <2> QED
    BY <2>5, <2>6, LongerPrefix
<1>5. \A k \in Nat : k \in S
  <2> HIDE DEF S
  <2> QED
    BY <1>3, <1>4, NatSetInduction
<1> QED
  BY <1>1, <1>5

\* Those in R that wait for all that t waits for.
AsEarly(R, t) == {v \in R : v.deps = t.deps}

\* All in R wait for what t waits for: some themselves, the others for one of those.
Covered(R, t) ==
  /\ AsEarly(R, t) # {}
  /\ \A u \in R : u \in AsEarly(R, t) \/ \E v \in AsEarly(R, t) : v.id \in u.deps

\* A task that is made of steps is the only one whose parts do not wait.
LEMMA PiecesCover ==
  ASSUME NEW t \in Tasks, NEW depth \in Nat, t.shape.by # "steps"
  PROVE  Covered(Pieces(t, depth), t)
<1>1. CASE depth = 0 \/ t.shape.parts = <<>>
  <2>1. Pieces(t, depth) = {t}
    <3>1. Decompose(t, depth) = <<t>>
      BY <1>1, DecomposeIs
    <3> QED
      BY <3>1 DEF Pieces, Range
  <2> QED
    BY <2>1 DEF Covered, AsEarly
<1>2. CASE depth # 0 /\ t.shape.parts # <<>>
  <2> DEFINE n == Len(t.shape.parts)
  <2>1. /\ t.shape.by \in {"chunks", "maps"} /\ n \in Nat /\ n # 0
        /\ DOMAIN t.shape.parts = 1..n /\ \A i \in 1..n : t.shape.parts[i] = Whole
    <3>1. t.shape \in AnyShape
      BY DEF Tasks, AnyShape
    <3>2. t.shape.by \in {"chunks", "maps"}
      BY <1>2, <3>1, ShapeKinds
    <3>3. t.shape.parts = Wholes(MaxParts)
      BY <3>1, <3>2, ShapeKinds
    <3>4. MaxParts \in Nat /\ MaxParts # 0
      BY PlanningAssumption
    <3> QED
      BY <3>2, <3>3, <3>4 DEF Wholes
  <2>2. /\ Chunked(t) \in Seq(Tasks) /\ DOMAIN Chunked(t) = 1..n
        /\ \A i \in 1..n : Chunked(t)[i].deps = t.deps /\ Chunked(t)[i].shape = Whole
    BY <2>1, ChunksAre
  <2>3. /\ Split(t) \in Seq(Tasks) /\ 1..n \subseteq DOMAIN Split(t)
        /\ \A i \in 1..n : Split(t)[i] = Chunked(t)[i]
        /\ \A i \in DOMAIN Split(t) :
             /\ Split(t)[i].shape = Whole
             /\ i \in 1..n \/ \A j \in 1..n : Chunked(t)[j].id \in Split(t)[i].deps
    <3>1. CASE t.shape.by = "chunks"
      <4>1. Split(t) = Chunked(t)
        BY <3>1 DEF Split
      <4> QED
        BY <2>2, <4>1
    <3>2. CASE t.shape.by = "maps"
      <4>1. Split(t) = MapReduced(t)
        BY <3>2 DEF Split
      <4>2. /\ MapReduced(t) \in Seq(Tasks) /\ DOMAIN MapReduced(t) = 1..(n + 1)
            /\ \A i \in 1..n : MapReduced(t)[i] = Chunked(t)[i]
            /\ MapReduced(t)[n + 1].shape = Whole
            /\ \A i \in 1..n : Chunked(t)[i].id \in MapReduced(t)[n + 1].deps
        BY MapsAre
      <4>3. /\ 1..n \subseteq 1..(n + 1)
            /\ \A i \in 1..(n + 1) : i \in 1..n \/ i = n + 1
        BY <2>1
      <4> HIDE DEF n
      <4> QED
        BY <2>2, <4>1, <4>2, <4>3
    <3> QED
      BY <2>1, <3>1, <3>2
  <2>4. depth - 1 \in Nat
    BY <1>2
  <2>5. ASSUME NEW i \in DOMAIN Split(t)
        PROVE  Pieces(Split(t)[i], depth - 1) = {Split(t)[i]}
    <3>1. Split(t)[i] \in Tasks
      BY <2>3
    <3>2. Split(t)[i].shape.parts = <<>>
      BY <2>3 DEF Whole
    <3>3. Decompose(Split(t)[i], depth - 1) = <<Split(t)[i]>>
      BY <2>4, <3>1, <3>2, DecomposeIs
    <3> QED
      BY <3>3 DEF Pieces, Range
  <2>6. Pieces(t, depth) = UNION {Pieces(Split(t)[i], depth - 1) : i \in DOMAIN Split(t)}
    BY <1>2, DecomposeIs
  <2> DEFINE R == Pieces(t, depth)
  <2>7. R = {Split(t)[i] : i \in DOMAIN Split(t)}
    BY <2>5, <2>6
  <2> HIDE DEF R, n
  <2>8. \A i \in 1..n : Chunked(t)[i] \in AsEarly(R, t)
    BY <2>2, <2>3, <2>7 DEF AsEarly
  <2>9. 1 \in 1..n
    BY <2>1
  <2>10. ASSUME NEW u \in R
         PROVE  u \in AsEarly(R, t) \/ \E v \in AsEarly(R, t) : v.id \in u.deps
    <3>1. PICK i \in DOMAIN Split(t) : u = Split(t)[i]
      BY <2>7
    <3>2. CASE i \in 1..n
      BY <2>3, <2>8, <3>1, <3>2
    <3>3. CASE i \notin 1..n
      BY <2>3, <2>8, <2>9, <3>1, <3>3
    <3> QED
      BY <3>2, <3>3
  <2>11. Covered(R, t)
    BY <2>8, <2>9, <2>10 DEF Covered
  <2> QED
    BY <2>11 DEF R
<1> QED
  BY <1>1, <1>2

-----------------------------------------------------------------------------
(* Plan: the levels.                                                       *)

\* The levels below i that AssignLevels looks at for task i.
LevelsBefore(ts, f, i) == {f[j] : j \in {k \in 1..i - 1 : ts[k].id \in ts[i].deps}}

\* The recursion in Levels.
Levelling(ts, f) ==
  f = [i \in DOMAIN ts |->
         Max({-1} \cup {f[j] : j \in {k \in 1..i - 1 : ts[k].id \in ts[i].deps}}) + 1]

\* The greatest of the levels before i, if there are any.
LEMMA LevelOnTop ==
  ASSUME NEW ts, NEW f, NEW i \in Nat \ {0}, \A j \in 1..(i - 1) : f[j] \in 0..j
  PROVE  LET top == Max({-1} \cup LevelsBefore(ts, f, i))
         IN  top + 1 \in 0..i /\ \A m \in LevelsBefore(ts, f, i) : m < top + 1
<1> DEFINE T == {-1} \cup LevelsBefore(ts, f, i)
<1>1. ASSUME NEW m \in T
      PROVE  m \in Int /\ -1 <= m /\ m <= i - 1
  <2>1. CASE m = -1
    BY <2>1
  <2>2. CASE m \in LevelsBefore(ts, f, i)
    <3>1. PICK j \in 1..(i - 1) : m = f[j]
      BY <2>2 DEF LevelsBefore
    <3>2. f[j] \in 0..j
      BY <3>1
    <3> QED
      BY <3>1, <3>2
  <2> QED
    BY <2>1, <2>2
<1>2. T # {} /\ T \in SUBSET Int
  BY <1>1
<1> HIDE DEF T
<1>3. Max(T) \in T /\ \A k \in T : k <= Max(T)
  <2>1. i - 1 \in Int /\ \A k \in T : k <= i - 1
    BY <1>1
  <2> QED
    BY <1>2, <2>1, GreatestInteger
<1>4. Max(T) \in Int /\ -1 <= Max(T) /\ Max(T) <= i - 1
  BY <1>1, <1>3
<1>5. Max(T) + 1 \in 0..i
  BY <1>4
<1>6. \A m \in T : m < Max(T) + 1
  BY <1>1, <1>3, <1>4
<1> QED
  BY <1>5, <1>6 DEF T

\* There are levels as Levels describes them.
LEMMA LevelsAreDefined ==
  ASSUME NEW ts, NEW n \in Nat, DOMAIN ts = 1..n
  PROVE  \E f : Levelling(ts, f)
<1> DEFINE A == {f \in [Nat -> Nat] : \A j \in Nat : f[j] \in 0..j}
           level(f, i) == Max({-1} \cup LevelsBefore(ts, f, i)) + 1
           next(i, f) == IF i = 0 THEN f ELSE [f EXCEPT ![i] = level(f, i)]
           step == [p \in Nat \X A |-> next(p[1], p[2])]
           a == [j \in Nat |-> 0]
<1>1. a \in A
  OBVIOUS
<1>2. ASSUME NEW i \in Nat, NEW f \in A
      PROVE  next(i, f) \in A
  <2>1. CASE i = 0
    BY <2>1
  <2>2. CASE i # 0
    <3>1. level(f, i) \in 0..i
      <4>1. i \in Nat \ {0} /\ \A j \in 1..(i - 1) : f[j] \in 0..j
        BY <2>2
      <4> QED
        BY <4>1, LevelOnTop
    <3> HIDE DEF level
    <3>2. level(f, i) \in Nat
      BY <3>1
    <3> QED
      BY <2>2, <3>1, <3>2
  <2> QED
    BY <2>1, <2>2
<1>3. step \in [Nat \X A -> A]
  <2> HIDE DEF next, A
  <2> QED
    BY <1>2
<1>4. PICK g \in [Nat -> A] : RecursAlways(a, step, g)
  <2> HIDE DEF step, a, A
  <2> QED
    BY <1>1, <1>3, NatRecursionAlways
<1>5. ASSUME NEW k \in Nat
      PROVE  g[k + 1] = [g[k] EXCEPT ![k + 1] = level(g[k], k + 1)]
  <2>1. g[k + 1] = step[<<k + 1, g[k]>>]
    <3> HIDE DEF step
    <3> QED
      BY <1>4 DEF RecursAlways
  <2>2. <<k + 1, g[k]>> \in Nat \X A
    <3> HIDE DEF A
    <3> QED
      BY <1>4
  <2>3. g[k + 1] = next(k + 1, g[k])
    <3> HIDE DEF next, A
    <3> QED
      BY <2>1, <2>2
  <2> HIDE DEF level
  <2> QED
    BY <2>3
\* What has been levelled stays.
<1> DEFINE Stays(k) == \A m \in Nat : k <= m => g[m][k] = g[k][k]
<1>6. ASSUME NEW k \in Nat
      PROVE  Stays(k)
  <2> DEFINE S == {d \in Nat : g[k + d][k] = g[k][k]}
  <2>1. 0 \in S
    OBVIOUS
  <2>2. ASSUME NEW d \in Nat, d \in S
        PROVE  d + 1 \in S
    <3>1. k + d \in Nat /\ (k + d) + 1 = k + (d + 1) /\ (k + d) + 1 # k
      OBVIOUS
    <3>2. g[(k + d) + 1] = [g[k + d] EXCEPT ![(k + d) + 1] = level(g[k + d], (k + d) + 1)]
      <4> HIDE DEF level
      <4> QED
        BY <1>5, <3>1
    <3>3. k \in DOMAIN g[k + d]
      BY <1>4, <3>1
    <3>4. g[(k + d) + 1][k] = g[k + d][k]
      <4> HIDE DEF level
      <4> QED
        BY <3>1, <3>2, <3>3
    <3> QED
      BY <2>2, <3>1, <3>4
  <2>3. \A d \in Nat : d \in S
    <3> HIDE DEF S
    <3> QED
      BY <2>1, <2>2, NatSetInduction
  <2>4. ASSUME NEW m \in Nat, k <= m
        PROVE  g[m][k] = g[k][k]
    <3>1. m - k \in Nat /\ k + (m - k) = m
      BY <2>4
    <3>2. g[k + (m - k)][k] = g[k][k]
      BY <2>3, <3>1
    <3> QED
      BY <3>1, <3>2
  <2> QED
    BY <2>4
<1> DEFINE h == [i \in 1..n |-> g[i][i]]
<1>7. ASSUME NEW i \in 1..n
      PROVE  h[i] = Max({-1} \cup {h[j] : j \in {k \in 1..i - 1 : ts[k].id \in ts[i].deps}}) + 1
  <2>1. i \in Nat /\ i - 1 \in Nat /\ (i - 1) + 1 = i
    OBVIOUS
  <2>2. g[i] = [g[i - 1] EXCEPT ![i] = level(g[i - 1], i)]
    <3>1. g[(i - 1) + 1] = [g[i - 1] EXCEPT ![(i - 1) + 1] = level(g[i - 1], (i - 1) + 1)]
      <4> HIDE DEF level
      <4> QED
        BY <1>5, <2>1
    <3> HIDE DEF level
    <3> QED
      BY <2>1, <3>1
  <2>3. h[i] = level(g[i - 1], i)
    <3>1. i \in DOMAIN g[i - 1]
      BY <1>4, <2>1
    <3> HIDE DEF level
    <3> QED
      BY <2>2, <3>1
  <2> DEFINE K == {k \in 1..i - 1 : ts[k].id \in ts[i].deps}
  <2>4. \A j \in K : g[i - 1][j] = h[j]
    <3> SUFFICES ASSUME NEW j \in K PROVE g[i - 1][j] = h[j]
      OBVIOUS
    <3>1. j \in Nat /\ j <= i - 1 /\ j \in 1..n
      BY <2>1
    <3>2. g[i - 1][j] = g[j][j]
      BY <1>6, <2>1, <3>1
    <3> QED
      BY <3>1, <3>2
  <2> HIDE DEF K, h
  <2>5. {g[i - 1][j] : j \in K} = {h[j] : j \in K}
    BY <2>4
  <2>6. LevelsBefore(ts, g[i - 1], i) = {h[j] : j \in K}
    BY <2>5 DEF LevelsBefore, K
  <2> QED
    BY <2>3, <2>6 DEF K
<1> HIDE DEF h
<1>8. h = [i \in 1..n |-> h[i]]
  BY DEF h
<1>9. Levelling(ts, h)
  BY <1>7, <1>8 DEF Levelling
<1> QED
  BY <1>9

\* A task is on a higher level than those added before it that it depends on.
LEMMA LevelsRise ==
  ASSUME NEW ts, NEW n \in Nat, DOMAIN ts = 1..n
  PROVE  \A x \in 1..n :
           /\ Levels(ts)[x] \in Nat
           /\ \A y \in 1..(x - 1) : ts[y].id \in ts[x].deps => Levels(ts)[y] < Levels(ts)[x]
<1> DEFINE f == CHOOSE level : Levelling(ts, level)
<1>1. Levelling(ts, f)
  BY LevelsAreDefined
<1>2. Levels(ts) = f
  BY DEF Levels, Levelling
<1> HIDE DEF f
<1>3. \A i \in 1..n : f[i] = Max({-1} \cup LevelsBefore(ts, f, i)) + 1
  BY <1>1 DEF Levelling, LevelsBefore
<1> DEFINE S == {k \in Nat : \A i \in 1..n : i <= k => f[i] \in 0..i}
<1>4. \A i \in 1..n : f[i] \in 0..i
  <2>1. 0 \in S
    OBVIOUS
  <2>2. ASSUME NEW k \in Nat, k \in S
        PROVE  k + 1 \in S
    <3> SUFFICES ASSUME NEW i \in 1..n, i <= k + 1
                 PROVE  f[i] \in 0..i
      BY <2>2
    <3>1. i \in Nat \ {0} /\ \A j \in 1..(i - 1) : f[j] \in 0..j
      <4>1. \A j \in 1..(i - 1) : j \in 1..n /\ j <= k
        OBVIOUS
      <4> QED
        BY <2>2, <4>1
    <3>2. Max({-1} \cup LevelsBefore(ts, f, i)) + 1 \in 0..i
      BY <3>1, LevelOnTop
    <3> QED
      BY <1>3, <3>2
  <2>3. \A k \in Nat : k \in S
    <3> HIDE DEF S
    <3> QED
      BY <2>1, <2>2, NatSetInduction
  <2>4. n \in S
    BY <2>3
  <2> QED
    BY <2>4
<1>5. ASSUME NEW x \in 1..n, NEW y \in 1..(x - 1), ts[y].id \in ts[x].deps
      PROVE  f[y] < f[x]
  <2>1. x \in Nat \ {0} /\ \A j \in 1..(x - 1) : f[j] \in 0..j
    <3>1. \A j \in 1..(x - 1) : j \in 1..n
      OBVIOUS
    <3> QED
      BY <1>4, <3>1
  <2>2. \A m \in LevelsBefore(ts, f, x) : m < Max({-1} \cup LevelsBefore(ts, f, x)) + 1
    BY <2>1, LevelOnTop
  <2>3. f[y] \in LevelsBefore(ts, f, x)
    BY <1>5 DEF LevelsBefore
  <2> QED
    BY <1>3, <2>2, <2>3
<1>6. \A x \in 1..n : f[x] \in Nat
  BY <1>4
<1> QED
  BY <1>2, <1>5, <1>6

-----------------------------------------------------------------------------
(* Plan: the order of what is planned.                                     *)

\* Ids are unique, what a task depends on is there, and lower.
InOrder(ts, level) ==
  /\ \A x, y \in DOMAIN ts : ts[x].id = ts[y].id => x = y
  /\ \A x \in DOMAIN ts : level[x] \in Int
  /\ \A x \in DOMAIN ts : \A id \in ts[x].deps : \E y \in DOMAIN ts : ts[y].id = id
  /\ \A x, y \in DOMAIN ts : ts[y].id \in ts[x].deps => level[y] < level[x]

\* Tasks that the graph takes are in order.
LEMMA AcceptedInOrder ==
  ASSUME NEW ts \in Seq(Tasks), \A i \in DOMAIN ts : CanAdd(ts, i), ~Cyclic(ts)
  PROVE  InOrder(ts, Levels(ts))
<1> DEFINE n == Len(ts)
<1>1. n \in Nat /\ DOMAIN ts = 1..n
  OBVIOUS
<1> HIDE DEF n
<1>2. ASSUME NEW x \in 1..n, NEW y \in 1..n, ts[x].id = ts[y].id
      PROVE  x = y
  <2>1. ASSUME NEW i \in 1..n, NEW j \in 1..n, j < i
        PROVE  ts[i].id # ts[j].id
    <3>1. CanAdd(ts, i)
      BY <1>1
    <3>2. j \in 1..i - 1
      BY <1>1, <2>1
    <3> QED
      BY <3>1, <3>2 DEF CanAdd
  <2>2. x < y \/ y < x \/ x = y
    BY <1>1
  <2> QED
    BY <1>2, <2>1, <2>2
<1>3. ASSUME NEW x \in 1..n, NEW id \in ts[x].deps
      PROVE  \E y \in 1..(x - 1) : ts[y].id = id
  <2>1. CanAdd(ts, x)
    BY <1>1
  <2>2. PICK y \in 1..x : ts[y].id = id
    BY <2>1 DEF CanAdd
  <2>3. y # x
    BY <1>1, <2>2 DEF Cyclic
  <2>4. y \in 1..(x - 1)
    BY <1>1, <2>2, <2>3
  <2> QED
    BY <2>2, <2>4
<1>4. \A x \in 1..n : \A y \in 1..(x - 1) : y \in 1..n
  BY <1>1
<1>5. \A x \in 1..n :
        /\ Levels(ts)[x] \in Nat
        /\ \A y \in 1..(x - 1) : ts[y].id \in ts[x].deps => Levels(ts)[y] < Levels(ts)[x]
  BY <1>1, LevelsRise
<1>6. ASSUME NEW x \in 1..n, NEW y \in 1..n, ts[y].id \in ts[x].deps
      PROVE  Levels(ts)[y] < Levels(ts)[x]
  <2>1. PICK z \in 1..(x - 1) : ts[z].id = ts[y].id
    BY <1>3, <1>6
  <2>2. z = y
    BY <1>2, <1>4, <2>1
  <2> QED
    BY <1>5, <1>6, <2>1, <2>2
<1> QED
  BY <1>1, <1>2, <1>3, <1>4, <1>5, <1>6 DEF InOrder

\* What begins with id is in R.
Family(ts, id, R) == \A x \in DOMAIN ts : IsPrefix(id, ts[x].id) => ts[x] \in R

\* A task that is planned under its own id was not decomposed.
Alone(ts, id) ==
  \A y, z \in DOMAIN ts : ts[z].id = id /\ IsPrefix(id, ts[y].id) => ts[y].id = id

\* A decomposition of a task has the task alone, or not at all.
LEMMA FamilyAlone ==
  ASSUME NEW ts, NEW t \in Tasks, NEW R, Below(R, t), Family(ts, t.id, R)
  PROVE  Alone(ts, t.id)
<1> SUFFICES ASSUME NEW y \in DOMAIN ts, NEW z \in DOMAIN ts,
                    ts[z].id = t.id, IsPrefix(t.id, ts[y].id)
             PROVE  ts[y].id = t.id
  BY DEF Alone
<1>1. IsPrefix(t.id, t.id)
  BY DEF Tasks, IsPrefix
<1>2. ts[z] \in R /\ ts[y] \in R
  BY <1>1 DEF Family
<1> QED
  BY <1>2 DEF Below

\* If what is there of a task waits for all that the task waits for, then it comes
\* after what the task waits for.
LEMMA CoveredComesLater ==
  ASSUME NEW ts, NEW level, InOrder(ts, level), NEW t, NEW R \in SUBSET Range(ts),
         Covered(R, t), Family(ts, t.id, R), NEW id \in t.deps, Alone(ts, id)
  PROVE  /\ \E z \in DOMAIN ts : ts[z].id = id
         /\ \A x, y \in DOMAIN ts :
              IsPrefix(id, ts[y].id) /\ IsPrefix(t.id, ts[x].id) => level[y] < level[x]
<1>1. PICK a \in R : a.deps = t.deps
  BY DEF Covered, AsEarly
<1>2. PICK z \in DOMAIN ts : ts[z].id = id
  <2>1. PICK x \in DOMAIN ts : ts[x] = a
    BY <1>1 DEF Range
  <2> QED
    BY <1>1, <2>1 DEF InOrder
<1>3. ASSUME NEW x \in DOMAIN ts, NEW y \in DOMAIN ts,
             IsPrefix(id, ts[y].id), IsPrefix(t.id, ts[x].id)
      PROVE  level[y] < level[x]
  <2>1. ts[y].id = id
    BY <1>2, <1>3 DEF Alone
  <2>2. ts[x] \in R
    BY <1>3 DEF Family
  <2>3. CASE ts[x].deps = t.deps
    BY <2>1, <2>3 DEF InOrder
  <2>4. CASE ts[x].deps # t.deps
    <3>1. PICK v \in R : v.deps = t.deps /\ v.id \in ts[x].deps
      BY <2>2, <2>4 DEF Covered, AsEarly
    <3>2. PICK w \in DOMAIN ts : ts[w] = v
      BY <3>1 DEF Range
    <3>3. level[y] < level[w]
      BY <2>1, <3>1, <3>2 DEF InOrder
    <3>4. level[w] < level[x]
      BY <3>1, <3>2 DEF InOrder
    <3>5. level[y] \in Int /\ level[w] \in Int /\ level[x] \in Int
      BY DEF InOrder
    <3> QED
      BY <3>3, <3>4, <3>5
  <2> QED
    BY <2>3, <2>4
<1> QED
  BY <1>2, <1>3

\* The tasks that were asked for.
LEMMA AskedAre ==
  ASSUME NEW n \in Nat, NEW r \in Requests(n)
  PROVE  /\ DOMAIN r = 1..n
         /\ \A i \in 1..n : /\ Asked(r)[i] \in Tasks /\ Asked(r)[i].id = <<i>>
                            /\ Asked(r)[i].deps = r[i].deps /\ Asked(r)[i].shape = r[i].shape
                            /\ \A id \in r[i].deps : \E k \in Nat : id = <<k>>
<1>1. DOMAIN r = 1..n /\ \A i \in 1..n : /\ r[i].deps \in SUBSET {<<k>> : k \in 1..n + 1}
                                         /\ r[i].shape \in Shapes
  BY DEF Requests
<1>2. ASSUME NEW i \in 1..n
      PROVE  Asked(r)[i] = TaskOf(<<i>>, r[i].deps, r[i].shape)
  BY <1>1 DEF Asked
<1>3. ASSUME NEW i \in 1..n, NEW id \in r[i].deps
      PROVE  \E k \in Nat : id = <<k>>
  <2>1. PICK k \in 1..n + 1 : id = <<k>>
    BY <1>1
  <2> QED
    BY <2>1
<1>4. ASSUME NEW i \in 1..n
      PROVE  TaskOf(<<i>>, r[i].deps, r[i].shape) \in Tasks
  <2>1. <<i>> \in Seq(Nat)
    OBVIOUS
  <2>2. r[i].deps \in SUBSET Seq(Nat)
    <3>1. \A k \in Nat : <<k>> \in Seq(Nat)
      OBVIOUS
    <3> QED
      BY <1>3, <3>1
  <2> QED
    BY <1>1, <2>1, <2>2 DEF TaskOf, Tasks
<1>5. \A id, deps, shape : /\ TaskOf(id, deps, shape).id = id
                           /\ TaskOf(id, deps, shape).deps = deps
                           /\ TaskOf(id, deps, shape).shape = shape
  BY DEF TaskOf
<1>6. ASSUME NEW i \in 1..n
      PROVE  /\ Asked(r)[i] \in Tasks /\ Asked(r)[i].id = <<i>>
             /\ Asked(r)[i].deps = r[i].deps /\ Asked(r)[i].shape = r[i].shape
  <2> DEFINE id == <<i>>
  <2>1. Asked(r)[i] = TaskOf(id, r[i].deps, r[i].shape)
    BY <1>2
  <2>2. Asked(r)[i] \in Tasks
    BY <1>2, <1>4
  <2> HIDE DEF id
  <2>3. /\ Asked(r)[i].id = id /\ Asked(r)[i].deps = r[i].deps
        /\ Asked(r)[i].shape = r[i].shape
    BY <1>5, <2>1
  <2> QED
    BY <2>2, <2>3 DEF id
<1> QED
  BY <1>1, <1>3, <1>6

\* What takes the place of a task: the task, or what it is decomposed into.
LEMMA ReplacedIs ==
  ASSUME NEW t \in Tasks
  PROVE  LET R == Range(Replaced(t))
         IN  /\ Replaced(t) \in Seq(Tasks) /\ R \in SUBSET Tasks /\ Below(R, t)
             /\ t.shape.by # "steps" => Covered(R, t)
             /\ R = {t} \/ (/\ MaxDepth # 0 /\ t.shape.parts # <<>>
                            /\ R = Pieces(t, MaxDepth))
<1>1. MaxDepth \in Nat
  BY PlanningAssumption
<1>2. Decompose(t, MaxDepth) \in Seq(Tasks)
  BY <1>1, DecomposeIs
<1>3. CASE Replaced(t) = <<t>>
  <2>1. Range(Replaced(t)) = {t}
    BY <1>3 DEF Range
  <2>2. Covered({t}, t)
    BY DEF Covered, AsEarly
  <2>3. IsPrefix(t.id, t.id)
    BY DEF Tasks, IsPrefix
  <2>4. Below({t}, t)
    BY <2>3 DEF Below
  <2>5. Replaced(t) \in Seq(Tasks)
    BY <1>3
  <2> QED
    BY <2>1, <2>2, <2>4, <2>5
<1>4. CASE Replaced(t) # <<t>>
  <2>1. Replaced(t) = Decompose(t, MaxDepth)
    BY <1>4 DEF Replaced
  <2>2. MaxDepth # 0 /\ t.shape.parts # <<>>
    BY <1>1, <1>4, <2>1, DecomposeIs
  <2>3. Range(Replaced(t)) = Pieces(t, MaxDepth)
    BY <2>1 DEF Pieces
  <2>4. Below(Pieces(t, MaxDepth), t) /\ Pieces(t, MaxDepth) \in SUBSET Tasks
    BY <1>1, PiecesBelow
  <2>5. t.shape.by # "steps" => Covered(Pieces(t, MaxDepth), t)
    BY <1>1, PiecesCover
  <2> QED
    BY <1>2, <2>1, <2>2, <2>3, <2>4, <2>5
<1> QED
  BY <1>3, <1>4

\* What was asked for as task i, in the plan.
InPlan(r, i) == Range(Replaced(Asked(r)[i]))

\* The plan consists of what takes the places of the tasks, and the first number of
\* an id tells for which task.
LEMMA PlannedAre ==
  ASSUME NEW n \in Nat, NEW r \in Requests(n)
  PROVE  LET ts == PlannedTasks(r)
         IN  /\ ts \in Seq(Tasks) /\ \A i \in 1..n : InPlan(r, i) \subseteq Range(ts)
             /\ \A k \in 1..n : Family(ts, <<k>>, InPlan(r, k))
             /\ \A k \in Nat : k \notin 1..n => Family(ts, <<k>>, {})
<1> DEFINE s == [i \in DOMAIN r |-> Replaced(Asked(r)[i])]
           ts == PlannedTasks(r)
<1>1. /\ DOMAIN r = 1..n
      /\ \A i \in 1..n : /\ Replaced(Asked(r)[i]) \in Seq(Tasks) /\ Asked(r)[i].id = <<i>>
                         /\ InPlan(r, i) \in SUBSET Tasks /\ Below(InPlan(r, i), Asked(r)[i])
  BY AskedAre, ReplacedIs DEF InPlan
<1>2. s \in Seq(Seq(Tasks)) /\ DOMAIN s = 1..n /\ \A i \in 1..n : Range(s[i]) = InPlan(r, i)
  <2>1. \A i \in 1..n : s[i] = Replaced(Asked(r)[i])
    BY <1>1
  <2>2. s \in [1..n -> Seq(Tasks)]
    BY <1>1
  <2> HIDE DEF s
  <2> QED
    BY <2>1, <2>2 DEF InPlan
<1>3. ts \in Seq(Tasks) /\ Range(ts) = UNION {Range(s[i]) : i \in DOMAIN s}
  <2>1. ts = FlattenSeq(s)
    BY DEF PlannedTasks
  <2> HIDE DEF s, ts
  <2> QED
    BY <1>2, <2>1, FlattenRange
<1> HIDE DEF s, ts
<1>4. Range(ts) = UNION {InPlan(r, i) : i \in 1..n}
  BY <1>2, <1>3
<1>5. ASSUME NEW k \in Nat, NEW x \in DOMAIN ts, IsPrefix(<<k>>, ts[x].id)
      PROVE  k \in 1..n /\ ts[x] \in InPlan(r, k)
  <2>1. PICK i \in 1..n : ts[x] \in InPlan(r, i)
    BY <1>4 DEF Range
  <2>2. IsPrefix(<<i>>, ts[x].id) /\ ts[x].id \in Seq(Nat)
    BY <1>1, <2>1 DEF Below, Tasks
  <2> DEFINE none == <<>>
  <2>3. i \in Nat /\ none \in Seq(Nat) /\ Append(none, i) = <<i>> /\ Append(none, k) = <<k>>
    OBVIOUS
  <2> HIDE DEF none
  <2>4. IsPrefix(Append(none, i), ts[x].id) /\ IsPrefix(Append(none, k), ts[x].id)
    BY <1>5, <2>2, <2>3
  <2>5. ts[x].id[Len(none) + 1] = i /\ ts[x].id[Len(none) + 1] = k
    BY <2>2, <2>3, <2>4, LongerPrefix
  <2> QED
    BY <2>1, <2>5
<1>6. \A k \in 1..n : Family(ts, <<k>>, InPlan(r, k))
  BY <1>5 DEF Family
<1>7. \A k \in Nat : k \notin 1..n => Family(ts, <<k>>, {})
  BY <1>5 DEF Family
<1> QED
  BY <1>3, <1>4, <1>6, <1>7 DEF ts

\* What a task that is made of steps is decomposed into: the first numbers of an id
\* tell for which step.
LEMMA StepsPlanned ==
  ASSUME NEW t \in Tasks, t.shape.by = "steps", t.shape.parts # <<>>, MaxDepth # 0,
         NEW ts \in Seq(Tasks), Family(ts, t.id, Pieces(t, MaxDepth)),
         Pieces(t, MaxDepth) \subseteq Range(ts)
  PROVE  \A p \in DOMAIN t.shape.parts :
           /\ Pieces(Stepped(t)[p], MaxDepth - 1) \subseteq Range(ts)
           /\ Family(ts, PartId(t, p), Pieces(Stepped(t)[p], MaxDepth - 1))
<1> DEFINE under(p) == Pieces(Stepped(t)[p], MaxDepth - 1)
<1>1. MaxDepth \in Nat /\ MaxDepth - 1 \in Nat
  BY PlanningAssumption
<1>2. /\ Stepped(t) \in Seq(Tasks) /\ DOMAIN Stepped(t) = DOMAIN t.shape.parts
      /\ \A p \in DOMAIN t.shape.parts : p \in Nat /\ Stepped(t)[p].id = PartId(t, p)
  BY StepsAre
<1>3. Pieces(t, MaxDepth) = UNION {under(p) : p \in DOMAIN t.shape.parts}
  <2>1. Split(t) = Stepped(t)
    BY DEF Split
  <2>2. Pieces(t, MaxDepth) = UNION {Pieces(Split(t)[p], MaxDepth - 1) : p \in DOMAIN Split(t)}
    BY <1>1, DecomposeIs
  <2> QED
    BY <1>2, <2>1, <2>2
<1>4. \A p \in DOMAIN t.shape.parts : Below(under(p), Stepped(t)[p])
  <2> SUFFICES ASSUME NEW p \in DOMAIN t.shape.parts PROVE Below(under(p), Stepped(t)[p])
    OBVIOUS
  <2>1. Stepped(t)[p] \in Tasks
    BY <1>2
  <2> QED
    BY <1>1, <2>1, PiecesBelow
<1> HIDE DEF under
<1>5. ASSUME NEW p \in DOMAIN t.shape.parts, NEW x \in DOMAIN ts,
             IsPrefix(PartId(t, p), ts[x].id)
      PROVE  ts[x] \in under(p)
  <2>1. p \in Nat /\ t.id \in Seq(Nat) /\ ts[x].id \in Seq(Nat)
    <3>1. ts[x] \in Tasks
      OBVIOUS
    <3> QED
      BY <1>2, <3>1 DEF Tasks
  <2>2. IsPrefix(t.id, ts[x].id) /\ ts[x].id[Len(t.id) + 1] = p
    BY <1>5, <2>1, LongerPrefix DEF PartId
  <2>3. ts[x] \in Pieces(t, MaxDepth)
    BY <2>2 DEF Family
  <2>4. PICK q \in DOMAIN t.shape.parts : ts[x] \in under(q)
    BY <1>3, <2>3
  <2>5. q \in Nat /\ IsPrefix(PartId(t, q), ts[x].id)
    BY <1>2, <1>4, <2>4 DEF Below
  <2>6. ts[x].id[Len(t.id) + 1] = q
    BY <2>1, <2>5, LongerPrefix DEF PartId
  <2> QED
    BY <2>2, <2>4, <2>6
<1> QED
  BY <1>3, <1>5 DEF Family, under

\* The id of a part of a task that was asked for.
LEMMA IdOfPart ==
  ASSUME NEW i \in Nat, NEW p \in Nat
  PROVE  Append(<<i>>, p) = <<i, p>>
<1>1. <<i>> \in Seq(Nat) /\ <<i, p>> \in Seq(Nat) /\ Len(<<i>>) = 1 /\ Len(<<i, p>>) = 2
  OBVIOUS
<1>2. /\ Append(<<i>>, p) \in Seq(Nat) /\ Len(Append(<<i>>, p)) = 2
      /\ Append(<<i>>, p)[1] = i /\ Append(<<i>>, p)[2] = p
  OBVIOUS
<1>3. \A j \in 1..2 : j = 1 \/ j = 2
  OBVIOUS
<1>4. \A j \in 1..2 : Append(<<i>>, p)[j] = <<i, p>>[j]
  BY <1>2, <1>3
<1> QED
  BY <1>1, <1>2, <1>4, SeqEqual

\* A plan that is accepted has the order that PlanIsOrdered promises.
LEMMA PlanOrdered ==
  ASSUME NEW n \in Nat, request \in Requests(n), plan.tasks = PlannedTasks(request),
         plan.level = Levels(plan.tasks), \A i \in DOMAIN plan.tasks : CanAdd(plan.tasks, i),
         ~Cyclic(plan.tasks)
  PROVE  PlanIsOrdered
<1> DEFINE ts == plan.tasks
           level == plan.level
<1>1. /\ DOMAIN request = 1..n
      /\ \A i \in 1..n : LET t == Asked(request)[i]
                         IN  /\ t \in Tasks /\ t.id = <<i>> /\ t.deps = request[i].deps
                             /\ t.shape = request[i].shape
                             /\ \A id \in request[i].deps : \E k \in Nat : id = <<k>>
  BY AskedAre
<1>2. /\ ts \in Seq(Tasks) /\ \A i \in 1..n : InPlan(request, i) \subseteq Range(ts)
      /\ \A k \in 1..n : Family(ts, <<k>>, InPlan(request, k))
      /\ \A k \in Nat : k \notin 1..n => Family(ts, <<k>>, {})
  BY PlannedAre
<1>3. InOrder(ts, level)
  BY <1>2, AcceptedInOrder
<1>4. \A id, later :
        Before(id, later) <=>
          \A x, y \in DOMAIN ts :
            IsPrefix(id, ts[y].id) /\ IsPrefix(later, ts[x].id) => level[y] < level[x]
  BY DEF Before, LevelsUnder
<1>5. \A id : IsPlanned(id) <=> \E z \in DOMAIN ts : ts[z].id = id
  BY DEF IsPlanned
<1> HIDE DEF ts, level
<1>6. ASSUME NEW k \in Nat
      PROVE  Alone(ts, <<k>>)
  <2>1. CASE k \in 1..n
    <3> DEFINE t == Asked(request)[k]
    <3>1. t \in Tasks /\ t.id = <<k>> /\ Below(InPlan(request, k), t)
      BY <1>1, <2>1, ReplacedIs DEF InPlan
    <3>2. Family(ts, t.id, InPlan(request, k))
      BY <1>2, <2>1, <3>1
    <3> HIDE DEF t
    <3>3. Alone(ts, t.id)
      BY <3>1, <3>2, FamilyAlone
    <3> QED
      BY <3>1, <3>3
  <2>2. CASE k \notin 1..n
    BY <1>2, <2>2 DEF Family, Alone
  <2> QED
    BY <2>1, <2>2
<1>7. ASSUME NEW i \in 1..n, request[i].shape.by # "steps" \/ IsPlanned(<<i>>),
             NEW id \in request[i].deps
      PROVE  IsPlanned(id) /\ Before(id, <<i>>)
  <2> DEFINE t == Asked(request)[i]
             R == InPlan(request, i)
  <2>1. t \in Tasks /\ t.id = <<i>> /\ id \in t.deps /\ t.shape = request[i].shape
    BY <1>1
  <2>2. Below(R, t) /\ (t.shape.by # "steps" => Covered(R, t))
    BY <2>1, ReplacedIs DEF InPlan
  <2>3. R \in SUBSET Range(ts) /\ Family(ts, t.id, R)
    BY <1>2, <2>1
  <2> HIDE DEF t, R
  <2>4. Covered(R, t)
    <3>1. CASE t.shape.by # "steps"
      BY <2>2, <3>1
    <3>2. CASE t.shape.by = "steps"
      <4>1. PICK z \in DOMAIN ts : ts[z].id = t.id
        BY <1>5, <1>7, <2>1, <3>2
      <4>2. IsPrefix(t.id, t.id)
        BY <2>1 DEF Tasks, IsPrefix
      <4>3. R = {t}
        BY <2>2, <2>3, <4>1, <4>2 DEF Family, Below
      <4> QED
        BY <4>3 DEF Covered, AsEarly
    <3> QED
      BY <3>1, <3>2
  <2>5. Alone(ts, id)
    BY <1>1, <1>6
  <2>6. /\ \E z \in DOMAIN ts : ts[z].id = id
        /\ \A x, y \in DOMAIN ts :
             IsPrefix(id, ts[y].id) /\ IsPrefix(t.id, ts[x].id) => level[y] < level[x]
    BY <1>3, <2>1, <2>3, <2>4, <2>5, CoveredComesLater
  <2> QED
    BY <1>4, <1>5, <2>1, <2>6
<1>8. ASSUME NEW i \in 1..n, request[i].shape.by = "steps", ~IsPlanned(<<i>>),
             NEW p \in 1..(Len(request[i].shape.parts) - 1),
             request[i].shape.parts[p + 1].by # "steps"
      PROVE  IsPlanned(<<i, p>>) /\ Before(<<i, p>>, <<i, p + 1>>)
  <2> DEFINE t == Asked(request)[i]
             R == Pieces(t, MaxDepth)
             part(q) == Stepped(t)[q]
             under(q) == Pieces(part(q), MaxDepth - 1)
  <2>1. t \in Tasks /\ t.id = <<i>> /\ t.shape = request[i].shape
    BY <1>1
  <2>2. InPlan(request, i) = R /\ MaxDepth # 0 /\ t.shape.parts # <<>>
    <3>1. InPlan(request, i) # {t}
      <4>1. SUFFICES ASSUME t \in InPlan(request, i) PROVE FALSE
        OBVIOUS
      <4>2. PICK z \in DOMAIN ts : ts[z] = t
        BY <1>2, <4>1 DEF Range
      <4> QED
        BY <1>5, <1>8, <2>1, <4>2
    <3> QED
      BY <2>1, <3>1, ReplacedIs DEF InPlan
  <2>3. R \subseteq Range(ts) /\ Family(ts, t.id, R)
    BY <1>2, <2>1, <2>2
  <2>4. /\ DOMAIN t.shape.parts = 1..Len(t.shape.parts) /\ p \in Nat /\ p + 1 # 1
        /\ p \in DOMAIN t.shape.parts /\ p + 1 \in DOMAIN t.shape.parts /\ (p + 1) - 1 = p
    <3>1. t.shape.parts \in Seq(AnyShape)
      <4>1. t.shape \in AnyShape
        BY <2>1 DEF Tasks, AnyShape
      <4> QED
        BY <4>1, ShapeKinds
    <3>2. p \in 1..(Len(t.shape.parts) - 1)
      BY <2>1
    <3> HIDE DEF t
    <3> QED
      BY <3>1, <3>2
  <2>5. /\ PartId(t, p) = <<i, p>> /\ PartId(t, p + 1) = <<i, p + 1>>
    <3>1. PartId(t, p) = Append(t.id, p) /\ PartId(t, p + 1) = Append(t.id, p + 1)
      BY DEF PartId
    <3>2. Append(<<i>>, p) = <<i, p>> /\ Append(<<i>>, p + 1) = <<i, p + 1>>
      <4>1. i \in Nat /\ p \in Nat /\ p + 1 \in Nat
        BY <2>4
      <4> QED
        BY <4>1, IdOfPart
    <3> HIDE DEF t
    <3> QED
      BY <2>1, <3>1, <3>2
  <2>6. /\ part(p) \in Tasks /\ part(p).id = PartId(t, p)
        /\ part(p + 1) \in Tasks /\ part(p + 1).id = PartId(t, p + 1)
        /\ part(p + 1).deps = {PartId(t, p)} /\ part(p + 1).shape.by # "steps"
    <3>1. /\ part(p) \in Tasks /\ part(p).id = PartId(t, p)
          /\ part(p + 1) \in Tasks /\ part(p + 1).id = PartId(t, p + 1)
          /\ part(p + 1).deps = StepBefore(t, p + 1) /\ part(p + 1).shape = t.shape.parts[p + 1]
      <4> HIDE DEF t
      <4>1. \A q \in DOMAIN t.shape.parts :
              /\ part(q) \in Tasks /\ part(q).id = PartId(t, q)
              /\ part(q).deps = StepBefore(t, q) /\ part(q).shape = t.shape.parts[q]
        BY <2>1, StepsAre
      <4> HIDE DEF part
      <4> QED
        BY <2>4, <4>1
    <3>2. StepBefore(t, p + 1) = {PartId(t, p)}
      BY <2>4 DEF StepBefore
    <3> QED
      BY <1>8, <2>1, <3>1, <3>2
  <2>7. \A q \in DOMAIN t.shape.parts : under(q) \subseteq Range(ts) /\ Family(ts, PartId(t, q), under(q))
    BY <1>2, <1>8, <2>1, <2>2, <2>3, StepsPlanned
  <2>8. MaxDepth - 1 \in Nat
    BY <2>2, PlanningAssumption
  <2> HIDE DEF t, R, part
  <2>9. Alone(ts, PartId(t, p))
    <3>1. Below(under(p), part(p))
      BY <2>6, <2>8, PiecesBelow
    <3>2. Family(ts, part(p).id, under(p))
      BY <2>4, <2>6, <2>7
    <3>3. Alone(ts, part(p).id)
      <4> HIDE DEF under
      <4> QED
        BY <2>6, <3>1, <3>2, FamilyAlone
    <3> QED
      BY <2>6, <3>3
  <2>10. Covered(under(p + 1), part(p + 1))
    BY <2>6, <2>8, PiecesCover
  <2> HIDE DEF under
  <2>11. under(p + 1) \in SUBSET Range(ts) /\ Family(ts, part(p + 1).id, under(p + 1))
    BY <2>4, <2>6, <2>7
  <2>12. PartId(t, p) \in part(p + 1).deps
    BY <2>6
  <2>13. /\ \E z \in DOMAIN ts : ts[z].id = PartId(t, p)
         /\ \A x, y \in DOMAIN ts :
              IsPrefix(PartId(t, p), ts[y].id) /\ IsPrefix(part(p + 1).id, ts[x].id)
                => level[y] < level[x]
    BY <1>3, <2>9, <2>10, <2>11, <2>12, CoveredComesLater
  <2>14. IsPlanned(PartId(t, p)) /\ Before(PartId(t, p), PartId(t, p + 1))
    BY <1>4, <1>5, <2>6, <2>13
  <2> QED
    BY <2>5, <2>14
<1> QED
  BY <1>1, <1>7, <1>8 DEF PlanIsOrdered

\* What was asked for was planned, or nothing was asked for.
PlanIsOfRequest ==
  \/ plan = NotPlanned
  \/ \E n \in Nat : request \in Requests(n) /\ plan = PlanOf(request)

\* A plan is a plan of what was asked for, so it is ordered.
LEMMA PlanIsOfRequestOrdered == PlanIsOfRequest => PlanIsOrdered
<1> SUFFICES ASSUME PlanIsOfRequest, plan.tasks # <<>> PROVE PlanIsOrdered
  BY DEF PlanIsOrdered
<1>1. PICK n \in Nat : request \in Requests(n) /\ plan = PlanOf(request)
  BY DEF PlanIsOfRequest, NotPlanned
<1> DEFINE ts == PlannedTasks(request)
<1>2. /\ plan = [tasks |-> ts, level |-> Levels(ts)]
      /\ ~Cyclic(ts) /\ \A i \in DOMAIN ts : CanAdd(ts, i)
  BY <1>1 DEF PlanOf, Refused
<1>3. plan.tasks = ts /\ plan.level = Levels(ts)
  <2> HIDE DEF ts
  <2> QED
    BY <1>2
<1>4. /\ plan.level = Levels(plan.tasks) /\ ~Cyclic(plan.tasks)
      /\ \A i \in DOMAIN plan.tasks : CanAdd(plan.tasks, i)
  <2> HIDE DEF ts
  <2> QED
    BY <1>2, <1>3
<1> QED
  BY <1>1, <1>3, <1>4, PlanOrdered

\* PlanIsOrdered: whatever is asked for, a plan that Plan returns has every task after
\* those it depends on, and the steps of a task one after the other, but for the
\* exceptions that the property names.
THEOREM PlansAlwaysOrdered == PlanSpec => []PlanIsOrdered
<1>1. PlanInit => PlanIsOfRequest
  BY DEF PlanInit, PlanIsOfRequest
<1>2. PlanIsOfRequest /\ [PlanNext]_planVars => PlanIsOfRequest'
  <2> SUFFICES ASSUME PlanIsOfRequest, [PlanNext]_planVars PROVE PlanIsOfRequest'
    OBVIOUS
  <2>1. CASE PlanNext
    <3>1. PICK n \in 1..MaxTasks : request' \in Requests(n)
      BY <2>1 DEF PlanNext, MakePlan
    <3>2. plan' = PlanOf(request')
      BY <2>1 DEF PlanNext, MakePlan
    <3>3. n \in Nat
      BY PlanningAssumption
    <3> QED
      BY <3>1, <3>2, <3>3 DEF PlanIsOfRequest
  <2>2. CASE UNCHANGED planVars
    BY <2>2 DEF planVars, PlanIsOfRequest
  <2> QED
    BY <2>1, <2>2
<1> QED
  BY <1>1, <1>2, PlanIsOfRequestOrdered, PTL DEF PlanSpec
=============================================================================
