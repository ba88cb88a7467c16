-------------------------- MODULE Traversal_proofs --------------------------
(***************************************************************************)
(* Proofs about the walks over the knowledge graph: for any number of      *)
(* nodes, any graph on them, any options and any deletions meanwhile, what *)
(* BFS, DFS, FindConnectedComponents and FindCycles return is what         *)
(* GraphTraversal says of it.  First balls, the sets of nodes within so    *)
(* many steps, in which the promises are stated.                           *)
(***************************************************************************)
EXTENDS GraphTraversal, DataLemmas

-----------------------------------------------------------------------------
(* Balls.                                                                  *)

\* The nodes after those of S.
After(arcs, S) == {m \in NodeIds : \E k \in S : <<k, m>> \in arcs}

\* What Ball is, as far as the proofs use it.
IsBall(arcs, n, ball) ==
  /\ ball \in [Nat -> SUBSET NodeIds] /\ ball[0] = {n}
  /\ \A d \in Nat : ball[d + 1] = ball[d] \cup After(arcs, ball[d])

\* The definition of Ball, with the recursion written out.
BallEquation(arcs, n, ball) ==
  ball = [d \in Nat |-> IF d = 0 THEN {n}
                        ELSE ball[d - 1] \cup {m \in NodeIds : \E k \in ball[d - 1] : <<k, m>> \in arcs}]

\* Ball is what its definition says it is.
LEMMA BallUnfolds ==
  ASSUME NEW arcs, NEW n \in NodeIds
  PROVE  IsBall(arcs, n, Ball(arcs, n))
<1> DEFINE step == [p \in Nat \X SUBSET NodeIds |-> p[2] \cup After(arcs, p[2])]
<1>1. step \in [Nat \X SUBSET NodeIds -> SUBSET NodeIds]
  BY DEF After
<1>2. PICK g \in [Nat -> SUBSET NodeIds] : RecursAlways({n}, step, g)
  <2> HIDE DEF step
  <2>1. {n} \in SUBSET NodeIds
    OBVIOUS
  <2> QED
    BY <1>1, <2>1, NatRecursionAlways
<1>3. ASSUME NEW d \in Nat
      PROVE  g[d + 1] = g[d] \cup After(arcs, g[d])
  <2>1. g[d] \in SUBSET NodeIds /\ d + 1 \in Nat
    OBVIOUS
  <2>2. g[d + 1] = step[<<d + 1, g[d]>>]
    <3> HIDE DEF step
    <3> QED
      BY <1>2 DEF RecursAlways
  <2>3. <<d + 1, g[d]>> \in Nat \X SUBSET NodeIds
    BY <2>1
  <2> QED
    BY <2>2, <2>3
<1>4. BallEquation(arcs, n, g)
  <2>1. ASSUME NEW d \in Nat
        PROVE  g[d] = IF d = 0 THEN {n}
                      ELSE g[d - 1] \cup {m \in NodeIds : \E k \in g[d - 1] : <<k, m>> \in arcs}
    <3>1. CASE d = 0
      BY <3>1, <1>2 DEF RecursAlways
    <3>2. CASE d # 0
      <4>1. d - 1 \in Nat /\ (d - 1) + 1 = d
        BY <3>2
      <4>2. g[d] = g[d - 1] \cup After(arcs, g[d - 1])
        BY <4>1, <1>3
      <4> QED
        BY <4>2, <3>2 DEF After
    <3> QED
      BY <3>1, <3>2
  <2> QED
    BY <2>1 DEF BallEquation
<1> DEFINE it == CHOOSE ball : BallEquation(arcs, n, ball)
<1>5. BallEquation(arcs, n, it)
  BY <1>4
<1>6. Ball(arcs, n) = it
  BY DEF Ball, BallEquation
<1> HIDE DEF it
<1>7. it[0] = {n}
  BY <1>5 DEF BallEquation
<1>8. ASSUME NEW d \in Nat
      PROVE  it[d + 1] = it[d] \cup After(arcs, it[d])
  <2>1. d + 1 \in Nat /\ d + 1 # 0 /\ (d + 1) - 1 = d
    OBVIOUS
  <2>2. it[d + 1] = it[d] \cup {m \in NodeIds : \E k \in it[d] : <<k, m>> \in arcs}
    BY <2>1, <1>5 DEF BallEquation
  <2> QED
    BY <2>2 DEF After
<1>9. \A d \in Nat : it[d] \in SUBSET NodeIds
  <2> DEFINE S == {d \in Nat : it[d] \in SUBSET NodeIds}
  <2>1. 0 \in S
    BY <1>7
  <2>2. ASSUME NEW d \in Nat, d \in S
        PROVE  d + 1 \in S
    BY <2>2, <1>8 DEF After
  <2>3. \A d \in Nat : d \in S
    <3> HIDE DEF S
    <3> QED
      BY <2>1, <2>2, NatSetInduction
  <2> QED
    BY <2>3
<1>10. it \in [Nat -> SUBSET NodeIds]
  <2>1. it = [d \in Nat |-> it[d]]
    BY <1>5 DEF BallEquation
  <2> QED
    BY <2>1, <1>9
<1> QED
  BY <1>6, <1>7, <1>8, <1>10 DEF IsBall

\* A ball has those inside it.
LEMMA BallGrows ==
  ASSUME NEW arcs, NEW n, NEW ball, IsBall(arcs, n, ball), NEW d \in Nat
  PROVE  \A k \in Nat : ball[d] \subseteq ball[d + k]
<1> DEFINE S == {k \in Nat : ball[d] \subseteq ball[d + k]}
<1>1. 0 \in S
  OBVIOUS
<1>2. ASSUME NEW k \in Nat, k \in S
      PROVE  k + 1 \in S
  <2>1. d + k \in Nat /\ d + (k + 1) = (d + k) + 1
    OBVIOUS
  <2>2. ball[d + k] \subseteq ball[(d + k) + 1]
    BY <2>1 DEF IsBall
  <2> QED
    BY <2>1, <2>2, <1>2
<1>3. \A k \in Nat : k \in S
  <2> HIDE DEF S
  <2> QED
    BY <1>1, <1>2, NatSetInduction
<1> QED
  BY <1>3

\* What is within a number of steps is within any larger number of them.
LEMMA BallOrder ==
  ASSUME NEW arcs, NEW n, NEW ball, IsBall(arcs, n, ball), NEW d \in Nat, NEW e \in Nat, d <= e
  PROVE  ball[d] \subseteq ball[e]
<1>1. e - d \in Nat /\ d + (e - d) = e
  OBVIOUS
<1> QED
  BY <1>1, BallGrows

\* A set that leads nowhere else has the whole ball when it has the centre.
LEMMA BallInside ==
  ASSUME NEW arcs, NEW n, NEW ball, IsBall(arcs, n, ball), NEW S, n \in S, After(arcs, S) \subseteq S
  PROVE  \A d \in Nat : ball[d] \subseteq S
<1> DEFINE T == {d \in Nat : ball[d] \subseteq S}
<1>1. 0 \in T
  BY DEF IsBall
<1>2. ASSUME NEW d \in Nat, d \in T
      PROVE  d + 1 \in T
  <2>1. ball[d + 1] = ball[d] \cup After(arcs, ball[d])
    BY DEF IsBall
  <2> QED
    BY <2>1, <1>2 DEF After
<1>3. \A d \in Nat : d \in T
  <2> HIDE DEF T
  <2> QED
    BY <1>1, <1>2, NatSetInduction
<1> QED
  BY <1>3

\* After as many steps as there are nodes nothing is left to be found.
LEMMA BallEnds ==
  ASSUME NEW arcs, NEW n \in NodeIds, NEW ball, IsBall(arcs, n, ball)
  PROVE  \A d \in Nat : ball[d] \subseteq ball[Cardinality(NodeIds)]
<1> DEFINE N == Cardinality(NodeIds)
           still(d) == \E j \in 0..d : ball[j + 1] = ball[j]
           S == {d \in Nat : Cardinality(ball[d]) >= d + 1 \/ still(d)}
<1>0. IsFiniteSet(NodeIds) /\ N \in Nat
  BY TraversalAssumption, FS_CardinalityType
<1>1. ASSUME NEW d \in Nat
      PROVE  IsFiniteSet(ball[d]) /\ Cardinality(ball[d]) \in Nat /\ Cardinality(ball[d]) <= N
  <2>1. ball[d] \in SUBSET NodeIds
    BY DEF IsBall
  <2> QED
    BY <1>0, <2>1, FS_Subset, FS_CardinalityType
<1>2. 0 \in S
  <2>1. Cardinality({n}) = 1 /\ ball[0] = {n}
    BY FS_Singleton DEF IsBall
  <2>2. Cardinality(ball[0]) >= 0 + 1
    BY <2>1
  <2> QED
    BY <2>2
<1>3. ASSUME NEW d \in Nat, d \in S
      PROVE  d + 1 \in S
  <2>1. CASE still(d)
    BY <2>1
  <2>2. CASE ball[d + 1] = ball[d]
    BY <2>2
  <2>3. CASE ~still(d) /\ ball[d + 1] # ball[d]
    <3>1. Cardinality(ball[d]) >= d + 1
      BY <1>3, <2>3
    <3>2. ball[d] \subseteq ball[d + 1]
      BY DEF IsBall
    <3>3. Cardinality(ball[d]) <= Cardinality(ball[d + 1]) /\ Cardinality(ball[d]) # Cardinality(ball[d + 1])
      BY <3>2, <2>3, <1>1, FS_Subset
    <3> QED
      BY <3>1, <3>3, <1>1
  <2> QED
    BY <2>1, <2>2, <2>3
<1>4. N \in S
  <2> HIDE DEF S
  <2>1. \A d \in Nat : d \in S
    BY <1>2, <1>3, NatSetInduction
  <2> QED
    BY <2>1, <1>0
<1>5. PICK j \in 0..N : ball[j + 1] = ball[j]
  <2>1. Cardinality(ball[N]) < N + 1 /\ Cardinality(ball[N]) \in Nat
    BY <1>0, <1>1
  <2> QED
    BY <2>1, <1>4, <1>0
<1>6. j \in Nat /\ j <= N
  BY <1>0
<1>7. n \in ball[j]
  <2>1. ball[0] \subseteq ball[j]
    BY <1>6, BallOrder
  <2> QED
    BY <2>1 DEF IsBall
<1>8. After(arcs, ball[j]) \subseteq ball[j]
  BY <1>5, <1>6 DEF IsBall
<1>9. ball[j] \subseteq ball[N]
  BY <1>0, <1>6, BallOrder
<1>10. \A d \in Nat : ball[d] \subseteq ball[j]
  BY <1>7, <1>8, BallInside
<1> QED
  BY <1>9, <1>10

-----------------------------------------------------------------------------
(***************************************************************************)
(* BFS and DFS (WalksAreExact).  WalkInv says what holds at each turn of   *)
(* the loop of a walk from o: every distance is that of some way there     *)
(* (Sound); and if nobody deletes and the number of nodes has no limit,    *)
(* what was found but is not listed any more has all its neighbours found, *)
(* or was at the depth limit (Complete).  For BFS the list is in the order *)
(* of the distances, which differ by one at most (Ordered), and every      *)
(* distance is the least there is (Nearest).                               *)
(***************************************************************************)

\* What was there when the call began bounds what there is, and is all of it when
\* nothing was deleted.
GraphKept ==
  /\ call \in WalkCalls /\ deletions \in Nat /\ nodes \subseteq NodeIds
  /\ before \subseteq NodeIds \X NodeIds /\ adj \subseteq before /\ edges \subseteq before
  /\ deletions = 0 => nodes = NodeIds /\ adj = before /\ edges = before

\* The fields of walk.
WalkTyped ==
  /\ walk = [pending |-> walk.pending, distance |-> walk.distance, expanding |-> walk.expanding]
  /\ walk.pending \in Seq(Items) /\ walk.expanding \in Items \cup {NoItem}
  /\ DOMAIN walk.distance \subseteq NodeIds
  /\ walk.distance \in [DOMAIN walk.distance -> Nat]

\* What has still to be looked at.

Listed == Range(walk.pending) \cup ({walk.expanding} \ {NoItem})
Found == DOMAIN walk.distance

\* What is found, and what is listed, was reached in as many steps as it says, and
\* not beyond the depth asked for.
Sound(o) ==
  /\ WalkTyped /\ o \in Found
  /\ \A x \in Listed : x.id \in Found /\ walk.distance[x.id] = x.depth
  /\ walk.expanding # NoItem => walk.expanding.depth < call.depth
  /\ \A m \in Found : walk.distance[m] <= call.depth /\ m \in Within(o)[walk.distance[m]]

\* The neighbours of a node that has been looked at have been found.
Complete ==
  \A m \in Found : walk.distance[m] < call.depth /\ (\A x \in Listed : x.id # m)
                     => \A k \in NodeIds : <<m, k>> \in before => k \in Found

\* The list of BFS: in the order of the distances, from one to the next.
Ordered ==
  /\ \A i, j \in DOMAIN walk.pending :
       i <= j => walk.pending[i].depth <= walk.pending[j].depth
  /\ \A i, j \in DOMAIN walk.pending : walk.pending[j].depth <= walk.pending[i].depth + 1
  /\ walk.expanding # NoItem =>
       \A i \in DOMAIN walk.pending : /\ walk.expanding.depth <= walk.pending[i].depth
                                      /\ walk.pending[i].depth <= walk.expanding.depth + 1

\* No distance is longer than it must be.
Nearest(o) == \A m \in Found : \A d \in Nat : m \in Within(o)[d] => walk.distance[m] <= d

\* Nobody deletes, and the number of nodes has no limit.
Alone == deletions = 0 /\ call.limit = 0

\* What holds of a walk from o at each turn of its loop.
WalkInv(o) == /\ Sound(o)
              /\ Alone => Complete
              /\ Alone /\ ~TakesLast => Ordered /\ Nearest(o)

\* Which is taken next, and what remains.
LEMMA PendingParts ==
  ASSUME walk.pending \in Seq(Items), walk.pending # <<>>
  PROVE  /\ NextPending \in Items /\ Remaining \in Seq(Items)
         /\ Range(walk.pending) = Range(Remaining) \cup {NextPending}
         /\ ~TakesLast => /\ DOMAIN Remaining = 1..(Len(walk.pending) - 1)
                          /\ NextPending = walk.pending[1]
                          /\ \A i \in DOMAIN Remaining : Remaining[i] = walk.pending[i + 1]
<1> DEFINE p == walk.pending
           n == Len(p)
<1>1. n \in Nat /\ n # 0 /\ DOMAIN p = 1..n /\ \A i \in 1..n : p[i] \in Items
  BY EmptySeq, LenProperties
<1>2. Range(p) = {p[i] : i \in 1..n}
  BY <1>1 DEF Range
<1>3. CASE TakesLast
  <2>1. n - 1 \in 0..n
    BY <1>1
  <2>2. /\ Front(p) \in Seq(Items) /\ Len(Front(p)) = n - 1
        /\ \A i \in 1..(n - 1) : Front(p)[i] = p[i]
    BY <2>1, FrontOf DEF Front
  <2>3. Range(Front(p)) = {p[i] : i \in 1..(n - 1)}
    BY <2>2 DEF Range
  <2>4. 1..n = (1..(n - 1)) \cup {n}
    BY <1>1
  <2>5. NextPending = p[n] /\ Remaining = Front(p)
    BY <1>3 DEF NextPending, Remaining, Last
  <2> HIDE DEF p, n
  <2> QED
    BY <1>1, <1>2, <1>3, <2>2, <2>3, <2>4, <2>5 DEF p
<1>4. CASE ~TakesLast
  <2>1. /\ Tail(p) \in Seq(Items) /\ Len(Tail(p)) = n - 1
        /\ \A i \in 1..(n - 1) : Tail(p)[i] = p[i + 1]
    BY <1>1, HeadTailProperties
  <2>2. DOMAIN Tail(p) = 1..(n - 1)
    BY <2>1
  <2>3. Range(Tail(p)) = {p[i] : i \in 2..n}
    <3>1. \A i \in 2..n : i - 1 \in 1..(n - 1) /\ (i - 1) + 1 = i
      BY <1>1
    <3>2. \A i \in 1..(n - 1) : i + 1 \in 2..n
      BY <1>1
    <3> HIDE DEF p, n
    <3>3. \A i \in 2..n : \E j \in DOMAIN Tail(p) : Tail(p)[j] = p[i]
      BY <2>1, <2>2, <3>1
    <3> QED
      BY <2>1, <2>2, <3>2, <3>3 DEF Range
  <2>4. 1..n = {1} \cup (2..n)
    BY <1>1
  <2>5. NextPending = p[1] /\ Remaining = Tail(p)
    BY <1>4 DEF NextPending, Remaining
  <2> HIDE DEF p, n
  <2> QED
    BY <1>1, <1>2, <1>4, <2>1, <2>2, <2>3, <2>4, <2>5 DEF p, n
<1> QED
  BY <1>3, <1>4

\* Every call has a depth.
LEMMA CallDepth == GraphKept => call.depth \in Nat
<1> SUFFICES ASSUME GraphKept
             PROVE  call.depth \in Nat
  OBVIOUS
<1>1. call.depth \in Depths \/ call.depth = 100 \/ call.depth = 0
  BY DEF GraphKept, WalkCalls, ComponentDepth
<1>2. CASE call.depth \in Depths
  BY <1>2, TraversalAssumption
<1>3. CASE call.depth = 100
  BY <1>3
<1>4. CASE call.depth = 0
  BY <1>4
<1> QED
  BY <1>1, <1>2, <1>3, <1>4

\* All of a set in some order.
LEMMA OrderOf ==
  ASSUME NEW S, IsFiniteSet(S), NEW order \in SetToSeqs(S)
  PROVE  order \in Seq(S) /\ Range(order) = S
<1> DEFINE n == Cardinality(S)
<1>1. n \in Nat
  BY FS_CardinalityType
<1>2. order \in [1..n -> S] /\ \A i, j \in 1..n : i # j => order[i] # order[j]
  BY DEF SetToSeqs
<1>3. order \in Injection(1..n, S)
  BY <1>2 DEF Injection, IsInjective
<1>4. Cardinality(1..n) = n
  BY <1>1, FS_Interval
<1>5. order \in Surjection(1..n, S)
  BY <1>3, <1>4, FS_Injection
<1> HIDE DEF n
<1>6. order \in Seq(S)
  BY <1>1, <1>2
<1> QED
  BY <1>2, <1>5, <1>6 DEF Surjection, Range

-----------------------------------------------------------------------------
(* Balls around a node.                                                    *)

\* Within is a ball, inside the nodes.
LEMMA WithinBall ==
  ASSUME NEW o \in NodeIds
  PROVE  /\ Within(o) \in [Nat -> SUBSET NodeIds] /\ Within(o)[0] = {o}
         /\ \A d \in Nat : Within(o)[d + 1] = Within(o)[d] \cup After(before, Within(o)[d])
         /\ \A d, e \in Nat : d <= e => Within(o)[d] \subseteq Within(o)[e]
         /\ \A d \in Nat : Within(o)[d] \subseteq Reach(o)
<1>1. IsBall(before, o, Within(o))
  BY BallUnfolds DEF Within
<1> QED
  BY <1>1, BallOrder, BallEnds DEF IsBall, Reach

\* A set that has the start and all that its nodes lead to has all in reach of it.
LEMMA ReachInside ==
  ASSUME NEW o \in NodeIds, NEW S, o \in S, After(before, S) \subseteq S
  PROVE  Reach(o) \subseteq S
<1>1. IsBall(before, o, Within(o))
  BY BallUnfolds DEF Within
<1>2. Cardinality(NodeIds) \in Nat
  BY TraversalAssumption, FS_CardinalityType
<1> QED
  BY <1>1, <1>2, BallInside DEF Reach

\* When all that is left has a distance of e at least, all within e are found.
LEMMA LevelsFound ==
  ASSUME NEW o \in NodeIds, Sound(o), Complete, Nearest(o), call.depth \in Nat,
         NEW e \in Nat, e <= call.depth, \A x \in Listed : x.depth >= e
  PROVE  Within(o)[e] \subseteq Found
<1> DEFINE S == {k \in Nat : k <= e => Within(o)[k] \subseteq Found}
<1>1. 0 \in S
  BY WithinBall DEF Sound
<1>2. ASSUME NEW k \in Nat, k \in S
      PROVE  k + 1 \in S
  <2>1. ASSUME k + 1 <= e, NEW m \in After(before, Within(o)[k])
        PROVE  m \in Found
    <3>1. PICK p \in Within(o)[k] : <<p, m>> \in before
      BY <2>1 DEF After
    <3>2. k <= e /\ m \in NodeIds
      BY <2>1 DEF After
    <3>3. p \in Found
      BY <1>2, <3>1, <3>2
    <3>4. walk.distance[p] <= k /\ walk.distance[p] \in Nat
      BY <3>1, <3>3 DEF Nearest, Sound, WalkTyped, Found
    <3>5. walk.distance[p] < e /\ walk.distance[p] < call.depth
      BY <3>4, <2>1
    <3>6. \A x \in Listed : x.depth \in Int
      BY DEF Sound, WalkTyped, Found
    <3>7. \A x \in Listed : x.id # p
      BY <3>5, <3>6, <3>4 DEF Sound
    <3> QED
      BY <3>1, <3>2, <3>3, <3>5, <3>7 DEF Complete
  <2>2. k + 1 <= e => k <= e
    OBVIOUS
  <2> QED
    BY <2>1, <2>2, <1>2, WithinBall
<1>3. \A k \in Nat : k \in S
  <2> HIDE DEF S
  <2> QED
    BY <1>1, <1>2, NatSetInduction
<1> QED
  BY <1>3

\* What a step leaves alone.
LEMMA SameGraph ==
  ASSUME GraphKept, UNCHANGED <<graphVars, call>>
  PROVE  /\ GraphKept' /\ Alone' = Alone /\ TakesLast' = TakesLast
         /\ \A o : Within(o)' = Within(o) /\ Reach(o)' = Reach(o)
<1>1. /\ nodes' = nodes /\ edges' = edges /\ adj' = adj /\ deletions' = deletions
      /\ before' = before /\ call' = call
  BY DEF graphVars
<1>2. GraphKept'
  BY <1>1 DEF GraphKept
<1>3. Alone' = Alone
  BY <1>1 DEF Alone
<1>4. TakesLast' = TakesLast
  BY <1>1 DEF TakesLast
<1>5. \A o : Within(o)' = Within(o)
  BY <1>1 DEF Within
<1> QED
  BY <1>2, <1>3, <1>4, <1>5 DEF Reach

\* The next node is taken from the list: it is looked at, or skipped because it is at
\* the depth limit, or because it was deleted, or the walk ends.
LEMMA TakeParts ==
  ASSUME GraphKept, WalkTyped, TakeNext
  PROVE  /\ walk' = [pending |-> walk'.pending, distance |-> walk.distance,
                     expanding |-> walk'.expanding]
         /\ walk.pending # <<>> /\ walk.expanding = NoItem
         /\ walk'.pending \in {<<>>, Remaining}
         /\ walk'.expanding \in {NextPending, NoItem}
         /\ walk'.expanding # NoItem => NextPending.depth < call.depth
         /\ Alone => /\ walk'.pending = Remaining
                     /\ walk'.expanding = NextPending \/ NextPending.depth >= call.depth
<1> DEFINE item == NextPending
           full == call.limit > 0 /\ Cardinality(DOMAIN walk.distance) >= call.limit
           deep == item.depth >= call.depth
<1>1. /\ walk.pending # <<>> /\ walk.expanding = NoItem
      /\ walk' = [walk EXCEPT
           !.pending = IF full /\ ~deep THEN <<>> ELSE Remaining,
           !.expanding = IF ~deep /\ ~full /\ item.id \in nodes THEN item ELSE NoItem]
  BY DEF TakeNext
<1>2. walk = [pending |-> walk.pending, distance |-> walk.distance, expanding |-> walk.expanding]
  BY DEF WalkTyped
<1>3. NextPending \in Items
  BY <1>1, PendingParts DEF WalkTyped
<1>4. item.depth \in Nat /\ item.id \in NodeIds
  BY <1>3 DEF Items
<1>5. call.depth \in Int
  BY CallDepth
<1>6. deep \/ item.depth < call.depth
  BY <1>4, <1>5
<1>7. Alone => ~full /\ nodes = NodeIds
  BY DEF Alone, GraphKept
<1> HIDE DEF item, full, deep
<1>8. /\ walk'.pending = (IF full /\ ~deep THEN <<>> ELSE Remaining)
      /\ walk'.expanding = (IF ~deep /\ ~full /\ item.id \in nodes THEN item ELSE NoItem)
      /\ walk' = [pending |-> walk'.pending, distance |-> walk.distance,
                  expanding |-> walk'.expanding]
  BY <1>1, <1>2
<1>9. walk'.expanding # NoItem => item.depth < call.depth
  BY <1>8, <1>6
<1>10. Alone => /\ walk'.pending = Remaining
                /\ walk'.expanding = item \/ deep
  BY <1>7, <1>8, <1>4
<1> QED
  BY <1>1, <1>8, <1>9, <1>10 DEF item, deep

\* ... so what was to be looked at and is no more is at the depth limit, when no one
\* deletes nodes and their number has no limit.
LEMMA TakeListed ==
  ASSUME GraphKept, WalkTyped, TakeNext
  PROVE  /\ Listed' \subseteq Listed
         /\ Alone => \A x \in Listed \ Listed' : x.depth >= call.depth
<1>1. /\ NextPending \in Items
      /\ Range(walk.pending) = Range(Remaining) \cup {NextPending}
      /\ Listed = Range(walk.pending)
  BY PendingParts, TakeParts DEF WalkTyped, Listed
<1>2. Range(<<>>) = {}
  BY DEF Range
<1>3. NextPending # NoItem
  BY <1>1, TraversalAssumption DEF Items, NoItem
<1>4. Range(walk'.pending) \in {{}, Range(Remaining)}
  BY <1>2, TakeParts
<1>5. Listed' = Range(walk'.pending) \cup ({walk'.expanding} \ {NoItem})
  BY DEF Listed
<1>6. walk'.expanding \in {NextPending, NoItem}
  BY TakeParts
<1>7. Listed' \subseteq Listed
  BY <1>1, <1>4, <1>5, <1>6
<1>8. ASSUME Alone, NEW x \in Listed, x \notin Listed'
      PROVE  x.depth >= call.depth
  <2>1. walk'.pending = Remaining /\ (walk'.expanding = NextPending \/ NextPending.depth >= call.depth)
    BY <1>8, TakeParts
  <2>2. x = NextPending /\ x # walk'.expanding
    BY <1>1, <1>3, <1>5, <1>8, <2>1
  <2> QED
    BY <2>1, <2>2
<1> QED
  BY <1>7, <1>8

\* The turn of the loop up to GetNode (traversal.go: BFS, DFS) keeps the invariant.
LEMMA TakeKeeps ==
  ASSUME NEW o \in NodeIds, GraphKept, WalkInv(o), TakeNext
  PROVE  WalkInv(o)'
<1>1. UNCHANGED <<graphVars, call>> /\ WalkTyped
  BY DEF TakeNext, WalkInv, Sound
<1>2. /\ GraphKept' /\ Alone' = Alone /\ TakesLast' = TakesLast
      /\ Within(o)' = Within(o) /\ call' = call /\ before' = before
  BY <1>1, SameGraph DEF graphVars
<1>3. /\ NextPending \in Items /\ Remaining \in Seq(Items)
      /\ Range(walk.pending) = Range(Remaining) \cup {NextPending}
  BY <1>1, TakeParts, PendingParts DEF WalkTyped
<1>4. walk'.distance = walk.distance /\ Found' = Found
  BY <1>1, TakeParts DEF Found
<1>5. WalkTyped'
  <2>1. walk'.pending \in Seq(Items)
    <3>1. walk'.pending \in {<<>>, Remaining}
      BY <1>1, TakeParts
    <3>2. <<>> \in Seq(Items)
      OBVIOUS
    <3> QED
      BY <1>3, <3>1, <3>2
  <2>2. walk'.expanding \in Items \cup {NoItem}
    <3>1. walk'.expanding \in {NextPending, NoItem}
      BY <1>1, TakeParts
    <3> QED
      BY <1>3, <3>1
  <2> QED
    BY <1>1, <1>4, <2>1, <2>2, TakeParts DEF WalkTyped
<1>6. Sound(o)'
  <2>1. Sound(o)
    BY DEF WalkInv
  <2>2. walk'.expanding # NoItem => walk'.expanding.depth < call.depth
    BY <1>1, TakeParts
  <2>3. \A x \in Listed' : x.id \in Found /\ walk.distance[x.id] = x.depth
    BY <1>1, <2>1, TakeListed DEF Sound
  <2> QED
    BY <1>2, <1>4, <1>5, <2>1, <2>2, <2>3 DEF Sound
<1>7. Alone => Complete'
  <2>1. SUFFICES ASSUME Alone, NEW m \in Found, walk.distance[m] < call.depth,
                        \A x \in Listed' : x.id # m, NEW k \in NodeIds, <<m, k>> \in before
                 PROVE  k \in Found
    BY <1>2, <1>4 DEF Complete
  <2>2. Complete /\ Sound(o)
    BY <2>1 DEF WalkInv
  <2>3. \A x \in Listed : x.id # m
    <3>1. SUFFICES ASSUME NEW x \in Listed, x.id = m
                   PROVE  FALSE
      OBVIOUS
    <3>2. x.depth >= call.depth
      BY <1>1, <2>1, <3>1, TakeListed
    <3>3. walk.distance[m] = x.depth /\ x.depth \in Nat
      BY <1>1, <2>2, <3>1 DEF Sound, WalkTyped, Found
    <3>4. call.depth \in Int
      BY CallDepth
    <3> QED
      BY <2>1, <3>2, <3>3, <3>4
  <2> QED
    BY <2>1, <2>2, <2>3 DEF Complete
<1>8. Alone /\ ~TakesLast => Ordered'
  <2> SUFFICES ASSUME Alone, ~TakesLast
               PROVE  Ordered'
    OBVIOUS
  <2>1. Ordered
    BY DEF WalkInv
  <2> DEFINE p == walk.pending
             r == Remaining
             n == Len(p)
  <2>2. /\ walk'.pending = r /\ walk'.expanding \in {NextPending, NoItem} /\ p # <<>>
    BY <1>1, TakeParts
  <2>3. /\ DOMAIN r = 1..(n - 1) /\ NextPending = p[1] /\ DOMAIN p = 1..n /\ n \in Nat
        /\ \A i \in DOMAIN r : r[i] = p[i + 1]
    BY <1>1, <2>2, PendingParts, LenProperties DEF WalkTyped
  <2>4. n # 0
    BY <1>1, <2>2, EmptySeq DEF WalkTyped
  <2>5. /\ 1 \in DOMAIN p
        /\ \A i \in DOMAIN r : i \in Nat /\ i + 1 \in DOMAIN p /\ 1 <= i + 1
        /\ \A i, j \in DOMAIN r : i <= j => i + 1 <= j + 1
    BY <2>3, <2>4
  <2> HIDE DEF p, r, n
  <2>6. /\ \A i, j \in DOMAIN p : i <= j => p[i].depth <= p[j].depth
        /\ \A i, j \in DOMAIN p : p[j].depth <= p[i].depth + 1
    BY <2>1 DEF Ordered, p
  <2>7. /\ \A i, j \in DOMAIN r : i <= j => r[i].depth <= r[j].depth
        /\ \A i, j \in DOMAIN r : r[j].depth <= r[i].depth + 1
        /\ \A i \in DOMAIN r : p[1].depth <= r[i].depth /\ r[i].depth <= p[1].depth + 1
    BY <2>3, <2>5, <2>6
  <2> QED
    BY <2>2, <2>3, <2>7 DEF Ordered
<1>9. Nearest(o) => Nearest(o)'
  BY <1>2, <1>4 DEF Nearest
<1> QED
  BY <1>2, <1>6, <1>7, <1>8, <1>9 DEF WalkInv

\* The neighbours of the node that is looked at are put at the end of the list.
LEMMA ExpandParts ==
  ASSUME GraphKept, WalkTyped, Expand
  PROVE  \E new : \E added :
           /\ walk.expanding \in Items
           /\ new \subseteq NodeIds \ Found
           /\ \A m \in new : <<walk.expanding.id, m>> \in before
           /\ deletions = 0 => \A m \in NodeIds \ {walk.expanding.id} :
                <<walk.expanding.id, m>> \in before => m \in new \cup Found
           /\ added \in Seq(Items)
           /\ \A i \in 1..Len(added) : added[i].depth = walk.expanding.depth + 1
           /\ \A i \in 1..Len(added) : added[i].id \in new
           /\ \A m \in new : \E i \in 1..Len(added) : added[i].id = m
           /\ walk' = [pending |-> walk.pending \o added,
                       distance |-> [m \in Found \cup new |->
                         IF m \in new THEN walk.expanding.depth + 1 ELSE walk.distance[m]],
                       expanding |-> NoItem]
<1> DEFINE item == walk.expanding
           new == Neighbours(item.id) \ DOMAIN walk.distance
           added(order) == [i \in DOMAIN order |-> [id |-> order[i], depth |-> item.depth + 1]]
<1>1. item # NoItem /\ item \in Items
  BY DEF Expand, WalkTyped
<1>2. item.depth \in Nat /\ item.id \in NodeIds
  BY <1>1 DEF Items
<1>3. PICK order \in SetToSeqs(new) :
        walk' = [pending |-> walk.pending \o added(order),
                 distance |-> [m \in DOMAIN walk.distance \cup new |->
                   IF m \in new THEN item.depth + 1 ELSE walk.distance[m]],
                 expanding |-> NoItem]
  BY DEF Expand
<1>4. nodes \subseteq NodeIds
  BY DEF GraphKept
<1>5. new \subseteq NodeIds \ Found
  BY <1>4 DEF Neighbours, Found
<1>6. IsFiniteSet(new)
  BY <1>5, TraversalAssumption, FS_Subset
<1>7. order \in Seq(new) /\ Range(order) = new
  BY <1>3, <1>6, OrderOf
<1>8. \A m \in new : <<item.id, m>> \in before
  BY DEF Neighbours, GraphKept
<1>9. deletions = 0 => \A m \in NodeIds \ {item.id} : <<item.id, m>> \in before => m \in new \cup Found
  BY DEF Neighbours, GraphKept, Found
<1> HIDE DEF item, new
<1>10. /\ DOMAIN order = 1..Len(order) /\ Len(order) \in Nat
       /\ \A i \in 1..Len(order) : order[i] \in new
       /\ \A m \in new : \E i \in 1..Len(order) : order[i] = m
  BY <1>7, LenProperties DEF Range
<1>11. item.depth + 1 \in Nat
  BY <1>2
<1>12. \A i \in 1..Len(order) : [id |-> order[i], depth |-> item.depth + 1] \in Items
  BY <1>5, <1>10, <1>11 DEF Items
<1>13. /\ added(order) \in Seq(Items) /\ DOMAIN added(order) = 1..Len(order)
  <2>1. added(order) \in [1..Len(order) -> Items]
    BY <1>10, <1>12
  <2> HIDE DEF added
  <2> QED
    BY <1>10, <2>1
<1>14. Len(added(order)) = Len(order)
  <2> HIDE DEF added
  <2> QED
    BY <1>10, <1>13, LenProperties
<1>15. \A i \in 1..Len(order) :
         /\ added(order)[i].depth = item.depth + 1
         /\ added(order)[i].id = order[i] /\ added(order)[i].id \in new
  BY <1>10
<1> HIDE DEF added
<1>16. /\ item \in Items /\ new \subseteq NodeIds \ Found
       /\ \A m \in new : <<item.id, m>> \in before
       /\ deletions = 0 => \A m \in NodeIds \ {item.id} : <<item.id, m>> \in before => m \in new \cup Found
       /\ added(order) \in Seq(Items)
       /\ \A i \in 1..Len(added(order)) : added(order)[i].depth = item.depth + 1
       /\ \A i \in 1..Len(added(order)) : added(order)[i].id \in new
       /\ \A m \in new : \E i \in 1..Len(added(order)) : added(order)[i].id = m
       /\ walk' = [pending |-> walk.pending \o added(order),
                   distance |-> [m \in Found \cup new |->
                     IF m \in new THEN item.depth + 1 ELSE walk.distance[m]],
                   expanding |-> NoItem]
  BY <1>1, <1>3, <1>5, <1>8, <1>9, <1>10, <1>13, <1>14, <1>15 DEF Found
<1> QED
  BY <1>16 DEF item

\* The rest of the turn, in which the neighbours get their distances, keeps it too.
LEMMA ExpandKeeps ==
  ASSUME NEW o \in NodeIds, GraphKept, WalkInv(o), Expand
  PROVE  WalkInv(o)'
<1> DEFINE item == walk.expanding
           e == item.depth
           p == walk.pending
<1>1. UNCHANGED <<graphVars, call>> /\ WalkTyped /\ item # NoItem
  BY DEF Expand, WalkInv, Sound
<1>2. /\ GraphKept' /\ Alone' = Alone /\ TakesLast' = TakesLast
      /\ Within(o)' = Within(o) /\ call' = call /\ before' = before
  BY <1>1, SameGraph DEF graphVars
<1>3. PICK new : \E added :
           /\ item \in Items
           /\ new \subseteq NodeIds \ Found
           /\ \A m \in new : <<item.id, m>> \in before
           /\ deletions = 0 => \A m \in NodeIds \ {item.id} :
                <<item.id, m>> \in before => m \in new \cup Found
           /\ added \in Seq(Items)
           /\ \A i \in 1..Len(added) : added[i].depth = e + 1
           /\ \A i \in 1..Len(added) : added[i].id \in new
           /\ \A m \in new : \E i \in 1..Len(added) : added[i].id = m
           /\ walk' = [pending |-> p \o added,
                       distance |-> [m \in Found \cup new |->
                         IF m \in new THEN e + 1 ELSE walk.distance[m]],
                       expanding |-> NoItem]
  BY <1>1, ExpandParts
<1>4. PICK added :
           /\ item \in Items
           /\ new \subseteq NodeIds \ Found
           /\ \A m \in new : <<item.id, m>> \in before
           /\ deletions = 0 => \A m \in NodeIds \ {item.id} :
                <<item.id, m>> \in before => m \in new \cup Found
           /\ added \in Seq(Items)
           /\ \A i \in 1..Len(added) : added[i].depth = e + 1
           /\ \A i \in 1..Len(added) : added[i].id \in new
           /\ \A m \in new : \E i \in 1..Len(added) : added[i].id = m
           /\ walk' = [pending |-> p \o added,
                       distance |-> [m \in Found \cup new |->
                         IF m \in new THEN e + 1 ELSE walk.distance[m]],
                       expanding |-> NoItem]
  BY <1>3
<1>5. /\ walk'.pending = p \o added /\ walk'.expanding = NoItem
      /\ walk'.distance = [m \in Found \cup new |-> IF m \in new THEN e + 1 ELSE walk.distance[m]]
      /\ Found' = Found \cup new /\ TRUE
      /\ walk' = [pending |-> walk'.pending, distance |-> walk'.distance, expanding |-> walk'.expanding]
  BY <1>4 DEF Found
<1>6. /\ e \in Nat /\ item.id \in NodeIds /\ p \in Seq(Items)
      /\ walk.distance \in [Found -> Nat] /\ Found \subseteq NodeIds
  BY <1>1, <1>4 DEF Items, WalkTyped, Found
<1>7. /\ p \o added \in Seq(Items) /\ Len(p \o added) = Len(p) + Len(added)
      /\ Len(p) \in Nat /\ Len(added) \in Nat
      /\ \A i \in 1..Len(p) + Len(added) :
           (p \o added)[i] = IF i <= Len(p) THEN p[i] ELSE added[i - Len(p)]
      /\ DOMAIN p = 1..Len(p) /\ DOMAIN (p \o added) = 1..Len(p) + Len(added)
  BY <1>4, <1>6, ConcatProperties, LenProperties
<1> HIDE DEF p, e, item
<1>8. \A i \in 1..Len(p) + Len(added) : \/ i \in 1..Len(p) /\ (p \o added)[i] = p[i]
                                       \/ \E j \in 1..Len(added) : (p \o added)[i] = added[j]
  <2> SUFFICES ASSUME NEW i \in 1..Len(p) + Len(added), ~(i <= Len(p))
               PROVE  \E j \in 1..Len(added) : (p \o added)[i] = added[j]
    BY <1>7
  <2> QED
    BY <1>7
<1>9. \A x \in Listed' : \/ x \in Listed
                         \/ x.id \in new /\ x.depth = e + 1
  <2>1. SUFFICES ASSUME NEW x \in Listed', x \notin Listed
                 PROVE  x.id \in new /\ x.depth = e + 1
    OBVIOUS
  <2>2. x \in Range(p \o added)
    BY <1>5, <2>1 DEF Listed
  <2>3. PICK i \in 1..Len(p) + Len(added) : x = (p \o added)[i]
    BY <1>7, <2>2 DEF Range
  <2>4. \A j \in 1..Len(p) : p[j] \in Listed
    BY <1>7 DEF Listed, Range, p
  <2> QED
    BY <1>4, <1>8, <2>1, <2>3, <2>4
<1>10. \A x \in Listed : x \in Listed' \/ x = item
  <2>1. SUFFICES ASSUME NEW i \in 1..Len(p)
                 PROVE  p[i] \in Listed'
    BY <1>7 DEF Listed, Range, p, item
  <2>2. i \in 1..Len(p) + Len(added) /\ i <= Len(p)
    BY <1>7
  <2> QED
    BY <1>5, <1>7, <2>2 DEF Listed, Range
<1>11. /\ \A m \in Found : m \notin new /\ walk'.distance[m] = walk.distance[m]
       /\ \A m \in new : walk'.distance[m] = e + 1
       /\ walk'.distance \in [Found' -> Nat]
  BY <1>4, <1>5, <1>6
<1>12. Sound(o)
  BY DEF WalkInv
<1>13. item \in Listed
  BY <1>1 DEF Listed, item
<1>14. item.id \in Found /\ walk.distance[item.id] = e /\ e < call.depth
  BY <1>1, <1>12, <1>13 DEF Sound, item, e
<1>15. call.depth \in Nat
  BY CallDepth
<1>16. WalkTyped'
  BY <1>4, <1>5, <1>6, <1>7, <1>11 DEF WalkTyped, Found
<1>17. Sound(o)'
  <2>1. o \in Found'
    BY <1>5, <1>12 DEF Sound
  <2>2. ASSUME NEW x \in Listed'
        PROVE  x.id \in Found' /\ walk'.distance[x.id] = x.depth
    <3>1. CASE x \in Listed
      BY <1>5, <1>11, <1>12, <3>1 DEF Sound
    <3>2. CASE x.id \in new /\ x.depth = e + 1
      BY <1>5, <1>11, <3>2
    <3> QED
      BY <1>9, <3>1, <3>2
  <2>3. ASSUME NEW m \in Found'
        PROVE  walk'.distance[m] <= call.depth /\ m \in Within(o)[walk'.distance[m]]
    <3>1. CASE m \in Found
      BY <1>11, <1>12, <3>1 DEF Sound
    <3>2. CASE m \in new
      <4>1. item.id \in Within(o)[e]
        BY <1>12, <1>14 DEF Sound
      <4>2. m \in After(before, Within(o)[e])
        BY <1>4, <3>2, <4>1 DEF After
      <4>3. m \in Within(o)[e + 1]
        BY <1>6, <4>2, WithinBall
      <4>4. e + 1 <= call.depth
        BY <1>6, <1>14, <1>15
      <4> QED
        BY <1>11, <3>2, <4>3, <4>4
    <3> QED
      BY <1>5, <3>1, <3>2
  <2> QED
    BY <1>2, <1>5, <1>16, <2>1, <2>2, <2>3 DEF Sound
<1>18. Alone => Complete'
  <2>1. SUFFICES ASSUME Alone, NEW m \in Found', walk'.distance[m] < call.depth,
                        \A x \in Listed' : x.id # m, NEW k \in NodeIds, <<m, k>> \in before
                 PROVE  k \in Found'
    BY <1>2 DEF Complete
  <2>2. Complete
    BY <2>1 DEF WalkInv
  <2>3. CASE m = item.id
    <3>1. deletions = 0
      BY <2>1 DEF Alone
    <3> QED
      BY <1>4, <1>5, <1>14, <2>1, <2>3, <3>1
  <2>4. CASE m \in Found /\ m # item.id
    <3>1. \A x \in Listed : x.id # m
      BY <1>10, <2>1, <2>4
    <3>2. walk.distance[m] < call.depth
      BY <1>11, <2>1, <2>4
    <3> QED
      BY <1>5, <2>1, <2>2, <2>4, <3>1, <3>2 DEF Complete
  <2>5. CASE m \in new
    <3>1. PICK i \in 1..Len(added) : added[i].id = m
      BY <1>4, <2>5
    <3>2. Len(p) + i \in 1..Len(p) + Len(added) /\ ~(Len(p) + i <= Len(p)) /\ Len(p) + i - Len(p) = i
      BY <1>7
    <3>3. (p \o added)[Len(p) + i] = added[i]
      BY <1>7, <3>2
    <3>4. added[i] \in Listed'
      BY <1>5, <1>7, <3>2, <3>3 DEF Listed, Range
    <3> QED
      BY <2>1, <3>1, <3>4
  <2> QED
    BY <1>5, <2>3, <2>4, <2>5
<1>19. Alone /\ ~TakesLast => Ordered' /\ Nearest(o)'
  <2> SUFFICES ASSUME Alone, ~TakesLast
               PROVE  Ordered' /\ Nearest(o)'
    OBVIOUS
  <2>1. Ordered /\ Nearest(o) /\ Complete
    BY DEF WalkInv
  <2>2. \A i \in 1..Len(p) : e <= p[i].depth /\ p[i].depth <= e + 1 /\ p[i].depth \in Nat
    <3>1. \A i \in 1..Len(p) : p[i] \in Items
      BY <1>6, <1>7
    <3> QED
      BY <1>1, <1>7, <2>1, <3>1 DEF Ordered, p, e, item, Items
  <2> DEFINE q == p \o added
  <2>3. \A i \in 1..Len(p) + Len(added) :
          /\ q[i].depth \in Nat /\ e <= q[i].depth /\ q[i].depth <= e + 1
          /\ ~(i <= Len(p)) => q[i].depth = e + 1
    <3>1. SUFFICES ASSUME NEW i \in 1..Len(p) + Len(added)
                   PROVE  /\ q[i].depth \in Nat /\ e <= q[i].depth /\ q[i].depth <= e + 1
                          /\ ~(i <= Len(p)) => q[i].depth = e + 1
      OBVIOUS
    <3>2. CASE i <= Len(p)
      <4>1. i \in 1..Len(p)
        BY <1>7, <3>2
      <4>2. q[i] = p[i]
        BY <1>7, <3>2
      <4> QED
        BY <2>2, <3>2, <4>1, <4>2
    <3>3. CASE ~(i <= Len(p))
      <4>1. i - Len(p) \in 1..Len(added)
        BY <1>7, <3>3
      <4>2. q[i] = added[i - Len(p)]
        BY <1>7, <3>3
      <4>3. q[i].depth = e + 1
        BY <1>4, <4>1, <4>2
      <4> QED
        BY <1>6, <4>3
    <3> QED
      BY <3>2, <3>3
  <2>4. ASSUME NEW i \in 1..Len(p) + Len(added), NEW j \in 1..Len(p) + Len(added)
        PROVE  /\ i <= j => q[i].depth <= q[j].depth
               /\ q[j].depth <= q[i].depth + 1
    <3>1. q[j].depth <= q[i].depth + 1
      <4> HIDE DEF q
      <4> QED
        BY <1>6, <2>3
    <3>2. CASE ~(j <= Len(p))
      <4> HIDE DEF q
      <4> QED
        BY <2>3, <3>1, <3>2
    <3>3. CASE j <= Len(p) /\ i <= j
      <4>1. i \in 1..Len(p) /\ j \in 1..Len(p) /\ i <= Len(p)
        BY <1>7, <3>3
      <4>2. q[i] = p[i] /\ q[j] = p[j]
        BY <1>7, <3>3, <4>1
      <4>3. p[i].depth <= p[j].depth
        BY <1>7, <2>1, <3>3, <4>1 DEF Ordered, p
      <4> QED
        BY <3>1, <4>2, <4>3
    <3> QED
      BY <3>1, <3>2, <3>3
  <2>5. Ordered'
    <3> HIDE DEF q
    <3>1. DOMAIN walk'.pending = 1..Len(p) + Len(added) /\ walk'.pending = q
      BY <1>5, <1>7 DEF q
    <3> QED
      BY <1>5, <2>4, <3>1 DEF Ordered
  <2>6. \A x \in Listed : x.depth >= e
    <3>1. \A x \in Listed : x = item \/ \E i \in 1..Len(p) : x = p[i]
      BY <1>7 DEF Listed, Range, p, item
    <3>2. item.depth >= e
      BY <1>6 DEF e
    <3>3. \A i \in 1..Len(p) : p[i].depth >= e
      BY <1>6, <2>2
    <3> QED
      BY <3>1, <3>2, <3>3
  <2>7. Within(o)[e] \subseteq Found
    <3>1. e <= call.depth
      BY <1>6, <1>14, <1>15
    <3> QED
      BY <1>6, <1>12, <1>15, <2>1, <2>6, <3>1, LevelsFound
  <2>8. ASSUME NEW m \in new, NEW d \in Nat, m \in Within(o)[d]
        PROVE  e + 1 <= d
    <3>1. CASE d <= e
      <4>1. m \in Within(o)[e]
        BY <1>6, <2>8, <3>1, WithinBall
      <4> QED
        BY <1>11, <2>7, <2>8, <4>1
    <3> QED
      BY <1>6, <3>1
  <2>9. Nearest(o)'
    <3>1. ASSUME NEW m \in Found', NEW d \in Nat, m \in Within(o)[d]
          PROVE  walk'.distance[m] <= d
      BY <1>5, <1>11, <2>1, <2>8, <3>1 DEF Nearest
    <3> QED
      BY <1>2, <3>1 DEF Nearest
  <2> QED
    BY <2>5, <2>9
<1> QED
  BY <1>2, <1>17, <1>18, <1>19 DEF WalkInv

\* A walk begins with its start alone, at distance 0.
LEMMA StartingIs ==
  ASSUME NEW o \in NodeIds, NEW w, w = Starting(o)
  PROVE  /\ w = [pending |-> w.pending, distance |-> w.distance, expanding |-> w.expanding]
         /\ w.pending \in Seq(Items) /\ DOMAIN w.pending = {1} /\ Range(w.pending) = {w.pending[1]}
         /\ w.pending[1].id = o /\ w.pending[1].depth = 0
         /\ w.expanding = NoItem
         /\ DOMAIN w.distance = {o} /\ w.distance[o] = 0
         /\ w.distance \in [DOMAIN w.distance -> Nat]
<1> DEFINE item == [id |-> o, depth |-> 0]
<1>1. item \in Items /\ item.id = o /\ item.depth = 0
  BY DEF Items
<1>2. /\ w = [pending |-> <<item>>, distance |-> [m \in {o} |-> 0], expanding |-> NoItem]
  BY DEF Starting
<1> HIDE DEF item
<1>3. /\ w.pending = <<item>> /\ w.distance = [m \in {o} |-> 0] /\ w.expanding = NoItem
      /\ w = [pending |-> w.pending, distance |-> w.distance, expanding |-> w.expanding]
  BY <1>2
<1>4. <<item>> \in Seq(Items) /\ Len(<<item>>) = 1 /\ <<item>>[1] = item
  BY <1>1
<1>5. DOMAIN <<item>> = {1}
  <2>1. DOMAIN <<item>> = 1..1
    BY <1>4, LenProperties
  <2> QED
    BY <2>1
<1>6. Range(<<item>>) = {item}
  BY <1>4, <1>5 DEF Range
<1> QED
  BY <1>1, <1>3, <1>4, <1>5, <1>6

\* A walk that begins.
LEMMA StartHolds ==
  ASSUME NEW o \in NodeIds, GraphKept, walk = Starting(o)
  PROVE  WalkInv(o)
<1>1. /\ walk = [pending |-> walk.pending, distance |-> walk.distance, expanding |-> walk.expanding]
      /\ walk.pending \in Seq(Items) /\ DOMAIN walk.pending = {1}
      /\ Range(walk.pending) = {walk.pending[1]}
      /\ walk.pending[1].id = o /\ walk.pending[1].depth = 0
      /\ walk.expanding = NoItem
      /\ DOMAIN walk.distance = {o} /\ walk.distance[o] = 0
      /\ walk.distance \in [DOMAIN walk.distance -> Nat]
  BY StartingIs
<1>2. WalkTyped /\ Found = {o} /\ Listed = {walk.pending[1]}
  BY <1>1 DEF WalkTyped, Found, Listed
<1>3. Sound(o)
  BY <1>1, <1>2, WithinBall, CallDepth DEF Sound
<1>4. Complete
  BY <1>1, <1>2 DEF Complete
<1>5. Ordered
  BY <1>1 DEF Ordered
<1>6. Nearest(o)
  BY <1>1, <1>2 DEF Nearest
<1> QED
  BY <1>3, <1>4, <1>5, <1>6 DEF WalkInv

\* ... and a walk that begins in a step, as those for the components do.
LEMMA StartHoldsNext ==
  ASSUME NEW o \in NodeIds, GraphKept, UNCHANGED <<graphVars, call>>, walk' = Starting(o)
  PROVE  WalkInv(o)'
<1>1. /\ walk' = [pending |-> walk'.pending, distance |-> walk'.distance, expanding |-> walk'.expanding]
      /\ walk'.pending \in Seq(Items) /\ DOMAIN walk'.pending = {1}
      /\ Range(walk'.pending) = {walk'.pending[1]}
      /\ walk'.pending[1].id = o /\ walk'.pending[1].depth = 0
      /\ walk'.expanding = NoItem
      /\ DOMAIN walk'.distance = {o} /\ walk'.distance[o] = 0
      /\ walk'.distance \in [DOMAIN walk'.distance -> Nat]
  BY StartingIs
<1>2. WalkTyped' /\ Found' = {o} /\ Listed' = {walk'.pending[1]}
  BY <1>1 DEF WalkTyped, Found, Listed
<1>3. Within(o)' = Within(o) /\ call' = call
  BY SameGraph
<1>4. Sound(o)'
  BY <1>1, <1>2, <1>3, WithinBall, CallDepth DEF Sound
<1>5. Complete'
  BY <1>1, <1>2 DEF Complete
<1>6. Ordered'
  BY <1>1 DEF Ordered
<1>7. Nearest(o)'
  BY <1>1, <1>2 DEF Nearest
<1> QED
  BY <1>4, <1>5, <1>6, <1>7 DEF WalkInv

\* What other steps do not disturb.
LEMMA WalkSame ==
  ASSUME NEW o \in NodeIds, GraphKept, WalkInv(o), UNCHANGED <<graphVars, call, walk>>
  PROVE  WalkInv(o)'
<1>1. /\ Alone' = Alone /\ TakesLast' = TakesLast /\ Within(o)' = Within(o)
      /\ call' = call /\ before' = before /\ walk' = walk
  BY SameGraph DEF graphVars
<1>2. Found' = Found /\ Listed' = Listed /\ WalkTyped' = WalkTyped
  BY <1>1 DEF Found, Listed, WalkTyped
<1>3. Sound(o) => Sound(o)'
  BY <1>1, <1>2 DEF Sound
<1>4. Complete => Complete'
  BY <1>1, <1>2 DEF Complete
<1>5. Ordered => Ordered'
  BY <1>1 DEF Ordered
<1>6. Nearest(o) => Nearest(o)'
  BY <1>1, <1>2 DEF Nearest
<1> QED
  BY <1>1, <1>3, <1>4, <1>5, <1>6 DEF WalkInv

\* What others do to the graph meanwhile.
Deletion == \/ \E n \in NodeIds : DeleteNode(n)
            \/ \E e \in before : DeleteEdge(e)

\* A deletion takes nothing back of what was found.
LEMMA DeletionKeeps ==
  ASSUME GraphKept, Deletion
  PROVE  /\ GraphKept' /\ deletions' # 0 /\ ~returned /\ ~returned' /\ before' = before
         /\ UNCHANGED <<call, walk, components, search>>
         /\ \A o \in NodeIds : WalkInv(o) => WalkInv(o)'
<1>1. /\ deletions' = deletions + 1 /\ ~returned
      /\ UNCHANGED <<before, call, walk, components, search, returned>>
  BY DEF Deletion, DeleteNode, DeleteEdge, Deletes
<1>2. nodes' \subseteq nodes /\ edges' \subseteq edges /\ adj' \subseteq adj
  BY DEF Deletion, DeleteNode, DeleteEdge
<1>3. deletions' \in Nat /\ deletions' # 0
  BY <1>1 DEF GraphKept
<1>4. GraphKept'
  BY <1>1, <1>2, <1>3 DEF GraphKept
<1>5. ~Alone'
  BY <1>3 DEF Alone
<1>6. ASSUME NEW o \in NodeIds, WalkInv(o)
      PROVE  WalkInv(o)'
  <2>1. Found' = Found /\ Listed' = Listed /\ WalkTyped' = WalkTyped
    BY <1>1 DEF Found, Listed, WalkTyped
  <2>2. Within(o)' = Within(o)
    BY <1>1 DEF Within
  <2>3. Sound(o)'
    BY <1>1, <1>6, <2>1, <2>2 DEF Sound, WalkInv
  <2> QED
    BY <1>5, <2>3 DEF WalkInv
<1> QED
  BY <1>1, <1>3, <1>4, <1>6

-----------------------------------------------------------------------------
(***************************************************************************)
(* The walks of one call: that of BFS and DFS, and those of                *)
(* FindConnectedComponents one after another.  When every edge has its     *)
(* opposite, being in reach is symmetric, so what a walk finds is all of a *)
(* component, and never one that was found before.                         *)
(***************************************************************************)

\* What is in reach is closed, and holds what is in reach of each of its nodes.
LEMMA ReachIs ==
  ASSUME NEW o \in NodeIds
  PROVE  /\ o \in Reach(o) /\ Reach(o) \subseteq NodeIds
         /\ After(before, Reach(o)) \subseteq Reach(o)
         /\ \A m \in Reach(o) : Reach(m) \subseteq Reach(o)
<1>1. Cardinality(NodeIds) \in Nat /\ Cardinality(NodeIds) + 1 \in Nat
  BY TraversalAssumption, FS_CardinalityType
<1>2. Reach(o) \subseteq NodeIds
  BY <1>1, WithinBall DEF Reach
<1>3. o \in Reach(o)
  BY WithinBall
<1>4. After(before, Reach(o)) \subseteq Reach(o)
  <2>1. Within(o)[Cardinality(NodeIds) + 1] = Reach(o) \cup After(before, Reach(o))
    BY <1>1, WithinBall DEF Reach
  <2>2. Within(o)[Cardinality(NodeIds) + 1] \subseteq Reach(o)
    BY <1>1, WithinBall
  <2> QED
    BY <2>1, <2>2
<1>5. ASSUME NEW m \in Reach(o)
      PROVE  Reach(m) \subseteq Reach(o)
  <2>1. m \in NodeIds
    BY <1>2
  <2> QED
    BY <1>4, <2>1, ReachInside
<1> QED
  BY <1>2, <1>3, <1>4, <1>5

\* In a graph where every edge has its opposite ...
Mirrored == \A e \in before : <<e[2], e[1]>> \in before

\* ... a node is in reach of what is in reach of it.
LEMMA ReachBack ==
  ASSUME GraphKept, Mirrored, NEW o \in NodeIds, NEW n \in Reach(o)
  PROVE  Reach(n) = Reach(o)
<1> DEFINE S == {m \in NodeIds : o \in Reach(m)}
<1>1. o \in S
  BY ReachIs
<1>2. After(before, S) \subseteq S
  <2>1. SUFFICES ASSUME NEW k \in After(before, S)
                 PROVE  o \in Reach(k) /\ k \in NodeIds
    OBVIOUS
  <2>2. PICK m \in S : <<m, k>> \in before
    BY <2>1 DEF After
  <2>3. k \in NodeIds /\ m \in NodeIds /\ o \in Reach(m)
    BY <2>1, <2>2 DEF After
  <2>4. <<k, m>> \in before
    <3>1. <<m, k>>[1] = m /\ <<m, k>>[2] = k
      OBVIOUS
    <3> QED
      BY <2>2, <3>1 DEF Mirrored
  <2>5. m \in Reach(k)
    BY <2>3, <2>4, ReachIs DEF After
  <2> QED
    BY <2>3, <2>5, ReachIs
<1>3. Reach(o) \subseteq S
  <2> HIDE DEF S
  <2> QED
    BY <1>1, <1>2, ReachInside
<1>4. n \in NodeIds /\ o \in Reach(n)
  BY <1>3
<1> QED
  BY <1>4, ReachIs

-----------------------------------------------------------------------------

\* What holds of the walk of BFS or DFS, until it returns and after.
WalksInv ==
  /\ walk # NoWalk => \E o \in NodeIds : WalkInv(o) /\ (Walking => o = call.start)
  /\ Walking => walk # NoWalk
  /\ Walking /\ returned => walk.pending = <<>> /\ walk.expanding = NoItem

\* What holds of the walks of FindConnectedComponents and of what they have found.
ComponentsInv ==
  /\ deletions = 0 => \A C \in components : \E o \in NodeIds : C = Within(o)[100]
  /\ call.kind = "components" /\ returned => walk = NoWalk /\ nodes \subseteq Covered

\* A walk at its end has found what is within its depth.
LEMMA EndFinds ==
  ASSUME NEW o \in NodeIds, GraphKept, WalkInv(o), Alone, ~TakesLast,
         walk.pending = <<>>, walk.expanding = NoItem
  PROVE  Found = Within(o)[call.depth]
<1>1. Listed = {}
  BY DEF Listed, Range
<1>2. Sound(o) /\ Complete /\ Nearest(o) /\ call.depth \in Nat
  BY CallDepth DEF WalkInv
<1>3. Within(o)[call.depth] \subseteq Found
  BY <1>1, <1>2, LevelsFound
<1>4. ASSUME NEW m \in Found
      PROVE  m \in Within(o)[call.depth]
  <2>1. walk.distance[m] <= call.depth /\ m \in Within(o)[walk.distance[m]] /\ walk.distance[m] \in Nat
    BY <1>2 DEF Sound, WalkTyped, Found
  <2> QED
    BY <1>2, <2>1, WithinBall
<1> QED
  BY <1>3, <1>4

\* There is a walk exactly when walk holds one.
LEMMA WalkThere ==
  ASSUME NEW o, WalkInv(o)
  PROVE  walk # NoWalk
<1>1. o \in DOMAIN walk.distance
  BY DEF WalkInv, Sound, Found
<1>2. DOMAIN NoWalk.distance = {}
  BY DEF NoWalk
<1> QED
  BY <1>1, <1>2

\* ... in the next state.
LEMMA WalkThereNext ==
  ASSUME NEW o, WalkInv(o)'
  PROVE  walk' # NoWalk
<1>1. o \in DOMAIN walk'.distance
  BY DEF WalkInv, Sound, Found
<1>2. DOMAIN NoWalk.distance = {}
  BY DEF NoWalk
<1> QED
  BY <1>1, <1>2

\* A call begins with what holds of its walks.
LEMMA WalksInit == TraversalInit => GraphKept /\ WalksInv /\ ComponentsInv
<1> SUFFICES ASSUME TraversalInit
             PROVE  GraphKept /\ WalksInv /\ ComponentsInv
  OBVIOUS
<1>1. before \subseteq NodeIds \X NodeIds
  BY TraversalAssumption DEF TraversalInit
<1>2. GraphKept
  BY <1>1 DEF TraversalInit, GraphKept
<1>3. ~returned /\ components = {} /\ call \in WalkCalls
  BY DEF TraversalInit
<1>4. CASE Walking
  <2>1. walk = Starting(call.start)
    BY <1>4 DEF TraversalInit, Walking
  <2>2. call.start \in NodeIds
    BY <1>3, <1>4 DEF WalkCalls, Walking
  <2>3. WalkInv(call.start)
    BY <1>2, <2>1, <2>2, StartHolds
  <2>4. walk # NoWalk
    BY <2>3, WalkThere
  <2> QED
    BY <1>2, <1>3, <2>2, <2>3, <2>4 DEF WalksInv, ComponentsInv
<1>5. CASE ~Walking
  BY <1>2, <1>3, <1>5 DEF TraversalInit, Walking, WalksInv, ComponentsInv
<1> QED
  BY <1>4, <1>5

\* The steps of FindCycles.
SearchStep == \/ \E n \in NodeIds : StartSearch(n)
              \/ \E e \in before : Follow(e)
              \/ Backtrack \/ SearchReturns

\* Every step keeps what holds of the walks.
LEMMA WalksNext ==
  GraphKept /\ WalksInv /\ ComponentsInv /\ [TraversalNext]_traversalVars
    => GraphKept' /\ WalksInv' /\ ComponentsInv'
<1> SUFFICES ASSUME GraphKept, WalksInv, ComponentsInv, [TraversalNext]_traversalVars
             PROVE  GraphKept' /\ WalksInv' /\ ComponentsInv'
  OBVIOUS
<1>1. ASSUME TakeNext \/ Expand
      PROVE  GraphKept' /\ WalksInv' /\ ComponentsInv'
  <2>1. /\ UNCHANGED <<graphVars, call, components, returned>>
        /\ walk.pending # <<>> \/ walk.expanding # NoItem
    BY <1>1 DEF TakeNext, Expand
  <2>2. walk # NoWalk
    BY <2>1 DEF NoWalk
  <2>3. PICK o \in NodeIds : WalkInv(o) /\ (Walking => o = call.start)
    BY <2>2 DEF WalksInv
  <2>4. WalkInv(o)'
    BY <1>1, <2>3, TakeKeeps, ExpandKeeps
  <2>5. walk' # NoWalk
    BY <2>4, WalkThereNext
  <2>6. GraphKept' /\ call' = call /\ returned' = returned /\ \A k : Within(k)' = Within(k)
    BY <2>1, SameGraph
  <2>7. ~(Walking /\ returned) /\ ~(call.kind = "components" /\ returned)
    BY <2>1, <2>2 DEF WalksInv, ComponentsInv
  <2>8. WalksInv'
    BY <2>3, <2>4, <2>5, <2>6, <2>7 DEF WalksInv, Walking
  <2>9. ComponentsInv'
    BY <2>1, <2>6, <2>7 DEF ComponentsInv, graphVars
  <2> QED
    BY <2>6, <2>8, <2>9
<1>2. ASSUME UNCHANGED <<graphVars, call, walk, components>>,
             returned' = returned \/ (returned' = TRUE /\ ~Walking /\ call.kind # "components")
      PROVE  GraphKept' /\ WalksInv' /\ ComponentsInv'
  <2>1. /\ GraphKept' /\ call' = call /\ walk' = walk /\ \A k : Within(k)' = Within(k)
        /\ \A o \in NodeIds : WalkInv(o) => WalkInv(o)'
    BY <1>2, SameGraph, WalkSame
  <2>2. WalksInv'
    BY <1>2, <2>1 DEF WalksInv, Walking
  <2>3. ComponentsInv'
    BY <1>2, <2>1 DEF ComponentsInv, Covered, graphVars
  <2> QED
    BY <2>1, <2>2, <2>3
<1>3. CASE WalkReturns
  <2>1. /\ UNCHANGED <<graphVars, call, walk, components>> /\ returned' = TRUE
        /\ Walking /\ walk.pending = <<>> /\ walk.expanding = NoItem
    BY <1>3 DEF WalkReturns, WalkEnded, Walking
  <2>2. /\ GraphKept' /\ call' = call /\ walk' = walk /\ \A k : Within(k)' = Within(k)
        /\ \A o \in NodeIds : WalkInv(o) => WalkInv(o)'
    BY <2>1, SameGraph, WalkSame
  <2>3. WalksInv'
    BY <2>1, <2>2 DEF WalksInv, Walking
  <2>4. call.kind # "components"
    BY <2>1 DEF Walking
  <2>5. ComponentsInv'
    BY <2>1, <2>2, <2>4 DEF ComponentsInv, graphVars
  <2> QED
    BY <2>2, <2>3, <2>5
<1>4. ASSUME NEW n \in NodeIds, StartComponent(n)
      PROVE  GraphKept' /\ WalksInv' /\ ComponentsInv'
  <2>1. /\ UNCHANGED <<graphVars, call, components, returned>> /\ walk' = Starting(n)
        /\ call.kind = "components" /\ n \in nodes \ Covered
    BY <1>4 DEF StartComponent
  <2>2. WalkInv(n)' /\ GraphKept' /\ call' = call /\ \A k : Within(k)' = Within(k)
    BY <2>1, SameGraph, StartHoldsNext
  <2>3. ~returned
    BY <2>1 DEF ComponentsInv
  <2>4. ~Walking
    BY <2>1 DEF Walking
  <2>5. WalksInv'
    BY <2>1, <2>2, <2>4 DEF WalksInv, Walking
  <2>6. ComponentsInv'
    BY <2>1, <2>2, <2>3 DEF ComponentsInv, graphVars
  <2> QED
    BY <2>2, <2>5, <2>6
<1>5. CASE ComponentFound
  <2>1. /\ UNCHANGED <<graphVars, call, returned>> /\ walk' = NoWalk
        /\ call.kind = "components" /\ components' = components \cup {Found}
        /\ walk # NoWalk /\ walk.pending = <<>> /\ walk.expanding = NoItem
    BY <1>5 DEF ComponentFound, WalkEnded, Found
  <2>2. PICK o \in NodeIds : WalkInv(o)
    BY <2>1 DEF WalksInv
  <2>3. call.depth = 100 /\ call.limit = 0 /\ ~TakesLast /\ ~Walking
    BY <2>1 DEF GraphKept, WalkCalls, ComponentDepth, TakesLast, Walking
  <2>4. deletions = 0 => Found = Within(o)[100]
    BY <2>1, <2>2, <2>3, EndFinds DEF Alone
  <2>5. GraphKept' /\ call' = call /\ deletions' = deletions /\ \A k : Within(k)' = Within(k)
    BY <2>1, SameGraph DEF graphVars
  <2>6. ~returned
    BY <2>1 DEF ComponentsInv
  <2>7. WalksInv'
    BY <2>1, <2>3, <2>5 DEF WalksInv, Walking
  <2>8. ComponentsInv'
    BY <2>1, <2>2, <2>4, <2>5, <2>6 DEF ComponentsInv
  <2> QED
    BY <2>5, <2>7, <2>8
<1>6. CASE ComponentsReturn
  <2>1. /\ UNCHANGED <<graphVars, call, walk, components>>
        /\ call.kind = "components" /\ walk = NoWalk /\ nodes \subseteq Covered
    BY <1>6 DEF ComponentsReturn
  <2>2. GraphKept' /\ call' = call /\ walk' = walk /\ \A k : Within(k)' = Within(k)
    BY <2>1, SameGraph
  <2>3. ~Walking
    BY <2>1 DEF Walking
  <2>4. WalksInv'
    BY <2>1, <2>2, <2>3 DEF WalksInv, Walking
  <2>5. ComponentsInv'
    BY <2>1, <2>2 DEF ComponentsInv, Covered, graphVars
  <2> QED
    BY <2>2, <2>4, <2>5
<1>7. CASE Deletion
  <2>1. /\ GraphKept' /\ deletions' # 0 /\ ~returned' /\ call' = call /\ walk' = walk
        /\ \A o \in NodeIds : WalkInv(o) => WalkInv(o)'
    BY <1>7, DeletionKeeps
  <2>2. WalksInv'
    BY <2>1 DEF WalksInv, Walking
  <2>3. ComponentsInv'
    BY <2>1 DEF ComponentsInv
  <2> QED
    BY <2>1, <2>2, <2>3
<1>8. CASE SearchStep
  <2>1. \/ UNCHANGED <<graphVars, call, walk, components, returned>>
        \/ UNCHANGED <<graphVars, call, walk, components>> /\ returned' = TRUE /\ call.kind = "cycles"
    BY <1>8 DEF SearchStep, StartSearch, Follow, Backtrack, SearchReturns
  <2>2. call.kind = "cycles" => ~Walking /\ call.kind # "components"
    BY DEF Walking
  <2> QED
    BY <1>2, <2>1, <2>2
<1>9. CASE UNCHANGED traversalVars
  BY <1>2, <1>9 DEF traversalVars, graphVars
<1> QED
  BY <1>1, <1>3, <1>4, <1>5, <1>6, <1>7, <1>8, <1>9
     DEF TraversalNext, Deletion, SearchStep

-----------------------------------------------------------------------------

\* The least of a set of naturals is the one that none is less than.
LEMMA MinIs ==
  ASSUME NEW S, S \subseteq Int, NEW x \in S, \A y \in S : x <= y
  PROVE  Min(S) = x
<1>1. \A z \in S : (\A y \in S : z <= y) => z = x
  OBVIOUS
<1> QED
  BY <1>1 DEF Min

\* The invariant of the walks gives what BFS and DFS promise.
LEMMA WalksHold == GraphKept /\ WalksInv => WalksAreExact
<1> SUFFICES ASSUME GraphKept, WalksInv, Walking
             PROVE  WalksAreExact
  BY DEF WalksAreExact, WalksStayInReach, WalksFindAll
<1>1. call.start \in NodeIds /\ WalkInv(call.start)
  BY DEF WalksInv
<1> DEFINE o == call.start
<1>2. Sound(o) /\ call.depth \in Nat
  BY <1>1, CallDepth DEF WalkInv
<1>3. WalksStayInReach
  BY <1>2 DEF Sound, WalksStayInReach, Found
<1>4. ASSUME Undisturbed, call.limit = 0
      PROVE  /\ Alone /\ walk.pending = <<>> /\ walk.expanding = NoItem
             /\ walk.distance \in [Found -> Nat]
  BY <1>2, <1>4 DEF Undisturbed, WalksInv, Alone, Sound, WalkTyped, Found
<1>5. ASSUME Undisturbed, call.limit = 0, call.kind = "bfs"
      PROVE  walk.distance = [m \in Within(o)[call.depth] |->
                                Min({d \in 0..call.depth : m \in Within(o)[d]})]
  <2>1. ~TakesLast
    BY <1>5 DEF TakesLast
  <2>2. Found = Within(o)[call.depth]
    BY <1>1, <1>4, <1>5, <2>1, EndFinds
  <2>3. Nearest(o)
    BY <1>1, <1>4, <1>5, <2>1 DEF WalkInv
  <2>4. ASSUME NEW m \in Found
        PROVE  walk.distance[m] = Min({d \in 0..call.depth : m \in Within(o)[d]})
    <3>1. walk.distance[m] \in Nat /\ walk.distance[m] <= call.depth
      BY <1>2 DEF Sound, WalkTyped, Found
    <3>2. walk.distance[m] \in {d \in 0..call.depth : m \in Within(o)[d]}
      BY <1>2, <3>1 DEF Sound, Found
    <3>3. \A d \in {d \in 0..call.depth : m \in Within(o)[d]} : walk.distance[m] <= d
      BY <2>3 DEF Nearest
    <3>4. {d \in 0..call.depth : m \in Within(o)[d]} \subseteq Int
      OBVIOUS
    <3> QED
      BY <3>2, <3>3, <3>4, MinIs
  <2> QED
    BY <1>4, <1>5, <2>2, <2>4
<1>6. ASSUME Undisturbed, call.limit = 0, \A m \in Found : walk.distance[m] < call.depth
      PROVE  Found = Reach(o)
  <2>1. Listed = {} /\ Complete
    BY <1>1, <1>4, <1>6 DEF Listed, Range, WalkInv
  <2>2. After(before, Found) \subseteq Found
    BY <1>6, <2>1 DEF After, Complete
  <2>3. Reach(o) \subseteq Found
    BY <1>1, <1>2, <2>2, ReachInside DEF Sound
  <2>4. \A m \in Found : walk.distance[m] \in Nat /\ m \in Within(o)[walk.distance[m]]
    BY <1>2 DEF Sound, WalkTyped, Found
  <2>5. Found \subseteq Reach(o)
    BY <1>1, <2>4, WithinBall
  <2> QED
    BY <2>3, <2>5
<1>7. WalksFindAll
  BY <1>5, <1>6 DEF WalksFindAll, Found
<1> QED
  BY <1>3, <1>7 DEF WalksAreExact

\* ... and what FindConnectedComponents promises.
LEMMA ComponentsHold == GraphKept /\ ComponentsInv => ComponentsPartition
<1> SUFFICES ASSUME GraphKept, ComponentsInv, call.kind = "components", Undisturbed,
                    \A n \in NodeIds : Within(n)[100] = Reach(n), Mirrored
             PROVE  components = {Reach(n) : n \in NodeIds}
  BY DEF ComponentsPartition, Mirrored
<1>1. NodeIds \subseteq UNION components
  BY DEF Undisturbed, GraphKept, ComponentsInv, Covered
<1>2. \A C \in components : \E o \in NodeIds : C = Reach(o)
  BY DEF Undisturbed, ComponentsInv
<1>3. ASSUME NEW n \in NodeIds
      PROVE  Reach(n) \in components
  <2>1. PICK C \in components : n \in C
    BY <1>1
  <2>2. PICK o \in NodeIds : C = Reach(o)
    BY <1>2
  <2> QED
    BY <2>1, <2>2, ReachBack
<1> QED
  BY <1>2, <1>3

-----------------------------------------------------------------------------
(***************************************************************************)
(* FindCycles.  The frames are a path along edges, so what is reported is a*)
(* cycle, whatever is deleted (Chained).  If nothing is deleted and nothing*)
(* was reported, the edges of a finished node lead to finished nodes, from *)
(* which there is no way back to it (Untangled): at the end, when all nodes*)
(* are finished, there is no cycle.                                        *)
(***************************************************************************)

\* A node of the path and the edges that are still to follow.
Frames == [id : NodeIds, left : SUBSET (NodeIds \X NodeIds)]

\* The fields of search.
SearchTyped ==
  /\ search = [frames |-> search.frames, seen |-> search.seen, cycles |-> search.cycles]
  /\ search.frames \in Seq(Frames) /\ search.seen \subseteq NodeIds

\* The frames are a path of different nodes, each with edges of its own.
Chained(frames, seen) ==
  /\ \A i \in 1..Len(frames) : \A e \in frames[i].left : e \in before /\ e[1] = frames[i].id
  /\ \A i \in 1..Len(frames) : frames[i].id \in seen
  /\ \A i, j \in 1..Len(frames) : frames[i].id = frames[j].id => i = j
  /\ \A i \in 1..(Len(frames) - 1) : <<frames[i].id, frames[i + 1].id>> \in before

\* What was reported is a cycle along edges.
CyclesTrue ==
  \A c \in search.cycles :
    /\ Len(c) > 1 /\ c[1] = Last(c)
    /\ \A i \in 1..(Len(c) - 1) : <<c[i], c[i + 1]>> \in before

\* The nodes from which the search has come back.
Finished(frames, seen) == seen \ {frames[i].id : i \in 1..Len(frames)}

\* The edges of a node on the path that were followed lead to finished nodes, or to
\* the next on the path; and those of finished nodes to finished ones, and not back.
Untangled(frames, seen) ==
  /\ \A i \in 1..Len(frames) : \A e \in before :
       e[1] = frames[i].id /\ e \notin frames[i].left =>
         e[2] \in Finished(frames, seen) \/ (i < Len(frames) /\ e[2] = frames[i + 1].id)
  /\ \A e \in before : e[1] \in Finished(frames, seen) =>
       e[2] \in Finished(frames, seen) /\ e[1] \notin Reach(e[2])

\* What holds at each step of FindCycles.
SearchInv ==
  /\ SearchTyped /\ Chained(search.frames, search.seen) /\ CyclesTrue
  /\ deletions = 0 /\ search.cycles = {} => Untangled(search.frames, search.seen)
  /\ call.kind = "cycles" /\ returned => search.frames = <<>> /\ search.seen = NodeIds

-----------------------------------------------------------------------------
(* Lists of frames.                                                        *)

\* Following an edge of the last node.
Advanced(frames, e) ==
  Append(Front(frames), [Last(frames) EXCEPT !.left = @ \ {e}])

\* Following an edge changes the last frame alone.
LEMMA AdvancedIs ==
  ASSUME NEW frames \in Seq(Frames), frames # <<>>, NEW e
  PROVE  /\ Advanced(frames, e) \in Seq(Frames) /\ Len(Advanced(frames, e)) = Len(frames)
         /\ Len(frames) \in Nat \ {0}
         /\ \A i \in 1..Len(frames) :
              /\ Advanced(frames, e)[i].id = frames[i].id
              /\ Advanced(frames, e)[i].left \subseteq frames[i].left
              /\ frames[i].left \subseteq Advanced(frames, e)[i].left \cup {e}
<1> DEFINE n == Len(frames)
           last == [id |-> frames[n].id, left |-> frames[n].left \ {e}]
<1>1. n \in Nat /\ n # 0 /\ n - 1 \in 0..n /\ n - 1 \in Nat /\ n \in 1..n
  BY EmptySeq, LenProperties
<1>2. \A i \in 1..n : frames[i] \in Frames
  BY <1>1, LenProperties
<1>3. frames[n] = [id |-> frames[n].id, left |-> frames[n].left]
  BY <1>1, <1>2 DEF Frames
<1>4. [Last(frames) EXCEPT !.left = @ \ {e}] = last
  <2>1. Last(frames) = frames[n]
    BY DEF Last
  <2> DEFINE f == frames[n]
             left == f.left \ {e}
  <2>2. f \in Frames /\ left \in SUBSET (NodeIds \X NodeIds)
    BY <1>1, <1>2 DEF Frames
  <2>3. [f EXCEPT !.left = left] = [id |-> f.id, left |-> left]
    <3> HIDE DEF f, left
    <3> QED
      BY <2>2 DEF Frames
  <2> QED
    BY <2>1, <2>3
<1>5. last \in Frames
  BY <1>1, <1>2 DEF Frames
<1> HIDE DEF last, n
<1>6. /\ Front(frames) \in Seq(Frames) /\ Len(Front(frames)) = n - 1
      /\ \A i \in 1..(n - 1) : Front(frames)[i] = frames[i]
  BY <1>1, FrontOf DEF Front, n
<1>7. /\ Advanced(frames, e) \in Seq(Frames) /\ Len(Advanced(frames, e)) = (n - 1) + 1
      /\ \A i \in 1..(n - 1) : Advanced(frames, e)[i] = Front(frames)[i]
      /\ Advanced(frames, e)[(n - 1) + 1] = last
  <2> DEFINE front == Front(frames)
             more == Append(front, last)
  <2>1. /\ more \in Seq(Frames) /\ Len(more) = Len(front) + 1
        /\ \A i \in 1..Len(front) : more[i] = front[i]
        /\ more[Len(front) + 1] = last
    <3> HIDE DEF front
    <3> QED
      BY <1>5, <1>6, AppendProperties DEF front
  <2>2. Advanced(frames, e) = more
    BY <1>4 DEF Advanced
  <2> HIDE DEF more
  <2> QED
    BY <1>6, <2>1, <2>2
<1>8. (n - 1) + 1 = n /\ \A i \in 1..n : i = n \/ i \in 1..(n - 1)
  BY <1>1
<1>9. Advanced(frames, e)[n] = last /\ last.id = frames[n].id /\ last.left = frames[n].left \ {e}
  BY <1>7, <1>8 DEF last
<1>10. \A i \in 1..(n - 1) : Advanced(frames, e)[i] = frames[i] /\ i # n
  BY <1>1, <1>6, <1>7
<1>11. \A i \in 1..n :
         /\ Advanced(frames, e)[i].id = frames[i].id
         /\ Advanced(frames, e)[i].left \subseteq frames[i].left
         /\ frames[i].left \subseteq Advanced(frames, e)[i].left \cup {e}
  <2> SUFFICES ASSUME NEW i \in 1..n
               PROVE  /\ Advanced(frames, e)[i].id = frames[i].id
                      /\ Advanced(frames, e)[i].left \subseteq frames[i].left
                      /\ frames[i].left \subseteq Advanced(frames, e)[i].left \cup {e}
    OBVIOUS
  <2>1. CASE i = n
    BY <1>9, <2>1
  <2>2. CASE i # n
    BY <1>8, <1>10, <2>2
  <2> QED
    BY <2>1, <2>2
<1> QED
  BY <1>1, <1>7, <1>8, <1>11 DEF n

\* A node more on the path.
LEMMA PushedIs ==
  ASSUME NEW frames \in Seq(Frames), NEW f \in Frames
  PROVE  /\ Append(frames, f) \in Seq(Frames) /\ Len(Append(frames, f)) = Len(frames) + 1
         /\ Len(frames) \in Nat
         /\ \A i \in 1..Len(frames) : Append(frames, f)[i] = frames[i]
         /\ Append(frames, f)[Len(frames) + 1] = f
BY AppendProperties, LenProperties

\* The path and the finished nodes depend on the ids alone.
LEMMA FinishedSame ==
  ASSUME NEW frames, NEW other, NEW seen, Len(other) = Len(frames),
         \A i \in 1..Len(frames) : other[i].id = frames[i].id
  PROVE  Finished(other, seen) = Finished(frames, seen)
BY DEF Finished

-----------------------------------------------------------------------------
(* What the steps do to the path.                                          *)

\* A node that was not seen becomes the last of the path: reached by the edge that the
\* last one has just given up, or as the first.
LEMMA PushKeeps ==
  ASSUME NEW frames \in Seq(Frames), NEW seen, NEW m \in NodeIds, m \notin seen, GraphKept,
         Chained(frames, seen), seen \subseteq NodeIds,
         Len(frames) = 0 \/ <<frames[Len(frames)].id, m>> \in before
  PROVE  /\ Append(frames, [id |-> m, left |-> EdgesFrom(m)]) \in Seq(Frames)
         /\ Chained(Append(frames, [id |-> m, left |-> EdgesFrom(m)]), seen \cup {m})
         /\ Finished(Append(frames, [id |-> m, left |-> EdgesFrom(m)]), seen \cup {m})
              = Finished(frames, seen)
<1> DEFINE f == [id |-> m, left |-> EdgesFrom(m)]
           more == Append(frames, f)
           n == Len(frames)
<1>1. /\ EdgesFrom(m) \subseteq before /\ \A e \in EdgesFrom(m) : e[1] = m
      /\ EdgesFrom(m) \subseteq NodeIds \X NodeIds
  BY DEF EdgesFrom, GraphKept
<1>2. f \in Frames /\ f.id = m /\ f.left = EdgesFrom(m)
  BY <1>1 DEF Frames
<1> HIDE DEF f
<1>3. /\ more \in Seq(Frames) /\ Len(more) = n + 1 /\ n \in Nat
      /\ \A i \in 1..n : more[i] = frames[i]
      /\ more[n + 1] = f
  BY <1>2, PushedIs
<1> HIDE DEF more, n
<1>4. /\ \A i \in 1..(n + 1) : i \in 1..n \/ i = n + 1
      /\ \A i \in 1..n : i # n + 1
      /\ (n + 1) - 1 = n
  BY <1>3
<1>5. \A i \in 1..n : frames[i].id \in seen /\ frames[i].id # m
  BY DEF Chained, n
<1>6. \A i \in 1..(n + 1) : \A e \in more[i].left : e \in before /\ e[1] = more[i].id
  BY <1>1, <1>2, <1>3, <1>4 DEF Chained, n
<1>7. \A i \in 1..(n + 1) : more[i].id \in seen \cup {m}
  BY <1>2, <1>3, <1>4, <1>5
<1>8. \A i, j \in 1..(n + 1) : more[i].id = more[j].id => i = j
  <2>1. \A i, j \in 1..n : frames[i].id = frames[j].id => i = j
    BY DEF Chained, n
  <2> QED
    BY <1>2, <1>3, <1>4, <1>5, <2>1
<1>9. \A i \in 1..n : <<more[i].id, more[i + 1].id>> \in before
  <2>1. SUFFICES ASSUME NEW i \in 1..n
                 PROVE  <<more[i].id, more[i + 1].id>> \in before
    OBVIOUS
  <2>2. CASE i = n
    <3>1. n # 0 /\ n \in 1..n
      BY <1>3, <2>1
    <3> QED
      BY <1>2, <1>3, <2>2, <3>1 DEF n
  <2>3. CASE i # n
    <3>1. i \in 1..(n - 1) /\ i + 1 \in 1..n
      BY <1>3, <2>1, <2>3
    <3>2. <<frames[i].id, frames[i + 1].id>> \in before
      BY <3>1 DEF Chained, n
    <3> QED
      BY <1>3, <2>1, <3>1, <3>2
  <2> QED
    BY <2>2, <2>3
<1>10. Chained(more, seen \cup {m})
  BY <1>3, <1>4, <1>6, <1>7, <1>8, <1>9 DEF Chained
<1>11. Finished(more, seen \cup {m}) = Finished(frames, seen)
  <2>1. {more[i].id : i \in 1..(n + 1)} = {frames[i].id : i \in 1..n} \cup {m}
    <3>1. \A i \in 1..n : i \in 1..(n + 1)
      BY <1>3
    <3>2. n + 1 \in 1..(n + 1)
      BY <1>3
    <3>3. more[n + 1].id = m /\ \A i \in 1..n : more[i].id = frames[i].id
      BY <1>2, <1>3
    <3> HIDE DEF f
    <3>4. {more[i].id : i \in 1..(n + 1)} \subseteq {frames[i].id : i \in 1..n} \cup {m}
      <4>1. \A i \in 1..(n + 1) : more[i].id \in {frames[j].id : j \in 1..n} \cup {m}
        BY <1>4, <3>3
      <4> QED
        BY <4>1
    <3>5. {frames[i].id : i \in 1..n} \cup {m} \subseteq {more[i].id : i \in 1..(n + 1)}
      BY <3>1, <3>2, <3>3
    <3> QED
      BY <3>4, <3>5
  <2> DEFINE path == {frames[i].id : i \in 1..n}
  <2>2. Finished(frames, seen) = seen \ path
    BY DEF Finished, n
  <2>3. Len(more) = n + 1
    BY <1>3
  <2>4. Finished(more, seen \cup {m}) = (seen \cup {m}) \ (path \cup {m})
    BY <2>1, <2>3 DEF Finished
  <2> HIDE DEF path
  <2> QED
    BY <2>2, <2>4
<1> QED
  BY <1>3, <1>10, <1>11 DEF more, f

\* An edge is followed: it is taken from those that are left.
LEMMA AdvanceKeeps ==
  ASSUME NEW frames \in Seq(Frames), frames # <<>>, NEW seen, Chained(frames, seen),
         NEW e \in Last(frames).left
  PROVE  /\ Chained(Advanced(frames, e), seen)
         /\ Finished(Advanced(frames, e), seen) = Finished(frames, seen)
         /\ e \in before /\ e[1] = frames[Len(frames)].id
<1> DEFINE n == Len(frames)
           next == Advanced(frames, e)
<1>1. /\ next \in Seq(Frames) /\ Len(next) = n /\ n \in Nat \ {0}
      /\ \A i \in 1..n : next[i].id = frames[i].id /\ next[i].left \subseteq frames[i].left
  BY AdvancedIs
<1>2. n \in 1..n /\ \A i \in 1..(n - 1) : i \in 1..n /\ i + 1 \in 1..n
  BY <1>1
<1>3. e \in frames[n].left
  BY DEF Last
<1> HIDE DEF n, next
<1>4. e \in before /\ e[1] = frames[n].id
  BY <1>2, <1>3 DEF Chained, n
<1>5. Finished(next, seen) = Finished(frames, seen)
  BY <1>1, FinishedSame DEF n
<1>6. \A i \in 1..n : \A d \in next[i].left : d \in before /\ d[1] = next[i].id
  BY <1>1 DEF Chained, n
<1>7. \A i \in 1..n : next[i].id \in seen
  BY <1>1 DEF Chained, n
<1>8. \A i, j \in 1..n : next[i].id = next[j].id => i = j
  <2>1. \A i, j \in 1..n : frames[i].id = frames[j].id => i = j
    BY DEF Chained, n
  <2> QED
    BY <1>1, <2>1
<1>9. \A i \in 1..(n - 1) : <<next[i].id, next[i + 1].id>> \in before
  <2>1. \A i \in 1..(n - 1) : <<frames[i].id, frames[i + 1].id>> \in before
    BY DEF Chained, n
  <2> QED
    BY <1>1, <1>2, <2>1
<1>10. Chained(next, seen)
  BY <1>1, <1>6, <1>7, <1>8, <1>9 DEF Chained
<1> QED
  BY <1>4, <1>5, <1>10 DEF n, next

\* ... to a node that is finished.
LEMMA AdvanceUntangled ==
  ASSUME NEW frames \in Seq(Frames), frames # <<>>, NEW seen, Chained(frames, seen),
         Untangled(frames, seen), NEW e \in Last(frames).left, e[2] \in Finished(frames, seen)
  PROVE  Untangled(Advanced(frames, e), seen)
<1> DEFINE n == Len(frames)
           next == Advanced(frames, e)
           F == Finished(frames, seen)
<1>1. /\ Len(next) = n /\ n \in Nat \ {0} /\ Finished(next, seen) = F
      /\ \A i \in 1..n : next[i].id = frames[i].id
      /\ \A i \in 1..n : frames[i].left \subseteq next[i].left \cup {e}
  BY AdvancedIs, AdvanceKeeps
<1>2. \A i \in 1..n : i < n => i + 1 \in 1..n
  BY <1>1
<1> HIDE DEF n, next, F
<1>3. /\ \A i \in 1..n : \A d \in before :
           d[1] = frames[i].id /\ d \notin frames[i].left =>
             d[2] \in F \/ (i < n /\ d[2] = frames[i + 1].id)
      /\ \A d \in before : d[1] \in F => d[2] \in F /\ d[1] \notin Reach(d[2])
  BY DEF Untangled, n, F
<1>4. e[2] \in F
  BY DEF F
<1>5. ASSUME NEW i \in 1..n, NEW d \in before, d[1] = next[i].id, d \notin next[i].left
      PROVE  d[2] \in F \/ (i < n /\ d[2] = next[i + 1].id)
  <2>1. d = e \/ d \notin frames[i].left
    BY <1>1, <1>5
  <2>2. CASE d = e
    BY <1>4, <2>2
  <2>3. CASE d \notin frames[i].left
    BY <1>1, <1>2, <1>3, <1>5, <2>3
  <2> QED
    BY <2>1, <2>2, <2>3
<1>6. Untangled(next, seen)
  BY <1>1, <1>3, <1>5 DEF Untangled
<1> QED
  BY <1>6 DEF next

\* ... to a node that was not seen, or a search starts at one.
LEMMA PushUntangled ==
  ASSUME NEW frames \in Seq(Frames), NEW seen, NEW m \in NodeIds, m \notin seen, GraphKept,
         deletions = 0, Chained(frames, seen), seen \subseteq NodeIds,
         Len(frames) = 0 \/ <<frames[Len(frames)].id, m>> \in before,
         \A i \in 1..Len(frames) : \A d \in before :
           d[1] = frames[i].id /\ d \notin frames[i].left =>
             \/ d[2] \in Finished(frames, seen)
             \/ i < Len(frames) /\ d[2] = frames[i + 1].id
             \/ i = Len(frames) /\ d[2] = m,
         \A d \in before : d[1] \in Finished(frames, seen) =>
           d[2] \in Finished(frames, seen) /\ d[1] \notin Reach(d[2])
  PROVE  Untangled(Append(frames, [id |-> m, left |-> EdgesFrom(m)]), seen \cup {m})
<1> DEFINE f == [id |-> m, left |-> EdgesFrom(m)]
           more == Append(frames, f)
           n == Len(frames)
           F == Finished(frames, seen)
<1>1. EdgesFrom(m) = {d \in before : d[1] = m} /\ EdgesFrom(m) \subseteq NodeIds \X NodeIds
  BY DEF EdgesFrom, GraphKept
<1>2. f \in Frames /\ f.id = m /\ f.left = EdgesFrom(m)
  BY <1>1 DEF Frames
<1>3. Finished(more, seen \cup {m}) = F
  BY PushKeeps
<1> HIDE DEF f
<1>4. /\ Len(more) = n + 1 /\ n \in Nat
      /\ \A i \in 1..n : more[i] = frames[i]
      /\ more[n + 1] = f
  BY <1>2, PushedIs
<1>5. \A i \in 1..n : \A d \in before :
        d[1] = frames[i].id /\ d \notin frames[i].left =>
          d[2] \in F \/ (i < n /\ d[2] = frames[i + 1].id) \/ (i = n /\ d[2] = m)
  OBVIOUS
<1>6. \A d \in before : d[1] \in F => d[2] \in F /\ d[1] \notin Reach(d[2])
  OBVIOUS
<1> HIDE DEF more, n, F
<1>7. ASSUME NEW i \in 1..(n + 1), NEW d \in before, d[1] = more[i].id, d \notin more[i].left
      PROVE  d[2] \in F \/ (i < n + 1 /\ d[2] = more[i + 1].id)
  <2>1. CASE i = n + 1
    BY <1>1, <1>2, <1>4, <1>7, <2>1
  <2>2. CASE i # n + 1
    <3>1. i \in 1..n /\ i < n + 1 /\ (i < n => i + 1 \in 1..n)
      BY <1>4, <2>2
    <3>2. d[2] \in F \/ (i < n /\ d[2] = frames[i + 1].id) \/ (i = n /\ d[2] = m)
      BY <1>4, <1>5, <1>7, <3>1
    <3>3. CASE i < n /\ d[2] = frames[i + 1].id
      BY <1>4, <3>1, <3>3
    <3>4. CASE i = n /\ d[2] = m
      BY <1>2, <1>4, <3>1, <3>4
    <3> QED
      BY <3>2, <3>3, <3>4
  <2> QED
    BY <2>1, <2>2
<1>8. Untangled(more, seen \cup {m})
  BY <1>3, <1>4, <1>6, <1>7 DEF Untangled
<1> QED
  BY <1>8 DEF more, f

\* Backtracking: the last node, none of whose edges are left, is finished.
LEMMA PopKeeps ==
  ASSUME NEW frames \in Seq(Frames), frames # <<>>, NEW seen, Chained(frames, seen)
  PROVE  /\ Front(frames) \in Seq(Frames) /\ Chained(Front(frames), seen)
         /\ Finished(Front(frames), seen) = Finished(frames, seen) \cup {frames[Len(frames)].id}
         /\ frames[Len(frames)].id \notin Finished(frames, seen)
         /\ Len(frames) \in Nat \ {0} /\ Len(Front(frames)) = Len(frames) - 1
         /\ \A i \in 1..(Len(frames) - 1) : Front(frames)[i] = frames[i]
<1> DEFINE n == Len(frames)
           front == Front(frames)
<1>1. n \in Nat /\ n # 0 /\ n - 1 \in 0..n
  BY EmptySeq, LenProperties
<1>2. /\ front \in Seq(Frames) /\ Len(front) = n - 1
      /\ \A i \in 1..(n - 1) : front[i] = frames[i]
  BY <1>1, FrontOf DEF Front
<1> HIDE DEF n, front
<1>3. /\ n \in 1..n /\ \A i \in 1..(n - 1) : i \in 1..n /\ i # n
      /\ \A i \in 1..n : i = n \/ i \in 1..(n - 1)
      /\ \A i \in 1..((n - 1) - 1) : i \in 1..(n - 1) /\ i + 1 \in 1..(n - 1)
  BY <1>1
<1>4. \A i, j \in 1..n : frames[i].id = frames[j].id => i = j
  BY DEF Chained, n
<1>5. /\ \A i \in 1..n : \A e \in frames[i].left : e \in before /\ e[1] = frames[i].id
      /\ \A i \in 1..n : frames[i].id \in seen
      /\ \A i \in 1..(n - 1) : <<frames[i].id, frames[i + 1].id>> \in before
  BY DEF Chained, n
<1>6. Chained(front, seen)
  <2>1. /\ \A i \in 1..(n - 1) : \A e \in front[i].left : e \in before /\ e[1] = front[i].id
        /\ \A i \in 1..(n - 1) : front[i].id \in seen
    BY <1>2, <1>3, <1>5
  <2>2. \A i, j \in 1..(n - 1) : front[i].id = front[j].id => i = j
    BY <1>2, <1>3, <1>4
  <2>3. \A i \in 1..((n - 1) - 1) : <<front[i].id, front[i + 1].id>> \in before
    BY <1>2, <1>3, <1>5
  <2> QED
    BY <1>2, <2>1, <2>2, <2>3 DEF Chained
<1>7. {frames[i].id : i \in 1..n} = {front[i].id : i \in 1..(n - 1)} \cup {frames[n].id}
  BY <1>2, <1>3
<1>8. frames[n].id \notin {front[i].id : i \in 1..(n - 1)}
  BY <1>2, <1>3, <1>4
<1>9. /\ Finished(front, seen) = Finished(frames, seen) \cup {frames[n].id}
      /\ frames[n].id \notin Finished(frames, seen)
  BY <1>2, <1>3, <1>5, <1>7, <1>8 DEF Finished, n
<1> QED
  BY <1>1, <1>2, <1>6, <1>9 DEF n, front

\* ... and its edges all lead to finished nodes.
LEMMA PopUntangled ==
  ASSUME NEW frames \in Seq(Frames), frames # <<>>, NEW seen, Chained(frames, seen), GraphKept,
         Untangled(frames, seen), Last(frames).left = {}
  PROVE  Untangled(Front(frames), seen)
<1> DEFINE n == Len(frames)
           front == Front(frames)
           F == Finished(frames, seen)
           t == frames[n].id
<1>1. /\ Finished(front, seen) = F \cup {t} /\ t \notin F /\ n \in Nat /\ n # 0
      /\ Len(front) = n - 1 /\ \A i \in 1..(n - 1) : front[i] = frames[i]
  BY PopKeeps
<1>2. frames[n].left = {}
  BY DEF Last
<1> HIDE DEF n, front, F
<1>3. /\ \A i \in 1..n : \A d \in before :
           d[1] = frames[i].id /\ d \notin frames[i].left =>
             d[2] \in F \/ (i < n /\ d[2] = frames[i + 1].id)
      /\ \A d \in before : d[1] \in F => d[2] \in F /\ d[1] \notin Reach(d[2])
  BY DEF Untangled, n, F
<1>4. \A d \in before : d[2] \in NodeIds /\ d = <<d[1], d[2]>>
  BY DEF GraphKept
<1>5. ASSUME NEW d \in before, d[2] \in F
      PROVE  Reach(d[2]) \subseteq F
  <2>1. After(before, F) \subseteq F
    <3>1. SUFFICES ASSUME NEW m \in After(before, F)
                   PROVE  m \in F
      OBVIOUS
    <3>2. PICK k \in F : <<k, m>> \in before
      BY <3>1 DEF After
    <3>3. <<k, m>>[1] = k /\ <<k, m>>[2] = m
      OBVIOUS
    <3> QED
      BY <1>3, <3>2, <3>3
  <2> QED
    BY <1>4, <1>5, <2>1, ReachInside
<1>6. ASSUME NEW i \in 1..(n - 1), NEW d \in before, d[1] = front[i].id, d \notin front[i].left
      PROVE  d[2] \in F \cup {t} \/ (i < n - 1 /\ d[2] = front[i + 1].id)
  <2>1. i \in 1..n /\ (i < n - 1 => i + 1 \in 1..(n - 1)) /\ (i < n /\ ~(i < n - 1) => i + 1 = n)
    BY <1>1
  <2>2. d[2] \in F \/ (i < n /\ d[2] = frames[i + 1].id)
    BY <1>1, <1>3, <1>6, <2>1
  <2> QED
    BY <1>1, <2>1, <2>2
<1>7. ASSUME NEW d \in before, d[1] \in F \cup {t}
      PROVE  d[2] \in F \cup {t} /\ d[1] \notin Reach(d[2])
  <2>1. CASE d[1] \in F
    BY <1>3, <2>1
  <2>2. CASE d[1] = t
    <3>1. n \in 1..n /\ ~(n < n)
      BY <1>1
    <3>2. d[2] \in F
      BY <1>2, <1>3, <2>2, <3>1
    <3> QED
      BY <1>1, <1>5, <2>2, <3>2
  <2> QED
    BY <1>7, <2>1, <2>2
<1> HIDE DEF t
<1>8. Untangled(front, seen)
  BY <1>1, <1>6, <1>7 DEF Untangled
<1> QED
  BY <1>8 DEF front

\* The nodes of the path are those of the frames.
LEMMA PathIs ==
  ASSUME SearchTyped
  PROVE  /\ OpenPath \in Seq(NodeIds) /\ Len(OpenPath) = Len(search.frames)
         /\ Len(search.frames) \in Nat
         /\ \A i \in 1..Len(search.frames) : OpenPath[i] = search.frames[i].id
         /\ Range(OpenPath) = {search.frames[i].id : i \in 1..Len(search.frames)}
<1> DEFINE fr == search.frames
           n == Len(fr)
<1>1. fr \in Seq(Frames) /\ n \in Nat /\ DOMAIN fr = 1..n /\ \A i \in 1..n : fr[i] \in Frames
  BY LenProperties DEF SearchTyped
<1>2. \A i \in 1..n : fr[i].id \in NodeIds
  BY <1>1 DEF Frames
<1>3. OpenPath = [i \in 1..n |-> fr[i].id]
  BY <1>1 DEF OpenPath
<1> HIDE DEF fr, n
<1>4. OpenPath \in [1..n -> NodeIds] /\ \A i \in 1..n : OpenPath[i] = fr[i].id
  BY <1>2, <1>3
<1>5. OpenPath \in Seq(NodeIds) /\ DOMAIN OpenPath = 1..n
  BY <1>1, <1>4
<1>6. Len(OpenPath) = n
  BY <1>1, <1>5, LenProperties
<1>7. Range(OpenPath) = {fr[i].id : i \in 1..n}
  BY <1>4, <1>5 DEF Range
<1> QED
  BY <1>1, <1>4, <1>5, <1>6, <1>7 DEF fr, n

\* The place of an element in a list.
LEMMA PlaceIs ==
  ASSUME NEW S, NEW s \in Seq(S), NEW m \in Range(s)
  PROVE  LET k == SelectInSeq(s, LAMBDA x : x = m) IN k \in 1..Len(s) /\ s[k] = m
<1> DEFINE I == {i \in 1..Len(s) : s[i] = m}
<1>1. Len(s) \in Nat /\ DOMAIN s = 1..Len(s)
  BY LenProperties
<1>2. I # {} /\ I \subseteq Nat
  BY <1>1 DEF Range
<1>3. PICK k \in I : \A i \in I : k <= i
  <2> HIDE DEF I
  <2> QED
    BY <1>2, LeastNatural
<1>4. SelectInSeq(s, LAMBDA x : x = m) = IF I # {} THEN Min(I) ELSE 0
  BY DEF SelectInSeq
<1>5. Min(I) = k
  <2> HIDE DEF I
  <2>1. I \subseteq Int
    BY <1>2
  <2> QED
    BY <1>3, <2>1, MinIs
<1>6. k \in 1..Len(s) /\ s[k] = m
  BY <1>3
<1> QED
  BY <1>2, <1>4, <1>5, <1>6

\* The path from a node of it to its end, and an edge back, is a cycle.
LEMMA CycleIs ==
  ASSUME SearchTyped, Chained(search.frames, search.seen), NEW m \in Range(OpenPath),
         <<search.frames[Len(search.frames)].id, m>> \in before
  PROVE  LET c == CycleThrough(m)
         IN  /\ Len(c) > 1 /\ c[1] = Last(c)
             /\ \A i \in 1..(Len(c) - 1) : <<c[i], c[i + 1]>> \in before
<1> DEFINE P == OpenPath
           n == Len(P)
           k == SelectInSeq(P, LAMBDA x : x = m)
           s == SubSeq(P, k, n)
           c == s \o <<m>>
           l == n - k + 1
<1>1. /\ P \in Seq(NodeIds) /\ n \in Nat
      /\ \A i \in 1..(n - 1) : <<P[i], P[i + 1]>> \in before
      /\ <<P[n], m>> \in before
  <2>1. \A i \in 1..(n - 1) : i \in 1..n /\ i + 1 \in 1..n
    BY PathIs
  <2>2. n # 0 => n \in 1..n
    BY PathIs
  <2>3. n # 0
    BY PathIs DEF Range
  <2> HIDE DEF P
  <2> QED
    BY <2>1, <2>2, <2>3, PathIs DEF Chained, P
<1>2. k \in 1..n /\ P[k] = m
  BY <1>1, PlaceIs
<1>3. CycleThrough(m) = c
  BY DEF CycleThrough
<1>4. m \in NodeIds
  BY <1>1, <1>2, LenProperties
<1> HIDE DEF P, n, k
<1>5. l \in Nat /\ l >= 1 /\ k \in Int /\ n \in Int /\ k <= n
  BY <1>1, <1>2
<1>6. \A i \in k..n : P[i] \in NodeIds
  <2>1. \A i \in k..n : i \in 1..n
    BY <1>1, <1>2
  <2> QED
    BY <1>1, <2>1, LenProperties DEF n
<1>7. s \in Seq(NodeIds) /\ Len(s) = l /\ \A i \in 1..l : s[i] = P[k + i - 1]
  BY <1>5, <1>6, SubSeqProperties
<1>8. <<m>> \in Seq(NodeIds) /\ Len(<<m>>) = 1 /\ <<m>>[1] = m
  BY <1>4
<1> HIDE DEF s, l
<1>9. /\ Len(c) = l + 1
      /\ \A i \in 1..(l + 1) : c[i] = IF i <= l THEN s[i] ELSE <<m>>[i - l]
  BY <1>7, <1>8, ConcatProperties
<1> HIDE DEF c
<1>10. c[l + 1] = m /\ \A i \in 1..l : c[i] = P[k + i - 1]
  <2>1. l + 1 \in 1..(l + 1) /\ ~(l + 1 <= l) /\ (l + 1) - l = 1
    BY <1>5
  <2>2. \A i \in 1..l : i \in 1..(l + 1) /\ i <= l
    BY <1>5
  <2>3. c[l + 1] = m
    BY <1>8, <1>9, <2>1
  <2>4. \A i \in 1..l : c[i] = s[i]
    BY <1>9, <2>2
  <2> QED
    BY <1>7, <2>3, <2>4
<1>11. c[1] = m
  <2>1. 1 \in 1..l /\ k + 1 - 1 = k
    BY <1>5
  <2> QED
    BY <1>2, <1>10, <2>1
<1>12. Last(c) = m
  BY <1>9, <1>10 DEF Last
<1>13. ASSUME NEW i \in 1..l
       PROVE  <<c[i], c[i + 1]>> \in before
  <2>1. CASE i = l
    <3>1. k + i - 1 = n
      BY <1>5, <2>1 DEF l
    <3> QED
      BY <1>1, <1>10, <2>1, <3>1
  <2>2. CASE i # l
    <3>1. i + 1 \in 1..l /\ k + (i + 1) - 1 = (k + i - 1) + 1
      BY <1>5, <2>2
    <3>2. k + i - 1 \in 1..(n - 1)
      BY <1>2, <1>5, <2>2 DEF l
    <3> QED
      BY <1>1, <1>10, <3>1, <3>2
  <2> QED
    BY <2>1, <2>2
<1>14. Len(c) > 1 /\ Len(c) - 1 = l
  BY <1>5, <1>9
<1> QED
  BY <1>3, <1>11, <1>12, <1>13, <1>14

\* FindCycles begins with what holds at each of its steps.
LEMMA SearchInit == TraversalInit => SearchInv
<1> SUFFICES ASSUME TraversalInit
             PROVE  SearchInv
  OBVIOUS
<1>1. search = [frames |-> <<>>, seen |-> {}, cycles |-> {}] /\ ~returned
  BY DEF TraversalInit
<1>2. search.frames = <<>> /\ search.seen = {} /\ search.cycles = {} /\ Len(<<>>) = 0
  BY <1>1
<1>3. SearchTyped
  BY <1>1, <1>2 DEF SearchTyped
<1>4. Chained(<<>>, {}) /\ Untangled(<<>>, {}) /\ CyclesTrue
  BY <1>2 DEF Chained, Untangled, Finished, CyclesTrue
<1> QED
  BY <1>1, <1>2, <1>3, <1>4 DEF SearchInv

\* A step of the search that keeps the path, the finished nodes and the cycles right.
LEMMA SearchFrame ==
  ASSUME GraphKept, SearchInv, UNCHANGED <<graphVars, call>>,
         NEW frames \in Seq(Frames), NEW seen \in SUBSET NodeIds, NEW cycles,
         search' = [frames |-> frames, seen |-> seen, cycles |-> cycles],
         Chained(frames, seen),
         \A c \in cycles \ search.cycles :
           /\ Len(c) > 1 /\ c[1] = Last(c)
           /\ \A i \in 1..(Len(c) - 1) : <<c[i], c[i + 1]>> \in before,
         deletions = 0 /\ cycles = {} => Untangled(frames, seen),
         call.kind = "cycles" /\ returned' => frames = <<>> /\ seen = NodeIds
  PROVE  SearchInv'
<1>1. search'.frames = frames /\ search'.seen = seen /\ search'.cycles = cycles
  OBVIOUS
<1>2. call' = call /\ before' = before /\ deletions' = deletions /\ \A o : Reach(o)' = Reach(o)
  BY SameGraph DEF graphVars
<1>3. SearchTyped'
  BY <1>1 DEF SearchTyped
<1>4. Chained(search.frames, search.seen)'
  <2>1. /\ \A i \in 1..Len(search'.frames) :
             \A e \in search'.frames[i].left : e \in before' /\ e[1] = search'.frames[i].id
        /\ \A i \in 1..Len(search'.frames) : search'.frames[i].id \in search'.seen
    BY <1>1, <1>2 DEF Chained
  <2>2. \A i, j \in 1..Len(search'.frames) :
          search'.frames[i].id = search'.frames[j].id => i = j
    BY <1>1 DEF Chained
  <2>3. \A i \in 1..(Len(search'.frames) - 1) :
          <<search'.frames[i].id, search'.frames[i + 1].id>> \in before'
    BY <1>1, <1>2 DEF Chained
  <2> QED
    BY <2>1, <2>2, <2>3, Zenon DEF Chained
<1>5. CyclesTrue'
  BY <1>1, <1>2 DEF SearchInv, CyclesTrue
<1>6. deletions = 0 /\ cycles = {} => Untangled(search.frames, search.seen)'
  BY <1>1, <1>2 DEF Untangled, Finished
<1> QED
  BY <1>1, <1>2, <1>3, <1>4, <1>5, <1>6 DEF SearchInv

\* Every step keeps what holds of the search.
LEMMA SearchNext ==
  GraphKept /\ SearchInv /\ [TraversalNext]_traversalVars => SearchInv'
<1> SUFFICES ASSUME GraphKept, SearchInv, [TraversalNext]_traversalVars
             PROVE  SearchInv'
  OBVIOUS
<1> DEFINE fr == search.frames
           seen == search.seen
<1>1. /\ fr \in Seq(Frames) /\ seen \in SUBSET NodeIds /\ Chained(fr, seen) /\ SearchTyped
      /\ search = [frames |-> fr, seen |-> seen, cycles |-> search.cycles]
      /\ deletions = 0 /\ search.cycles = {} => Untangled(fr, seen)
      /\ call.kind = "cycles" /\ returned => fr = <<>> /\ seen = NodeIds
  BY DEF SearchInv, SearchTyped
<1>2. \A frames, m : Visits(frames, m) =>
        search' = [frames |-> Append(frames, [id |-> m, left |-> EdgesFrom(m)]),
                   seen |-> seen \cup {m}, cycles |-> search.cycles]
  BY <1>1 DEF Visits
<1>11. \A frames :
        /\ [search EXCEPT !.frames = frames]
             = [frames |-> frames, seen |-> seen, cycles |-> search.cycles]
        /\ \A c : [search EXCEPT !.frames = frames, !.cycles = @ \cup {c}]
                  = [frames |-> frames, seen |-> seen, cycles |-> search.cycles \cup {c}]
  <2>1. search = [frames |-> search.frames, seen |-> search.seen, cycles |-> search.cycles]
    BY <1>1
  <2>2. \A frames : [search EXCEPT !.frames = frames]
                     = [frames |-> frames, seen |-> seen, cycles |-> search.cycles]
    BY <2>1
  <2>3. ASSUME NEW frames, NEW c
        PROVE  [search EXCEPT !.frames = frames, !.cycles = @ \cup {c}]
                 = [frames |-> frames, seen |-> seen, cycles |-> search.cycles \cup {c}]
    <3> DEFINE one == [frames |-> frames, seen |-> seen, cycles |-> search.cycles]
    <3>1. [search EXCEPT !.frames = frames] = one /\ one.cycles = search.cycles
      BY <2>2
    <3>2. [one EXCEPT !.cycles = @ \cup {c}]
            = [frames |-> frames, seen |-> seen, cycles |-> search.cycles \cup {c}]
      OBVIOUS
    <3> QED
      BY <3>1, <3>2
  <2> QED
    BY <2>2, <2>3
<1> HIDE DEF fr, seen
<1>3. ASSUME UNCHANGED <<graphVars, call, search>>,
             returned' = returned \/ (fr = <<>> /\ seen = NodeIds) \/ call.kind # "cycles"
      PROVE  SearchInv'
  BY <1>1, <1>3, SearchFrame DEF SearchInv, fr, seen
<1>4. ASSUME NEW n \in NodeIds, StartSearch(n)
      PROVE  SearchInv'
  <2> DEFINE more == Append(<<>>, [id |-> n, left |-> EdgesFrom(n)])
  <2>1. /\ UNCHANGED <<graphVars, call, returned>> /\ fr = <<>> /\ n \notin seen
        /\ call.kind = "cycles" /\ Visits(<<>>, n)
    BY <1>4 DEF StartSearch, fr, seen
  <2>2. search' = [frames |-> more, seen |-> seen \cup {n}, cycles |-> search.cycles]
    BY <1>2, <2>1
  <2>3. Len(fr) = 0
    BY <2>1
  <2>4. /\ more \in Seq(Frames) /\ Chained(more, seen \cup {n})
    BY <1>1, <2>1, <2>3, PushKeeps
  <2>5. ASSUME deletions = 0, search.cycles = {}
        PROVE  Untangled(more, seen \cup {n})
    <3>1. \A d \in before : d[1] \in Finished(fr, seen) =>
            d[2] \in Finished(fr, seen) /\ d[1] \notin Reach(d[2])
      BY <1>1, <2>5 DEF Untangled
    <3>2. \A i \in 1..Len(fr) : FALSE
      BY <2>3
    <3> QED
      BY <1>1, <2>1, <2>3, <2>5, <3>1, <3>2, PushUntangled
  <2>6. ~returned'
    BY <1>1, <2>1
  <2> HIDE DEF more
  <2>7. seen \cup {n} \in SUBSET NodeIds
    BY <1>1
  <2> QED
    BY <2>1, <2>2, <2>4, <2>5, <2>6, <2>7, SearchFrame
<1>5. ASSUME NEW e \in before, Follow(e)
      PROVE  SearchInv'
  <2> DEFINE rest == Advanced(fr, e)
             m == e[2]
             more == Append(rest, [id |-> m, left |-> EdgesFrom(m)])
  <2>1. /\ UNCHANGED <<graphVars, call, returned>> /\ fr # <<>> /\ e \in Last(fr).left
        /\ \/ m \notin seen /\ Visits(rest, m)
           \/ /\ m \in Range(OpenPath)
              /\ search' = [search EXCEPT !.frames = rest, !.cycles = @ \cup {CycleThrough(m)}]
           \/ /\ m \in seen \ Range(OpenPath)
              /\ search' = [search EXCEPT !.frames = rest]
    BY <1>5 DEF Follow, Advanced, fr, seen
  <2>2. /\ rest \in Seq(Frames) /\ Len(rest) = Len(fr) /\ Len(fr) \in Nat \ {0}
        /\ \A i \in 1..Len(fr) : /\ rest[i].id = fr[i].id
                                 /\ fr[i].left \subseteq rest[i].left \cup {e}
        /\ Chained(rest, seen) /\ Finished(rest, seen) = Finished(fr, seen)
        /\ e[1] = fr[Len(fr)].id
    BY <1>1, <2>1, AdvancedIs, AdvanceKeeps
  <2>3. m \in NodeIds /\ e = <<e[1], m>>
    BY DEF GraphKept
  <2>4. ~(call.kind = "cycles" /\ returned')
    BY <1>1, <2>1
  <2>5. Range(OpenPath) = {fr[i].id : i \in 1..Len(fr)}
    BY <1>1, PathIs DEF fr
  <2>6. <<fr[Len(fr)].id, m>> \in before /\ Len(fr) \in 1..Len(fr)
    <3>1. <<fr[Len(fr)].id, m>> = e
      BY <2>2, <2>3
    <3>2. Len(fr) \in 1..Len(fr)
      BY <2>2
    <3> QED
      BY <3>1, <3>2
  <2> HIDE DEF rest, m
  <2>7. CASE m \notin seen /\ Visits(rest, m)
    <3>1. search' = [frames |-> more, seen |-> seen \cup {m}, cycles |-> search.cycles]
      BY <1>2, <2>7
    <3>2. Len(rest) = 0 \/ <<rest[Len(rest)].id, m>> \in before
      BY <2>2, <2>6
    <3>3. more \in Seq(Frames) /\ Chained(more, seen \cup {m})
      BY <1>1, <2>2, <2>3, <2>7, <3>2, PushKeeps
    <3>4. ASSUME deletions = 0, search.cycles = {}
          PROVE  Untangled(more, seen \cup {m})
      <4>1. Untangled(fr, seen)
        BY <1>1, <3>4
      <4>2. \A d \in before : d[1] \in Finished(rest, seen) =>
              d[2] \in Finished(rest, seen) /\ d[1] \notin Reach(d[2])
        BY <2>2, <4>1 DEF Untangled
      <4>3. \A i \in 1..Len(rest) : \A d \in before :
              d[1] = rest[i].id /\ d \notin rest[i].left =>
                \/ d[2] \in Finished(rest, seen)
                \/ i < Len(rest) /\ d[2] = rest[i + 1].id
                \/ i = Len(rest) /\ d[2] = m
        <5>1. SUFFICES ASSUME NEW i \in 1..Len(fr), NEW d \in before,
                              d[1] = fr[i].id, d \notin rest[i].left
                       PROVE  \/ d[2] \in Finished(fr, seen)
                              \/ i < Len(fr) /\ d[2] = rest[i + 1].id
                              \/ i = Len(fr) /\ d[2] = m
          BY <2>2
        <5>2. CASE d \notin fr[i].left
          <6>1. d[2] \in Finished(fr, seen) \/ (i < Len(fr) /\ d[2] = fr[i + 1].id)
            BY <4>1, <5>1, <5>2 DEF Untangled
          <6>2. i < Len(fr) => i + 1 \in 1..Len(fr)
            BY <2>2
          <6> QED
            BY <2>2, <6>1, <6>2
        <5>3. CASE d \in fr[i].left
          <6>1. d = e
            BY <2>2, <5>1, <5>3
          <6>2. fr[i].id = fr[Len(fr)].id
            BY <2>2, <5>1, <6>1
          <6>3. i = Len(fr)
            BY <1>1, <2>6, <6>2 DEF Chained
          <6> QED
            BY <6>1, <6>3 DEF m
        <5> QED
          BY <5>2, <5>3
      <4> QED
        BY <1>1, <2>2, <2>3, <2>7, <3>2, <3>4, <4>2, <4>3, PushUntangled
    <3> HIDE DEF more
    <3>5. seen \cup {m} \in SUBSET NodeIds
      BY <1>1, <2>3
    <3> QED
      BY <2>1, <2>4, <3>1, <3>3, <3>4, <3>5, SearchFrame
  <2>8. CASE /\ m \in Range(OpenPath)
             /\ search' = [search EXCEPT !.frames = rest, !.cycles = @ \cup {CycleThrough(m)}]
    <3>1. search' = [frames |-> rest, seen |-> seen, cycles |-> search.cycles \cup {CycleThrough(m)}]
      BY <1>11, <2>8
    <3>2. LET c == CycleThrough(m)
          IN  /\ Len(c) > 1 /\ c[1] = Last(c)
              /\ \A i \in 1..(Len(c) - 1) : <<c[i], c[i + 1]>> \in before
      BY <1>1, <2>6, <2>8, CycleIs DEF fr, seen
    <3>3. \A c \in (search.cycles \cup {CycleThrough(m)}) \ search.cycles :
            /\ Len(c) > 1 /\ c[1] = Last(c)
            /\ \A i \in 1..(Len(c) - 1) : <<c[i], c[i + 1]>> \in before
      BY <3>2
    <3> DEFINE found == search.cycles \cup {CycleThrough(m)}
    <3>4. found # {}
      OBVIOUS
    <3> HIDE DEF found
    <3>5. search' = [frames |-> rest, seen |-> seen, cycles |-> found]
      BY <3>1 DEF found
    <3>6. \A c \in found \ search.cycles :
            /\ Len(c) > 1 /\ c[1] = Last(c)
            /\ \A i \in 1..(Len(c) - 1) : <<c[i], c[i + 1]>> \in before
      BY <3>3 DEF found
    <3> QED
      BY <1>1, <2>1, <2>2, <2>4, <3>4, <3>5, <3>6, SearchFrame
  <2>9. CASE /\ m \in seen \ Range(OpenPath)
             /\ search' = [search EXCEPT !.frames = rest]
    <3>1. search' = [frames |-> rest, seen |-> seen, cycles |-> search.cycles]
      BY <1>11, <2>9
    <3>2. m \in Finished(fr, seen)
      BY <2>5, <2>9 DEF Finished
    <3>3. deletions = 0 /\ search.cycles = {} => Untangled(rest, seen)
      BY <1>1, <2>1, <3>2, AdvanceUntangled DEF rest, m
    <3> QED
      BY <1>1, <2>1, <2>2, <2>4, <3>1, <3>3, SearchFrame
  <2> QED
    BY <2>1, <2>7, <2>8, <2>9
<1>6. CASE Backtrack
  <2>1. /\ UNCHANGED <<graphVars, call, returned>> /\ fr # <<>> /\ Last(fr).left = {}
        /\ search' = [frames |-> Front(fr), seen |-> seen, cycles |-> search.cycles]
    BY <1>1, <1>6 DEF Backtrack, fr, seen
  <2>2. Front(fr) \in Seq(Frames) /\ Chained(Front(fr), seen)
    BY <1>1, <2>1, PopKeeps
  <2>3. deletions = 0 /\ search.cycles = {} => Untangled(Front(fr), seen)
    BY <1>1, <2>1, PopUntangled
  <2>4. ~(call.kind = "cycles" /\ returned')
    BY <1>1, <2>1
  <2> QED
    BY <1>1, <2>1, <2>2, <2>3, <2>4, SearchFrame
<1>7. CASE SearchReturns
  <2>1. UNCHANGED <<graphVars, call, search>> /\ fr = <<>> /\ seen = NodeIds
    BY <1>7 DEF SearchReturns, fr, seen
  <2> QED
    BY <1>3, <2>1
<1>8. CASE Deletion
  <2>1. /\ deletions' # 0 /\ ~returned' /\ before' = before /\ search' = search
    BY <1>8, DeletionKeeps
  <2>2. SearchTyped' /\ Chained(search.frames, search.seen)' /\ CyclesTrue'
    BY <1>1, <2>1 DEF SearchTyped, Chained, CyclesTrue, SearchInv, fr, seen
  <2> QED
    BY <2>1, <2>2 DEF SearchInv
<1>9. CASE \/ TakeNext \/ Expand \/ WalkReturns \/ ComponentFound \/ ComponentsReturn
           \/ \E n \in NodeIds : StartComponent(n)
  <2>1. /\ UNCHANGED <<graphVars, call, search>>
        /\ returned' = returned \/ call.kind # "cycles"
    BY <1>9 DEF TakeNext, Expand, WalkReturns, ComponentFound, ComponentsReturn, StartComponent
  <2> QED
    BY <1>3, <2>1
<1>10. CASE UNCHANGED traversalVars
  BY <1>3, <1>10 DEF traversalVars, graphVars
<1> QED
  BY <1>4, <1>5, <1>6, <1>7, <1>8, <1>9, <1>10 DEF TraversalNext, Deletion

\* The invariant of the search gives what FindCycles promises.
LEMMA CyclesHold == GraphKept /\ SearchInv => CyclesFound
<1> SUFFICES ASSUME GraphKept, SearchInv
             PROVE  CyclesFound
  OBVIOUS
<1>1. CyclesTrue
  BY DEF SearchInv
<1>2. ASSUME call.kind = "cycles", Undisturbed, search.cycles = {}, NEW e \in before
      PROVE  e[1] \notin Reach(e[2])
  <2>1. /\ search.frames = <<>> /\ search.seen = NodeIds
        /\ Untangled(search.frames, search.seen)
    BY <1>2 DEF SearchInv, Undisturbed
  <2>2. Finished(search.frames, search.seen) = NodeIds
    BY <2>1 DEF Finished
  <2>3. e[1] \in NodeIds
    BY DEF GraphKept
  <2> QED
    BY <2>1, <2>2, <2>3 DEF Untangled
<1> QED
  BY <1>1, <1>2 DEF CyclesFound, CyclesTrue

\* BFS and DFS (traversal.go), on any graph, for any start, depth and number of nodes,
\* report only what could be reached when they began, in as many steps as they say,
\* though others delete all the while; if nobody does and the number of nodes has no
\* limit, BFS finds every node within the depth at its least distance, and DFS, if it
\* met no node at the depth limit, every node in reach.
THEOREM WalksAlwaysExact == TraversalSpec => []WalksAreExact
BY WalksInit, WalksNext, WalksHold, PTL DEF TraversalSpec

\* FindConnectedComponents and FindCycles (traversal.go), on any graph: if nothing is
\* deleted, every edge has its opposite and a hundred steps are enough, the components
\* are exactly the sets of nodes joined to one another; every cycle reported is one,
\* and if none is reported and nothing was deleted there is none.
THEOREM StructureAlwaysFound == TraversalSpec => []StructureIsFound
<1>1. TraversalInit => GraphKept /\ WalksInv /\ ComponentsInv /\ SearchInv
  BY WalksInit, SearchInit
<1>2. GraphKept /\ WalksInv /\ ComponentsInv /\ SearchInv /\ [TraversalNext]_traversalVars
        => (GraphKept /\ WalksInv /\ ComponentsInv /\ SearchInv)'
  BY WalksNext, SearchNext
<1>3. GraphKept /\ WalksInv /\ ComponentsInv /\ SearchInv => StructureIsFound
  BY ComponentsHold, CyclesHold DEF StructureIsFound
<1> QED
  BY <1>1, <1>2, <1>3, PTL DEF TraversalSpec

=============================================================================
