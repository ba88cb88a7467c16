--------------------------- MODULE GraphAlgorithms ---------------------------
(***************************************************************************)
(* The queries of the orchestrator's dependency graph that order it:       *)
(* ExecutionBatches and TopologicalOrder                                   *)
(* (internal/core/orchestrator/dependency.go).  A behaviour is a graph into*)
(* which every task was added, further calls of Add and Remove, and one    *)
(* query: for TopologicalOrder, with one order in which Go visits a map.   *)
(* The properties compare the answer with what the graph says.             *)
(***************************************************************************)
EXTENDS Integers, Sequences, FiniteSets, SequencesExt

CONSTANTS MaxNodes,     \* the graph's tasks are 1..MaxNodes
          Missing,      \* an id that is named as a dependency and not added
          MaxAdditions  \* bound on the further additions

Nodes == 1..MaxNodes

\* What each task depends on: the lists of g.deps, as sets.
DependencyGraphs == [Nodes -> SUBSET (Nodes \cup {Missing})]

ASSUME GraphAssumption == MaxNodes \in Nat /\ Missing \in Int \ Nodes /\ MaxAdditions \in Nat

VARIABLES dependsOn,    \* g.deps
          reverse,      \* g.rdeps: how often the list of each task names each task
          additions,    \* number of further additions so far
          batches,      \* the answer of ExecutionBatches
          order         \* the answer of TopologicalOrder

graphVars == <<dependsOn, reverse, additions, batches, order>>

NoBatchesYet == <<{}>>
NoOrderYet == <<-2>>
NoOrder == <<-1>>       \* nil: the graph has a cycle

\* The list of each task when all that depend on it were added once.  Nobody reads
\* the one of Missing.
OnceEach(g) == [d \in Nodes |-> [n \in Nodes |-> IF d \in g[n] THEN 1 ELSE 0]]

GraphInit == /\ dependsOn \in DependencyGraphs
             /\ reverse = OnceEach(dependsOn)
             /\ additions = 0
             /\ batches = NoBatchesYet /\ order = NoOrderYet

-----------------------------------------------------------------------------
(* Add and Remove of tasks that are in the graph.                          *)

Addition ==
  /\ batches = NoBatchesYet /\ order = NoOrderYet /\ additions < MaxAdditions
  /\ additions' = additions + 1
  /\ UNCHANGED <<dependsOn, batches, order>>

\* Enqueue of a task that is tried again adds it again, and every list that names it
\* names it once more.
AddAgain(n) ==
  /\ Addition
  /\ reverse' = [d \in Nodes |->
                   [reverse[d] EXCEPT ![n] = IF d \in dependsOn[n] THEN @ + 1 ELSE @]]

\* SubmitTask takes its temporary addition out again before Enqueue adds the task:
\* Remove forgets who depends on it, too.
Resubmit(n) ==
  /\ Addition
  /\ reverse' = [d \in Nodes |-> [m \in Nodes |->
                   IF m = n THEN OnceEach(dependsOn)[d][n]
                   ELSE IF d = n THEN 0 ELSE reverse[d][m]]]

-----------------------------------------------------------------------------
(* ExecutionBatches.                                                       *)

\* Every dependency counts, also one that is not in the graph.
InDegree(g) == [n \in Nodes |-> Cardinality(g[n])]

\* Mutant: a task joins a batch with the first of its dependencies that is done.
RoundEager(rev, s) ==
  LET ready == {n \in DOMAIN s.inDegree : s.inDegree[n] = 0}
      rest == [n \in DOMAIN s.inDegree \ ready |->
                 IF \E d \in ready : rev[d][n] > 0 THEN 0 ELSE s.inDegree[n]]
  IN  IF ready = {} THEN s ELSE [inDegree |-> rest, batches |-> Append(s.batches, ready)]

\* A round of the loop, unless it has ended: the tasks without a dependency are
\* the next batch, and each time a list of theirs names a task, it has one less.
Round(rev, s) ==
  LET ready == {n \in DOMAIN s.inDegree : s.inDegree[n] = 0}
      rest == [n \in DOMAIN s.inDegree \ ready |->
                 s.inDegree[n] - SumFunctionOnSet([d \in Nodes |-> rev[d][n]], ready)]
  IN  IF ready = {} THEN s ELSE [inDegree |-> rest, batches |-> Append(s.batches, ready)]

\* Each round but the last takes a task out of inDegree.
ExecutionBatches(g, rev) ==
  LET round[k \in Nat] == IF k = 0 THEN [inDegree |-> InDegree(g), batches |-> <<>>]
                          ELSE Round(rev, round[k - 1])
  IN  round[MaxNodes].batches

-----------------------------------------------------------------------------
(* TopologicalOrder: a depth-first search that gives up at a cycle.        *)

Ids == Nodes \cup {Missing}

\* A list of what the task depends on; Missing is in the graph's maps under no id.
Dependencies(g, id) == SetToSeq(IF id \in Nodes THEN g[id] ELSE {})

\* visited, temp and result of the code; cyclic once an error was returned.
Searches == [visited : SUBSET Ids, temp : SUBSET Ids, cyclic : BOOLEAN, result : Seq(Ids)]

\* visit is called for each of the ids in turn.
VisitEach(visit, ids, s) ==
  LET after[i \in 0..Len(ids)] == IF i = 0 THEN s ELSE visit[<<ids[i], after[i - 1]>>]
  IN  after[Len(ids)]

\* Mutant: the search goes on without the edge that closes a cycle.
VisitForgetful(g, deeper, id, s) ==
  IF id \in s.visited \cup s.temp THEN s
  ELSE LET t == VisitEach(deeper, Dependencies(g, id), [s EXCEPT !.temp = @ \cup {id}])
       IN  [t EXCEPT !.temp = @ \ {id}, !.visited = @ \cup {id},
                     !.result = Append(@, id)]

\* A call of visit; deeper is what the calls in it do.
Visit(g, deeper, id, s) ==
  IF s.cyclic \/ id \in s.visited THEN s
  ELSE IF id \in s.temp THEN [s EXCEPT !.cyclic = TRUE]
  ELSE LET t == VisitEach(deeper, Dependencies(g, id), [s EXCEPT !.temp = @ \cup {id}])
       IN  IF t.cyclic THEN t
           ELSE [t EXCEPT !.temp = @ \ {id}, !.visited = @ \cup {id},
                          !.result = Append(@, id)]

\* The calls that nest k calls or fewer.  An id in temp is not entered
\* again, so no more are nested than there are ids, and the one that finds the cycle.
NestedVisits(g) ==
  LET visits[k \in Nat] == [c \in Ids \X Searches |->
                              IF k = 0 THEN c[2] ELSE Visit(g, visits[k - 1], c[1], c[2])]
  IN  visits[MaxNodes + 2]

Unvisited == [visited |-> {}, temp |-> {}, cyclic |-> FALSE, result |-> <<>>]

\* walk is the order in which g.tasks is visited.
TopologicalOrder(g, walk) ==
  LET s == VisitEach(NestedVisits(g), walk, Unvisited)
  IN  IF s.cyclic THEN NoOrder ELSE s.result

-----------------------------------------------------------------------------
AskBatches ==
  /\ batches = NoBatchesYet /\ order = NoOrderYet
  /\ batches' = ExecutionBatches(dependsOn, reverse)
  /\ UNCHANGED <<dependsOn, reverse, additions, order>>

AskOrder ==
  /\ batches = NoBatchesYet /\ order = NoOrderYet
  /\ \E walk \in SetToSeqs(Nodes) : order' = TopologicalOrder(dependsOn, walk)
  /\ UNCHANGED <<dependsOn, reverse, additions, batches>>

GraphNext == \/ \E n \in Nodes : AddAgain(n) \/ Resubmit(n)
             \/ AskBatches \/ AskOrder

GraphSpec == GraphInit /\ [][GraphNext]_graphVars

-----------------------------------------------------------------------------
(* Reference definitions and properties.                                   *)

\* Chains of dependencies: each task of the sequence depends on the next one.
Chains(n) == {c \in SeqOf(Nodes, MaxNodes + 1) :
                /\ c # <<>> /\ c[1] = n
                /\ \A i \in 1..Len(c) - 1 : c[i + 1] \in dependsOn[c[i]]}

\* No chain from the task leads round a cycle or to a task that was not added.
Schedulable(n) ==
  \A c \in Chains(n) : Len(c) <= MaxNodes /\ Missing \notin dependsOn[Last(c)]

\* Each of the tasks is named once by all it depends on, and so are those.
ListedOnce(S) ==
  \A n \in S : \A d \in dependsOn[n] \cap Nodes : d \in S /\ reverse[d][n] = 1

\* Neither the task nor one it waits for was added twice or has lost an edge.
Intact(n) == \E S \in SUBSET Nodes : n \in S /\ ListedOnce(S)

\* ExecutionBatches: a task is in one batch at most, and an intact one in the one
\* its longest chain of dependencies says; of these, exactly the tasks that can
\* never run are left out.
BatchesAreLevels ==
  batches # NoBatchesYet =>
    \A n \in Nodes :
      LET places == {b \in DOMAIN batches : n \in batches[b]}
      IN  /\ \A a, b \in places : a = b
          /\ Intact(n) =>
               places = IF Schedulable(n) THEN {Max({Len(c) : c \in Chains(n)})} ELSE {}

\* TopologicalOrder names every task once, after all it depends on; there is no
\* order if and only if there is a cycle.
OrderFollowsDependencies ==
  order # NoOrderYet =>
    IF \E n \in Nodes : \E c \in Chains(n) : Len(c) > MaxNodes
    THEN order = NoOrder
    ELSE /\ Nodes \subseteq Range(order) /\ IsInjective(order)
         /\ \A i \in DOMAIN order : order[i] \in Nodes =>
              dependsOn[order[i]] \subseteq {order[j] : j \in 1..i - 1}

\* Neither schedule of dependency.go has a task before one it depends on, or leaves
\* out one that could run; the batches only for intact tasks.  A task that was tried
\* again counts twice in its lists: its in-degree misses zero and it is left out, or
\* it comes before the other tasks it depends on.
SchedulesFollowDependencies == BatchesAreLevels /\ OrderFollowsDependencies
=============================================================================
