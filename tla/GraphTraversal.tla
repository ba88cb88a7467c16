--------------------------- MODULE GraphTraversal ---------------------------
(***************************************************************************)
(* The walks over the knowledge graph                                      *)
(* (internal/context/knowledge/traversal.go): BFS, DFS,                    *)
(* FindConnectedComponents and FindCycles.  Each asks the store node by    *)
(* node, and holds no lock between two questions, so others may delete     *)
(* nodes and edges while it walks.  ShortestPath is in KnowledgeGraph.     *)
(*                                                                         *)
(* The graph is any graph on NodeIds, an edge being its two ends; the      *)
(* orders of neighbours, edges and start nodes are those of lists and maps *)
(* that others filled, so they may be any.                                 *)
(***************************************************************************)
EXTENDS Integers, Sequences, FiniteSets, SequencesExt, FiniteSetsExt

CONSTANTS NodeIds,
          StartGraphs,  \* the edges there may be when a call begins
          Depths,       \* values of MaxDepth
          NodeLimits,   \* values of MaxNodes; 0 is none
          MaxDeletions, \* bound on the deletions during a call
          None          \* no node

ASSUME TraversalAssumption ==
  /\ IsFiniteSet(NodeIds) /\ NodeIds # {} /\ None \notin NodeIds /\ MaxDeletions \in Nat
  /\ StartGraphs \subseteq SUBSET (NodeIds \X NodeIds)
  /\ Depths \subseteq Nat /\ NodeLimits \subseteq Nat

VARIABLES nodes,        \* s.nodes
          edges,        \* s.edges
          adj,          \* s.adj
          deletions,    \* number of deletions so far
          before,       \* ghost: s.adj when the call began
          call,         \* the call and its options
          walk,         \* BFS or DFS: the queue or stack, and the distances
          components,   \* what FindConnectedComponents has found
          search,       \* FindCycles: the path, what was visited, what was found
          returned

traversalVars == <<nodes, edges, adj, deletions, before, call, walk, components,
                   search, returned>>
graphVars == <<nodes, edges, adj, deletions, before>>

NoItem == [id |-> None, depth |-> 0]
Items == [id : NodeIds, depth : Nat]
NoWalk == [pending |-> <<>>, distance |-> <<>>, expanding |-> NoItem]
Starting(n) == [pending |-> <<[id |-> n, depth |-> 0]>>,
                distance |-> [m \in {n} |-> 0], expanding |-> NoItem]

TraversalTypeOK ==
  /\ nodes \subseteq NodeIds /\ deletions \in 0..MaxDeletions
  /\ edges \subseteq NodeIds \X NodeIds /\ adj \subseteq NodeIds \X NodeIds
  /\ walk.pending \in Seq(Items) /\ walk.expanding \in Items \cup {NoItem}
  /\ DOMAIN walk.distance \subseteq NodeIds
  /\ components \subseteq SUBSET NodeIds
  /\ search.seen \subseteq NodeIds /\ search.cycles \subseteq Seq(NodeIds)
  /\ returned \in BOOLEAN

\* Mutant: neighbours of neighbours are left out.
ShallowDepth == 1

\* FindConnectedComponents asks for a depth of 100.
ComponentDepth == 100

WalkCalls == [kind : {"bfs", "dfs"}, start : NodeIds, depth : Depths, limit : NodeLimits]
  \cup [kind : {"components"}, start : {None}, depth : {ComponentDepth}, limit : {0}]
  \cup [kind : {"cycles"}, start : {None}, depth : {0}, limit : {0}]

TraversalInit ==
  /\ nodes = NodeIds /\ deletions = 0
  /\ edges \in StartGraphs /\ adj = edges /\ before = edges
  /\ call \in WalkCalls
  /\ walk = IF call.kind \in {"bfs", "dfs"} THEN Starting(call.start) ELSE NoWalk
  /\ components = {}
  /\ search = [frames |-> <<>>, seen |-> {}, cycles |-> {}]
  /\ returned = FALSE

-----------------------------------------------------------------------------
(* BFS and DFS differ in the end from which the next node is taken.        *)

\* Mutant: BFS walks as DFS does.
AlwaysLast == TRUE
TakesLast == call.kind = "dfs"

NextPending == IF TakesLast THEN Last(walk.pending) ELSE Head(walk.pending)
Remaining == IF TakesLast THEN Front(walk.pending) ELSE Tail(walk.pending)

\* One turn of the loop up to GetNode: a node at the depth limit and one that was
\* deleted are skipped, and the limit on the number of nodes ends the walk.
TakeNext ==
  LET item == NextPending
      full == call.limit > 0 /\ Cardinality(DOMAIN walk.distance) >= call.limit
      deep == item.depth >= call.depth
  IN
  /\ walk.pending # <<>> /\ walk.expanding = NoItem
  /\ walk' = [walk EXCEPT
       !.pending = IF full /\ ~deep THEN <<>> ELSE Remaining,
       !.expanding = IF ~deep /\ ~full /\ item.id \in nodes THEN item ELSE NoItem]
  /\ UNCHANGED <<graphVars, call, components, search, returned>>

\* Mutant: edges are followed in both directions.
EitherWay(n) == {m \in nodes \ {n} : <<n, m>> \in adj \/ <<m, n>> \in adj}

\* GetNeighbors of depth 1
Neighbours(n) == {m \in nodes \ {n} : <<n, m>> \in adj}

\* Every neighbour not seen yet is given its distance at once.
Expand ==
  LET item == walk.expanding
      new == Neighbours(item.id) \ DOMAIN walk.distance
  IN
  /\ item # NoItem
  /\ \E order \in SetToSeqs(new) :
       walk' = [pending |-> walk.pending \o
                  [i \in DOMAIN order |-> [id |-> order[i], depth |-> item.depth + 1]],
                distance |-> [m \in DOMAIN walk.distance \cup new |->
                  IF m \in new THEN item.depth + 1 ELSE walk.distance[m]],
                expanding |-> NoItem]
  /\ UNCHANGED <<graphVars, call, components, search, returned>>

WalkEnded == walk # NoWalk /\ walk.pending = <<>> /\ walk.expanding = NoItem

WalkReturns ==
  /\ call.kind \in {"bfs", "dfs"} /\ WalkEnded /\ ~returned
  /\ returned' = TRUE
  /\ UNCHANGED <<graphVars, call, walk, components, search>>

-----------------------------------------------------------------------------
(* FindConnectedComponents: a BFS from any node that no component has yet, *)
(* as long as there is one.  The walk itself knows nothing of the others.  *)

Covered == UNION components

StartComponent(n) ==
  /\ call.kind = "components" /\ walk = NoWalk
  /\ n \in nodes \ Covered
  /\ walk' = Starting(n)
  /\ UNCHANGED <<graphVars, call, components, search, returned>>

ComponentFound ==
  /\ call.kind = "components" /\ WalkEnded
  /\ components' = components \cup {DOMAIN walk.distance}
  /\ walk' = NoWalk
  /\ UNCHANGED <<graphVars, call, search, returned>>

ComponentsReturn ==
  /\ call.kind = "components" /\ walk = NoWalk /\ nodes \subseteq Covered /\ ~returned
  /\ returned' = TRUE
  /\ UNCHANGED <<graphVars, call, walk, components, search>>

-----------------------------------------------------------------------------
(* FindCycles: a recursive search from every node not visited yet.  A frame*)
(* is a node and the edges of it that are still to follow; the frames are  *)
(* the path, and a node is in recStack when it has one.                    *)

EdgesFrom(n) == {e \in edges : e[1] = n}
OpenPath == [i \in DOMAIN search.frames |-> search.frames[i].id]

\* A node is marked, and QueryEdges asked for its edges.
Visits(frames, n) ==
  search' = [search EXCEPT !.frames = Append(frames, [id |-> n, left |-> EdgesFrom(n)]),
                           !.seen = @ \cup {n}]

StartSearch(n) ==
  /\ call.kind = "cycles" /\ search.frames = <<>>
  /\ n \notin search.seen
  /\ Visits(<<>>, n)
  /\ UNCHANGED <<graphVars, call, walk, components, returned>>

\* Mutant: the cycle begins one node after the one the edge leads to.
CycleShort(n) == SubSeq(OpenPath, SelectInSeq(OpenPath, LAMBDA m : m = n) + 1, Len(OpenPath)) \o <<n>>

\* The part of the path from n on, and n again.
CycleThrough(n) == SubSeq(OpenPath, SelectInSeq(OpenPath, LAMBDA m : m = n), Len(OpenPath)) \o <<n>>

Follow(e) ==
  LET top == Last(search.frames)
      rest == Append(Front(search.frames), [top EXCEPT !.left = @ \ {e}])
  IN
  /\ search.frames # <<>> /\ e \in top.left
  /\ \/ e[2] \notin search.seen /\ Visits(rest, e[2])
     \/ /\ e[2] \in Range(OpenPath)
        /\ search' = [search EXCEPT !.frames = rest, !.cycles = @ \cup {CycleThrough(e[2])}]
     \/ /\ e[2] \in search.seen \ Range(OpenPath)
        /\ search' = [search EXCEPT !.frames = rest]
  /\ UNCHANGED <<graphVars, call, walk, components, returned>>

Backtrack ==
  /\ search.frames # <<>> /\ Last(search.frames).left = {}
  /\ search' = [search EXCEPT !.frames = Front(@)]
  /\ UNCHANGED <<graphVars, call, walk, components, returned>>

SearchReturns ==
  /\ call.kind = "cycles" /\ search.frames = <<>> /\ search.seen = NodeIds /\ ~returned
  /\ returned' = TRUE
  /\ UNCHANGED <<graphVars, call, walk, components, search>>

-----------------------------------------------------------------------------
(* What others do meanwhile: DeleteNode, which leaves the edges that leave *)
(* the node in its own list, and DeleteEdge.                               *)

Deletes ==
  /\ ~returned /\ deletions < MaxDeletions
  /\ deletions' = deletions + 1
  /\ UNCHANGED <<before, call, walk, components, search, returned>>

DeleteNode(n) ==
  /\ Deletes /\ n \in nodes
  /\ nodes' = nodes \ {n}
  /\ edges' = {e \in edges : n \notin {e[1], e[2]}}
  /\ adj' = {e \in adj : e[2] # n}

DeleteEdge(e) ==
  /\ Deletes /\ e \in edges
  /\ edges' = edges \ {e} /\ adj' = adj \ {e}
  /\ UNCHANGED nodes

TraversalNext ==
  \/ TakeNext \/ Expand \/ WalkReturns
  \/ \E n \in NodeIds : StartComponent(n) \/ StartSearch(n) \/ DeleteNode(n)
  \/ ComponentFound \/ ComponentsReturn
  \/ \E e \in before : Follow(e) \/ DeleteEdge(e)
  \/ Backtrack \/ SearchReturns

TraversalSpec == TraversalInit /\ [][TraversalNext]_traversalVars

-----------------------------------------------------------------------------
(* Properties.                                                             *)

\* The nodes within so many steps of n along the arcs.
Ball(arcs, n) ==
  LET ball[d \in Nat] ==
        IF d = 0 THEN {n}
        ELSE LET inner == ball[d - 1]
             IN  inner \cup {m \in NodeIds : \E k \in inner : <<k, m>> \in arcs}
  IN  ball

Within(n) == Ball(before, n)
Reach(n) == Within(n)[Cardinality(NodeIds)]

Walking == call.kind \in {"bfs", "dfs"}
Undisturbed == returned /\ deletions = 0

\* Whatever is deleted meanwhile, a walk only reports nodes that could be reached
\* when it began, in as many steps as it says and not beyond the depth asked for.
WalksStayInReach ==
  Walking => \A m \in DOMAIN walk.distance :
               walk.distance[m] <= call.depth /\ m \in Within(call.start)[walk.distance[m]]

\* If nothing is deleted, BFS finds every node within the depth, and its distance;
\* DFS, whose distances may be too long, finds every node there is to find unless
\* one of them was at the depth limit.
WalksFindAll ==
  LET near == Within(call.start)
  IN  (Walking /\ Undisturbed /\ call.limit = 0) =>
        /\ call.kind = "bfs" =>
             walk.distance = [m \in near[call.depth] |->
                                Min({d \in 0..call.depth : m \in near[d]})]
        /\ (call.kind = "dfs" /\ \A m \in DOMAIN walk.distance : walk.distance[m] < call.depth)
             => DOMAIN walk.distance = Reach(call.start)

\* In a graph where every edge has its opposite, in which nothing is deleted and no
\* node is more than a hundred steps from another that it is joined to,
\* FindConnectedComponents finds the components, each once.
ComponentsPartition ==
  /\ call.kind = "components" /\ Undisturbed
  /\ \A e \in before : <<e[2], e[1]>> \in before
  /\ \A n \in NodeIds : Within(n)[100] = Reach(n)
  => components = {Reach(n) : n \in NodeIds}

\* FindCycles reports closed paths along edges, though others delete meanwhile;
\* and if they do not, it finds none only where there is none.
CyclesFound ==
  /\ \A c \in search.cycles :
       /\ Len(c) > 1 /\ c[1] = Last(c)
       /\ \A i \in 1..(Len(c) - 1) : <<c[i], c[i + 1]>> \in before
  /\ (call.kind = "cycles" /\ Undisturbed /\ search.cycles = {})
       => \A e \in before : e[1] \notin Reach(e[2])

(* The two that are checked, each of which joins two of the above.         *)

\* A walk finds neither more nor less than is in reach.
WalksAreExact == WalksStayInReach /\ WalksFindAll

\* What is said of the graph as a whole, of its components and of its cycles, is so.
StructureIsFound == ComponentsPartition /\ CyclesFound
=============================================================================
