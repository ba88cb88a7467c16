--------------------------- MODULE KnowledgeGraph ---------------------------
(***************************************************************************)
(* The in-memory graph store (internal/context/knowledge/store.go), the    *)
(* recording of decisions in it (graph.go) and the searches over it        *)
(* (traversal.go).  Each operation of the store holds its lock;            *)
(* RecordDecision is several of them.                                      *)
(*                                                                         *)
(* A node is its id, an edge its id, ends and weight.  Nodes in Named are  *)
(* created under ids the caller chooses (AddCodeEntity, AddAgent), so one  *)
(* that was deleted can come back; a decision has a fresh id, as every     *)
(* edge has.  Types, labels and properties are left out.                   *)
(***************************************************************************)
EXTENDS Integers, Sequences, FiniteSets, SequencesExt, FiniteSetsExt

CONSTANTS Named,        \* ids that callers choose
          Decisions,    \* ids generateID returns for decisions
          Weights,      \* weights of the edges callers add
          EdgeIds,      \* ids for edges: a bound on the edges kept at a time
          None          \* no node

NodeIds == Named \cup Decisions

ASSUME KnowledgeAssumption ==
  /\ IsFiniteSet(NodeIds) /\ Named \cap Decisions = {} /\ None \notin NodeIds
  /\ Weights \subseteq Nat

VARIABLES nodes,        \* ids in s.nodes
          edges,        \* the edges in s.edges
          adj,          \* the edges in s.adj, each in the list of its source
          recording,    \* the decision that is being recorded, and what is to do
          deleted       \* ghost: nodes that were deleted at least once

graphStoreVars == <<nodes, edges, adj, recording, deleted>>

Edges == [id : EdgeIds, from : NodeIds, to : NodeIds, weight : Weights \cup {0}]
NotRecording == [decision |-> None, targets |-> <<>>]

KnowledgeTypeOK ==
  /\ nodes \subseteq NodeIds /\ deleted \subseteq NodeIds
  /\ edges \subseteq Edges /\ adj \subseteq Edges
  /\ recording \in [decision : NodeIds \cup {None}, targets : Seq(Named)]

KnowledgeInit ==
  /\ nodes = {} /\ edges = {} /\ adj = {}
  /\ recording = NotRecording /\ deleted = {}

-----------------------------------------------------------------------------
(* The operations of the store.                                            *)

CreateNode(n) ==
  /\ nodes' = nodes \cup {n}
  /\ UNCHANGED <<edges, adj>>

HasEnds(from, to) == from \in nodes /\ to \in nodes

\* generateID never returns an id that is in use.
CreateEdge(from, to, w) ==
  /\ HasEnds(from, to)
  /\ \E id \in EdgeIds \ {e.id : e \in edges \cup adj} :
       LET e == [id |-> id, from |-> from, to |-> to, weight |-> w]
       IN  edges' = edges \cup {e} /\ adj' = adj \cup {e}
  /\ UNCHANGED nodes

\* Mutant: only the edges that leave the node go with it.
DeleteNodeHalf(n) ==
  /\ n \in nodes
  /\ nodes' = nodes \ {n}
  /\ edges' = {e \in edges : e.from # n}
  /\ adj' = {e \in adj : e.to # n}
  /\ deleted' = deleted \cup {n}
  /\ UNCHANGED recording

\* The node's own adjacency list is filtered by target only: the edges that
\* leave the node stay in it.
DeleteNode(n) ==
  /\ n \in nodes
  /\ nodes' = nodes \ {n}
  /\ edges' = {e \in edges : e.from # n /\ e.to # n}
  /\ adj' = {e \in adj : e.to # n}
  /\ deleted' = deleted \cup {n}
  /\ UNCHANGED recording

DeleteEdge(id) ==
  /\ \E e \in edges : e.id = id
  /\ edges' = {e \in edges : e.id # id}
  /\ adj' = {e \in adj : e.id # id}
  /\ UNCHANGED <<nodes, recording, deleted>>

-----------------------------------------------------------------------------
(* What callers do.                                                        *)

\* AddCodeEntity, AddAgent, AddSession, AddConcept: also for an id that is there.
AddNode(n) ==
  /\ CreateNode(n)
  /\ UNCHANGED <<recording, deleted>>

AddEdge(from, to, w) ==
  /\ CreateEdge(from, to, w)
  /\ UNCHANGED <<recording, deleted>>

\* RecordDecision: the node of the decision, then one edge for each of the
\* entities it affects, which are named once.
StartRecording(d, targets) ==
  /\ recording = NotRecording
  /\ d \notin nodes \cup deleted
  /\ CreateNode(d)
  /\ recording' = [decision |-> d, targets |-> targets]
  /\ UNCHANGED deleted

\* The first target that is not there ends it; the node and the edges made so
\* far stay.
RecordEdge ==
  /\ recording # NotRecording
  /\ IF recording.targets # <<>> /\ HasEnds(recording.decision, Head(recording.targets))
     THEN /\ CreateEdge(recording.decision, Head(recording.targets), 0)
          /\ recording' = [recording EXCEPT !.targets = Tail(@)]
     ELSE /\ recording' = NotRecording
          /\ UNCHANGED <<nodes, edges, adj>>
  /\ UNCHANGED deleted

KnowledgeNext ==
  \/ \E n \in Named : AddNode(n)
  \/ \E n \in NodeIds : DeleteNode(n)
  \/ \E from, to \in NodeIds, w \in Weights : AddEdge(from, to, w)
  \/ \E id \in EdgeIds : DeleteEdge(id)
  \/ \E d \in Decisions, targets \in SetToAllKPermutations(Named) : StartRecording(d, targets)
  \/ RecordEdge

KnowledgeSpec == KnowledgeInit /\ [][KnowledgeNext]_graphStoreVars

-----------------------------------------------------------------------------
(* The searches.  Each calls the store many times; here nothing happens in *)
(* between.                                                                *)

\* GetNeighbors of depth 1.
Neighbours(n) == {e.to : e \in {a \in adj : a.from = n}} \cap nodes

\* The weight ShortestPath gives the step from n to m: that of the first edge
\* QueryEdges returns, in the order of a map; 1 when there is none.
StepWeight(n, m) ==
  LET between == {e \in edges : e.from = n /\ e.to = m}
  IN  IF between = {} THEN 1 ELSE (CHOOSE e \in between : TRUE).weight

\* ShortestPath visits no more nodes than this.
VisitLimit == 1000

\* Mutant: a node that has been reached is not reached again more cheaply.
RelaxOnce(s, goal) ==
  LET near == {n \in DOMAIN s.dist \ s.visited :
                 \A m \in DOMAIN s.dist \ s.visited : s.dist[n] <= s.dist[m]}
      n == CHOOSE m \in near : TRUE
      new == Neighbours(n) \ DOMAIN s.dist
  IN  IF near = {} \/ n = goal \/ Cardinality(s.visited) >= VisitLimit THEN s
      ELSE [visited |-> s.visited \cup {n},
            dist |-> [m \in DOMAIN s.dist \cup new |->
                        IF m \in new THEN s.dist[n] + StepWeight(n, m) ELSE s.dist[m]],
            prev |-> [m \in NodeIds |-> IF m \in new THEN n ELSE s.prev[m]]]

\* One turn of ShortestPath's loop: the nearest node not visited yet is
\* visited, and its neighbours are reached through it where that is cheaper.
Relax(s, goal) ==
  LET near == {n \in DOMAIN s.dist \ s.visited :
                 \A m \in DOMAIN s.dist \ s.visited : s.dist[n] <= s.dist[m]}
      n == CHOOSE m \in near : TRUE
      alt(m) == s.dist[n] + StepWeight(n, m)
      better == {m \in Neighbours(n) : m \notin DOMAIN s.dist \/ alt(m) < s.dist[m]}
  IN  IF near = {} \/ n = goal \/ Cardinality(s.visited) >= VisitLimit THEN s
      ELSE [visited |-> s.visited \cup {n},
            dist |-> [m \in DOMAIN s.dist \cup better |->
                        IF m \in better THEN alt(m) ELSE s.dist[m]],
            prev |-> [m \in NodeIds |-> IF m \in better THEN n ELSE s.prev[m]]]

StartAt(from) == [visited |-> {}, dist |-> [n \in {from} |-> 0],
                  prev |-> [n \in NodeIds |-> None]]

\* prev is followed back from the goal to a node that has none, or is not there.
Trace(prev, to) ==
  LET back[k \in Nat] ==
        IF k = 0 THEN (IF to \in nodes THEN <<to>> ELSE <<>>)
        ELSE LET path == back[k - 1]
             IN  IF path = <<>> \/ prev[Head(path)] \notin nodes THEN path
                 ELSE <<prev[Head(path)]>> \o path
  IN  back[Cardinality(NodeIds)]

\* No path is [path |-> <<>>, cost |-> 0].  Each turn but the last visits a node.
ShortestPath(from, to) ==
  LET turn[k \in Nat] == IF k = 0 THEN StartAt(from) ELSE Relax(turn[k - 1], to)
      s == turn[Cardinality(NodeIds)]
  IN  IF to \in DOMAIN s.dist
      THEN [path |-> Trace(s.prev, to), cost |-> s.dist[to]]
      ELSE [path |-> <<>>, cost |-> 0]

-----------------------------------------------------------------------------
(* Properties.                                                             *)

\* Every edge joins two nodes that are there and is in its source's list; a
\* list leads to nodes that are there only, and an edge that is in a list but
\* not in the graph leaves a node that was deleted.
EdgesHaveEnds ==
  /\ \A e \in edges : HasEnds(e.from, e.to) /\ e \in adj
  /\ \A e \in adj : e.to \in nodes
  /\ \A e \in adj \ edges : e.from \in deleted

Cost(path) == SumFunction([i \in 1..(Len(path) - 1) |-> StepWeight(path[i], path[i + 1])])

\* The paths with as many places as there are nodes, or fewer: a longer one goes round,
\* and costs no less than without that.
Routes == {p \in UNION {[1..k -> nodes] : k \in 1..Cardinality(nodes)} :
             \A i \in 1..(Len(p) - 1) : \E e \in edges : e.from = p[i] /\ e.to = p[i + 1]}

\* As long as no list holds an edge of a deleted node, no two edges between the same
\* nodes differ in weight and there are no more nodes than ShortestPath may visit, it
\* finds a path exactly when there is one, the path goes along edges, costs what it
\* says, and none is cheaper.
PathsAreShortest ==
  /\ adj = edges /\ Cardinality(nodes) <= VisitLimit
  /\ \A e, f \in edges : (e.from = f.from /\ e.to = f.to) => e.weight = f.weight
  => LET routes == Routes
     IN  \A from, to \in nodes :
           LET between == {p \in routes : p[1] = from /\ p[Len(p)] = to}
               found == ShortestPath(from, to)
           IN  IF between = {} THEN found.path = <<>>
               ELSE /\ found.path \in between
                    /\ found.cost = Cost(found.path)
                    /\ \A p \in between : found.cost <= Cost(p)
=============================================================================
