---------------------------- MODULE TaskPlanning ----------------------------
(***************************************************************************)
(* The planner (internal/core/task): the tasks an objective asks for are   *)
(* decomposed by rules (decomposition.go, rules.go), what a task was       *)
(* decomposed into takes its place (planner.go), and the dependency graph  *)
(* takes the tasks in their order or refuses them (graph.go).  A behaviour *)
(* is one call of Plan.                                                    *)
(*                                                                         *)
(* A task is its id, its dependencies and its shape: what the rules find in*)
(* its input.  A shape says by which strategy the task is decomposed and   *)
(* the shapes of its parts; steps and stages differ in nothing modelled    *)
(* here.  The id of a part is that of the task and the part's number.      *)
(* Plan never divides in two: no default rule does.                        *)
(***************************************************************************)
EXTENDS Integers, Sequences, FiniteSets, SequencesExt

CONSTANTS MaxTasks,     \* bound on the tasks an objective asks for
          MaxParts,     \* bound on the parts of a task
          MaxDepth      \* of a decomposition: 5 in the code

ASSUME PlanningAssumption ==
  MaxTasks \in Nat /\ MaxParts \in Nat \ {0, 1} /\ MaxDepth \in Nat

VARIABLES request,      \* the tasks that were asked for
          plan          \* the tasks planned, and the level of each

planVars == <<request, plan>>

NotPlanned == [tasks |-> <<>>, level |-> <<>>]
Refused == [tasks |-> <<>>, level |-> <<-1>>]   \* Plan returns an error

PlanInit == request = <<>> /\ plan = NotPlanned

-----------------------------------------------------------------------------
(* What may be asked for.                                                  *)

Whole == [by |-> "nothing", parts |-> <<>>]
NotAMap == [by |-> "notAMap", parts |-> <<>>]   \* a step that is not a map
Wholes(n) == [i \in 1..n |-> Whole]

\* Chunks and map tasks are ten at least, as only large inputs are cut up:
\* MaxParts stands for that.
Flat == {Whole} \cup [by : {"chunks", "maps"}, parts : {Wholes(MaxParts)}]
                \cup [by : {"steps"}, parts : {Wholes(n) : n \in 1..MaxParts}]
Shapes == Flat \cup [by : {"steps"},
                     parts : UNION {[1..n -> Flat \cup {NotAMap}] : n \in 1..MaxParts}]

\* The id after the last is one that nobody asks for.
Requests(n) == [1..n -> [deps : SUBSET {<<i>> : i \in 1..n + 1}, shape : Shapes]]

TaskOf(id, deps, shape) == [id |-> id, deps |-> deps, shape |-> shape]

-----------------------------------------------------------------------------
(* Decomposition.                                                          *)

PartId(t, i) == Append(t.id, i)

\* parallelDecompose, and the first phase of mapReduceDecompose.
Chunked(t) == [i \in DOMAIN t.shape.parts |->
                 TaskOf(PartId(t, i), t.deps, t.shape.parts[i])]

\* mapReduceDecompose.
MapReduced(t) ==
  Append(Chunked(t), TaskOf(PartId(t, 0), {m.id : m \in Range(Chunked(t))}, Whole))

\* Mutant: the steps are not chained.
SteppedLoose(t) == Chunked(t)

\* sequentialDecompose and pipelineDecompose: a part depends on the one before
\* it and on nothing else; what the task depends on is dropped.
Stepped(t) == [i \in DOMAIN t.shape.parts |->
                 TaskOf(PartId(t, i), IF i = 1 THEN {} ELSE {PartId(t, i - 1)},
                        t.shape.parts[i])]

Split(t) == CASE t.shape.by = "chunks" -> Chunked(t)
              [] t.shape.by = "maps" -> MapReduced(t)
              [] t.shape.by = "steps" -> Stepped(t)

\* The tasks that a decomposition is about.
Tasks == [id : Seq(Nat), deps : SUBSET Seq(Nat), shape : Shapes \cup {NotAMap}]

\* One level of it: each part is replaced by what deeper makes of it.
Divided(t, deeper) ==
  IF t.shape.parts = <<>> THEN <<t>>
  ELSE FlattenSeq([i \in DOMAIN Split(t) |-> deeper[Split(t)[i]]])

Decompose(t, depth) ==
  LET decomposed[k \in Nat] ==
        [u \in Tasks |-> IF k = 0 THEN <<u>> ELSE Divided(u, decomposed[k - 1])]
  IN  decomposed[depth][t]

-----------------------------------------------------------------------------
(* Plan.                                                                   *)

Asked(r) == [i \in DOMAIN r |-> TaskOf(<<i>>, r[i].deps, r[i].shape)]

\* Only what came out as more than one task replaces the task.
Replaced(t) == LET ts == Decompose(t, MaxDepth) IN IF Len(ts) > 1 THEN ts ELSE <<t>>

PlannedTasks(r) == FlattenSeq([i \in DOMAIN r |-> Replaced(Asked(r)[i])])

\* A step that is not a map is an error of the decomposition, also when the
\* result would not have been used.
Malformed(r) == \E t \in Range(Asked(r)) :
                  \E u \in Range(Decompose(t, MaxDepth)) : u.shape = NotAMap

\* AddTask: the task itself counts as added.
CanAdd(ts, i) == /\ ts[i].id \notin {ts[j].id : j \in 1..i - 1}
                 /\ ts[i].deps \subseteq {ts[j].id : j \in 1..i}

\* AssignLevels: the tasks were added after their dependencies, so a cycle is a
\* task that depends on itself.
Cyclic(ts) == \E i \in DOMAIN ts : ts[i].id \in ts[i].deps

Levels(ts) ==
  LET level[i \in DOMAIN ts] ==
        Max({-1} \cup {level[j] : j \in {k \in 1..i - 1 : ts[k].id \in ts[i].deps}}) + 1
  IN  level

PlanOf(r) ==
  LET ts == PlannedTasks(r)
  IN  IF Malformed(r) \/ ~(\A i \in DOMAIN ts : CanAdd(ts, i)) \/ Cyclic(ts) THEN Refused
      ELSE [tasks |-> ts, level |-> Levels(ts)]

MakePlan ==
  /\ plan = NotPlanned
  /\ \E n \in 1..MaxTasks : request' \in Requests(n)
  /\ plan' = PlanOf(request')

PlanNext == MakePlan

PlanSpec == PlanInit /\ [][PlanNext]_planVars

-----------------------------------------------------------------------------
(* Properties.                                                             *)

\* The levels of the planned tasks whose ids begin with id.
LevelsUnder(id) ==
  {plan.level[i] : i \in {j \in DOMAIN plan.tasks : IsPrefix(id, plan.tasks[j].id)}}

Before(id, later) == \A l \in LevelsUnder(id), m \in LevelsUnder(later) : l < m

IsPlanned(id) == \E i \in DOMAIN plan.tasks : plan.tasks[i].id = id

\* In a plan that is accepted (levels are what may run together): a task that
\* was asked for comes after those it depends on, with all its parts, and those
\* are not decomposed; the parts of a task made of steps come one after the
\* other.  Steps are the exception to the first, wherever they are nested: they
\* have forgotten what their task depends on.
PlanIsOrdered ==
  plan.tasks # <<>> =>
    \A i \in DOMAIN request :
      /\ (request[i].shape.by # "steps" \/ IsPlanned(<<i>>)) =>
           \A id \in request[i].deps : IsPlanned(id) /\ Before(id, <<i>>)
      /\ (request[i].shape.by = "steps" /\ ~IsPlanned(<<i>>)) =>
           LET parts == request[i].shape.parts
           IN  \A p \in 1..Len(parts) - 1 :
                 parts[p + 1].by # "steps" =>
                   IsPlanned(<<i, p>>) /\ Before(<<i, p>>, <<i, p + 1>>)
=============================================================================
