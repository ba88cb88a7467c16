----------------------------- MODULE TaskQueue -----------------------------
(***************************************************************************)
(* The orchestrator's task queue and dependency graph                      *)
(* (internal/core/orchestrator/queue.go and dependency.go).                *)
(*                                                                         *)
(* A task is an element of Tasks.  The Go code shares one *api.Task between *)
(* every map, so the task's fields are kept once: need is its Dependencies *)
(* field and taskStatus its Status field.                                  *)
(*                                                                         *)
(* Two mutexes protect the rest.  q.mu makes Enqueue, Dequeue and Complete *)
(* atomic: between the calls they make on the graph only a submitter's     *)
(* graph call can come, and it commutes with them (a task that is being    *)
(* submitted is Pending, so never ready, completed or Blocked).  Fail does *)
(* not commute: failDependents reads the reverse edges of one task at a    *)
(* time, and a submitter may remove edges in between.  It is therefore a   *)
(* sequence of steps, during which q.mu is held: cascade is the set of     *)
(* tasks whose dependents failDependents has still to visit.               *)
(***************************************************************************)
EXTENDS Naturals

CONSTANTS Tasks,        \* the task ids that may be submitted
          DepChoices    \* the Dependencies fields the callers may choose

ASSUME QueueAssumption == DepChoices \subseteq [Tasks -> SUBSET Tasks]

VARIABLES need,         \* task -> its Dependencies field
          taskStatus,   \* task -> its Status field ("none" before submission)
          pending,      \* task -> how many times it is in the pending heap
          running,      \* keys of q.running
          completed,    \* keys of q.completed
          failed,       \* keys of q.failed
          gTasks,       \* keys of g.tasks
          deps,         \* g.deps
          rdeps,        \* g.rdeps, the repetitions of an id left out
          cascade       \* work left to failDependents; q.mu is held meanwhile

queueVars == <<need, taskStatus, pending, running, completed, failed,
               gTasks, deps, rdeps, cascade>>

Statuses == {"none", "pending", "queued", "running", "verifying", "blocked",
             "completed", "failed"}

QueueTypeOK ==
  /\ need \in [Tasks -> SUBSET Tasks]
  /\ taskStatus \in [Tasks -> Statuses]
  /\ pending \in [Tasks -> Nat]
  /\ running \in SUBSET Tasks
  /\ completed \in SUBSET Tasks
  /\ failed \in SUBSET Tasks
  /\ gTasks \in SUBSET Tasks
  /\ deps \in [Tasks -> SUBSET Tasks]
  /\ rdeps \in [Tasks -> SUBSET Tasks]
  /\ cascade \in SUBSET Tasks

QueueInit ==
  /\ need \in DepChoices
  /\ taskStatus = [t \in Tasks |-> "none"]
  /\ pending = [t \in Tasks |-> 0]
  /\ running = {}
  /\ completed = {}
  /\ failed = {}
  /\ gTasks = {}
  /\ deps = [t \in Tasks |-> {}]
  /\ rdeps = [t \in Tasks |-> {}]
  /\ cascade = {}

-----------------------------------------------------------------------------
(* The dependency graph.  An id without an entry has no dependencies.      *)

\* The reverse edges once task t is (again) in the graph.
RdepsWith(t) ==
  [d \in Tasks |-> IF d \in need[t] THEN rdeps[d] \cup {t} ELSE rdeps[d]]

Add(t) ==
  /\ gTasks' = gTasks \cup {t}
  /\ deps' = [deps EXCEPT ![t] = need[t]]
  /\ rdeps' = RdepsWith(t)

\* Remove drops t's own entries and every edge that ends in t, among them the
\* edges of tasks that were submitted earlier and depend on t.
Remove(t) ==
  /\ gTasks' = gTasks \ {t}
  /\ deps' = [deps EXCEPT ![t] = {}]
  /\ rdeps' = [d \in Tasks |-> IF d = t THEN {} ELSE rdeps[d] \ {t}]

\* A set each member of which depends on a member: one exists exactly when the
\* depth-first search finds a cycle (dependencies are finite).
Knotted(S) == \A x \in S : deps[x] \cap S # {}

\* HasCycle searches from every task in the graph.
HasCycle == \E S \in SUBSET Tasks : S \cap gTasks # {} /\ Knotted(S)

\* DetectCycle finds the cycles that can be reached from t.
DetectCycle(t) == \E S \in SUBSET Tasks : t \in S /\ Knotted(S)

-----------------------------------------------------------------------------
(* The queue.                                                              *)

QueueFree == cascade = {}

\* Mutant: a dependency that is not in the graph counts as done.
AllKnownDone(ds, known) == \A d \in ds \cap known : taskStatus[d] = "completed"

\* IsReady: every dependency is in the graph and completed.
AllDone(ds, known) == \A d \in ds : d \in known /\ taskStatus[d] = "completed"

Enqueue(t) ==
  /\ QueueFree
  /\ Add(t)
  /\ IF AllDone(need[t], gTasks \cup {t})
     THEN /\ pending' = [pending EXCEPT ![t] = @ + 1]
          /\ taskStatus' = [taskStatus EXCEPT ![t] = "queued"]
     ELSE /\ taskStatus' = [taskStatus EXCEPT ![t] = "blocked"]
          /\ UNCHANGED pending
  /\ UNCHANGED <<need, running, completed, failed, cascade>>

\* Mutant: the task stays in the heap.
DequeueKeeps(t) ==
  /\ QueueFree
  /\ pending[t] > 0
  /\ taskStatus' = [taskStatus EXCEPT ![t] = "running"]
  /\ running' = running \cup {t}
  /\ UNCHANGED <<need, pending, completed, failed, gTasks, deps, rdeps, cascade>>

\* Which of the pending tasks the score prefers depends on ages and
\* priorities; any of them may be the best one.
Dequeue(t) ==
  /\ QueueFree
  /\ pending[t] > 0
  /\ pending' = [pending EXCEPT ![t] = @ - 1]
  /\ taskStatus' = [taskStatus EXCEPT ![t] = "running"]
  /\ running' = running \cup {t}
  /\ UNCHANGED <<need, completed, failed, gTasks, deps, rdeps, cascade>>

\* Mutant: readiness is read before t is marked completed.
WokenTooEarly(t) ==
  {u \in rdeps[t] \cap gTasks : taskStatus[u] = "blocked" /\ AllDone(deps[u], gTasks)}

\* Mutant: the status of the dependent is not looked at.
WokenAnyStatus(t) ==
  {u \in rdeps[t] \cap gTasks : AllDone(deps[u] \ {t}, gTasks)}

\* The blocked dependents that become ready once t is completed.
Woken(t) ==
  {u \in rdeps[t] \cap gTasks :
     /\ taskStatus[u] = "blocked"
     /\ AllDone(deps[u] \ {t}, gTasks)
     /\ t \in deps[u] => t \in gTasks}

\* Mutant: the task is not deleted from q.running.
CompleteStaysRunning(t) ==
  /\ QueueFree
  /\ t \in running
  /\ completed' = completed \cup {t}
  /\ taskStatus' = [u \in Tasks |-> CASE u = t -> "completed"
                                      [] u \in Woken(t) \ {t} -> "queued"
                                      [] OTHER -> taskStatus[u]]
  /\ pending' = [u \in Tasks |-> IF u \in Woken(t) THEN pending[u] + 1 ELSE pending[u]]
  /\ UNCHANGED <<need, running, failed, gTasks, deps, rdeps, cascade>>

Complete(t) ==
  /\ QueueFree
  /\ IF t \in running
     THEN /\ running' = running \ {t}
          /\ completed' = completed \cup {t}
          /\ taskStatus' = [u \in Tasks |-> CASE u = t -> "completed"
                                              [] u \in Woken(t) \ {t} -> "queued"
                                              [] OTHER -> taskStatus[u]]
          /\ pending' = [u \in Tasks |-> IF u \in Woken(t) THEN pending[u] + 1
                                                           ELSE pending[u]]
     ELSE UNCHANGED <<running, completed, taskStatus, pending>>
  /\ UNCHANGED <<need, failed, gTasks, deps, rdeps, cascade>>

\* Fail locks q.mu and marks the task; the dependents follow in FailDependents.
Fail(t) ==
  /\ QueueFree
  /\ IF t \in running
     THEN /\ running' = running \ {t}
          /\ failed' = failed \cup {t}
          /\ taskStatus' = [taskStatus EXCEPT ![t] = "failed"]
          /\ cascade' = {t}
     ELSE UNCHANGED <<running, failed, taskStatus, cascade>>
  /\ UNCHANGED <<need, pending, completed, gTasks, deps, rdeps>>

\* The dependents of x that failDependents marks.
Doomed(x) ==
  {u \in rdeps[x] \cap gTasks : taskStatus[u] \in {"blocked", "pending", "queued"}}

\* One call of failDependents; it leaves the pending heap alone.
FailDependents(x) ==
  /\ x \in cascade
  /\ cascade' = (cascade \ {x}) \cup Doomed(x)
  /\ failed' = failed \cup Doomed(x)
  /\ taskStatus' = [u \in Tasks |-> IF u \in Doomed(x) THEN "failed" ELSE taskStatus[u]]
  /\ UNCHANGED <<need, pending, running, completed, gTasks, deps, rdeps>>

=============================================================================
