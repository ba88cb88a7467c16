---------------------------- MODULE Orchestrator ----------------------------
(***************************************************************************)
(* Submission, scheduling and execution of tasks                           *)
(* (internal/core/orchestrator/coordinator.go and scheduler.go), composed  *)
(* with the task queue and the agents.                                     *)
(*                                                                         *)
(* Three kinds of goroutines act: callers of SubmitTask, one per top-level *)
(* task; the scheduler's loop; and one executor per assigned task, started *)
(* by assignTask.  s.mu is held during a pass of schedule, so the passes   *)
(* exclude the executors' deferred cleanup: it is held while todo # {}.    *)
(* An executor <<a, s>> runs on agent a and makes the Execute call of the  *)
(* same name.                                                              *)
(***************************************************************************)
EXTENDS TaskQueue, BaseAgent

CONSTANTS NoTask, NoAgent,
          MaxConcurrent,   \* SchedulerConfig.MaxConcurrent
          MaxSubmitters,   \* bound on the callers that are inside SubmitTask
          MaxRetries,      \* MaxRetries of every task
          Verified,        \* the tasks that carry a verification spec
          Matches,         \* agent -> the tasks whose AgentType it serves
          Plan,            \* task -> the subtasks the planner makes of it
          Managed          \* the agents whose lifecycle methods are called

\* A plan of one task is not used; subtasks have a ParentID, so they are never
\* planned themselves, and belong to one parent.
ASSUME OrchestratorAssumption ==
  /\ NoTask \notin Tasks
  /\ NoAgent \notin Agents
  /\ MaxConcurrent \in Nat \ {0}
  /\ Cardinality(Slots) >= MaxConcurrent
  /\ MaxSubmitters \in Nat \ {0}
  /\ MaxRetries \in Nat
  /\ Verified \subseteq Tasks
  /\ Matches \in [Agents -> SUBSET Tasks]
  /\ Plan \in [Tasks -> SUBSET Tasks]
  /\ \A p, q \in Tasks : p # q => Plan[p] \cap Plan[q] = {}
  /\ \A p \in Tasks : \A st \in Plan[p] : Plan[st] = {} /\ st # p
  /\ Managed \subseteq Agents

VARIABLES sub,             \* progress of SubmitTask for each task
          todo,            \* agents the current scheduling pass has yet to visit
          assignments,     \* s.assignments
          load,            \* s.agentLoads
          worker,          \* progress of each executor
          job,             \* the task of each executor
          retries          \* task -> its RetryCount field

submitVars == <<sub>>
schedVars == <<todo, assignments, load, worker, job, retries>>
vars == <<queueVars, agentVars, submitVars, schedVars>>

SubmitStates == {"new", "add", "check", "detect", "withdraw", "clear", "enqueue",
                 "accepted", "rejected", "planning", "planned"}

WorkerStates == {"idle", "execute", "verify", "requeue", "cascade", "cleanup"}

TypeOK ==
  /\ QueueTypeOK
  /\ AgentTypeOK
  /\ sub \in [Tasks -> SubmitStates]
  /\ todo \in SUBSET Agents
  /\ assignments \in [Tasks -> Agents \cup {NoAgent}]
  /\ load \in [Agents -> Int]
  /\ worker \in [Calls -> WorkerStates]
  /\ job \in [Calls -> Tasks \cup {NoTask}]
  /\ retries \in [Tasks -> Nat]

\* Agents are registered once they are initialized.
Init ==
  /\ QueueInit
  /\ agentStatus = [a \in Agents |-> "ready"]
  /\ smState = [a \in Agents |-> "ready"]
  /\ AgentIdle
  /\ sub = [t \in Tasks |-> "new"]
  /\ todo = {}
  /\ assignments = [t \in Tasks |-> NoAgent]
  /\ load = [a \in Agents |-> 0]
  /\ worker = [c \in Calls |-> "idle"]
  /\ job = [c \in Calls |-> NoTask]
  /\ retries = [t \in Tasks |-> 0]

-----------------------------------------------------------------------------
(* SubmitTask.                                                             *)

Subtasks == UNION {Plan[p] : p \in Tasks}
Parent(st) == CHOOSE p \in Tasks : st \in Plan[p]

Submitting(t) == sub[t] \notin {"new", "accepted", "rejected", "planned"}
Submitters == {t \in Tasks \ Subtasks : Submitting(t)}

SubmitGoes(t, from, to) ==
  /\ sub[t] = from
  /\ sub' = [sub EXCEPT ![t] = to]

\* A caller submits a task that is not complex, or whose planning fails.
SubmitTask(t) ==
  /\ t \notin Subtasks
  /\ Cardinality(Submitters) < MaxSubmitters
  /\ SubmitGoes(t, "new", "add")
  /\ taskStatus' = [taskStatus EXCEPT ![t] = "pending"]
  /\ UNCHANGED <<need, pending, running, completed, failed, gTasks, deps, rdeps,
                 cascade, agentVars, schedVars>>

\* A caller submits a complex task: it becomes Blocked and its subtasks are
\* submitted in its stead.
SubmitComplex(t) ==
  /\ t \notin Subtasks
  /\ Cardinality(Plan[t]) > 1
  /\ Cardinality(Submitters) < MaxSubmitters
  /\ SubmitGoes(t, "new", "planning")
  /\ taskStatus' = [taskStatus EXCEPT ![t] = "blocked"]
  /\ UNCHANGED <<need, pending, running, completed, failed, gTasks, deps, rdeps,
                 cascade, agentVars, schedVars>>

\* The next subtask of the plan: its ParentID becomes one of its dependencies.
SubmitSubtask(t) ==
  /\ t \in Subtasks
  /\ sub[Parent(t)] = "planning"
  /\ \A u \in Plan[Parent(t)] : sub[u] \in {"new", "accepted"}
  /\ SubmitGoes(t, "new", "add")
  /\ taskStatus' = [taskStatus EXCEPT ![t] = "pending"]
  /\ need' = [need EXCEPT ![t] = @ \cup {Parent(t)}]
  /\ UNCHANGED <<pending, running, completed, failed, gTasks, deps, rdeps,
                 cascade, agentVars, schedVars>>

\* All subtasks were accepted, or one was rejected and the rest is dropped.
PlanSubmitted(t) ==
  /\ \/ \A u \in Plan[t] : sub[u] = "accepted"
     \/ \E u \in Plan[t] : sub[u] = "rejected"
  /\ SubmitGoes(t, "planning", "planned")
  /\ UNCHANGED <<queueVars, agentVars, schedVars>>

\* The temporary addition to the graph.
AddTemporarily(t) ==
  /\ SubmitGoes(t, "add", "check")
  /\ Add(t)
  /\ UNCHANGED <<need, taskStatus, pending, running, completed, failed, cascade,
                 agentVars, schedVars>>

CheckHasCycle(t) ==
  /\ SubmitGoes(t, "check", IF HasCycle THEN "detect" ELSE "clear")
  /\ UNCHANGED <<queueVars, agentVars, schedVars>>

\* Mutant: the cycle is found and ignored.
DetectNothing(t) ==
  /\ SubmitGoes(t, "detect", "clear")
  /\ UNCHANGED <<queueVars, agentVars, schedVars>>

\* HasCycle may have seen a cycle that is not t's, or is gone by now.
CheckDetectCycle(t) ==
  /\ SubmitGoes(t, "detect", IF DetectCycle(t) THEN "withdraw" ELSE "clear")
  /\ UNCHANGED <<queueVars, agentVars, schedVars>>

\* A cycle: take t out again, record the conflict, return the error.
Withdraw(t) ==
  /\ SubmitGoes(t, "withdraw", "rejected")
  /\ Remove(t)
  /\ UNCHANGED <<need, taskStatus, pending, running, completed, failed, cascade,
                 agentVars, schedVars>>

\* No cycle: take t out again, so that Enqueue can add it.
ClearTemporary(t) ==
  /\ SubmitGoes(t, "clear", "enqueue")
  /\ Remove(t)
  /\ UNCHANGED <<need, taskStatus, pending, running, completed, failed, cascade,
                 agentVars, schedVars>>

EnqueueSubmitted(t) ==
  /\ SubmitGoes(t, "enqueue", "accepted")
  /\ Enqueue(t)
  /\ UNCHANGED <<agentVars, schedVars>>

SubmitNew(t) == SubmitTask(t) \/ SubmitComplex(t)

SubmitStep(t) ==
  \/ SubmitSubtask(t)
  \/ PlanSubmitted(t)
  \/ AddTemporarily(t)
  \/ CheckHasCycle(t)
  \/ CheckDetectCycle(t)
  \/ Withdraw(t)
  \/ ClearTemporary(t)
  \/ EnqueueSubmitted(t)

-----------------------------------------------------------------------------
(* The scheduling pass.                                                    *)

SchedulerFree == todo = {}

Available == {a \in Agents : agentStatus[a] = "ready"}

\* A tick: s.mu is taken and the available agents are listed.  A pass that
\* finds none does nothing.  Each status is read on its own, but the changes of
\* different agents commute, so one moment fits all the reads.
Tick ==
  /\ SchedulerFree
  /\ Available # {}
  /\ todo' = Available
  /\ UNCHANGED <<queueVars, agentVars, submitVars, assignments, load, worker, job, retries>>

\* The agent carries as many tasks as it may.
SkipLoaded(a) ==
  /\ a \in todo
  /\ load[a] >= MaxConcurrent
  /\ todo' = todo \ {a}
  /\ UNCHANGED <<queueVars, agentVars, submitVars, assignments, load, worker, job, retries>>

\* Dequeue finds no task for the agent's type.
SkipNoTask(a) ==
  /\ a \in todo
  /\ load[a] < MaxConcurrent
  /\ QueueFree
  /\ \A t \in Matches[a] : pending[t] = 0
  /\ todo' = todo \ {a}
  /\ UNCHANGED <<queueVars, agentVars, submitVars, assignments, load, worker, job, retries>>

\* Mutant: the load is not counted.
AssignUncounted(a, t, s) ==
  /\ a \in todo
  /\ load[a] < MaxConcurrent
  /\ t \in Matches[a]
  /\ Dequeue(t)
  /\ worker[<<a, s>>] = "idle"
  /\ todo' = todo \ {a}
  /\ assignments' = [assignments EXCEPT ![t] = a]
  /\ worker' = [worker EXCEPT ![<<a, s>>] = "execute"]
  /\ job' = [job EXCEPT ![<<a, s>>] = t]
  /\ UNCHANGED <<agentVars, submitVars, load, retries>>

\* Dequeue and assignTask, which starts the executor <<a, s>>.
Assign(a, t, s) ==
  /\ a \in todo
  /\ load[a] < MaxConcurrent
  /\ t \in Matches[a]
  /\ Dequeue(t)
  /\ worker[<<a, s>>] = "idle"
  /\ todo' = todo \ {a}
  /\ assignments' = [assignments EXCEPT ![t] = a]
  /\ load' = [load EXCEPT ![a] = @ + 1]
  /\ worker' = [worker EXCEPT ![<<a, s>>] = "execute"]
  /\ job' = [job EXCEPT ![<<a, s>>] = t]
  /\ UNCHANGED <<agentVars, submitVars, retries>>

SchedulePass ==
  \/ Tick
  \/ \E a \in Agents :
       \/ SkipLoaded(a)
       \/ SkipNoTask(a)
       \/ \E t \in Tasks, s \in Slots : Assign(a, t, s)

-----------------------------------------------------------------------------
(* executeTask.  c = <<a, s>> is the executor.                             *)

WorkerGoes(c, to) == worker' = [worker EXCEPT ![c] = to]

TakesResult(c) ==
  /\ worker[c] = "execute"
  /\ call' = [call EXCEPT ![c] = "none"]
  /\ UNCHANGED <<agentStatus, smState, current, active, resumes>>

\* agent.Execute
CallExecute(c) ==
  /\ worker[c] = "execute"
  /\ \/ ExecuteEnter(c[1], c[2])
     \/ ExecuteRefused(c[1], c[2])
  /\ UNCHANGED <<queueVars, submitVars, schedVars>>

\* verifyTaskResult marks a task that has a verification spec.
BeginVerify(c) ==
  /\ TakesResult(c)
  /\ call[c] = "ok"
  /\ job[c] \in Verified
  /\ WorkerGoes(c, "verify")
  /\ taskStatus' = [taskStatus EXCEPT ![job[c]] = "verifying"]
  /\ UNCHANGED <<need, pending, running, completed, failed, gTasks, deps, rdeps, cascade,
                 submitVars, todo, assignments, load, job, retries>>

\* Nothing to verify: Complete.
CompleteUnverified(c) ==
  /\ TakesResult(c)
  /\ call[c] = "ok"
  /\ job[c] \notin Verified
  /\ WorkerGoes(c, "cleanup")
  /\ Complete(job[c])
  /\ UNCHANGED <<submitVars, todo, assignments, load, job, retries>>

\* The verification passed: Complete.
CompleteVerified(c) ==
  /\ worker[c] = "verify"
  /\ WorkerGoes(c, "cleanup")
  /\ Complete(job[c])
  /\ UNCHANGED <<agentVars, submitVars, todo, assignments, load, job, retries>>

\* The verification failed and retries remain.
RejectResult(c) ==
  /\ worker[c] = "verify"
  /\ retries[job[c]] < MaxRetries
  /\ retries' = [retries EXCEPT ![job[c]] = @ + 1]
  /\ taskStatus' = [taskStatus EXCEPT ![job[c]] = "queued"]
  /\ WorkerGoes(c, "requeue")
  /\ UNCHANGED <<need, pending, running, completed, failed, gTasks, deps, rdeps, cascade,
                 agentVars, submitVars, todo, assignments, load, job>>

\* Mutant: the task whose result was refused is lost.
RequeueLost(c) ==
  /\ worker[c] = "requeue"
  /\ WorkerGoes(c, "cleanup")
  /\ UNCHANGED <<queueVars, agentVars, submitVars, todo, assignments, load, job, retries>>

\* The task goes back to the queue; it stays in q.running and in s.assignments.
Requeue(c) ==
  /\ worker[c] = "requeue"
  /\ Enqueue(job[c])
  /\ WorkerGoes(c, "cleanup")
  /\ UNCHANGED <<agentVars, submitVars, todo, assignments, load, job, retries>>

FailTask(c) ==
  /\ Fail(job[c])
  /\ WorkerGoes(c, IF job[c] \in running THEN "cascade" ELSE "cleanup")

\* The execution failed.
FailExecution(c) ==
  /\ TakesResult(c)
  /\ call[c] = "err"
  /\ FailTask(c)
  /\ UNCHANGED <<submitVars, todo, assignments, load, job, retries>>

\* The verification failed for the last time.
FailVerification(c) ==
  /\ worker[c] = "verify"
  /\ retries[job[c]] >= MaxRetries
  /\ FailTask(c)
  /\ UNCHANGED <<agentVars, submitVars, todo, assignments, load, job, retries>>

\* failDependents, called by Fail, one task at a time; with none left Fail
\* returns and unlocks q.mu.
FailCascades(c) ==
  /\ worker[c] = "cascade"
  /\ \E x \in cascade :
       /\ FailDependents(x)
       /\ IF cascade = {x} /\ Doomed(x) = {}
          THEN WorkerGoes(c, "cleanup")
          ELSE UNCHANGED worker
  /\ UNCHANGED <<agentVars, submitVars, todo, assignments, load, job, retries>>

\* Mutant: the assignment is not deleted.
CleanupKeepsAssignment(c) ==
  /\ worker[c] = "cleanup"
  /\ SchedulerFree
  /\ load' = [load EXCEPT ![c[1]] = @ - 1]
  /\ WorkerGoes(c, "idle")
  /\ job' = [job EXCEPT ![c] = NoTask]
  /\ UNCHANGED <<queueVars, agentVars, submitVars, todo, assignments, retries>>

\* The deferred function: it deletes the task's assignment, whoever owns it now.
Cleanup(c) ==
  /\ worker[c] = "cleanup"
  /\ SchedulerFree
  /\ load' = [load EXCEPT ![c[1]] = @ - 1]
  /\ assignments' = [assignments EXCEPT ![job[c]] = NoAgent]
  /\ WorkerGoes(c, "idle")
  /\ job' = [job EXCEPT ![c] = NoTask]
  /\ UNCHANGED <<queueVars, agentVars, submitVars, todo, retries>>

\* What the executor's Execute call does on the agent.
AgentWorks(c) ==
  /\ ExecuteStep(c[1], c[2])
  /\ UNCHANGED <<queueVars, submitVars, schedVars>>

WorkerStep(c) ==
  \/ CallExecute(c)
  \/ AgentWorks(c)
  \/ BeginVerify(c)
  \/ CompleteUnverified(c)
  \/ CompleteVerified(c)
  \/ RejectResult(c)
  \/ Requeue(c)
  \/ FailExecution(c)
  \/ FailVerification(c)
  \/ FailCascades(c)

-----------------------------------------------------------------------------
AgentManaged(a) ==
  /\ a \in Managed
  /\ Lifecycle(a)
  /\ UNCHANGED <<queueVars, submitVars, schedVars>>

Next ==
  \/ \E t \in Tasks : SubmitNew(t) \/ SubmitStep(t)
  \/ SchedulePass
  \/ \E c \in Calls : WorkerStep(c) \/ Cleanup(c)
  \/ \E a \in Agents : AgentManaged(a)

\* Every goroutine goes on; the ticker keeps ticking; a language model call
\* returns or times out.  Cleanup waits for s.mu, which the scheduler takes
\* again and again: Go's mutex hands itself to a waiter that starves, so the
\* wait ends although the lock is not free continuously.
Fairness ==
  /\ \A t \in Tasks : WF_vars(SubmitStep(t))
  /\ WF_vars(Tick)
  /\ \A a \in Agents :
       WF_vars(SkipLoaded(a) \/ SkipNoTask(a) \/ \E t \in Tasks, s \in Slots : Assign(a, t, s))
  /\ \A c \in Calls : WF_vars(WorkerStep(c)) /\ SF_vars(Cleanup(c))

Spec == Init /\ [][Next]_vars

FairSpec == Spec /\ Fairness

-----------------------------------------------------------------------------
(* Properties.                                                             *)

\* The executors that still have a queue operation to perform for their task.
Owners(t) == {c \in Calls : /\ worker[c] \in {"execute", "verify", "requeue"}
                            /\ job[c] = t}

Live(a) == {s \in Slots : worker[<<a, s>>] # "idle"}

\* A task is queued for execution, or runs, only when every task it depends on
\* is completed, whatever submissions, retries and failures come in between.
DependencyOrder ==
  \A t \in Tasks : pending[t] > 0 \/ t \in running => need[t] \subseteq completed

\* A task is never dispatched twice: it is in the heap at most once, and not
\* while an executor is still to report on it.
SingleDispatch ==
  \A t \in Tasks : pending[t] + Cardinality(Owners(t)) <= 1

\* What the scheduler keeps of its executors is true of them: the load of an
\* agent is their number and never above the limit, and an assignment is backed
\* by an executor of that agent with that task.
LoadIsExact ==
  /\ \A a \in Agents : load[a] = Cardinality(Live(a)) /\ load[a] <= MaxConcurrent
  /\ \A t \in Tasks : assignments[t] # NoAgent =>
       \E s \in Slots : worker[<<assignments[t], s>>] # "idle" /\ job[<<assignments[t], s>>] = t

\* The queue's books agree: a task is not completed and failed, and neither
\* kind is running or waits in the heap; q.running holds the dispatched tasks
\* and those a failed verification has put back into the heap.
BooksAgree ==
  /\ completed \cap failed = {}
  /\ \A t \in completed \cup failed : t \notin running /\ pending[t] = 0
  /\ \A t \in Tasks : Owners(t) # {} => t \in running
  /\ \A t \in running : Owners(t) # {} \/ pending[t] > 0

\* A task stays blocked although its dependencies are completed only if the
\* graph has lost the reverse edge from one of them.
BlockedHasReason ==
  \A t \in gTasks :
    taskStatus[t] = "blocked" /\ sub[t] = "accepted" /\ need[t] \subseteq completed =>
      \E d \in need[t] : t \notin rdeps[d]

\* The life of a task as a caller sees it: what the books say of it, and
\* otherwise whether SubmitTask has accepted it.
Phase ==
  [t \in Tasks |->
     IF t \in completed THEN "completed"
     ELSE IF t \in failed THEN "failed"
     ELSE IF pending[t] > 0 THEN "ready"
     ELSE IF t \in running THEN "active"
     ELSE IF sub[t] = "accepted" THEN "waiting"
     ELSE "unknown"]

Needs == [t \in Tasks |-> IF Phase[t] = "unknown" THEN {} ELSE need[t]]

Lifecycles == INSTANCE TaskLifecycle WITH phase <- Phase, needs <- Needs

\* The orchestrator implements the life of a task: no interleaving of callers,
\* scheduling passes, executors and agent failures shows a caller anything else.
ImplementsLifecycle == Lifecycles!Spec

\* Tasks in the graph whose submission was accepted.
Accepted == {t \in gTasks : sub[t] = "accepted"}

\* The accepted tasks do not depend on each other in a cycle: SubmitTask
\* returns an error for the task that would close one.
AcceptedAcyclic ==
  \A S \in SUBSET Accepted : S # {} => \E t \in S : need[t] \cap S = {}

\* An accepted task does not stay blocked once its dependencies are completed:
\* taking out the temporary addition of SubmitTask disturbs nothing else.
ReleasedWhenDone ==
  \A t \in Accepted : taskStatus[t] = "blocked" => ~(need[t] \subseteq completed)

\* A complex task is blocked only until its subtasks are through.
PlannedParentResolves ==
  \A t \in Tasks : sub[t] = "planned" ~> taskStatus[t] # "blocked"

\* A queued task is executed, until it completes or fails.
QueuedSettles ==
  \A t \in Tasks : pending[t] > 0 ~> t \in completed \cup failed

=============================================================================
