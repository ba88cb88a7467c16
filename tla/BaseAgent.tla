----------------------------- MODULE BaseAgent -----------------------------
(***************************************************************************)
(* The agents that execute tasks (internal/core/agent/agent.go and         *)
(* state_machine.go).                                                      *)
(*                                                                         *)
(* Each agent keeps its status twice: a.status, which callers read, and    *)
(* the state of its StateMachine, which decides what is allowed.  a.mu is  *)
(* released while the language model is called, so an Execute call is      *)
(* three critical sections: the entry, handleError when the call failed,   *)
(* and the deferred exit; other calls come in between.  <<a, s>> is an     *)
(* Execute call on agent a, s telling apart the calls made at one time.    *)
(***************************************************************************)
EXTENDS Integers, FiniteSets

CONSTANTS Agents,       \* the agents
          Slots,        \* names for the Execute calls in flight on an agent
          NoCall,       \* stands for a nil currentTask
          MaxResumes    \* bound on how often an agent is resumed

ASSUME AgentAssumption ==
  /\ NoCall \notin Slots
  /\ IsFiniteSet(Slots)
  /\ MaxResumes \in Nat

VARIABLES agentStatus,  \* a.status
          smState,      \* a.stateMachine.state
          current,      \* a.currentTask, named by the call that set it
          active,       \* a.health.ActiveRequests
          call,         \* progress of each Execute call
          resumes       \* how often Resume succeeded (bounds the model)

agentVars == <<agentStatus, smState, current, active, call, resumes>>

Calls == Agents \X Slots

AgentStatuses == {"created", "ready", "running", "paused", "error", "terminated"}

\* "none": no call; "chat": in executeWithTools; "erred": handleError is done
\* and the deferred exit is next; "ok" and "err": returned, with that result.
CallStates == {"none", "chat", "erred", "ok", "err"}

AgentTypeOK ==
  /\ agentStatus \in [Agents -> AgentStatuses]
  /\ smState \in [Agents -> AgentStatuses]
  /\ current \in [Agents -> Slots \cup {NoCall}]
  /\ active \in [Agents -> Int]
  /\ call \in [Calls -> CallStates]
  /\ resumes \in [Agents -> Nat]

\* isValidTransition
ValidNext ==
  [s \in AgentStatuses |->
     CASE s = "created" -> {"ready", "terminated", "error"}
       [] s = "ready" -> {"running", "paused", "terminated", "error"}
       [] s = "running" -> {"ready", "paused", "error", "terminated"}
       [] s = "paused" -> {"ready", "terminated", "error"}
       [] s = "error" -> {"ready", "terminated"}
       [] s = "terminated" -> {}]

\* StateMachine.Transition succeeds.
CanMove(a, from, to) == smState[a] = from /\ to \in ValidNext[from]

\* Both copies of the status change together.
Move(a, from, to) ==
  /\ CanMove(a, from, to)
  /\ smState' = [smState EXCEPT ![a] = to]
  /\ agentStatus' = [agentStatus EXCEPT ![a] = to]

-----------------------------------------------------------------------------
(* Lifecycle methods.                                                      *)

Initialize(a) ==
  /\ Move(a, "created", "ready")
  /\ UNCHANGED <<current, active, call, resumes>>

\* Start checks a.status too; the loops it starts only log and beat.
StartAgent(a) ==
  /\ agentStatus[a] = "ready"
  /\ Move(a, "ready", "running")
  /\ UNCHANGED <<current, active, call, resumes>>

\* Stop waits for a running task by letting a timeout of 30 seconds pass; the
\* wait changes nothing, and calls may still be in flight when it is over.
StopAgent(a) ==
  /\ Move(a, agentStatus[a], "terminated")
  /\ UNCHANGED <<current, active, call, resumes>>

Pause(a) ==
  /\ Move(a, "running", "paused")
  /\ UNCHANGED <<current, active, call, resumes>>

Resume(a) ==
  /\ resumes[a] < MaxResumes
  /\ Move(a, "paused", "ready")
  /\ resumes' = [resumes EXCEPT ![a] = @ + 1]
  /\ UNCHANGED <<current, active, call>>

-----------------------------------------------------------------------------
(* Execute.                                                                *)

\* Entry.  A running agent passes the first check, and then the state machine
\* refuses the move from running to running.
ExecuteEnter(a, s) ==
  /\ call[<<a, s>>] = "none"
  /\ agentStatus[a] \in {"ready", "running"}
  /\ Move(a, agentStatus[a], "running")
  /\ current' = [current EXCEPT ![a] = s]
  /\ active' = [active EXCEPT ![a] = @ + 1]
  /\ call' = [call EXCEPT ![<<a, s>>] = "chat"]
  /\ UNCHANGED resumes

ExecuteRefused(a, s) ==
  /\ call[<<a, s>>] = "none"
  /\ ~ /\ agentStatus[a] \in {"ready", "running"}
       /\ CanMove(a, agentStatus[a], "running")
  /\ call' = [call EXCEPT ![<<a, s>>] = "err"]
  /\ UNCHANGED <<agentStatus, smState, current, active, resumes>>

\* Mutant: the request is not taken off the count when the move is refused.
ExitUncounted(a) ==
  LET from == IF agentStatus[a] = "error" THEN "error" ELSE "running"
  IN  /\ IF CanMove(a, from, "ready")
         THEN Move(a, from, "ready") /\ active' = [active EXCEPT ![a] = @ - 1]
         ELSE UNCHANGED <<agentStatus, smState, active>>
      /\ current' = [current EXCEPT ![a] = NoCall]

\* Mutant: the state machine is not asked.
ExitForces(a) ==
  /\ smState' = [smState EXCEPT ![a] = "ready"]
  /\ agentStatus' = [agentStatus EXCEPT ![a] = "ready"]
  /\ current' = [current EXCEPT ![a] = NoCall]
  /\ active' = [active EXCEPT ![a] = @ - 1]

\* The deferred function: back to ready from error or running, and nothing
\* else; the request is no longer counted in any case.
Exit(a) ==
  LET from == IF agentStatus[a] = "error" THEN "error" ELSE "running"
  IN  /\ IF CanMove(a, from, "ready")
         THEN Move(a, from, "ready")
         ELSE UNCHANGED <<agentStatus, smState>>
      /\ current' = [current EXCEPT ![a] = NoCall]
      /\ active' = [active EXCEPT ![a] = @ - 1]

\* executeWithTools answers; recording the metrics commutes with the exit.
ExecuteSucceeds(a, s) ==
  /\ call[<<a, s>>] = "chat"
  /\ Exit(a)
  /\ call' = [call EXCEPT ![<<a, s>>] = "ok"]
  /\ UNCHANGED resumes

\* Mutant: handleError sets a.status and leaves the state machine alone.
ErrorUnsynced(a, s) ==
  /\ call[<<a, s>>] = "chat"
  /\ agentStatus' = [agentStatus EXCEPT ![a] = "error"]
  /\ call' = [call EXCEPT ![<<a, s>>] = "erred"]
  /\ UNCHANGED <<smState, current, active, resumes>>

\* executeWithTools fails: handleError.
ExecuteFails(a, s) ==
  /\ call[<<a, s>>] = "chat"
  /\ IF CanMove(a, "running", "error")
     THEN Move(a, "running", "error")
     ELSE UNCHANGED <<agentStatus, smState>>
  /\ call' = [call EXCEPT ![<<a, s>>] = "erred"]
  /\ UNCHANGED <<current, active, resumes>>

ExecuteLeaves(a, s) ==
  /\ call[<<a, s>>] = "erred"
  /\ Exit(a)
  /\ call' = [call EXCEPT ![<<a, s>>] = "err"]
  /\ UNCHANGED resumes

\* The caller takes the result of a call on its own (the scheduler's executors
\* do so in the module Orchestrator).
Collect(a, s) ==
  /\ call[<<a, s>>] \in {"ok", "err"}
  /\ call' = [call EXCEPT ![<<a, s>>] = "none"]
  /\ UNCHANGED <<agentStatus, smState, current, active, resumes>>

-----------------------------------------------------------------------------
Lifecycle(a) ==
  \/ StartAgent(a)
  \/ StopAgent(a)
  \/ Pause(a)
  \/ Resume(a)

\* What an Execute call in progress does next.
ExecuteStep(a, s) ==
  \/ ExecuteSucceeds(a, s)
  \/ ExecuteFails(a, s)
  \/ ExecuteLeaves(a, s)

AgentIdle ==
  /\ current = [a \in Agents |-> NoCall]
  /\ active = [a \in Agents |-> 0]
  /\ call = [c \in Calls |-> "none"]
  /\ resumes = [a \in Agents |-> 0]

AgentInit ==
  /\ agentStatus = [a \in Agents |-> "created"]
  /\ smState = [a \in Agents |-> "created"]
  /\ AgentIdle

AgentNext ==
  \E a \in Agents :
    \/ Initialize(a)
    \/ Lifecycle(a)
    \/ \E s \in Slots :
         \/ ExecuteEnter(a, s)
         \/ ExecuteRefused(a, s)
         \/ ExecuteStep(a, s)
         \/ Collect(a, s)

AgentSpec == AgentInit /\ [][AgentNext]_agentVars

-----------------------------------------------------------------------------
(* Properties.                                                             *)

InFlight(a) == {s \in Slots : call[<<a, s>>] \in {"chat", "erred"}}

\* The two copies of the status agree, as the comment in handleError promises:
\* no method leaves one of them behind when the other moves.
StatusInSync == agentStatus = smState

\* ActiveRequests counts the Execute calls between entry and exit, on every
\* path out of Execute.  Two of them overlap only because someone resumed a
\* paused agent whose task was still running: each overlap costs a Resume, and
\* an agent that says it is ready hides at most that many executions.
RequestsAccounted ==
  \A a \in Agents :
    /\ active[a] = Cardinality(InFlight(a))
    /\ active[a] <= resumes[a] + (IF agentStatus[a] \in {"created", "ready"} THEN 0 ELSE 1)

\* What an agent says of itself is so: in which status it is, and how many
\* executions are in it.
AgentAccountsHold == StatusInSync /\ RequestsAccounted

\* Termination is final, whatever the executions still in flight do on exit.
TerminatedForever ==
  [][\A a \in Agents : agentStatus[a] = "terminated" => agentStatus'[a] = "terminated"]_agentVars

=============================================================================
