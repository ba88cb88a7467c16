------------------------ MODULE Orchestrator_proofs ------------------------
(***************************************************************************)
(* Proofs about the agents, for any number of agents and calls, and about  *)
(* the orchestrator that uses them, for any tasks, agents, dependencies,   *)
(* plans and bounds: a task is started only when its dependencies are      *)
(* completed, and is never dispatched twice; the loads, the assignments    *)
(* and the queue's books are right; and every step is one in the life of   *)
(* a task that TaskLifecycle specifies.                                    *)
(***************************************************************************)
EXTENDS Orchestrator, FiniteSetTheorems, TLAPS

-----------------------------------------------------------------------------
(* The agents: types and the two copies of the status.                     *)

\* Every state a transition leads to is an agent status.
LEMMA ValidNextType ==
  ASSUME NEW s \in AgentStatuses
  PROVE  ValidNext[s] \in SUBSET AgentStatuses
BY DEF ValidNext, AgentStatuses

\* A move changes both copies of one agent's status to the same new status.
LEMMA MoveSound ==
  ASSUME AgentTypeOK, StatusInSync, NEW a \in Agents,
         NEW from \in AgentStatuses, NEW to \in AgentStatuses, Move(a, from, to)
  PROVE  /\ agentStatus' \in [Agents -> AgentStatuses]
         /\ smState' \in [Agents -> AgentStatuses]
         /\ agentStatus' = smState'
BY DEF Move, AgentTypeOK, StatusInSync

SyncInv == AgentTypeOK /\ StatusInSync

\* The deferred exit keeps the types and the two copies together.
LEMMA ExitSound ==
  ASSUME SyncInv, NEW a \in Agents, Exit(a)
  PROVE  /\ agentStatus' \in [Agents -> AgentStatuses]
         /\ smState' \in [Agents -> AgentStatuses]
         /\ agentStatus' = smState'
         /\ current' \in [Agents -> Slots \cup {NoCall}]
         /\ active' \in [Agents -> Int]
<1>1. PICK from \in {"error", "running"} :
        \/ Move(a, from, "ready")
        \/ UNCHANGED <<agentStatus, smState>>
  BY DEF Exit
<1>2. from \in AgentStatuses /\ "ready" \in AgentStatuses
  BY DEF AgentStatuses
<1>3. current' \in [Agents -> Slots \cup {NoCall}] /\ active' \in [Agents -> Int]
  BY DEF Exit, SyncInv, AgentTypeOK
<1>. QED
  BY <1>1, <1>2, <1>3, MoveSound DEF SyncInv, AgentTypeOK, StatusInSync

\* The lifecycle methods.
LEMMA LifecycleSound ==
  ASSUME SyncInv, NEW a \in Agents, Initialize(a) \/ Lifecycle(a)
  PROVE  SyncInv'
<1>. USE DEF SyncInv
<1>1. agentStatus[a] \in AgentStatuses
  BY DEF AgentTypeOK
<1>2. \E from \in AgentStatuses, to \in AgentStatuses : Move(a, from, to)
  BY <1>1 DEF Initialize, Lifecycle, StartAgent, StopAgent, Pause, Resume, AgentStatuses
<1>3. /\ agentStatus' \in [Agents -> AgentStatuses]
      /\ smState' \in [Agents -> AgentStatuses]
      /\ agentStatus' = smState'
  BY <1>2, MoveSound
<1>4. UNCHANGED <<current, active, call>> /\ resumes' \in [Agents -> Nat]
  BY DEF Initialize, Lifecycle, StartAgent, StopAgent, Pause, Resume, AgentTypeOK
<1>. QED
  BY <1>3, <1>4 DEF AgentTypeOK, StatusInSync

\* The entry of Execute, taken or refused.
LEMMA EnterSound ==
  ASSUME SyncInv, NEW a \in Agents, NEW s \in Slots,
         ExecuteEnter(a, s) \/ ExecuteRefused(a, s)
  PROVE  SyncInv'
<1>. USE DEF SyncInv
<1>1. CASE ExecuteEnter(a, s)
  <2>1. agentStatus[a] \in AgentStatuses /\ "running" \in AgentStatuses
    BY DEF AgentTypeOK, AgentStatuses
  <2>2. /\ agentStatus' \in [Agents -> AgentStatuses]
        /\ smState' \in [Agents -> AgentStatuses]
        /\ agentStatus' = smState'
    BY <1>1, <2>1, MoveSound DEF ExecuteEnter
  <2>3. /\ current' \in [Agents -> Slots \cup {NoCall}]
        /\ active' \in [Agents -> Int]
        /\ call' \in [Calls -> CallStates]
        /\ resumes' \in [Agents -> Nat]
    <3>1. current' \in [Agents -> Slots \cup {NoCall}] /\ resumes' \in [Agents -> Nat]
      BY <1>1 DEF ExecuteEnter, AgentTypeOK
    <3>2. active' \in [Agents -> Int]
      BY <1>1 DEF ExecuteEnter, AgentTypeOK
    <3>3. call' \in [Calls -> CallStates]
      BY <1>1 DEF ExecuteEnter, AgentTypeOK, CallStates
    <3>. QED
      BY <3>1, <3>2, <3>3
  <2>. QED
    BY <2>2, <2>3 DEF AgentTypeOK, StatusInSync
<1>2. CASE ExecuteRefused(a, s)
  BY <1>2 DEF ExecuteRefused, AgentTypeOK, StatusInSync, CallStates
<1>. QED
  BY <1>1, <1>2

\* What an Execute call does after its entry.
LEMMA ExecuteStepSound ==
  ASSUME SyncInv, NEW a \in Agents, NEW s \in Slots, ExecuteStep(a, s)
  PROVE  SyncInv'
<1>. USE DEF SyncInv
<1>1. CASE ExecuteSucceeds(a, s) \/ ExecuteLeaves(a, s)
  <2>1. Exit(a) /\ call' \in [Calls -> CallStates] /\ UNCHANGED resumes
    BY <1>1 DEF ExecuteSucceeds, ExecuteLeaves, AgentTypeOK, CallStates
  <2>. QED
    BY <2>1, ExitSound DEF AgentTypeOK, StatusInSync
<1>2. CASE ExecuteFails(a, s)
  <2>1. \/ Move(a, "running", "error")
        \/ UNCHANGED <<agentStatus, smState>>
    BY <1>2 DEF ExecuteFails
  <2>2. "running" \in AgentStatuses /\ "error" \in AgentStatuses
    BY DEF AgentStatuses
  <2>3. /\ agentStatus' \in [Agents -> AgentStatuses]
        /\ smState' \in [Agents -> AgentStatuses]
        /\ agentStatus' = smState'
    BY <2>1, <2>2, MoveSound DEF AgentTypeOK, StatusInSync
  <2>4. call' \in [Calls -> CallStates] /\ UNCHANGED <<current, active, resumes>>
    BY <1>2 DEF ExecuteFails, AgentTypeOK, CallStates
  <2>. QED
    BY <2>3, <2>4 DEF AgentTypeOK, StatusInSync
<1>. QED
  BY <1>1, <1>2 DEF ExecuteStep

\* For every number of agents and of overlapping calls, a.status and the state
\* machine agree in every reachable state, and every variable has its type.
THEOREM AgentSync == AgentSpec => [](AgentTypeOK /\ StatusInSync)
<1>1. AgentInit => SyncInv
  BY DEF AgentInit, AgentIdle, SyncInv, AgentTypeOK, StatusInSync, AgentStatuses, CallStates
<1>2. SyncInv /\ [AgentNext]_agentVars => SyncInv'
  <2>. SUFFICES ASSUME SyncInv, [AgentNext]_agentVars
                PROVE  SyncInv'
    OBVIOUS
  <2>1. CASE UNCHANGED agentVars
    BY <2>1 DEF agentVars, SyncInv, AgentTypeOK, StatusInSync
  <2>2. ASSUME NEW a \in Agents, Initialize(a) \/ Lifecycle(a)
        PROVE  SyncInv'
    BY <2>2, LifecycleSound
  <2>3. ASSUME NEW a \in Agents, NEW s \in Slots, ExecuteEnter(a, s) \/ ExecuteRefused(a, s)
        PROVE  SyncInv'
    BY <2>3, EnterSound
  <2>4. ASSUME NEW a \in Agents, NEW s \in Slots, ExecuteStep(a, s)
        PROVE  SyncInv'
    BY <2>4, ExecuteStepSound
  <2>5. ASSUME NEW a \in Agents, NEW s \in Slots, Collect(a, s)
        PROVE  SyncInv'
    BY <2>5 DEF Collect, SyncInv, AgentTypeOK, StatusInSync, CallStates
  <2>. QED
    BY <2>1, <2>2, <2>3, <2>4, <2>5 DEF AgentNext
<1>. QED
  BY <1>1, <1>2, PTL DEF AgentSpec, SyncInv

-----------------------------------------------------------------------------
(* Termination is final.                                                   *)

\* A terminated agent is moved nowhere.
LEMMA NoMoveFromTerminated ==
  ASSUME SyncInv, NEW a \in Agents, NEW b \in Agents, NEW from, NEW to,
         from \in AgentStatuses, Move(a, from, to), agentStatus[b] = "terminated"
  PROVE  agentStatus'[b] = "terminated"
<1>1. smState[b] = "terminated" /\ ValidNext["terminated"] = {}
  BY DEF SyncInv, StatusInSync, ValidNext, AgentStatuses
<1>2. a # b
  BY <1>1 DEF Move, CanMove
<1>. QED
  BY <1>2 DEF Move, SyncInv, AgentTypeOK

\* No method of an agent, and no execution that ends late, brings a terminated
\* agent back.
THEOREM TerminatedIsFinal == AgentSpec => TerminatedForever
<1>1. ASSUME SyncInv, [AgentNext]_agentVars, NEW b \in Agents, agentStatus[b] = "terminated"
      PROVE  agentStatus'[b] = "terminated"
  <2>1. \/ UNCHANGED agentStatus
        \/ \E a \in Agents, from \in AgentStatuses, to \in AgentStatuses : Move(a, from, to)
    <3>1. CASE UNCHANGED agentVars
      BY <3>1 DEF agentVars
    <3>2. ASSUME NEW a \in Agents, Initialize(a) \/ Lifecycle(a)
          PROVE  \E from \in AgentStatuses, to \in AgentStatuses : Move(a, from, to)
      BY <1>1, <3>2 DEF SyncInv, AgentTypeOK, Initialize, Lifecycle, StartAgent, StopAgent,
                        Pause, Resume, AgentStatuses
    <3>3. ASSUME NEW a \in Agents, NEW s \in Slots,
                 ExecuteEnter(a, s) \/ ExecuteStep(a, s)
          PROVE  \/ UNCHANGED agentStatus
                 \/ \E from \in AgentStatuses, to \in AgentStatuses : Move(a, from, to)
      <4>1. agentStatus[a] \in AgentStatuses /\ {"ready", "running", "error"} \subseteq AgentStatuses
        BY <1>1 DEF SyncInv, AgentTypeOK, AgentStatuses
      <4>2. CASE ExecuteEnter(a, s)
        BY <4>1, <4>2 DEF ExecuteEnter
      <4>3. CASE Exit(a)
        BY <4>1, <4>3 DEF Exit
      <4>4. CASE ExecuteFails(a, s)
        BY <4>1, <4>4 DEF ExecuteFails
      <4>. QED
        BY <3>3, <4>2, <4>3, <4>4 DEF ExecuteStep, ExecuteSucceeds, ExecuteLeaves
    <3>4. ASSUME NEW a \in Agents, NEW s \in Slots, ExecuteRefused(a, s) \/ Collect(a, s)
          PROVE  UNCHANGED agentStatus
      BY <3>4 DEF ExecuteRefused, Collect
    <3>. QED
      BY <1>1, <3>1, <3>2, <3>3, <3>4 DEF AgentNext
  <2>. QED
    BY <1>1, <2>1, NoMoveFromTerminated
<1>2. SyncInv /\ [AgentNext]_agentVars =>
        [\A a \in Agents : agentStatus[a] = "terminated" => agentStatus'[a] = "terminated"]_agentVars
  BY <1>1
<1>. QED
  BY <1>2, AgentSync, PTL DEF AgentSpec, SyncInv, TerminatedForever

-----------------------------------------------------------------------------
(* Requests in flight.                                                     *)

\* The calls in flight on an agent are finite in number.
LEMMA InFlightFinite ==
  ASSUME NEW a \in Agents
  PROVE  IsFiniteSet(InFlight(a)) /\ Cardinality(InFlight(a)) \in Nat
<1>1. InFlight(a) \in SUBSET Slots
  BY DEF InFlight
<1>. QED
  BY <1>1, AgentAssumption, FS_Subset, FS_CardinalityType

\* The set of calls in flight grows by the call that enters ...
LEMMA InFlightEnters ==
  ASSUME AgentTypeOK, NEW a \in Agents, NEW s \in Slots,
         call[<<a, s>>] = "none", call' = [call EXCEPT ![<<a, s>>] = "chat"]
  PROVE  /\ Cardinality(InFlight(a)') = Cardinality(InFlight(a)) + 1
         /\ \A b \in Agents : b # a => InFlight(b)' = InFlight(b)
<1>1. \A b \in Agents, r \in Slots : <<b, r>> \in Calls
  BY DEF Calls
<1>2. InFlight(a)' = InFlight(a) \cup {s} /\ s \notin InFlight(a)
  BY <1>1 DEF InFlight, AgentTypeOK
<1>3. \A b \in Agents : b # a => InFlight(b)' = InFlight(b)
  BY <1>1 DEF InFlight, AgentTypeOK
<1>. QED
  BY <1>2, <1>3, InFlightFinite, FS_AddElement

\* ... and shrinks by the call that leaves.
LEMMA InFlightLeaves ==
  ASSUME AgentTypeOK, NEW a \in Agents, NEW s \in Slots, NEW r \in {"ok", "err"},
         call[<<a, s>>] \in {"chat", "erred"}, call' = [call EXCEPT ![<<a, s>>] = r]
  PROVE  /\ Cardinality(InFlight(a)') = Cardinality(InFlight(a)) - 1
         /\ \A b \in Agents : b # a => InFlight(b)' = InFlight(b)
<1>1. \A b \in Agents, q \in Slots : <<b, q>> \in Calls
  BY DEF Calls
<1>2. InFlight(a)' = InFlight(a) \ {s} /\ s \in InFlight(a)
  BY <1>1 DEF InFlight, AgentTypeOK
<1>3. \A b \in Agents : b # a => InFlight(b)' = InFlight(b)
  BY <1>1 DEF InFlight, AgentTypeOK
<1>. QED
  BY <1>2, <1>3, InFlightFinite, FS_RemoveElement

\* A change of call that is neither an entry nor an exit.
LEMMA InFlightKept ==
  ASSUME AgentTypeOK, NEW a \in Agents, NEW s \in Slots, NEW r \in CallStates,
         call[<<a, s>>] \in {"chat", "erred"} <=> r \in {"chat", "erred"},
         call' = [call EXCEPT ![<<a, s>>] = r]
  PROVE  \A b \in Agents : InFlight(b)' = InFlight(b)
<1>1. \A b \in Agents, q \in Slots : <<b, q>> \in Calls
  BY DEF Calls
<1>. QED
  BY <1>1 DEF InFlight, AgentTypeOK

\* How many executions an agent may hide.
Allowance(a) == resumes[a] + (IF agentStatus[a] \in {"created", "ready"} THEN 0 ELSE 1)

CountInv == SyncInv /\ RequestsAccounted

\* A step of one agent that leaves the other agents and all calls alone, and
\* does not lower the agent's allowance.
LEMMA AllowanceKept ==
  ASSUME CountInv, NEW a \in Agents,
         \A b \in Agents : InFlight(b)' = InFlight(b),
         UNCHANGED active,
         \A b \in Agents : Allowance(b)' \in Nat /\ Allowance(b)' >= Allowance(b)
  PROVE  RequestsAccounted'
BY InFlightFinite DEF CountInv, RequestsAccounted, Allowance, SyncInv, AgentTypeOK

\* The ActiveRequests counter of an agent is exact on every path, and two
\* executions overlap only at the cost of a Resume each.
THEOREM RequestsCounted == AgentSpec => []RequestsAccounted
<1>1. AgentInit => RequestsAccounted
  <2>. SUFFICES ASSUME AgentInit, NEW a \in Agents
                PROVE  /\ active[a] = Cardinality(InFlight(a))
                       /\ active[a] <= Allowance(a)
    BY DEF RequestsAccounted, Allowance
  <2>1. InFlight(a) = {}
    BY DEF AgentInit, AgentIdle, InFlight, Calls
  <2>. QED
    BY <2>1, FS_EmptySet DEF AgentInit, AgentIdle, Allowance
<1>2. ASSUME CountInv, SyncInv', [AgentNext]_agentVars
      PROVE  RequestsAccounted'
  <2>. USE <1>2 DEF CountInv
  <2>1. CASE UNCHANGED agentVars
    BY <2>1 DEF agentVars, RequestsAccounted, InFlight
  <2>2. ASSUME NEW a \in Agents, Initialize(a) \/ Lifecycle(a)
        PROVE  RequestsAccounted'
    <3>1. UNCHANGED <<active, call>>
      BY <2>2 DEF Initialize, Lifecycle, StartAgent, StopAgent, Pause, Resume
    <3>2. \A b \in Agents : InFlight(b)' = InFlight(b)
      BY <3>1 DEF InFlight
    <3>3. ASSUME NEW b \in Agents
          PROVE  Allowance(b)' \in Nat /\ Allowance(b)' >= Allowance(b)
      BY <2>2, <3>3 DEF Initialize, Lifecycle, StartAgent, StopAgent, Pause, Resume, Move,
                  CanMove, ValidNext, AgentStatuses, SyncInv, StatusInSync, AgentTypeOK, Allowance
    <3>. QED
      BY <3>1, <3>2, <3>3, AllowanceKept
  <2>3. ASSUME NEW a \in Agents, NEW s \in Slots, ExecuteEnter(a, s)
        PROVE  RequestsAccounted'
    <3>1. /\ Cardinality(InFlight(a)') = Cardinality(InFlight(a)) + 1
          /\ \A b \in Agents : b # a => InFlight(b)' = InFlight(b)
      BY <2>3, InFlightEnters DEF SyncInv, ExecuteEnter
    <3>2. agentStatus[a] = "ready"
      BY <2>3 DEF ExecuteEnter, Move, CanMove, ValidNext, AgentStatuses, SyncInv, StatusInSync
    <3>3. agentStatus' = [agentStatus EXCEPT ![a] = "running"]
      BY <2>3 DEF ExecuteEnter, Move
    <3>4. active' = [active EXCEPT ![a] = @ + 1] /\ UNCHANGED resumes
      BY <2>3 DEF ExecuteEnter
    <3>5. ASSUME NEW b \in Agents
          PROVE  /\ active'[b] = Cardinality(InFlight(b)')
                 /\ active'[b] <= resumes'[b] + (IF agentStatus'[b] \in {"created", "ready"} THEN 0 ELSE 1)
      <4>1. CASE b = a
        BY <3>1, <3>2, <3>3, <3>4, <4>1, InFlightFinite DEF RequestsAccounted, SyncInv, AgentTypeOK
      <4>2. CASE b # a
        BY <3>1, <3>3, <3>4, <4>2 DEF RequestsAccounted, SyncInv, AgentTypeOK
      <4>. QED
        BY <4>1, <4>2
    <3>. QED
      BY <3>5 DEF RequestsAccounted
  <2>4. ASSUME NEW a \in Agents, NEW s \in Slots, ExecuteSucceeds(a, s) \/ ExecuteLeaves(a, s)
        PROVE  RequestsAccounted'
    <3>0. PICK r \in {"ok", "err"} :
             call[<<a, s>>] \in {"chat", "erred"} /\ call' = [call EXCEPT ![<<a, s>>] = r]
      BY <2>4 DEF ExecuteSucceeds, ExecuteLeaves
    <3>1. /\ Cardinality(InFlight(a)') = Cardinality(InFlight(a)) - 1
          /\ \A b \in Agents : b # a => InFlight(b)' = InFlight(b)
      BY <3>0, InFlightLeaves DEF SyncInv
    <3>2. \/ agentStatus' = [agentStatus EXCEPT ![a] = "ready"]
          \/ agentStatus' = agentStatus
      BY <2>4 DEF ExecuteSucceeds, ExecuteLeaves, Exit, Move
    <3>4. active' = [active EXCEPT ![a] = @ - 1] /\ UNCHANGED resumes
      BY <2>4 DEF ExecuteSucceeds, ExecuteLeaves, Exit
    <3>5. ASSUME NEW b \in Agents
          PROVE  /\ active'[b] = Cardinality(InFlight(b)')
                 /\ active'[b] <= resumes'[b] + (IF agentStatus'[b] \in {"created", "ready"} THEN 0 ELSE 1)
      <4>1. CASE b = a
        BY <3>1, <3>2, <3>4, <4>1, InFlightFinite DEF RequestsAccounted, SyncInv, AgentTypeOK
      <4>2. CASE b # a
        BY <3>1, <3>2, <3>4, <4>2 DEF RequestsAccounted, SyncInv, AgentTypeOK
      <4>. QED
        BY <4>1, <4>2
    <3>. QED
      BY <3>5 DEF RequestsAccounted
  <2>5. ASSUME NEW a \in Agents, NEW s \in Slots, ExecuteFails(a, s)
        PROVE  RequestsAccounted'
    <3>1. \A b \in Agents : InFlight(b)' = InFlight(b)
      BY <2>5, InFlightKept DEF ExecuteFails, SyncInv, CallStates
    <3>2. UNCHANGED <<active, resumes>>
      BY <2>5 DEF ExecuteFails
    <3>3. \/ agentStatus' = [agentStatus EXCEPT ![a] = "error"]
          \/ agentStatus' = agentStatus
      BY <2>5 DEF ExecuteFails, Move
    <3>4. \A b \in Agents : Allowance(b)' \in Nat /\ Allowance(b)' >= Allowance(b)
      BY <3>2, <3>3 DEF Allowance, SyncInv, AgentTypeOK
    <3>. QED
      BY <3>1, <3>2, <3>4, AllowanceKept
  <2>6. ASSUME NEW a \in Agents, NEW s \in Slots, ExecuteRefused(a, s) \/ Collect(a, s)
        PROVE  RequestsAccounted'
    <3>0. PICK r \in CallStates :
             /\ call[<<a, s>>] \in {"chat", "erred"} <=> r \in {"chat", "erred"}
             /\ call' = [call EXCEPT ![<<a, s>>] = r]
      BY <2>6 DEF ExecuteRefused, Collect, CallStates
    <3>1. \A b \in Agents : InFlight(b)' = InFlight(b)
      BY <3>0, InFlightKept DEF SyncInv
    <3>. QED
      BY <2>6, <3>1 DEF ExecuteRefused, Collect, RequestsAccounted
  <2>. QED
    BY <2>1, <2>2, <2>3, <2>4, <2>5, <2>6 DEF AgentNext, ExecuteStep
<1>. QED
  BY <1>1, <1>2, AgentSync, PTL DEF AgentSpec, SyncInv, CountInv

\* Both accounts an agent gives of itself are right in every reachable state.
THEOREM AgentAccounts == AgentSpec => []AgentAccountsHold
BY AgentSync, RequestsCounted, PTL DEF AgentAccountsHold

-----------------------------------------------------------------------------
(* The orchestrator: its invariant.                                        *)

Owning(c) == worker[c] \in {"execute", "verify", "requeue"}

InGraph == {"check", "detect", "withdraw", "clear", "accepted"}

\* The graph holds the dependencies of the tasks that are accepted or on trial.
Linked ==
  \A t \in gTasks : deps[t] = need[t] /\ sub[t] \in InGraph

\* A status says no more than the books and the submission do.
StatusSound ==
  \A t \in Tasks :
    /\ taskStatus[t] = "completed" => t \in completed
    /\ taskStatus[t] = "blocked" => sub[t] \in {"accepted", "planning", "planned"}

\* Only accepted tasks are queued or run, and only they have executors.
AcceptedOnly ==
  /\ \A t \in Tasks : pending[t] > 0 \/ t \in running => sub[t] = "accepted"
  /\ \A c \in Calls : worker[c] # "idle" => job[c] \in Tasks /\ sub[job[c]] = "accepted"

\* The heap and the executors share the tasks out among them.
OneHolder ==
  /\ \A t \in Tasks : pending[t] <= 1
  /\ \A c, d \in Calls : Owning(c) /\ Owning(d) /\ job[c] = job[d] => c = d
  /\ \A c \in Calls : Owning(c) => pending[job[c]] = 0
  /\ \A t \in Tasks : taskStatus[t] = "blocked" =>
       pending[t] = 0 /\ \A c \in Calls : Owning(c) => job[c] # t

TypeInv == TypeOK /\ StatusInSync

Inv == Linked /\ StatusSound /\ AcceptedOnly /\ OneHolder /\ DependencyOrder

IInv == TypeInv /\ Inv

-----------------------------------------------------------------------------
(* The queue's operations.                                                 *)

\* Every operation of the queue keeps the types of the queue's variables.
LEMMA QueueOpTypes ==
  ASSUME QueueTypeOK, NEW t \in Tasks,
         Enqueue(t) \/ Dequeue(t) \/ Complete(t) \/ Fail(t) \/ FailDependents(t)
  PROVE  QueueTypeOK'
<1>1. CASE Enqueue(t)
  BY <1>1 DEF Enqueue, Add, RdepsWith, QueueTypeOK, Statuses
<1>2. CASE Dequeue(t)
  BY <1>2 DEF Dequeue, QueueTypeOK, Statuses
<1>3. CASE Complete(t)
  <2>1. CASE t \in running
    <3>1. \A u \in Tasks : taskStatus'[u] \in Statuses /\ pending'[u] \in Nat
      BY <1>3, <2>1 DEF Complete, QueueTypeOK, Statuses
    <3>2. /\ taskStatus' = [u \in Tasks |-> taskStatus'[u]]
          /\ pending' = [u \in Tasks |-> pending'[u]]
      BY <1>3, <2>1 DEF Complete
    <3>3. taskStatus' \in [Tasks -> Statuses] /\ pending' \in [Tasks -> Nat]
      BY <3>1, <3>2
    <3>. QED
      BY <1>3, <2>1, <3>3 DEF Complete, QueueTypeOK
  <2>2. CASE t \notin running
    BY <1>3, <2>2 DEF Complete, QueueTypeOK
  <2>. QED
    BY <2>1, <2>2
<1>4. CASE Fail(t)
  BY <1>4 DEF Fail, QueueTypeOK, Statuses
<1>5. CASE FailDependents(t)
  BY <1>5 DEF FailDependents, Doomed, QueueTypeOK, Statuses
<1>. QED
  BY <1>1, <1>2, <1>3, <1>4, <1>5

-----------------------------------------------------------------------------
(* One lemma for each kind of step.                                        *)

\* Steps that change neither the queue, nor a submission, nor an executor.
LEMMA FrameStep ==
  ASSUME Inv, UNCHANGED <<queueVars, sub, worker, job>>
  PROVE  Inv'
BY DEF Inv, Linked, StatusSound, AcceptedOnly, OneHolder, DependencyOrder, Owning, queueVars

\* Steps of SubmitTask that only decide what comes next.
LEMMA DecideStep ==
  ASSUME IInv, NEW t \in Tasks, PlanSubmitted(t) \/ CheckHasCycle(t) \/ CheckDetectCycle(t)
  PROVE  IInv'
<1>. USE DEF IInv, TypeInv
<1>1. /\ UNCHANGED <<queueVars, agentVars, schedVars>>
      /\ \E from \in {"planning", "check", "detect"}, to \in {"planned", "detect", "clear", "withdraw"} :
           /\ SubmitGoes(t, from, to)
           /\ from = "planning" <=> to = "planned"
  BY DEF PlanSubmitted, CheckHasCycle, CheckDetectCycle, SubmitGoes
<1>2. TypeInv'
  BY <1>1 DEF TypeOK, QueueTypeOK, AgentTypeOK, StatusInSync, queueVars, agentVars, schedVars,
              SubmitGoes, SubmitStates
<1>3. /\ sub[t] \in {"planning", "check", "detect"}
      /\ sub'[t] \in {"planned", "detect", "clear", "withdraw"}
      /\ sub[t] = "planning" <=> sub'[t] = "planned"
      /\ \A u \in Tasks : u # t => sub'[u] = sub[u]
      /\ UNCHANGED <<need, taskStatus, pending, running, completed, gTasks, deps, worker, job>>
  BY <1>1 DEF TypeOK, queueVars, schedVars, SubmitGoes
<1>4. Linked' /\ StatusSound'
  BY <1>3 DEF Inv, Linked, StatusSound, InGraph, TypeOK, QueueTypeOK
<1>5. AcceptedOnly'
  BY <1>3 DEF Inv, AcceptedOnly
<1>6. OneHolder' /\ DependencyOrder'
  BY <1>3 DEF Inv, OneHolder, DependencyOrder, Owning
<1>. QED
  BY <1>2, <1>4, <1>5, <1>6 DEF Inv

\* The steps that begin a submission.
LEMMA BeginStep ==
  ASSUME IInv, NEW t \in Tasks, SubmitTask(t) \/ SubmitComplex(t) \/ SubmitSubtask(t)
  PROVE  IInv'
<1>. USE DEF IInv, TypeInv
<1>1. /\ UNCHANGED <<pending, running, completed, failed, gTasks, deps, rdeps, cascade,
                     agentVars, schedVars>>
      /\ \A u \in Tasks : u # t => need'[u] = need[u]
      /\ need' \in [Tasks -> SUBSET Tasks]
      /\ sub[t] = "new"
      /\ \E to \in {"add", "planning"}, s \in {"pending", "blocked"} :
           /\ sub' = [sub EXCEPT ![t] = to]
           /\ taskStatus' = [taskStatus EXCEPT ![t] = s]
           /\ s = "blocked" <=> to = "planning"
  <2>1. CASE SubmitTask(t)
    BY <2>1 DEF SubmitTask, SubmitGoes, TypeOK, QueueTypeOK
  <2>2. CASE SubmitComplex(t)
    BY <2>2 DEF SubmitComplex, SubmitGoes, TypeOK, QueueTypeOK
  <2>3. CASE SubmitSubtask(t)
    <3>1. \E p \in Tasks : t \in Plan[p]
      BY <2>3 DEF SubmitSubtask, Subtasks
    <3>2. Parent(t) \in Tasks
      BY <3>1 DEF Parent
    <3>. QED
      BY <2>3, <3>2 DEF SubmitSubtask, SubmitGoes, TypeOK, QueueTypeOK
  <2>. QED
    BY <2>1, <2>2, <2>3
<1>2. TypeInv'
  BY <1>1 DEF TypeOK, QueueTypeOK, AgentTypeOK, StatusInSync, agentVars, schedVars,
              SubmitStates, Statuses
<1>3. /\ sub'[t] \in {"add", "planning"}
      /\ taskStatus'[t] \in {"pending", "blocked"}
      /\ taskStatus'[t] = "blocked" <=> sub'[t] = "planning"
      /\ \A u \in Tasks : u # t => sub'[u] = sub[u] /\ taskStatus'[u] = taskStatus[u]
  BY <1>1 DEF TypeOK, QueueTypeOK
<1>4. t \notin gTasks /\ pending[t] = 0 /\ t \notin running
      /\ \A c \in Calls : worker[c] # "idle" => job[c] # t
  BY <1>1 DEF Inv, Linked, AcceptedOnly, InGraph, TypeOK, QueueTypeOK
<1>5. Linked' /\ StatusSound'
  BY <1>1, <1>3, <1>4 DEF Inv, Linked, StatusSound, TypeOK, QueueTypeOK
<1>6. AcceptedOnly'
  BY <1>1, <1>3, <1>4 DEF Inv, AcceptedOnly, schedVars
<1>7. OneHolder'
  BY <1>1, <1>3, <1>4 DEF Inv, OneHolder, Owning, schedVars
<1>8. DependencyOrder'
  BY <1>1, <1>4 DEF Inv, DependencyOrder
<1>. QED
  BY <1>2, <1>5, <1>6, <1>7, <1>8 DEF Inv

\* The steps that only change the graph.
LEMMA GraphStep ==
  ASSUME IInv, NEW t \in Tasks, AddTemporarily(t) \/ Withdraw(t) \/ ClearTemporary(t)
  PROVE  IInv'
<1>. USE DEF IInv, TypeInv
<1>1. /\ UNCHANGED <<need, taskStatus, pending, running, completed, failed, cascade,
                     agentVars, schedVars>>
      /\ sub[t] \in {"add", "withdraw", "clear"}
      /\ sub' \in [Tasks -> SubmitStates]
      /\ sub'[t] \in {"check", "rejected", "enqueue"}
      /\ \A u \in Tasks : u # t => sub'[u] = sub[u]
  BY DEF AddTemporarily, Withdraw, ClearTemporary, SubmitGoes, TypeOK, SubmitStates
<1>2. /\ gTasks' \in SUBSET Tasks
      /\ deps' \in [Tasks -> SUBSET Tasks]
      /\ rdeps' \in [Tasks -> SUBSET Tasks]
  BY DEF AddTemporarily, Withdraw, ClearTemporary, Add, RdepsWith, Remove, TypeOK, QueueTypeOK
<1>3. TypeInv'
  BY <1>1, <1>2 DEF TypeOK, QueueTypeOK, AgentTypeOK, StatusInSync, agentVars, schedVars
<1>4. Linked'
  <2>1. CASE AddTemporarily(t)
    BY <1>1, <2>1 DEF Inv, Linked, AddTemporarily, Add, SubmitGoes, TypeOK, QueueTypeOK, InGraph
  <2>2. CASE Withdraw(t) \/ ClearTemporary(t)
    BY <1>1, <2>2 DEF Inv, Linked, Withdraw, ClearTemporary, Remove, TypeOK, QueueTypeOK
  <2>. QED
    BY <2>1, <2>2
<1>5. StatusSound' /\ DependencyOrder'
  BY <1>1 DEF Inv, StatusSound, DependencyOrder
<1>6. AcceptedOnly'
  BY <1>1 DEF Inv, AcceptedOnly, schedVars
<1>7. OneHolder'
  BY <1>1 DEF Inv, OneHolder, Owning, schedVars
<1>. QED
  BY <1>3, <1>4, <1>5, <1>6, <1>7 DEF Inv

\* What Enqueue does, seen from the invariant.
LEMMA EnqueueEffect ==
  ASSUME QueueTypeOK, StatusSound, NEW t \in Tasks, Enqueue(t)
  PROVE  /\ UNCHANGED <<need, running, completed>>
         /\ gTasks' = gTasks \cup {t}
         /\ deps'[t] = need[t]
         /\ \A u \in Tasks : u # t => /\ deps'[u] = deps[u]
                                      /\ pending'[u] = pending[u]
                                      /\ taskStatus'[u] = taskStatus[u]
         /\ \/ pending'[t] = pending[t] + 1 /\ taskStatus'[t] = "queued" /\ need[t] \subseteq completed
            \/ pending'[t] = pending[t] /\ taskStatus'[t] = "blocked"
<1>1. AllDone(need[t], gTasks \cup {t}) => need[t] \subseteq completed
  BY DEF AllDone, StatusSound, QueueTypeOK
<1>2. UNCHANGED <<need, running, completed>> /\ gTasks' = gTasks \cup {t}
  BY DEF Enqueue, Add
<1>3. deps'[t] = need[t] /\ \A u \in Tasks : u # t => deps'[u] = deps[u]
  BY DEF Enqueue, Add, QueueTypeOK
<1>4. CASE AllDone(need[t], gTasks \cup {t})
  BY <1>1, <1>2, <1>3, <1>4 DEF Enqueue, QueueTypeOK
<1>5. CASE ~AllDone(need[t], gTasks \cup {t})
  BY <1>2, <1>3, <1>5 DEF Enqueue, QueueTypeOK
<1>. QED
  BY <1>4, <1>5

\* What Complete does with a task that is not blocked: the dependents it puts
\* into the heap are accepted, blocked, and have their dependencies completed.
LEMMA CompleteEffect ==
  ASSUME QueueTypeOK, Linked, StatusSound, NEW t \in Tasks, Complete(t), taskStatus[t] # "blocked"
  PROVE  /\ UNCHANGED <<need, gTasks, deps>>
         /\ completed \subseteq completed'
         /\ running' \subseteq running
         /\ \A u \in Tasks :
              \/ pending'[u] = pending[u] /\ taskStatus'[u] = taskStatus[u]
              \/ u \in completed' /\ pending'[u] = pending[u] /\ taskStatus'[u] = "completed"
              \/ /\ pending'[u] = pending[u] + 1
                 /\ taskStatus[u] = "blocked"
                 /\ taskStatus'[u] = "queued"
                 /\ sub[u] = "accepted"
                 /\ need[u] \subseteq completed'
<1>1. CASE t \notin running
  BY <1>1 DEF Complete
<1>2. CASE t \in running
  <2>1. t \notin Woken(t)
    BY DEF Woken
  <2>2. ASSUME NEW u \in Woken(t)
        PROVE  /\ u \in Tasks
               /\ taskStatus[u] = "blocked"
               /\ sub[u] = "accepted"
               /\ need[u] \subseteq completed \cup {t}
    <3>1. u \in gTasks /\ u \in Tasks /\ taskStatus[u] = "blocked" /\ AllDone(deps[u] \ {t}, gTasks)
      BY <2>2 DEF Woken, QueueTypeOK
    <3>2. deps[u] = need[u] /\ sub[u] = "accepted"
      BY <3>1 DEF Linked, StatusSound, InGraph
    <3>3. need[u] \subseteq completed \cup {t}
      BY <3>1, <3>2 DEF AllDone, StatusSound, QueueTypeOK
    <3>. QED
      BY <3>1, <3>2, <3>3
  <2>3. UNCHANGED <<need, gTasks, deps>> /\ completed' = completed \cup {t} /\ running' = running \ {t}
    BY <1>2 DEF Complete
  <2>4. ASSUME NEW u \in Tasks, u \in Woken(t)
        PROVE  pending'[u] = pending[u] + 1 /\ taskStatus'[u] = "queued"
    BY <1>2, <2>1, <2>4 DEF Complete
  <2>5. ASSUME NEW u \in Tasks, u \notin Woken(t)
        PROVE  /\ pending'[u] = pending[u]
               /\ taskStatus'[u] = IF u = t THEN "completed" ELSE taskStatus[u]
    BY <1>2, <2>5 DEF Complete
  <2>. QED
    BY <2>2, <2>3, <2>4, <2>5
<1>. QED
  BY <1>1, <1>2

\* The end of SubmitTask.
LEMMA EnqueueStep ==
  ASSUME IInv, NEW t \in Tasks, EnqueueSubmitted(t)
  PROVE  IInv'
<1>. USE DEF IInv, TypeInv
<1>1. /\ UNCHANGED <<agentVars, schedVars>>
      /\ Enqueue(t)
      /\ sub[t] = "enqueue"
      /\ sub' \in [Tasks -> SubmitStates]
      /\ sub'[t] = "accepted"
      /\ \A u \in Tasks : u # t => sub'[u] = sub[u]
  BY DEF EnqueueSubmitted, SubmitGoes, TypeOK, SubmitStates
<1>2. QueueTypeOK'
  BY <1>1, QueueOpTypes DEF TypeOK
<1>3. TypeInv'
  BY <1>1, <1>2 DEF TypeOK, AgentTypeOK, StatusInSync, agentVars, schedVars
<1>4. /\ UNCHANGED <<need, running, completed>>
      /\ gTasks' = gTasks \cup {t}
      /\ deps'[t] = need[t]
      /\ \A u \in Tasks : u # t => /\ deps'[u] = deps[u]
                                   /\ pending'[u] = pending[u]
                                   /\ taskStatus'[u] = taskStatus[u]
      /\ \/ pending'[t] = pending[t] + 1 /\ taskStatus'[t] = "queued" /\ need[t] \subseteq completed
         \/ pending'[t] = pending[t] /\ taskStatus'[t] = "blocked"
  BY <1>1, EnqueueEffect DEF TypeOK, Inv
<1>5. pending[t] = 0 /\ \A c \in Calls : worker[c] # "idle" => job[c] # t
  BY <1>1 DEF Inv, AcceptedOnly, TypeOK, QueueTypeOK
<1>6. Linked'
  BY <1>1, <1>4 DEF Inv, Linked, InGraph, TypeOK, QueueTypeOK
<1>7. StatusSound'
  BY <1>1, <1>4 DEF Inv, StatusSound
<1>8. AcceptedOnly'
  BY <1>1, <1>4, <1>5 DEF Inv, AcceptedOnly, schedVars
<1>9. OneHolder'
  <2>1. UNCHANGED <<worker, job>>
    BY <1>1 DEF schedVars
  <2>2. \A c \in Calls : Owning(c) => job[c] \in Tasks /\ job[c] # t
    BY <1>5 DEF Inv, AcceptedOnly, Owning
  <2>. QED
    BY <1>4, <1>5, <2>1, <2>2 DEF Inv, OneHolder, Owning
<1>10. DependencyOrder'
  BY <1>4, <1>5 DEF Inv, DependencyOrder
<1>. QED
  BY <1>3, <1>6, <1>7, <1>8, <1>9, <1>10 DEF Inv

\* The steps of a scheduling pass that assign nothing.
LEMMA PassStep ==
  ASSUME IInv, NEW a \in Agents, Tick \/ SkipLoaded(a) \/ SkipNoTask(a)
  PROVE  IInv'
<1>1. /\ UNCHANGED <<queueVars, agentVars, submitVars, assignments, load, worker, job, retries>>
      /\ todo' = Available \/ todo' = todo \ {a}
  BY DEF Tick, SkipLoaded, SkipNoTask
<1>2. TypeInv'
  BY <1>1 DEF IInv, TypeInv, TypeOK, QueueTypeOK, AgentTypeOK, StatusInSync, queueVars, agentVars,
              submitVars, Available
<1>3. Inv'
  BY <1>1, FrameStep DEF IInv, submitVars
<1>. QED
  BY <1>2, <1>3 DEF IInv

\* Dequeue and assignTask.
LEMMA AssignStep ==
  ASSUME IInv, NEW a \in Agents, NEW t \in Tasks, NEW s \in Slots, Assign(a, t, s)
  PROVE  IInv'
<1>. DEFINE c == <<a, s>>
<1>. USE DEF IInv, TypeInv
<1>0. c \in Calls
  BY DEF Calls
<1>1. /\ UNCHANGED <<agentVars, sub, need, completed, gTasks, deps>>
      /\ Dequeue(t)
      /\ pending[t] > 0
      /\ pending' = [pending EXCEPT ![t] = @ - 1]
      /\ taskStatus' = [taskStatus EXCEPT ![t] = "running"]
      /\ running' = running \cup {t}
      /\ worker[c] = "idle"
      /\ worker' = [worker EXCEPT ![c] = "execute"]
      /\ job' = [job EXCEPT ![c] = t]
  BY DEF Assign, Dequeue, submitVars
<1>2. QueueTypeOK'
  BY <1>1, QueueOpTypes DEF TypeOK
<1>3. /\ todo' \in SUBSET Agents
      /\ assignments' \in [Tasks -> Agents \cup {NoAgent}]
      /\ load' \in [Agents -> Int]
      /\ worker' \in [Calls -> WorkerStates]
      /\ job' \in [Calls -> Tasks \cup {NoTask}]
      /\ retries' = retries
  BY <1>0 DEF Assign, TypeOK, WorkerStates
<1>4. TypeInv'
  BY <1>1, <1>2, <1>3 DEF TypeOK, AgentTypeOK, StatusInSync, agentVars
<1>5. /\ worker'[c] = "execute" /\ job'[c] = t
      /\ \A d \in Calls : d # c => worker'[d] = worker[d] /\ job'[d] = job[d]
  BY <1>0, <1>1 DEF TypeOK
<1>6. /\ pending'[t] = 0 /\ pending[t] = 1
      /\ taskStatus'[t] = "running"
      /\ \A u \in Tasks : u # t => pending'[u] = pending[u] /\ taskStatus'[u] = taskStatus[u]
  BY <1>1 DEF Inv, OneHolder, TypeOK, QueueTypeOK
<1>7. Linked'
  BY <1>1 DEF Inv, Linked
<1>8. StatusSound'
  BY <1>1, <1>6 DEF Inv, StatusSound
<1>9. AcceptedOnly'
  BY <1>0, <1>1, <1>5, <1>6 DEF Inv, AcceptedOnly
<1>10. \A d \in Calls : Owning(d) => job[d] \in Tasks /\ job[d] # t
  BY <1>6 DEF Inv, OneHolder, AcceptedOnly, Owning
<1>11. \A d \in Calls : Owning(d)' <=> d = c \/ Owning(d)
  BY <1>5 DEF Owning
<1>12. OneHolder'
  BY <1>5, <1>6, <1>10, <1>11 DEF Inv, OneHolder
<1>13. DependencyOrder'
  BY <1>1, <1>6 DEF Inv, DependencyOrder
<1>. QED
  BY <1>4, <1>7, <1>8, <1>9, <1>12, <1>13 DEF Inv

\* What Fail and one call of failDependents do, seen from the invariant.
LEMMA FailEffect ==
  ASSUME QueueTypeOK, NEW t \in Tasks, Fail(t) \/ FailDependents(t)
  PROVE  /\ UNCHANGED <<need, pending, completed, gTasks, deps>>
         /\ running' \subseteq running
         /\ \A u \in Tasks : taskStatus'[u] \in {taskStatus[u], "failed"}
<1>1. CASE Fail(t)
  BY <1>1 DEF Fail, QueueTypeOK
<1>2. CASE FailDependents(t)
  BY <1>2 DEF FailDependents
<1>. QED
  BY <1>1, <1>2

\* Steps of an agent on its own.
LEMMA AgentStep ==
  ASSUME IInv,
         \/ \E c \in Calls : CallExecute(c) \/ AgentWorks(c)
         \/ \E a \in Agents : AgentManaged(a)
  PROVE  IInv'
<1>1. SyncInv
  BY DEF IInv, TypeInv, TypeOK, SyncInv
<1>2. \A c \in Calls : c[1] \in Agents /\ c[2] \in Slots
  BY DEF Calls
<1>3. SyncInv'
  BY <1>1, <1>2, EnterSound, ExecuteStepSound, LifecycleSound DEF CallExecute, AgentWorks, AgentManaged
<1>4. UNCHANGED <<queueVars, submitVars, schedVars>>
  BY DEF CallExecute, AgentWorks, AgentManaged
<1>5. TypeInv'
  BY <1>3, <1>4 DEF IInv, TypeInv, SyncInv, TypeOK, QueueTypeOK, queueVars, submitVars, schedVars
<1>6. Inv'
  BY <1>4, FrameStep DEF IInv, submitVars, schedVars
<1>. QED
  BY <1>5, <1>6 DEF IInv

\* Taking the result of Execute disturbs no agent.
LEMMA ResultTaken ==
  ASSUME TypeInv, NEW c \in Calls, TakesResult(c) \/ UNCHANGED agentVars
  PROVE  AgentTypeOK' /\ StatusInSync'
BY DEF TakesResult, TypeInv, TypeOK, AgentTypeOK, StatusInSync, CallStates, agentVars

\* An executor that owns its task: the facts the next lemmas start from.
LEMMA OwnerHolds ==
  ASSUME Inv, NEW c \in Calls, Owning(c)
  PROVE  /\ job[c] \in Tasks
         /\ sub[job[c]] = "accepted"
         /\ taskStatus[job[c]] # "blocked"
         /\ pending[job[c]] = 0
         /\ \A d \in Calls : Owning(d) /\ d # c => job[d] \in Tasks /\ job[d] # job[c]
BY DEF Inv, AcceptedOnly, OneHolder, Owning

\* The executor marks its task and goes on owning it.
LEMMA MarkStep ==
  ASSUME IInv, NEW c \in Calls, BeginVerify(c) \/ RejectResult(c)
  PROVE  IInv'
<1>. USE DEF IInv, TypeInv
<1>1. /\ UNCHANGED <<need, pending, running, completed, failed, gTasks, deps, rdeps, cascade,
                     submitVars, todo, assignments, load, job>>
      /\ Owning(c)
      /\ \E w \in {"verify", "requeue"} : worker' = [worker EXCEPT ![c] = w]
      /\ \E s \in {"verifying", "queued"} : taskStatus' = [taskStatus EXCEPT ![job[c]] = s]
      /\ retries' = retries \/ retries' = [retries EXCEPT ![job[c]] = @ + 1]
      /\ TakesResult(c) \/ UNCHANGED agentVars
  BY DEF BeginVerify, RejectResult, WorkerGoes, TakesResult, Owning
<1>2. job[c] \in Tasks
  BY <1>1, OwnerHolds
<1>3. AgentTypeOK' /\ StatusInSync'
  BY <1>1, ResultTaken
<1>4. taskStatus' \in [Tasks -> Statuses] /\ worker' \in [Calls -> WorkerStates] /\ retries' \in [Tasks -> Nat]
  BY <1>1, <1>2 DEF TypeOK, QueueTypeOK, Statuses, WorkerStates
<1>5. TypeInv'
  BY <1>1, <1>3, <1>4 DEF TypeOK, QueueTypeOK, submitVars
<1>6. /\ \A d \in Calls : Owning(d)' <=> Owning(d)
      /\ \A d \in Calls : d # c => worker'[d] = worker[d]
  BY <1>1 DEF Owning, TypeOK
<1>7. \A t \in Tasks : \/ taskStatus'[t] = taskStatus[t]
                       \/ taskStatus'[t] \in {"verifying", "queued"}
  BY <1>1 DEF TypeOK, QueueTypeOK
<1>8. Linked' /\ DependencyOrder'
  BY <1>1 DEF Inv, Linked, DependencyOrder, submitVars
<1>9. StatusSound'
  BY <1>1, <1>7 DEF Inv, StatusSound, submitVars
<1>10. AcceptedOnly'
  BY <1>1, <1>6 DEF Inv, AcceptedOnly, Owning, submitVars
<1>11. OneHolder'
  BY <1>1, <1>6, <1>7 DEF Inv, OneHolder
<1>. QED
  BY <1>5, <1>8, <1>9, <1>10, <1>11 DEF Inv

\* The executor stops owning its task.
LEMMA WorkerLeaves ==
  ASSUME TypeOK, NEW c \in Calls, NEW w \in {"cleanup", "cascade"}, WorkerGoes(c, w)
  PROVE  /\ worker' \in [Calls -> WorkerStates]
         /\ \A d \in Calls : Owning(d)' <=> Owning(d) /\ d # c
         /\ \A d \in Calls : d # c => worker'[d] = worker[d]
BY DEF WorkerGoes, Owning, TypeOK, WorkerStates

\* Complete.
LEMMA CompleteStep ==
  ASSUME IInv, NEW c \in Calls, CompleteUnverified(c) \/ CompleteVerified(c)
  PROVE  IInv'
<1>. USE DEF IInv, TypeInv
<1>1. /\ UNCHANGED <<submitVars, todo, assignments, load, job, retries>>
      /\ Complete(job[c])
      /\ Owning(c)
      /\ WorkerGoes(c, "cleanup")
      /\ TakesResult(c) \/ UNCHANGED agentVars
  BY DEF CompleteUnverified, CompleteVerified, TakesResult, Owning
<1>2. /\ job[c] \in Tasks
      /\ taskStatus[job[c]] # "blocked"
  BY <1>1, OwnerHolds
<1>3. AgentTypeOK' /\ StatusInSync'
  BY <1>1, ResultTaken
<1>4. QueueTypeOK'
  BY <1>1, <1>2, QueueOpTypes DEF TypeOK
<1>5. /\ worker' \in [Calls -> WorkerStates]
      /\ \A d \in Calls : Owning(d)' <=> Owning(d) /\ d # c
      /\ \A d \in Calls : d # c => worker'[d] = worker[d]
  BY <1>1, WorkerLeaves
<1>6. TypeInv'
  BY <1>1, <1>3, <1>4, <1>5 DEF TypeOK, submitVars
<1>7. /\ UNCHANGED <<need, gTasks, deps>>
      /\ completed \subseteq completed'
      /\ running' \subseteq running
      /\ \A u \in Tasks :
           \/ pending'[u] = pending[u] /\ taskStatus'[u] = taskStatus[u]
           \/ u \in completed' /\ pending'[u] = pending[u] /\ taskStatus'[u] = "completed"
           \/ /\ pending'[u] = pending[u] + 1
              /\ taskStatus[u] = "blocked"
              /\ taskStatus'[u] = "queued"
              /\ sub[u] = "accepted"
              /\ need[u] \subseteq completed'
  BY <1>1, <1>2, CompleteEffect DEF TypeOK, Inv
<1>8. Linked'
  BY <1>1, <1>7 DEF Inv, Linked, submitVars
<1>9. StatusSound'
  BY <1>1, <1>7 DEF Inv, StatusSound, submitVars
<1>10. AcceptedOnly'
  <2>1. \A t \in Tasks : pending'[t] > 0 \/ t \in running' => sub[t] = "accepted"
    BY <1>7 DEF Inv, AcceptedOnly
  <2>2. \A d \in Calls : worker'[d] # "idle" => worker[d] # "idle"
    BY <1>1, <1>5 DEF Owning
  <2>. QED
    BY <1>1, <2>1, <2>2 DEF Inv, AcceptedOnly, submitVars
<1>11. OneHolder'
  <2>1. \A d \in Calls : Owning(d) => job[d] \in Tasks
    BY DEF Inv, AcceptedOnly, Owning
  <2>2. \A t \in Tasks : pending'[t] # pending[t] =>
          pending'[t] = 1 /\ \A d \in Calls : Owning(d) => job[d] # t
    BY <1>7 DEF Inv, OneHolder
  <2>3. \A t \in Tasks : taskStatus'[t] = "blocked" =>
          taskStatus[t] = "blocked" /\ pending'[t] = pending[t]
    BY <1>7
  <2>. QED
    BY <1>1, <1>5, <2>1, <2>2, <2>3 DEF Inv, OneHolder
<1>12. DependencyOrder'
  BY <1>7 DEF Inv, DependencyOrder
<1>. QED
  BY <1>6, <1>8, <1>9, <1>10, <1>11, <1>12 DEF Inv

\* A task whose verification failed goes back to the queue.
LEMMA RequeueStep ==
  ASSUME IInv, NEW c \in Calls, Requeue(c)
  PROVE  IInv'
<1>. USE DEF IInv, TypeInv
<1>. DEFINE t == job[c]
<1>1. /\ UNCHANGED <<agentVars, submitVars, todo, assignments, load, job, retries>>
      /\ Enqueue(t)
      /\ Owning(c)
      /\ WorkerGoes(c, "cleanup")
  BY DEF Requeue, Owning
<1>2. /\ t \in Tasks
      /\ sub[t] = "accepted"
      /\ pending[t] = 0
      /\ \A d \in Calls : Owning(d) /\ d # c => job[d] \in Tasks /\ job[d] # t
  BY <1>1, OwnerHolds
<1>3. AgentTypeOK' /\ StatusInSync'
  BY <1>1, ResultTaken
<1>4. QueueTypeOK'
  BY <1>1, <1>2, QueueOpTypes DEF TypeOK
<1>5. /\ worker' \in [Calls -> WorkerStates]
      /\ \A d \in Calls : Owning(d)' <=> Owning(d) /\ d # c
      /\ \A d \in Calls : d # c => worker'[d] = worker[d]
  BY <1>1, WorkerLeaves
<1>6. TypeInv'
  BY <1>1, <1>3, <1>4, <1>5 DEF TypeOK, submitVars
<1>7. /\ UNCHANGED <<need, running, completed>>
      /\ gTasks' = gTasks \cup {t}
      /\ deps'[t] = need[t]
      /\ \A u \in Tasks : u # t => /\ deps'[u] = deps[u]
                                   /\ pending'[u] = pending[u]
                                   /\ taskStatus'[u] = taskStatus[u]
      /\ \/ pending'[t] = pending[t] + 1 /\ taskStatus'[t] = "queued" /\ need[t] \subseteq completed
         \/ pending'[t] = pending[t] /\ taskStatus'[t] = "blocked"
  BY <1>1, <1>2, EnqueueEffect DEF TypeOK, Inv
<1>8. Linked'
  BY <1>1, <1>2, <1>7 DEF Inv, Linked, InGraph, submitVars, TypeOK, QueueTypeOK
<1>9. StatusSound'
  BY <1>1, <1>2, <1>7 DEF Inv, StatusSound, submitVars
<1>10. AcceptedOnly'
  <2>1. \A u \in Tasks : pending'[u] > 0 \/ u \in running' => sub[u] = "accepted"
    BY <1>2, <1>7 DEF Inv, AcceptedOnly
  <2>2. \A d \in Calls : worker'[d] # "idle" => worker[d] # "idle"
    BY <1>1, <1>5 DEF Owning
  <2>. QED
    BY <1>1, <2>1, <2>2 DEF Inv, AcceptedOnly, submitVars
<1>11. OneHolder'
  BY <1>1, <1>2, <1>5, <1>7 DEF Inv, OneHolder
<1>12. DependencyOrder'
  BY <1>2, <1>7 DEF Inv, DependencyOrder
<1>. QED
  BY <1>6, <1>8, <1>9, <1>10, <1>11, <1>12 DEF Inv

\* Fail, and the calls of failDependents it makes.
LEMMA FailStep ==
  ASSUME IInv, NEW c \in Calls, FailExecution(c) \/ FailVerification(c) \/ FailCascades(c)
  PROVE  IInv'
<1>. USE DEF IInv, TypeInv
<1>1. /\ UNCHANGED <<submitVars, todo, assignments, load, job, retries>>
      /\ TakesResult(c) \/ UNCHANGED agentVars
      /\ (Owning(c) /\ Fail(job[c])) \/ (\E x \in cascade : FailDependents(x))
      /\ worker[c] # "idle"
      /\ UNCHANGED worker \/ \E w \in {"cleanup", "cascade"} : WorkerGoes(c, w)
  BY DEF FailExecution, FailVerification, FailCascades, FailTask, TakesResult, Owning
<1>2. \E t \in Tasks : Fail(t) \/ FailDependents(t)
  BY <1>1, OwnerHolds DEF TypeOK, QueueTypeOK
<1>3. AgentTypeOK' /\ StatusInSync'
  BY <1>1, ResultTaken
<1>4. QueueTypeOK'
  BY <1>2, QueueOpTypes DEF TypeOK
<1>5. /\ worker' \in [Calls -> WorkerStates]
      /\ \A d \in Calls : Owning(d)' => Owning(d)
      /\ \A d \in Calls : worker'[d] # "idle" => worker[d] # "idle"
  <2>1. CASE UNCHANGED worker
    BY <2>1 DEF TypeOK, Owning
  <2>2. CASE \E w \in {"cleanup", "cascade"} : WorkerGoes(c, w)
    BY <1>1, <2>2, WorkerLeaves
  <2>. QED
    BY <1>1, <2>1, <2>2
<1>6. TypeInv'
  BY <1>1, <1>3, <1>4, <1>5 DEF TypeOK, submitVars
<1>7. /\ UNCHANGED <<need, pending, completed, gTasks, deps>>
      /\ running' \subseteq running
      /\ \A u \in Tasks : taskStatus'[u] \in {taskStatus[u], "failed"}
  BY <1>2, FailEffect DEF TypeOK
<1>8. Linked' /\ DependencyOrder'
  BY <1>1, <1>7 DEF Inv, Linked, DependencyOrder, submitVars
<1>9. StatusSound'
  BY <1>1, <1>7 DEF Inv, StatusSound, submitVars
<1>10. AcceptedOnly'
  BY <1>1, <1>5, <1>7 DEF Inv, AcceptedOnly, submitVars
<1>11. OneHolder'
  BY <1>1, <1>5, <1>7 DEF Inv, OneHolder
<1>. QED
  BY <1>6, <1>8, <1>9, <1>10, <1>11 DEF Inv

\* The deferred function of an executor.
LEMMA CleanupStep ==
  ASSUME IInv, NEW c \in Calls, Cleanup(c)
  PROVE  IInv'
<1>. USE DEF IInv, TypeInv
<1>1. /\ UNCHANGED <<queueVars, agentVars, submitVars, todo, retries>>
      /\ worker[c] = "cleanup"
      /\ worker' = [worker EXCEPT ![c] = "idle"]
      /\ job' = [job EXCEPT ![c] = NoTask]
  BY DEF Cleanup, WorkerGoes
<1>2. job[c] \in Tasks /\ c[1] \in Agents
  BY <1>1 DEF Inv, AcceptedOnly, Calls
<1>3. /\ load' \in [Agents -> Int]
      /\ assignments' \in [Tasks -> Agents \cup {NoAgent}]
  BY <1>2 DEF Cleanup, TypeOK
<1>4. TypeInv'
  BY <1>1, <1>3 DEF TypeOK, QueueTypeOK, AgentTypeOK, StatusInSync, queueVars, agentVars,
                    submitVars, WorkerStates
<1>5. /\ worker'[c] = "idle"
      /\ \A d \in Calls : d # c => worker'[d] = worker[d] /\ job'[d] = job[d]
  BY <1>1 DEF TypeOK
<1>6. \A d \in Calls : Owning(d)' <=> Owning(d) /\ d # c
  BY <1>1, <1>5 DEF Owning
<1>7. Linked' /\ StatusSound' /\ DependencyOrder'
  BY <1>1 DEF Inv, Linked, StatusSound, DependencyOrder, queueVars, submitVars
<1>8. AcceptedOnly'
  BY <1>1, <1>5 DEF Inv, AcceptedOnly, queueVars, submitVars
<1>9. OneHolder'
  BY <1>1, <1>5, <1>6 DEF Inv, OneHolder, queueVars
<1>. QED
  BY <1>4, <1>7, <1>8, <1>9 DEF Inv

-----------------------------------------------------------------------------
(* The invariant.                                                          *)

\* The program starts in a state that satisfies the invariant.
LEMMA InitInvariant == Init => IInv
<1>. SUFFICES ASSUME Init PROVE IInv
  OBVIOUS
<1>1. TypeInv
  BY QueueAssumption DEF Init, QueueInit, AgentIdle, TypeInv, TypeOK, QueueTypeOK, AgentTypeOK,
     StatusInSync, AgentStatuses, CallStates, SubmitStates, WorkerStates, Statuses
<1>2. Inv
  BY DEF Init, QueueInit, Inv, Linked, StatusSound, AcceptedOnly, OneHolder, DependencyOrder, Owning
<1>. QED
  BY <1>1, <1>2 DEF IInv

\* Every step of the system keeps the invariant.
LEMMA NextInvariant == IInv /\ [Next]_vars => IInv'
<1>. SUFFICES ASSUME IInv, [Next]_vars PROVE IInv'
  OBVIOUS
<1>1. CASE UNCHANGED vars
  <2>1. TypeInv'
    BY <1>1 DEF vars, queueVars, agentVars, submitVars, schedVars, IInv, TypeInv, TypeOK,
                QueueTypeOK, AgentTypeOK, StatusInSync
  <2>2. Inv'
    BY <1>1, FrameStep DEF vars, submitVars, schedVars, IInv
  <2>. QED
    BY <2>1, <2>2 DEF IInv
<1>2. ASSUME NEW t \in Tasks, SubmitNew(t) \/ SubmitStep(t)
      PROVE  IInv'
  BY <1>2, BeginStep, DecideStep, GraphStep, EnqueueStep DEF SubmitNew, SubmitStep
<1>3. CASE SchedulePass
  <2>1. CASE Tick
    <3>1. \E a \in Agents : TRUE
      BY <2>1 DEF Tick, Available
    <3>. QED
      BY <2>1, <3>1, PassStep
  <2>2. ASSUME NEW a \in Agents, SkipLoaded(a) \/ SkipNoTask(a)
        PROVE  IInv'
    BY <2>2, PassStep
  <2>3. ASSUME NEW a \in Agents, NEW t \in Tasks, NEW s \in Slots, Assign(a, t, s)
        PROVE  IInv'
    BY <2>3, AssignStep
  <2>. QED
    BY <1>3, <2>1, <2>2, <2>3 DEF SchedulePass
<1>4. ASSUME NEW c \in Calls, WorkerStep(c)
      PROVE  IInv'
  <2>1. CASE CallExecute(c) \/ AgentWorks(c)
    BY <2>1, AgentStep
  <2>2. CASE BeginVerify(c) \/ RejectResult(c)
    BY <2>2, MarkStep
  <2>3. CASE CompleteUnverified(c) \/ CompleteVerified(c)
    BY <2>3, CompleteStep
  <2>4. CASE Requeue(c)
    BY <2>4, RequeueStep
  <2>5. CASE FailExecution(c) \/ FailVerification(c) \/ FailCascades(c)
    BY <2>5, FailStep
  <2>. QED
    BY <1>4, <2>1, <2>2, <2>3, <2>4, <2>5 DEF WorkerStep
<1>5. ASSUME NEW c \in Calls, Cleanup(c)
      PROVE  IInv'
  BY <1>5, CleanupStep
<1>6. ASSUME NEW a \in Agents, AgentManaged(a)
      PROVE  IInv'
  BY <1>6, AgentStep
<1>. QED
  BY <1>1, <1>2, <1>3, <1>4, <1>5, <1>6 DEF Next

\* The inductive invariant holds in every reachable state.
THEOREM InductiveInvariant == Spec => []IInv
BY InitInvariant, NextInvariant, PTL DEF Spec

-----------------------------------------------------------------------------
(* What follows from it.                                                   *)

\* Every variable of the composed system keeps its type, and the two copies of
\* each agent's status stay equal while executors drive the agents.
THEOREM OrchestratorTyped == Spec => [](TypeOK /\ StatusInSync)
<1>1. IInv => TypeOK /\ StatusInSync
  BY DEF IInv, TypeInv
<1>. QED
  BY <1>1, InductiveInvariant, PTL

\* No task reaches the heap or an executor before its dependencies are
\* completed, for any dependencies, callers, retries and failures.
THEOREM DependenciesComeFirst == Spec => []DependencyOrder
<1>1. IInv => DependencyOrder
  BY DEF IInv, Inv
<1>. QED
  BY <1>1, InductiveInvariant, PTL

\* A task is in the heap or with one executor, never both or twice.
THEOREM DispatchedOnce == Spec => []SingleDispatch
<1>1. IInv => SingleDispatch
  <2>. SUFFICES ASSUME IInv, NEW t \in Tasks
                PROVE  pending[t] + Cardinality(Owners(t)) <= 1
    BY DEF SingleDispatch
  <2>. USE DEF IInv, TypeInv, Inv
  <2>1. pending[t] \in {0, 1}
    BY DEF OneHolder, TypeOK, QueueTypeOK
  <2>2. CASE Owners(t) = {}
    BY <2>1, <2>2, FS_EmptySet
  <2>3. CASE Owners(t) # {}
    <3>1. PICK c \in Calls : c \in Owners(t)
      BY <2>3 DEF Owners
    <3>2. Owners(t) = {c} /\ pending[t] = 0
      BY <3>1 DEF Owners, Owning, OneHolder
    <3>3. Cardinality(Owners(t)) = 1
      BY <3>2, FS_Singleton
    <3>. QED
      BY <3>2, <3>3
  <2>. QED
    BY <2>2, <2>3
<1>. QED
  BY <1>1, InductiveInvariant, PTL

-----------------------------------------------------------------------------
(* Loads and assignments.                                                  *)

\* The executors of an agent are finitely many, whatever Slots is.
LoadInv == LoadIsExact /\ \A a \in Agents : IsFiniteSet(Live(a))

\* Steps that start and end no executor.
LEMMA LoadFrame ==
  ASSUME TypeOK, LoadInv, UNCHANGED <<assignments, load, job>>,
         \A c \in Calls : worker'[c] = "idle" <=> worker[c] = "idle"
  PROVE  LoadInv'
<1>1. \A a \in Agents, s \in Slots : worker'[<<a, s>>] = "idle" <=> worker[<<a, s>>] = "idle"
  BY DEF Calls
<1>2. \A a \in Agents : Live(a)' = Live(a)
  BY <1>1 DEF Live
<1>3. ASSUME NEW t \in Tasks, assignments'[t] # NoAgent
      PROVE  \E s \in Slots : worker'[<<assignments'[t], s>>] # "idle" /\ job'[<<assignments'[t], s>>] = t
  <2>1. assignments[t] \in Agents
    BY <1>3 DEF TypeOK
  <2>. QED
    BY <1>1, <1>3, <2>1 DEF LoadInv, LoadIsExact
<1>. QED
  BY <1>2, <1>3 DEF LoadInv, LoadIsExact

\* assignTask takes a free slot of an agent below the limit.
LEMMA LoadAssign ==
  ASSUME TypeOK, LoadInv, NEW a \in Agents, NEW t \in Tasks, NEW s \in Slots, Assign(a, t, s)
  PROVE  LoadInv'
<1>1. /\ load[a] < MaxConcurrent
      /\ worker[<<a, s>>] = "idle"
      /\ assignments' = [assignments EXCEPT ![t] = a]
      /\ load' = [load EXCEPT ![a] = @ + 1]
      /\ worker' = [worker EXCEPT ![<<a, s>>] = "execute"]
      /\ job' = [job EXCEPT ![<<a, s>>] = t]
  BY DEF Assign
<1>2. \A b \in Agents, r \in Slots :
        <<b, r>> # <<a, s>> => /\ worker'[<<b, r>>] = worker[<<b, r>>]
                               /\ job'[<<b, r>>] = job[<<b, r>>]
  BY <1>1 DEF TypeOK, Calls
<1>3. worker'[<<a, s>>] = "execute" /\ job'[<<a, s>>] = t
  BY <1>1 DEF TypeOK, Calls
<1>4. Live(a)' = Live(a) \cup {s} /\ s \notin Live(a)
  BY <1>1, <1>2, <1>3 DEF Live
<1>5. \A b \in Agents : b # a => Live(b)' = Live(b)
  BY <1>2 DEF Live
<1>6. IsFiniteSet(Live(a)') /\ Cardinality(Live(a)') = Cardinality(Live(a)) + 1
  BY <1>4, FS_AddElement DEF LoadInv
<1>7. \A b \in Agents : /\ IsFiniteSet(Live(b)')
                        /\ load'[b] = Cardinality(Live(b)') /\ load'[b] <= MaxConcurrent
  BY <1>1, <1>5, <1>6, OrchestratorAssumption DEF LoadInv, LoadIsExact, TypeOK
<1>8. ASSUME NEW u \in Tasks, assignments'[u] # NoAgent
      PROVE  \E r \in Slots : worker'[<<assignments'[u], r>>] # "idle" /\ job'[<<assignments'[u], r>>] = u
  <2>1. CASE u = t
    BY <1>1, <1>3, <2>1 DEF TypeOK
  <2>2. CASE u # t
    <3>1. assignments'[u] = assignments[u] /\ assignments[u] \in Agents
      BY <1>1, <1>8, <2>2 DEF TypeOK
    <3>2. PICK r \in Slots : worker[<<assignments[u], r>>] # "idle" /\ job[<<assignments[u], r>>] = u
      BY <1>8, <3>1 DEF LoadInv, LoadIsExact
    <3>3. <<assignments[u], r>> # <<a, s>>
      BY <1>1, <3>2
    <3>. QED
      BY <1>2, <3>1, <3>2, <3>3
  <2>. QED
    BY <2>1, <2>2
<1>. QED
  BY <1>7, <1>8 DEF LoadInv, LoadIsExact

\* The deferred cleanup gives the unit back, and deletes the assignment that may
\* be backed by this executor.
LEMMA LoadCleanup ==
  ASSUME IInv, LoadInv, NEW c \in Calls, Cleanup(c)
  PROVE  LoadInv'
<1>. USE DEF IInv, TypeInv
<1>1. PICK a \in Agents, s \in Slots : c = <<a, s>>
  BY DEF Calls
<1>2. /\ worker[c] = "cleanup"
      /\ load' = [load EXCEPT ![a] = @ - 1]
      /\ assignments' = [assignments EXCEPT ![job[c]] = NoAgent]
      /\ worker' = [worker EXCEPT ![c] = "idle"]
      /\ job' = [job EXCEPT ![c] = NoTask]
  BY <1>1 DEF Cleanup, WorkerGoes
<1>3. job[c] \in Tasks
  BY <1>2 DEF Inv, AcceptedOnly
<1>4. \A b \in Agents, r \in Slots :
        <<b, r>> # c => worker'[<<b, r>>] = worker[<<b, r>>] /\ job'[<<b, r>>] = job[<<b, r>>]
  BY <1>2 DEF TypeOK, Calls
<1>5. worker'[c] = "idle"
  BY <1>2 DEF TypeOK
<1>6. Live(a)' = Live(a) \ {s} /\ s \in Live(a)
  BY <1>1, <1>2, <1>4, <1>5 DEF Live
<1>7. \A b \in Agents : b # a => Live(b)' = Live(b)
  BY <1>1, <1>4 DEF Live
<1>8. /\ IsFiniteSet(Live(a)') /\ Cardinality(Live(a)') = Cardinality(Live(a)) - 1
      /\ Cardinality(Live(a)) \in Nat
  BY <1>6, FS_RemoveElement, FS_CardinalityType DEF LoadInv
<1>9. \A b \in Agents : /\ IsFiniteSet(Live(b)')
                        /\ load'[b] = Cardinality(Live(b)') /\ load'[b] <= MaxConcurrent
  BY <1>2, <1>7, <1>8, OrchestratorAssumption DEF LoadInv, LoadIsExact, TypeOK
<1>10. ASSUME NEW u \in Tasks, assignments'[u] # NoAgent
       PROVE  \E r \in Slots : worker'[<<assignments'[u], r>>] # "idle" /\ job'[<<assignments'[u], r>>] = u
  <2>1. u # job[c] /\ assignments'[u] = assignments[u] /\ assignments[u] \in Agents
    BY <1>2, <1>3, <1>10 DEF TypeOK
  <2>2. PICK r \in Slots : worker[<<assignments[u], r>>] # "idle" /\ job[<<assignments[u], r>>] = u
    BY <1>10, <2>1 DEF LoadInv, LoadIsExact
  <2>. QED
    BY <1>4, <2>1, <2>2
<1>. QED
  BY <1>9, <1>10 DEF LoadInv, LoadIsExact

\* The load of an agent is the number of its executors and stays within the
\* limit, and an assignment has an executor, for any agents, tasks and limits.
THEOREM LoadAlwaysExact == Spec => []LoadIsExact
<1>1. Init => LoadInv
  <2>. SUFFICES ASSUME Init PROVE LoadInv
    OBVIOUS
  <2>1. \A a \in Agents : Live(a) = {}
    BY DEF Init, Live, Calls
  <2>2. \A a \in Agents : IsFiniteSet(Live(a)) /\ Cardinality(Live(a)) = 0
    BY <2>1, FS_EmptySet
  <2>3. \A a \in Agents : load[a] = 0 /\ 0 <= MaxConcurrent
    BY OrchestratorAssumption DEF Init
  <2>4. \A t \in Tasks : assignments[t] = NoAgent
    BY DEF Init
  <2>. QED
    BY <2>2, <2>3, <2>4 DEF LoadInv, LoadIsExact
<1>2. IInv /\ LoadInv /\ [Next]_vars => LoadInv'
  <2>. SUFFICES ASSUME IInv, LoadInv, [Next]_vars PROVE LoadInv'
    OBVIOUS
  <2>. USE DEF IInv, TypeInv
  <2>1. CASE UNCHANGED vars
    BY <2>1, LoadFrame DEF vars, schedVars
  <2>2. ASSUME NEW t \in Tasks, SubmitNew(t) \/ SubmitStep(t) PROVE LoadInv'
    <3>1. UNCHANGED schedVars
      BY <2>2 DEF SubmitNew, SubmitStep, SubmitTask, SubmitComplex, SubmitSubtask, PlanSubmitted,
           AddTemporarily, CheckHasCycle, CheckDetectCycle, Withdraw, ClearTemporary, EnqueueSubmitted
    <3>. QED
      BY <3>1, LoadFrame DEF schedVars
  <2>3. CASE SchedulePass
    <3>1. CASE Tick \/ \E a \in Agents : SkipLoaded(a) \/ SkipNoTask(a)
      BY <3>1, LoadFrame DEF Tick, SkipLoaded, SkipNoTask
    <3>2. ASSUME NEW a \in Agents, NEW t \in Tasks, NEW s \in Slots, Assign(a, t, s) PROVE LoadInv'
      BY <3>2, LoadAssign
    <3>. QED
      BY <2>3, <3>1, <3>2 DEF SchedulePass
  <2>4. ASSUME NEW c \in Calls, WorkerStep(c) PROVE LoadInv'
    <3>1. CASE CallExecute(c) \/ AgentWorks(c)
      BY <3>1, LoadFrame DEF CallExecute, AgentWorks, schedVars
    <3>2. CASE ~(CallExecute(c) \/ AgentWorks(c))
      <4>1. /\ UNCHANGED <<assignments, load, job>>
            /\ worker[c] # "idle"
            /\ UNCHANGED worker \/ \E w \in WorkerStates \ {"idle"} : WorkerGoes(c, w)
        BY <2>4, <3>2 DEF WorkerStep, BeginVerify, CompleteUnverified, CompleteVerified, RejectResult,
             Requeue, FailExecution, FailVerification, FailCascades, FailTask, TakesResult, WorkerStates
      <4>2. \A d \in Calls : worker'[d] = "idle" <=> worker[d] = "idle"
        BY <4>1 DEF WorkerGoes, TypeOK
      <4>. QED
        BY <4>1, <4>2, LoadFrame
    <3>. QED
      BY <3>1, <3>2
  <2>5. ASSUME NEW c \in Calls, Cleanup(c) PROVE LoadInv'
    BY <2>5, LoadCleanup
  <2>6. ASSUME NEW a \in Agents, AgentManaged(a) PROVE LoadInv'
    BY <2>6, LoadFrame DEF AgentManaged, schedVars
  <2>. QED
    BY <2>1, <2>2, <2>3, <2>4, <2>5, <2>6 DEF Next
<1>3. LoadInv => LoadIsExact
  BY DEF LoadInv
<1>. QED
  BY <1>1, <1>2, <1>3, InductiveInvariant, PTL DEF Spec

-----------------------------------------------------------------------------
(* The books of the queue.                                                 *)

\* Reverse edges stand for dependencies, and an accepted task stays in the graph.
GraphBooks ==
  /\ \A x \in Tasks : \A u \in rdeps[x] : x \in need[u]
  /\ \A t \in Tasks : sub[t] = "accepted" => t \in gTasks

CompletedFinal ==
  \A t \in completed : /\ taskStatus[t] = "completed" /\ sub[t] = "accepted"
                       /\ t \notin failed /\ t \notin running /\ pending[t] = 0

\* A failed task has failed itself, or will never be ready because another has.
FailedFinal ==
  \A t \in failed : /\ sub[t] # "new" /\ t \notin running /\ pending[t] = 0
                    /\ \/ need[t] \cap failed # {}
                       \/ sub[t] = "accepted" /\ taskStatus[t] # "blocked"

\* A running task is with the executor that owns it, or back in the heap.
RunningSound ==
  /\ \A c \in Calls : Owning(c) => job[c] \in running
  /\ \A t \in running : /\ taskStatus[t] # "blocked"
                        /\ pending[t] > 0 \/ \E c \in Calls : Owning(c) /\ job[c] = t
  /\ cascade \subseteq failed

BooksInv == GraphBooks /\ CompletedFinal /\ FailedFinal /\ RunningSound

\* Steps that change neither the queue nor a submission, nor who owns a task.
LEMMA BooksFrame ==
  ASSUME BooksInv, UNCHANGED <<queueVars, sub>>,
         \A c \in Calls : (Owning(c)' <=> Owning(c)) /\ (Owning(c) => job'[c] = job[c])
  PROVE  BooksInv'
<1>1. GraphBooks' /\ CompletedFinal' /\ FailedFinal'
  BY DEF BooksInv, GraphBooks, CompletedFinal, FailedFinal, queueVars
<1>2. RunningSound'
  BY DEF BooksInv, RunningSound, queueVars
<1>. QED
  BY <1>1, <1>2 DEF BooksInv

\* What the steps of SubmitTask up to Enqueue do besides changing the graph.
LEMMA SubmitEffect ==
  ASSUME TypeOK, NEW t \in Tasks,
         SubmitNew(t) \/ (SubmitStep(t) /\ ~EnqueueSubmitted(t))
  PROVE  /\ UNCHANGED <<pending, running, completed, failed, cascade, worker, job>>
         /\ \A u \in Tasks : u # t => /\ sub'[u] = sub[u]
                                      /\ taskStatus'[u] = taskStatus[u]
                                      /\ need'[u] = need[u]
         /\ need[t] \subseteq need'[t]
         /\ sub[t] # "accepted" /\ sub'[t] \notin {"new", "accepted"}
         /\ sub[t] = "new" \/ (taskStatus'[t] = taskStatus[t] /\ need'[t] = need[t])
<1>1. CASE SubmitTask(t) \/ SubmitComplex(t) \/ SubmitSubtask(t)
  <2>1. /\ UNCHANGED <<pending, running, completed, failed, cascade, worker, job>>
        /\ sub[t] = "new"
        /\ \E to \in {"add", "planning"}, s \in {"pending", "blocked"} :
             /\ sub' = [sub EXCEPT ![t] = to]
             /\ taskStatus' = [taskStatus EXCEPT ![t] = s]
        /\ need' = need \/ need' = [need EXCEPT ![t] = @ \cup {Parent(t)}]
    BY <1>1 DEF SubmitTask, SubmitComplex, SubmitSubtask, SubmitGoes, schedVars
  <2>. QED
    BY <2>1 DEF TypeOK, QueueTypeOK
<1>2. CASE \/ PlanSubmitted(t) \/ AddTemporarily(t) \/ CheckHasCycle(t)
           \/ CheckDetectCycle(t) \/ Withdraw(t) \/ ClearTemporary(t)
  <2>1. /\ UNCHANGED <<need, taskStatus, pending, running, completed, failed, cascade, worker, job>>
        /\ \E from \in {"planning", "add", "check", "detect", "withdraw", "clear"},
             to \in {"planned", "check", "detect", "clear", "withdraw", "rejected", "enqueue"} :
             SubmitGoes(t, from, to)
    BY <1>2 DEF PlanSubmitted, AddTemporarily, CheckHasCycle, CheckDetectCycle, Withdraw,
         ClearTemporary, SubmitGoes, queueVars, schedVars
  <2>. QED
    BY <2>1 DEF SubmitGoes, TypeOK
<1>. QED
  BY <1>1, <1>2 DEF SubmitNew, SubmitStep

\* The steps of SubmitTask up to Enqueue.
LEMMA BooksSubmit ==
  ASSUME IInv, BooksInv, NEW t \in Tasks,
         SubmitNew(t) \/ (SubmitStep(t) /\ ~EnqueueSubmitted(t))
  PROVE  BooksInv'
<1>. USE DEF IInv, TypeInv
<1>1. /\ UNCHANGED <<pending, running, completed, failed, cascade, worker, job>>
      /\ \A u \in Tasks : u # t => sub'[u] = sub[u] /\ taskStatus'[u] = taskStatus[u]
      /\ \A u \in Tasks : need[u] \subseteq need'[u]
      /\ sub[t] # "accepted" /\ sub'[t] \notin {"new", "accepted"}
      /\ sub[t] = "new" \/ taskStatus'[t] = taskStatus[t]
  BY SubmitEffect
<1>2. /\ gTasks \ {t} \subseteq gTasks'
      /\ \A x \in Tasks : \A u \in rdeps'[x] : u \in rdeps[x] \/ x \in need[u]
  BY DEF SubmitNew, SubmitStep, SubmitTask, SubmitComplex, SubmitSubtask, PlanSubmitted,
     AddTemporarily, CheckHasCycle, CheckDetectCycle, Withdraw, ClearTemporary, queueVars,
     Add, RdepsWith, Remove, TypeOK, QueueTypeOK
<1>3. \A x \in Tasks : rdeps'[x] \subseteq Tasks
  BY NextInvariant DEF Next, TypeOK, QueueTypeOK
<1>4. t \notin completed /\ t \notin running
  BY <1>1 DEF BooksInv, CompletedFinal, Inv, AcceptedOnly
<1>5. GraphBooks'
  BY <1>1, <1>2, <1>3 DEF BooksInv, GraphBooks, TypeOK, QueueTypeOK
<1>6. CompletedFinal'
  BY <1>1, <1>4 DEF BooksInv, CompletedFinal, TypeOK, QueueTypeOK
<1>7. FailedFinal'
  BY <1>1 DEF BooksInv, FailedFinal, TypeOK, QueueTypeOK
<1>8. RunningSound'
  BY <1>1, <1>4 DEF BooksInv, RunningSound, Owning, TypeOK, QueueTypeOK
<1>. QED
  BY <1>5, <1>6, <1>7, <1>8 DEF BooksInv

\* Enqueue, by SubmitTask: a task that failed meanwhile is not ready.
LEMMA BooksEnqueue ==
  ASSUME IInv, BooksInv, NEW t \in Tasks, EnqueueSubmitted(t)
  PROVE  BooksInv'
<1>. USE DEF IInv, TypeInv
<1>1. /\ UNCHANGED <<failed, cascade, worker, job>>
      /\ rdeps' = RdepsWith(t)
      /\ sub[t] = "enqueue" /\ sub'[t] = "accepted"
      /\ \A u \in Tasks : u # t => sub'[u] = sub[u]
  BY DEF EnqueueSubmitted, SubmitGoes, Enqueue, Add, schedVars, TypeOK
<1>2. /\ UNCHANGED <<need, running, completed>>
      /\ gTasks' = gTasks \cup {t}
      /\ \A u \in Tasks : u # t => /\ pending'[u] = pending[u]
                                   /\ taskStatus'[u] = taskStatus[u]
      /\ \/ pending'[t] = pending[t] + 1 /\ taskStatus'[t] = "queued" /\ need[t] \subseteq completed
         \/ pending'[t] = pending[t] /\ taskStatus'[t] = "blocked"
  BY EnqueueEffect DEF EnqueueSubmitted, TypeOK, Inv
<1>3. t \notin completed /\ t \notin running
  BY <1>1 DEF BooksInv, CompletedFinal, Inv, AcceptedOnly
<1>4. t \in failed => need[t] \cap failed # {} /\ ~(need[t] \subseteq completed)
  BY <1>1 DEF BooksInv, FailedFinal, CompletedFinal
<1>5. GraphBooks'
  BY <1>1, <1>2 DEF BooksInv, GraphBooks, RdepsWith, TypeOK, QueueTypeOK
<1>6. CompletedFinal'
  BY <1>1, <1>2, <1>3 DEF BooksInv, CompletedFinal, TypeOK, QueueTypeOK
<1>7. FailedFinal'
  BY <1>1, <1>2, <1>4 DEF BooksInv, FailedFinal, TypeOK, QueueTypeOK
<1>8. RunningSound'
  BY <1>1, <1>2, <1>3 DEF BooksInv, RunningSound, Owning, TypeOK, QueueTypeOK
<1>. QED
  BY <1>5, <1>6, <1>7, <1>8 DEF BooksInv

\* Dequeue and assignTask: the task leaves the heap for the new executor.
LEMMA BooksAssign ==
  ASSUME IInv, BooksInv, NEW a \in Agents, NEW t \in Tasks, NEW s \in Slots, Assign(a, t, s)
  PROVE  BooksInv'
<1>. USE DEF IInv, TypeInv
<1>. DEFINE c == <<a, s>>
<1>1. /\ UNCHANGED <<need, completed, failed, gTasks, rdeps, cascade, sub>>
      /\ pending[t] > 0
      /\ running' = running \cup {t}
      /\ taskStatus'[t] = "running"
      /\ \A u \in Tasks : u # t => pending'[u] = pending[u] /\ taskStatus'[u] = taskStatus[u]
  BY DEF Assign, Dequeue, submitVars, TypeOK, QueueTypeOK
<1>2. c \in Calls
  BY DEF Calls
<1>3. /\ worker[c] = "idle" /\ worker'[c] = "execute" /\ job'[c] = t
      /\ \A d \in Calls : d # c => worker'[d] = worker[d] /\ job'[d] = job[d]
  BY <1>2 DEF Assign, TypeOK
<1>4. t \notin completed /\ t \notin failed
  BY <1>1 DEF BooksInv, CompletedFinal, FailedFinal
<1>5. GraphBooks'
  BY <1>1 DEF BooksInv, GraphBooks
<1>6. CompletedFinal' /\ FailedFinal'
  BY <1>1, <1>4 DEF BooksInv, CompletedFinal, FailedFinal, TypeOK, QueueTypeOK
<1>7. Owning(c)' /\ ~Owning(c) /\ \A d \in Calls : d # c => (Owning(d)' <=> Owning(d))
  BY <1>3 DEF Owning
<1>8. RunningSound'
  <2>1. \A d \in Calls : Owning(d)' => job'[d] \in running'
    BY <1>1, <1>3, <1>7 DEF BooksInv, RunningSound
  <2>2. ASSUME NEW u \in running', u # t
        PROVE  /\ taskStatus'[u] # "blocked"
               /\ pending'[u] > 0 \/ \E d \in Calls : Owning(d)' /\ job'[d] = u
    <3>1. u \in running /\ u \in Tasks
      BY <1>1, <2>2 DEF TypeOK, QueueTypeOK
    <3>2. taskStatus[u] # "blocked" /\ (pending[u] > 0 \/ \E d \in Calls : Owning(d) /\ job[d] = u)
      BY <3>1 DEF BooksInv, RunningSound
    <3>. QED
      BY <1>1, <1>3, <1>7, <2>2, <3>1, <3>2
  <2>3. \E d \in Calls : Owning(d)' /\ job'[d] = t
    BY <1>2, <1>3, <1>7
  <2>. QED
    BY <1>1, <2>1, <2>2, <2>3 DEF BooksInv, RunningSound
<1>. QED
  BY <1>5, <1>6, <1>8 DEF BooksInv

\* The executor marks its task and goes on owning it.
LEMMA BooksMark ==
  ASSUME IInv, BooksInv, NEW c \in Calls, BeginVerify(c) \/ RejectResult(c)
  PROVE  BooksInv'
<1>. USE DEF IInv, TypeInv
<1>1. /\ UNCHANGED <<need, pending, running, completed, failed, gTasks, rdeps, cascade, sub, job>>
      /\ Owning(c)
      /\ \E w \in {"verify", "requeue"} : worker' = [worker EXCEPT ![c] = w]
      /\ \E s \in {"verifying", "queued"} : taskStatus' = [taskStatus EXCEPT ![job[c]] = s]
  BY DEF BeginVerify, RejectResult, WorkerGoes, TakesResult, Owning, submitVars
<1>2. job[c] \in running
  BY <1>1 DEF BooksInv, RunningSound
<1>3. \A t \in Tasks : t # job[c] => taskStatus'[t] = taskStatus[t]
  BY <1>1 DEF TypeOK, QueueTypeOK
<1>4. taskStatus'[job[c]] # "blocked"
  BY <1>1, <1>2 DEF TypeOK, QueueTypeOK
<1>5. \A d \in Calls : Owning(d)' <=> Owning(d)
  BY <1>1 DEF Owning, TypeOK
<1>6. GraphBooks'
  BY <1>1 DEF BooksInv, GraphBooks
<1>7. CompletedFinal' /\ FailedFinal'
  BY <1>1, <1>2, <1>3 DEF BooksInv, CompletedFinal, FailedFinal, TypeOK, QueueTypeOK
<1>8. RunningSound'
  BY <1>1, <1>3, <1>4, <1>5 DEF BooksInv, RunningSound, TypeOK, QueueTypeOK
<1>. QED
  BY <1>6, <1>7, <1>8 DEF BooksInv

\* Complete, seen from the books.
LEMMA BooksComplete ==
  ASSUME IInv, BooksInv, NEW c \in Calls, CompleteUnverified(c) \/ CompleteVerified(c)
  PROVE  BooksInv'
<1>. USE DEF IInv, TypeInv
<1>. DEFINE t == job[c]
<1>1. /\ UNCHANGED <<sub, job>>
      /\ Complete(t)
      /\ Owning(c)
      /\ WorkerGoes(c, "cleanup")
  BY DEF CompleteUnverified, CompleteVerified, TakesResult, Owning, submitVars
<1>2. /\ t \in Tasks
      /\ sub[t] = "accepted"
      /\ taskStatus[t] # "blocked"
      /\ pending[t] = 0
      /\ \A d \in Calls : Owning(d) /\ d # c => job[d] # t
  BY <1>1, OwnerHolds
<1>3. t \in running /\ t \notin failed
  BY <1>1 DEF BooksInv, RunningSound, FailedFinal
<1>4. \A d \in Calls : Owning(d)' <=> Owning(d) /\ d # c
  BY <1>1, WorkerLeaves
<1>5. /\ UNCHANGED <<need, failed, gTasks, rdeps, cascade>>
      /\ running' = running \ {t}
      /\ completed' = completed \cup {t}
      /\ t \notin Woken(t)
      /\ taskStatus'[t] = "completed" /\ pending'[t] = pending[t]
  BY <1>1, <1>2, <1>3 DEF Complete, Woken
<1>6. \A u \in Tasks : u # t =>
        \/ pending'[u] = pending[u] /\ taskStatus'[u] = taskStatus[u]
        \/ u \in Woken(t) /\ pending'[u] = pending[u] + 1 /\ taskStatus'[u] = "queued"
  BY <1>1, <1>3 DEF Complete
<1>7. ASSUME NEW u \in Woken(t)
      PROVE  u \notin completed /\ u \notin running /\ u \notin failed
  <2>1. u \in Tasks /\ taskStatus[u] = "blocked" /\ AllDone(deps[u] \ {t}, gTasks) /\ u \in gTasks
    BY <1>7 DEF Woken, TypeOK, QueueTypeOK
  <2>2. deps[u] = need[u]
    BY <2>1 DEF Inv, Linked
  <2>3. need[u] \subseteq completed \cup {t}
    BY <2>1, <2>2 DEF AllDone, Inv, StatusSound, TypeOK, QueueTypeOK
  <2>4. need[u] \cap failed = {}
    BY <1>3, <2>3 DEF BooksInv, CompletedFinal
  <2>. QED
    BY <2>1, <2>4 DEF BooksInv, CompletedFinal, FailedFinal, RunningSound
<1>8. GraphBooks'
  BY <1>1, <1>5 DEF BooksInv, GraphBooks
<1>9. CompletedFinal'
  BY <1>1, <1>2, <1>3, <1>5, <1>6, <1>7 DEF BooksInv, CompletedFinal, TypeOK, QueueTypeOK
<1>10. FailedFinal'
  BY <1>1, <1>2, <1>3, <1>5, <1>6, <1>7 DEF BooksInv, FailedFinal, TypeOK, QueueTypeOK
<1>11. RunningSound'
  <2>1. \A d \in Calls : Owning(d)' => job'[d] \in running'
    BY <1>1, <1>2, <1>4, <1>5 DEF BooksInv, RunningSound
  <2>2. ASSUME NEW u \in running'
        PROVE  /\ taskStatus'[u] # "blocked"
               /\ pending'[u] > 0 \/ \E d \in Calls : Owning(d)' /\ job'[d] = u
    <3>1. u \in running /\ u \in Tasks /\ u # t
      BY <1>5, <2>2 DEF TypeOK, QueueTypeOK
    <3>2. pending'[u] = pending[u] /\ taskStatus'[u] = taskStatus[u]
      BY <1>6, <1>7, <3>1
    <3>3. taskStatus[u] # "blocked" /\ (pending[u] > 0 \/ \E d \in Calls : Owning(d) /\ job[d] = u)
      BY <3>1 DEF BooksInv, RunningSound
    <3>. QED
      BY <1>1, <1>4, <3>1, <3>2, <3>3
  <2>. QED
    BY <1>5, <2>1, <2>2 DEF BooksInv, RunningSound
<1>. QED
  BY <1>8, <1>9, <1>10, <1>11 DEF BooksInv

\* A retried task is ready at once: what it needs is still completed.
LEMMA RequeueReady ==
  ASSUME IInv, BooksInv, NEW c \in Calls, Requeue(c)
  PROVE  /\ job[c] \in running /\ pending[job[c]] = 0
         /\ pending' = [pending EXCEPT ![job[c]] = 1]
         /\ taskStatus' = [taskStatus EXCEPT ![job[c]] = "queued"]
<1>. USE DEF IInv, TypeInv
<1>1. Owning(c) /\ Enqueue(job[c])
  BY DEF Requeue, Owning
<1>2. job[c] \in running /\ job[c] \in Tasks /\ pending[job[c]] = 0
  BY <1>1, OwnerHolds DEF BooksInv, RunningSound
<1>3. need[job[c]] \subseteq completed
  BY <1>2 DEF Inv, DependencyOrder
<1>4. AllDone(need[job[c]], gTasks \cup {job[c]})
  BY <1>3 DEF AllDone, BooksInv, CompletedFinal, GraphBooks, TypeOK, QueueTypeOK
<1>. QED
  BY <1>1, <1>2, <1>4 DEF Enqueue

\* A task whose verification failed goes back to the queue.
LEMMA BooksRequeue ==
  ASSUME IInv, BooksInv, NEW c \in Calls, Requeue(c)
  PROVE  BooksInv'
<1>. USE DEF IInv, TypeInv
<1>. DEFINE t == job[c]
<1>1. /\ UNCHANGED <<need, running, completed, failed, cascade, sub, job>>
      /\ Add(t)
      /\ Owning(c)
      /\ WorkerGoes(c, "cleanup")
  BY DEF Requeue, Enqueue, Owning, submitVars
<1>2. /\ t \in Tasks
      /\ \A d \in Calls : Owning(d) /\ d # c => job[d] # t
  BY <1>1, OwnerHolds
<1>3. /\ t \in running /\ pending'[t] = 1 /\ taskStatus'[t] = "queued"
      /\ \A u \in Tasks : u # t => pending'[u] = pending[u] /\ taskStatus'[u] = taskStatus[u]
  BY <1>2, RequeueReady DEF TypeOK, QueueTypeOK
<1>4. t \notin completed /\ t \notin failed
  BY <1>3 DEF BooksInv, CompletedFinal, FailedFinal
<1>5. \A d \in Calls : Owning(d)' <=> Owning(d) /\ d # c
  BY <1>1, WorkerLeaves
<1>6. GraphBooks'
  BY <1>1, <1>2 DEF BooksInv, GraphBooks, Add, RdepsWith, TypeOK, QueueTypeOK
<1>7. CompletedFinal' /\ FailedFinal'
  BY <1>1, <1>3, <1>4 DEF BooksInv, CompletedFinal, FailedFinal, TypeOK, QueueTypeOK
<1>8. RunningSound'
  <2>1. \A d \in Calls : Owning(d)' => job'[d] \in running'
    BY <1>1, <1>5 DEF BooksInv, RunningSound
  <2>2. ASSUME NEW u \in running', u # t
        PROVE  /\ taskStatus'[u] # "blocked"
               /\ pending'[u] > 0 \/ \E d \in Calls : Owning(d)' /\ job'[d] = u
    <3>1. u \in running /\ u \in Tasks
      BY <1>1, <2>2 DEF TypeOK, QueueTypeOK
    <3>2. taskStatus[u] # "blocked" /\ (pending[u] > 0 \/ \E d \in Calls : Owning(d) /\ job[d] = u)
      BY <3>1 DEF BooksInv, RunningSound
    <3>. QED
      BY <1>1, <1>3, <1>5, <2>2, <3>1, <3>2
  <2>. QED
    BY <1>1, <1>3, <2>1, <2>2 DEF BooksInv, RunningSound
<1>. QED
  BY <1>6, <1>7, <1>8 DEF BooksInv

\* Fail itself.
LEMMA BooksFail ==
  ASSUME IInv, BooksInv, NEW c \in Calls, FailExecution(c) \/ FailVerification(c)
  PROVE  BooksInv'
<1>. USE DEF IInv, TypeInv
<1>. DEFINE t == job[c]
<1>1. /\ UNCHANGED <<sub, job>>
      /\ Fail(t)
      /\ Owning(c)
      /\ \E w \in {"cleanup", "cascade"} : WorkerGoes(c, w)
  BY DEF FailExecution, FailVerification, FailTask, TakesResult, Owning, submitVars
<1>2. /\ t \in Tasks
      /\ sub[t] = "accepted"
      /\ pending[t] = 0
      /\ \A d \in Calls : Owning(d) /\ d # c => job[d] # t
  BY <1>1, OwnerHolds
<1>3. t \in running /\ t \notin completed
  BY <1>1 DEF BooksInv, RunningSound, CompletedFinal
<1>4. \A d \in Calls : Owning(d)' <=> Owning(d) /\ d # c
  BY <1>1, WorkerLeaves
<1>5. /\ UNCHANGED <<need, pending, completed, gTasks, rdeps>>
      /\ running' = running \ {t}
      /\ failed' = failed \cup {t}
      /\ cascade' = {t}
      /\ taskStatus'[t] = "failed"
      /\ \A u \in Tasks : u # t => taskStatus'[u] = taskStatus[u]
  BY <1>1, <1>2, <1>3 DEF Fail, TypeOK, QueueTypeOK
<1>6. GraphBooks'
  BY <1>1, <1>5 DEF BooksInv, GraphBooks
<1>7. CompletedFinal' /\ FailedFinal'
  BY <1>1, <1>2, <1>3, <1>5 DEF BooksInv, CompletedFinal, FailedFinal, TypeOK, QueueTypeOK
<1>8. RunningSound'
  <2>1. \A d \in Calls : Owning(d)' => job'[d] \in running'
    BY <1>1, <1>2, <1>4, <1>5 DEF BooksInv, RunningSound
  <2>2. ASSUME NEW u \in running'
        PROVE  /\ taskStatus'[u] # "blocked"
               /\ pending'[u] > 0 \/ \E d \in Calls : Owning(d)' /\ job'[d] = u
    <3>1. u \in running /\ u \in Tasks /\ u # t
      BY <1>5, <2>2 DEF TypeOK, QueueTypeOK
    <3>2. taskStatus[u] # "blocked" /\ (pending[u] > 0 \/ \E d \in Calls : Owning(d) /\ job[d] = u)
      BY <3>1 DEF BooksInv, RunningSound
    <3>. QED
      BY <1>1, <1>4, <1>5, <3>1, <3>2
  <2>. QED
    BY <1>5, <2>1, <2>2 DEF BooksInv, RunningSound
<1>. QED
  BY <1>6, <1>7, <1>8 DEF BooksInv

\* What failDependents marks: dependents of a failed task, which never start.
LEMMA DoomedWait ==
  ASSUME IInv, BooksInv, NEW x \in cascade, NEW u \in Doomed(x)
  PROVE  /\ u \in Tasks /\ x \in need[u] /\ x \in failed
         /\ u \notin completed /\ u \notin running /\ pending[u] = 0 /\ sub[u] \in InGraph
<1>. USE DEF IInv, TypeInv
<1>1. /\ x \in failed /\ x \in Tasks
      /\ u \in rdeps[x] /\ u \in gTasks /\ u \in Tasks
      /\ taskStatus[u] \in {"blocked", "pending", "queued"}
  BY DEF Doomed, BooksInv, RunningSound, TypeOK, QueueTypeOK
<1>2. x \in need[u] /\ x \notin completed
  BY <1>1 DEF BooksInv, GraphBooks, CompletedFinal
<1>3. u \notin completed
  BY <1>1 DEF BooksInv, CompletedFinal
<1>4. u \notin running /\ pending[u] = 0
  BY <1>1, <1>2 DEF Inv, DependencyOrder, TypeOK, QueueTypeOK
<1>. QED
  BY <1>1, <1>2, <1>3, <1>4 DEF Inv, Linked

\* One call of failDependents.
LEMMA BooksCascade ==
  ASSUME IInv, BooksInv, NEW c \in Calls, FailCascades(c)
  PROVE  BooksInv'
<1>. USE DEF IInv, TypeInv
<1>1. PICK x \in cascade : FailDependents(x) /\ (UNCHANGED worker \/ WorkerGoes(c, "cleanup"))
  BY DEF FailCascades
<1>2. UNCHANGED <<sub, job>> /\ ~Owning(c)
  BY DEF FailCascades, submitVars, Owning
<1>3. \A u \in Doomed(x) :
        /\ u \in Tasks /\ x \in need[u] /\ x \in failed
        /\ u \notin completed /\ u \notin running /\ pending[u] = 0 /\ sub[u] \in InGraph
  BY DoomedWait
<1>4. \A d \in Calls : Owning(d)' <=> Owning(d)
  <2>1. CASE UNCHANGED worker
    BY <2>1 DEF Owning
  <2>2. CASE WorkerGoes(c, "cleanup")
    BY <1>2, <2>2, WorkerLeaves
  <2>. QED
    BY <1>1, <2>1, <2>2
<1>5. /\ UNCHANGED <<need, pending, running, completed, gTasks, rdeps>>
      /\ failed' = failed \cup Doomed(x)
      /\ cascade' = (cascade \ {x}) \cup Doomed(x)
      /\ \A u \in Tasks : taskStatus'[u] = IF u \in Doomed(x) THEN "failed" ELSE taskStatus[u]
  BY <1>1 DEF FailDependents
<1>6. GraphBooks'
  BY <1>2, <1>5 DEF BooksInv, GraphBooks
<1>7. CompletedFinal'
  BY <1>2, <1>3, <1>5 DEF BooksInv, CompletedFinal, TypeOK, QueueTypeOK
<1>8. FailedFinal'
  <2>1. ASSUME NEW u \in Doomed(x)
        PROVE  sub'[u] # "new" /\ u \notin running' /\ pending'[u] = 0 /\ need'[u] \cap failed' # {}
    BY <1>2, <1>3, <1>5, <2>1 DEF InGraph
  <2>2. ASSUME NEW u \in failed, u \notin Doomed(x)
        PROVE  /\ sub'[u] # "new" /\ u \notin running' /\ pending'[u] = 0
               /\ need'[u] \cap failed' # {} \/ (sub'[u] = "accepted" /\ taskStatus'[u] # "blocked")
    BY <1>2, <1>5, <2>2 DEF BooksInv, FailedFinal, TypeOK, QueueTypeOK
  <2>. QED
    BY <1>5, <2>1, <2>2 DEF FailedFinal
<1>9. RunningSound'
  BY <1>2, <1>4, <1>5 DEF BooksInv, RunningSound, TypeOK, QueueTypeOK
<1>. QED
  BY <1>6, <1>7, <1>8, <1>9 DEF BooksInv

\* Every step keeps the books.
LEMMA BooksNext == IInv /\ BooksInv /\ [Next]_vars => BooksInv'
<1>. SUFFICES ASSUME IInv, BooksInv, [Next]_vars PROVE BooksInv'
  OBVIOUS
<1>. USE DEF IInv, TypeInv
<1>1. CASE UNCHANGED vars
  BY <1>1, BooksFrame DEF vars, submitVars, schedVars, Owning
<1>2. ASSUME NEW t \in Tasks, SubmitNew(t) \/ SubmitStep(t) PROVE BooksInv'
  BY <1>2, BooksSubmit, BooksEnqueue
<1>3. CASE SchedulePass
  <2>1. CASE Tick \/ \E a \in Agents : SkipLoaded(a) \/ SkipNoTask(a)
    BY <2>1, BooksFrame DEF Tick, SkipLoaded, SkipNoTask, submitVars, Owning
  <2>2. ASSUME NEW a \in Agents, NEW t \in Tasks, NEW s \in Slots, Assign(a, t, s) PROVE BooksInv'
    BY <2>2, BooksAssign
  <2>. QED
    BY <1>3, <2>1, <2>2 DEF SchedulePass
<1>4. ASSUME NEW c \in Calls, WorkerStep(c) PROVE BooksInv'
  <2>1. CASE CallExecute(c) \/ AgentWorks(c)
    BY <2>1, BooksFrame DEF CallExecute, AgentWorks, submitVars, schedVars, Owning
  <2>. QED
    BY <1>4, <2>1, BooksMark, BooksComplete, BooksRequeue, BooksFail, BooksCascade DEF WorkerStep
<1>5. ASSUME NEW c \in Calls, Cleanup(c) PROVE BooksInv'
  <2>1. /\ UNCHANGED <<queueVars, sub>>
        /\ worker[c] = "cleanup"
        /\ worker' = [worker EXCEPT ![c] = "idle"]
        /\ job' = [job EXCEPT ![c] = NoTask]
    BY <1>5 DEF Cleanup, WorkerGoes, submitVars
  <2>2. \A d \in Calls : (Owning(d)' <=> Owning(d)) /\ (Owning(d) => job'[d] = job[d])
    BY <2>1 DEF Owning, TypeOK
  <2>. QED
    BY <2>1, <2>2, BooksFrame
<1>6. ASSUME NEW a \in Agents, AgentManaged(a) PROVE BooksInv'
  BY <1>6, BooksFrame DEF AgentManaged, submitVars, schedVars, Owning
<1>. QED
  BY <1>1, <1>2, <1>3, <1>4, <1>5, <1>6 DEF Next

LEMMA BooksInit == Init => BooksInv
BY DEF Init, QueueInit, BooksInv, GraphBooks, CompletedFinal, FailedFinal, RunningSound, Owning

\* The books of the queue agree in every state, whatever is submitted, refused,
\* retried and failed, by however many callers and executors.
THEOREM BooksAlwaysAgree == Spec => []BooksAgree
<1>1. IInv /\ BooksInv => BooksAgree
  <2>. SUFFICES ASSUME IInv, BooksInv PROVE BooksAgree
    OBVIOUS
  <2>1. \A t \in Tasks : Owners(t) = {c \in Calls : Owning(c) /\ job[c] = t}
    BY DEF Owners, Owning
  <2>2. running \subseteq Tasks
    BY DEF IInv, TypeInv, TypeOK, QueueTypeOK
  <2>. QED
    BY <2>1, <2>2 DEF BooksAgree, BooksInv, CompletedFinal, FailedFinal, RunningSound
<1>. QED
  BY <1>1, BooksInit, BooksNext, InductiveInvariant, PTL DEF Spec

-----------------------------------------------------------------------------
(* Why an accepted task is blocked.                                        *)

\* For an accepted task, IsReady says just that its dependencies are completed.
LEMMA DoneIsCompleted ==
  ASSUME IInv, BooksInv, NEW t \in Tasks
  PROVE  AllDone(need[t], gTasks \cup {t}) <=> need[t] \subseteq completed
BY DEF AllDone, IInv, TypeInv, Inv, StatusSound, BooksInv, CompletedFinal, GraphBooks, TypeOK, QueueTypeOK

\* What could make the reason go away: a task becomes blocked, its last
\* dependency is completed, or an edge to it is added.
LEMMA ReasonFrame ==
  ASSUME TypeOK, BlockedHasReason,
         \A u \in gTasks' : taskStatus'[u] = "blocked" /\ sub'[u] = "accepted" /\ need'[u] \subseteq completed' =>
           /\ u \in gTasks /\ taskStatus[u] = "blocked" /\ sub[u] = "accepted"
           /\ need'[u] = need[u] /\ need[u] \subseteq completed
           /\ \A d \in Tasks : u \in rdeps'[d] => u \in rdeps[d]
  PROVE  BlockedHasReason'
BY DEF BlockedHasReason, TypeOK, QueueTypeOK

\* The steps that concern the queue or a submission.
LEMMA StepKinds ==
  ASSUME [Next]_vars
  PROVE  \/ UNCHANGED <<queueVars, sub>>
         \/ \E t \in Tasks : SubmitNew(t) \/ SubmitStep(t)
         \/ \E a \in Agents, t \in Tasks, s \in Slots : Assign(a, t, s)
         \/ \E c \in Calls : \/ BeginVerify(c) \/ CompleteUnverified(c) \/ CompleteVerified(c)
                             \/ RejectResult(c) \/ Requeue(c) \/ FailExecution(c)
                             \/ FailVerification(c) \/ FailCascades(c)
BY DEF Next, vars, SchedulePass, Tick, SkipLoaded, SkipNoTask, WorkerStep, CallExecute, AgentWorks,
   Cleanup, AgentManaged, submitVars

\* No step takes the reason away.
LEMMA ReasonNext == IInv /\ BooksInv /\ BlockedHasReason /\ [Next]_vars => BlockedHasReason'
<1>. SUFFICES ASSUME IInv, BooksInv, BlockedHasReason, [Next]_vars PROVE BlockedHasReason'
  OBVIOUS
<1>. USE DEF IInv, TypeInv
<1>1. CASE UNCHANGED <<queueVars, sub>>
  BY <1>1, ReasonFrame DEF queueVars, TypeOK, QueueTypeOK
<1>2. ASSUME NEW t \in Tasks, SubmitNew(t) \/ (SubmitStep(t) /\ ~EnqueueSubmitted(t))
      PROVE  BlockedHasReason'
  <2>1. /\ completed' = completed
        /\ \A u \in Tasks : u # t => sub'[u] = sub[u] /\ taskStatus'[u] = taskStatus[u] /\ need'[u] = need[u]
        /\ sub'[t] # "accepted"
    BY <1>2, SubmitEffect
  <2>2. /\ gTasks' \subseteq gTasks \cup {t}
        /\ gTasks' \subseteq Tasks
        /\ \A d \in Tasks : rdeps'[d] \subseteq rdeps[d] \cup {t}
    BY <1>2 DEF SubmitNew, SubmitStep, SubmitTask, SubmitComplex, SubmitSubtask, PlanSubmitted,
       AddTemporarily, CheckHasCycle, CheckDetectCycle, Withdraw, ClearTemporary, queueVars,
       Add, RdepsWith, Remove, TypeOK, QueueTypeOK
  <2>. QED
    BY <2>1, <2>2, ReasonFrame
<1>3. ASSUME NEW t \in Tasks, EnqueueSubmitted(t)
      PROVE  BlockedHasReason'
  <2>1. /\ UNCHANGED <<need, completed>>
        /\ gTasks' = gTasks \cup {t}
        /\ \A d \in Tasks : rdeps'[d] \subseteq rdeps[d] \cup {t}
        /\ \A u \in Tasks : u # t => taskStatus'[u] = taskStatus[u] /\ sub'[u] = sub[u]
        /\ need[t] \subseteq completed => taskStatus'[t] # "blocked"
    BY <1>3, DoneIsCompleted DEF EnqueueSubmitted, SubmitGoes, Enqueue, Add, RdepsWith, TypeOK, QueueTypeOK
  <2>2. \A u \in gTasks' : u # t => u \in gTasks /\ u \in Tasks
    BY <2>1 DEF TypeOK, QueueTypeOK
  <2>. QED
    BY <2>1, <2>2, ReasonFrame
<1>4. ASSUME NEW a \in Agents, NEW t \in Tasks, NEW s \in Slots, Assign(a, t, s)
      PROVE  BlockedHasReason'
  <2>1. /\ UNCHANGED <<need, completed, gTasks, rdeps, sub>>
        /\ taskStatus' = [taskStatus EXCEPT ![t] = "running"]
    BY <1>4 DEF Assign, Dequeue, submitVars
  <2>. QED
    BY <2>1, ReasonFrame DEF TypeOK, QueueTypeOK
<1>5. ASSUME NEW c \in Calls, BeginVerify(c) \/ RejectResult(c)
      PROVE  BlockedHasReason'
  <2>1. /\ UNCHANGED <<need, completed, gTasks, rdeps, sub>>
        /\ \E w \in {"verifying", "queued"} : taskStatus' = [taskStatus EXCEPT ![job[c]] = w]
    BY <1>5 DEF BeginVerify, RejectResult, submitVars
  <2>. QED
    BY <2>1, ReasonFrame DEF TypeOK, QueueTypeOK
<1>6. ASSUME NEW c \in Calls, CompleteUnverified(c) \/ CompleteVerified(c)
      PROVE  BlockedHasReason'
  <2>. DEFINE t == job[c]
  <2>1. /\ UNCHANGED sub /\ Complete(t) /\ Owning(c)
    BY <1>6 DEF CompleteUnverified, CompleteVerified, TakesResult, Owning, submitVars
  <2>2. t \in running /\ t \in Tasks /\ t \in gTasks
    BY <2>1, OwnerHolds DEF BooksInv, RunningSound, GraphBooks
  <2>3. /\ UNCHANGED <<need, gTasks, deps, rdeps>>
        /\ completed' = completed \cup {t}
        /\ \A u \in Tasks : taskStatus'[u] = "blocked" => taskStatus[u] = "blocked" /\ u \notin Woken(t)
    BY <2>1, <2>2 DEF Complete, Woken
  <2>4. ASSUME NEW u \in gTasks, taskStatus'[u] = "blocked", sub[u] = "accepted",
               need[u] \subseteq completed \cup {t}, \A d \in need[u] : u \in rdeps[d]
        PROVE  FALSE
    <3>1. u \in Tasks /\ taskStatus[u] = "blocked" /\ u \notin Woken(t) /\ deps[u] = need[u]
      BY <2>3, <2>4 DEF Inv, Linked, TypeOK, QueueTypeOK
    <3>2. t \in need[u]
      BY <2>4, <3>1 DEF BlockedHasReason
    <3>3. u \in rdeps[t] \cap gTasks
      BY <2>4, <3>2
    <3>4. AllDone(deps[u] \ {t}, gTasks)
      BY <2>4, <3>1 DEF AllDone, BooksInv, CompletedFinal, GraphBooks, TypeOK, QueueTypeOK
    <3>. QED
      BY <2>2, <3>1, <3>3, <3>4 DEF Woken
  <2>. QED
    BY <2>1, <2>3, <2>4 DEF BlockedHasReason
<1>7. ASSUME NEW c \in Calls, Requeue(c)
      PROVE  BlockedHasReason'
  <2>1. /\ UNCHANGED <<need, completed, sub>>
        /\ job[c] \in Tasks
        /\ gTasks' = gTasks \cup {job[c]}
        /\ \A d \in Tasks : rdeps'[d] \subseteq rdeps[d] \cup {job[c]}
    BY <1>7 DEF Requeue, Enqueue, Add, RdepsWith, submitVars, Inv, AcceptedOnly
  <2>2. taskStatus' = [taskStatus EXCEPT ![job[c]] = "queued"]
    BY <1>7, RequeueReady
  <2>3. \A u \in gTasks' : taskStatus'[u] = "blocked" => u # job[c] /\ u \in gTasks /\ taskStatus[u] = "blocked"
    BY <2>1, <2>2 DEF TypeOK, QueueTypeOK
  <2>. QED
    BY <2>1, <2>3, ReasonFrame
<1>8. ASSUME NEW c \in Calls, FailExecution(c) \/ FailVerification(c) \/ FailCascades(c)
      PROVE  BlockedHasReason'
  <2>1. /\ UNCHANGED <<need, completed, gTasks, rdeps, sub>>
        /\ \A u \in Tasks : taskStatus'[u] \in {taskStatus[u], "failed"}
    BY <1>8, OwnerHolds, FailEffect DEF FailExecution, FailVerification, FailCascades, FailTask,
       TakesResult, Owning, Fail, FailDependents, submitVars, TypeOK, QueueTypeOK
  <2>. QED
    BY <2>1, ReasonFrame DEF TypeOK, QueueTypeOK
<1>. QED
  BY <1>1, <1>2, <1>3, <1>4, <1>5, <1>6, <1>7, <1>8, StepKinds

\* An accepted task whose dependencies are completed is blocked only if the
\* graph has lost an edge to it, for any callers and any order of their steps.
THEOREM BlockedAlwaysHasReason == Spec => []BlockedHasReason
<1>1. Init => BlockedHasReason
  BY DEF Init, QueueInit, BlockedHasReason
<1>. QED
  BY <1>1, ReasonNext, BooksInit, BooksNext, InductiveInvariant, PTL DEF Spec

-----------------------------------------------------------------------------
(* The orchestrator implements the life of a task.                         *)

\* A phase is what the books and the submission say.
PhaseSays(t) ==
  /\ Phase[t] = "completed" <=> t \in completed
  /\ Phase[t] = "failed" <=> t \in failed /\ t \notin completed
  /\ Phase[t] = "ready" <=> t \notin completed \cup failed /\ pending[t] > 0
  /\ Phase[t] = "active" <=> /\ t \notin completed \cup failed
                             /\ ~(pending[t] > 0) /\ t \in running
  /\ Phase[t] = "waiting" <=> /\ t \notin completed \cup failed \cup running
                              /\ ~(pending[t] > 0) /\ sub[t] = "accepted"
  /\ Phase[t] = "unknown" <=> /\ t \notin completed \cup failed \cup running
                              /\ ~(pending[t] > 0) /\ sub[t] # "accepted"
  /\ Phase[t] \in {"completed", "failed", "ready", "active", "waiting", "unknown"}
  /\ Needs[t] = IF Phase[t] = "unknown" THEN {} ELSE need[t]

\* It says so before and after a step.
LEMMA PhaseOf == \A t \in Tasks : PhaseSays(t) /\ PhaseSays(t)'
BY DEF PhaseSays, Phase, Needs

\* A step that changes no task's phase and no needs is a stutter.
LEMMA PhaseFrame ==
  ASSUME \A t \in Tasks : Phase'[t] = Phase[t] /\ Needs'[t] = Needs[t]
  PROVE  UNCHANGED Lifecycles!vars
<1>1. /\ Phase = [t \in Tasks |-> Phase[t]] /\ Phase' = [t \in Tasks |-> Phase'[t]]
      /\ Needs = [t \in Tasks |-> Needs[t]] /\ Needs' = [t \in Tasks |-> Needs'[t]]
  BY DEF Phase, Needs
<1>. QED
  BY <1>1 DEF Lifecycles!vars

\* A step that changes the phases of the tasks T alone.
LEMMA PhaseBecomes ==
  ASSUME NEW T, NEW p,
         \A t \in Tasks : Phase'[t] = IF t \in T THEN p ELSE Phase[t]
  PROVE  Lifecycles!Becomes(T, p)
<1>1. Phase' = [t \in Tasks |-> Phase'[t]]
  BY DEF Phase
<1>. QED
  BY <1>1 DEF Lifecycles!Becomes

\* A step that leaves the needs of every task alone.
LEMMA NeedsFrame ==
  ASSUME \A t \in Tasks : Needs'[t] = Needs[t]
  PROVE  UNCHANGED Needs
<1>1. Needs = [t \in Tasks |-> Needs[t]] /\ Needs' = [t \in Tasks |-> Needs'[t]]
  BY DEF Needs
<1>. QED
  BY <1>1

\* Before Enqueue a caller sees nothing of a submission.
LEMMA SubmitStutters ==
  ASSUME IInv, BooksInv, NEW t \in Tasks,
         SubmitNew(t) \/ (SubmitStep(t) /\ ~EnqueueSubmitted(t))
  PROVE  UNCHANGED Lifecycles!vars
<1>1. /\ UNCHANGED <<pending, running, completed, failed>>
      /\ \A u \in Tasks : u # t => sub'[u] = sub[u] /\ need'[u] = need[u]
      /\ sub[t] # "accepted" /\ sub'[t] # "accepted"
      /\ sub[t] = "new" \/ need'[t] = need[t]
  BY SubmitEffect DEF IInv, TypeInv
<1>2. \A u \in Tasks : Phase'[u] = Phase[u]
  BY <1>1 DEF Phase
<1>3. sub[t] = "new" => Phase[t] = "unknown"
  BY <1>1, PhaseOf DEF PhaseSays, IInv, Inv, AcceptedOnly, BooksInv, CompletedFinal, FailedFinal
<1>4. \A u \in Tasks : Needs'[u] = Needs[u]
  BY <1>1, <1>2, <1>3, PhaseOf DEF PhaseSays
<1>. QED
  BY <1>2, <1>4, PhaseFrame

\* Enqueue accepts the task, unless failDependents has caught it before.
LEMMA EnqueueAccepts ==
  ASSUME IInv, BooksInv, NEW t \in Tasks, EnqueueSubmitted(t)
  PROVE  [Lifecycles!Next]_(Lifecycles!vars)
<1>. USE DEF IInv, TypeInv
<1>1. /\ UNCHANGED <<need, running, completed, failed>>
      /\ sub[t] = "enqueue" /\ sub'[t] = "accepted"
      /\ \A u \in Tasks : u # t => sub'[u] = sub[u] /\ pending'[u] = pending[u]
      /\ pending'[t] = IF need[t] \subseteq completed THEN pending[t] + 1 ELSE pending[t]
  BY DoneIsCompleted DEF EnqueueSubmitted, SubmitGoes, Enqueue, TypeOK, QueueTypeOK
<1>2. pending[t] = 0 /\ t \notin running /\ t \notin completed
  BY <1>1 DEF Inv, AcceptedOnly, BooksInv, CompletedFinal, TypeOK, QueueTypeOK
<1>3. \A u \in Tasks : u # t => Phase'[u] = Phase[u] /\ Needs'[u] = Needs[u]
  BY <1>1 DEF Phase, Needs
<1>4. CASE t \in failed
  <2>1. Phase[t] = "failed" /\ Phase'[t] = "failed" /\ Needs'[t] = Needs[t]
    BY <1>1, <1>2, <1>4, PhaseOf DEF PhaseSays
  <2>. QED
    BY <1>3, <2>1, PhaseFrame
<1>5. CASE t \notin failed
  <2>1. Phase[t] = "unknown" /\ Needs'[t] = need[t]
        /\ Phase'[t] = IF need[t] \subseteq completed THEN "ready" ELSE "waiting"
    BY <1>1, <1>2, <1>5, PhaseOf DEF PhaseSays
  <2>2. Lifecycles!Done(need[t]) <=> need[t] \subseteq completed
    BY PhaseOf DEF PhaseSays, Lifecycles!Done, TypeOK, QueueTypeOK
  <2>3. Lifecycles!Becomes({t}, IF Lifecycles!Done(need[t]) THEN "ready" ELSE "waiting")
    BY <1>3, <2>1, <2>2, PhaseBecomes
  <2>4. Needs' = [Needs EXCEPT ![t] = need[t]]
    BY <1>3, <2>1 DEF Needs
  <2>5. Lifecycles!Accept(t, need[t])
    BY <2>1, <2>3, <2>4 DEF Lifecycles!Accept
  <2>. QED
    BY <2>5 DEF Lifecycles!Next, TypeOK, QueueTypeOK
<1>. QED
  BY <1>4, <1>5

\* Dequeue dispatches a ready task.
LEMMA AssignDispatches ==
  ASSUME IInv, BooksInv, NEW a \in Agents, NEW t \in Tasks, NEW s \in Slots, Assign(a, t, s)
  PROVE  Lifecycles!Next
<1>. USE DEF IInv, TypeInv
<1>1. /\ UNCHANGED <<need, completed, failed, sub>>
      /\ pending[t] > 0 /\ pending'[t] = pending[t] - 1
      /\ \A u \in Tasks : u # t => pending'[u] = pending[u]
      /\ running' = running \cup {t}
  BY DEF Assign, Dequeue, submitVars, TypeOK, QueueTypeOK
<1>2. t \notin completed /\ t \notin failed /\ pending'[t] = 0
  BY <1>1 DEF BooksInv, CompletedFinal, FailedFinal, Inv, OneHolder, TypeOK, QueueTypeOK
<1>3. Phase[t] = "ready" /\ Phase'[t] = "active"
  BY <1>1, <1>2, PhaseOf DEF PhaseSays
<1>4. \A u \in Tasks : u # t => Phase'[u] = Phase[u]
  BY <1>1 DEF Phase
<1>5. \A u \in Tasks : Needs'[u] = Needs[u]
  BY <1>1, <1>3, <1>4, PhaseOf DEF PhaseSays
<1>6. Lifecycles!Dispatch(t)
  BY <1>3, <1>4, <1>5, PhaseBecomes, NeedsFrame DEF Lifecycles!Dispatch
<1>. QED
  BY <1>6 DEF Lifecycles!Next

\* The task of an executor is active.
LEMMA OwnedIsActive ==
  ASSUME IInv, BooksInv, NEW c \in Calls, Owning(c)
  PROVE  job[c] \in Tasks /\ job[c] \in running /\ Phase[job[c]] = "active"
<1>1. job[c] \in Tasks /\ job[c] \in running /\ pending[job[c]] = 0
  BY OwnerHolds DEF IInv, BooksInv, RunningSound
<1>. QED
  BY <1>1, PhaseOf DEF PhaseSays, BooksInv, CompletedFinal, FailedFinal

\* Complete finishes it, and makes the dependents it wakes ready.
LEMMA CompleteFinishes ==
  ASSUME IInv, BooksInv, NEW c \in Calls, CompleteUnverified(c) \/ CompleteVerified(c)
  PROVE  Lifecycles!Next
<1>. USE DEF IInv, TypeInv
<1>. DEFINE t == job[c]
<1>1. UNCHANGED sub /\ Complete(t) /\ Owning(c)
  BY DEF CompleteUnverified, CompleteVerified, TakesResult, Owning, submitVars
<1>2. t \in Tasks /\ t \in running /\ Phase[t] = "active" /\ taskStatus[t] # "blocked"
  BY <1>1, OwnedIsActive, OwnerHolds
<1>3. /\ UNCHANGED <<need, failed>>
      /\ running' = running \ {t}
      /\ completed' = completed \cup {t}
      /\ \A u \in Tasks : pending'[u] = IF u \in Woken(t) THEN pending[u] + 1 ELSE pending[u]
      /\ t \notin Woken(t)
  BY <1>1, <1>2 DEF Complete, Woken
<1>4. ASSUME NEW u \in Woken(t)
      PROVE  /\ u \in Tasks /\ pending[u] = 0 /\ Phase[u] = "waiting"
             /\ Lifecycles!Done(Needs[u] \ {t})
  <2>1. u \in Tasks /\ taskStatus[u] = "blocked" /\ AllDone(deps[u] \ {t}, gTasks) /\ u \in gTasks
    BY <1>4 DEF Woken, TypeOK, QueueTypeOK
  <2>2. deps[u] = need[u] /\ sub[u] = "accepted"
    BY <2>1 DEF Inv, Linked, StatusSound, InGraph
  <2>3. need[u] \ {t} \subseteq completed
    BY <2>1, <2>2 DEF AllDone, Inv, StatusSound, TypeOK, QueueTypeOK
  <2>4. u \notin completed /\ u \notin running /\ pending[u] = 0
    BY <2>1 DEF BooksInv, CompletedFinal, RunningSound, Inv, OneHolder
  <2>5. t \notin failed
    BY <1>2 DEF BooksInv, FailedFinal
  <2>6. u \notin failed
    BY <2>1, <2>3, <2>5 DEF BooksInv, FailedFinal, CompletedFinal
  <2>7. Phase[u] = "waiting" /\ Needs[u] = need[u]
    BY <2>1, <2>2, <2>4, <2>6, PhaseOf DEF PhaseSays
  <2>8. Lifecycles!Done(Needs[u] \ {t})
    BY <2>3, <2>7, PhaseOf DEF PhaseSays, Lifecycles!Done, TypeOK, QueueTypeOK
  <2>. QED
    BY <2>1, <2>4, <2>7, <2>8
<1>5. Phase'[t] = "completed"
  BY <1>2, <1>3, PhaseOf DEF PhaseSays
<1>6. ASSUME NEW u \in Woken(t)
      PROVE  Phase'[u] = "ready"
  <2>1. u \in Tasks /\ u # t /\ pending'[u] = 1
    <3>1. u \in Tasks /\ pending[u] = 0
      BY <1>4
    <3>2. pending'[u] = pending[u] + 1
      BY <1>3, <3>1
    <3>3. u # t
      BY <1>3
    <3>. QED
      BY <3>1, <3>2, <3>3
  <2>2. u \notin completed' /\ u \notin failed'
    BY <1>3, <1>4, <2>1, PhaseOf DEF PhaseSays
  <2>. QED
    BY <2>1, <2>2, PhaseOf DEF PhaseSays
<1>7. \A u \in Tasks : u # t /\ u \notin Woken(t) => Phase'[u] = Phase[u]
  BY <1>1, <1>3 DEF Phase
<1>8. Phase' = [u \in Tasks |-> IF u = t THEN "completed"
                               ELSE IF u \in Woken(t) THEN "ready" ELSE Phase[u]]
  <2>1. Phase' = [u \in Tasks |-> Phase'[u]]
    BY DEF Phase
  <2>. QED
    BY <1>5, <1>6, <1>7, <2>1
<1>9. \A u \in Tasks : Needs'[u] = Needs[u]
  BY <1>2, <1>3, <1>4, <1>5, <1>6, <1>7, PhaseOf DEF PhaseSays
<1>10. Lifecycles!Finish(t, Woken(t)) /\ Woken(t) \in SUBSET Tasks
  BY <1>2, <1>4, <1>8, <1>9, NeedsFrame DEF Lifecycles!Finish
<1>. QED
  BY <1>2, <1>10 DEF Lifecycles!Next

\* A refused result makes the task ready again.
LEMMA RequeueRetries ==
  ASSUME IInv, BooksInv, NEW c \in Calls, Requeue(c)
  PROVE  Lifecycles!Next
<1>. USE DEF IInv, TypeInv
<1>. DEFINE t == job[c]
<1>1. UNCHANGED <<need, running, completed, failed, sub>> /\ Owning(c)
  BY DEF Requeue, Enqueue, Owning, submitVars
<1>2. t \in Tasks /\ t \in running /\ Phase[t] = "active"
  BY <1>1, OwnedIsActive
<1>3. pending'[t] = 1 /\ \A u \in Tasks : u # t => pending'[u] = pending[u]
  BY <1>2, RequeueReady DEF TypeOK, QueueTypeOK
<1>4. Phase'[t] = "ready"
  BY <1>1, <1>2, <1>3, PhaseOf DEF PhaseSays
<1>5. \A u \in Tasks : u # t => Phase'[u] = Phase[u]
  BY <1>1, <1>3 DEF Phase
<1>6. \A u \in Tasks : Needs'[u] = Needs[u]
  BY <1>1, <1>2, <1>4, <1>5, PhaseOf DEF PhaseSays
<1>7. Lifecycles!Retry(t)
  BY <1>2, <1>4, <1>5, <1>6, PhaseBecomes, NeedsFrame DEF Lifecycles!Retry
<1>. QED
  BY <1>2, <1>7 DEF Lifecycles!Next

\* Fail fails the task itself.
LEMMA FailFails ==
  ASSUME IInv, BooksInv, NEW c \in Calls, FailExecution(c) \/ FailVerification(c)
  PROVE  Lifecycles!Next
<1>. USE DEF IInv, TypeInv
<1>. DEFINE t == job[c]
<1>1. UNCHANGED sub /\ Fail(t) /\ Owning(c)
  BY DEF FailExecution, FailVerification, FailTask, TakesResult, Owning, submitVars
<1>2. t \in Tasks /\ t \in running /\ t \notin completed /\ Phase[t] = "active"
  BY <1>1, OwnedIsActive DEF BooksInv, CompletedFinal
<1>3. /\ UNCHANGED <<need, pending, completed>>
      /\ running' = running \ {t} /\ failed' = failed \cup {t}
  BY <1>1, <1>2 DEF Fail
<1>4. Phase'[t] = "failed"
  BY <1>2, <1>3, PhaseOf DEF PhaseSays
<1>5. \A u \in Tasks : u # t => Phase'[u] = Phase[u]
  BY <1>1, <1>3 DEF Phase
<1>6. \A u \in Tasks : Needs'[u] = Needs[u]
  BY <1>2, <1>3, <1>4, <1>5, PhaseOf DEF PhaseSays
<1>7. Lifecycles!Fail(t)
  BY <1>2, <1>4, <1>5, <1>6, PhaseBecomes, NeedsFrame DEF Lifecycles!Fail
<1>. QED
  BY <1>2, <1>7 DEF Lifecycles!Next

\* failDependents dooms dependents that have not started.
LEMMA CascadeDooms ==
  ASSUME IInv, BooksInv, NEW c \in Calls, FailCascades(c)
  PROVE  [Lifecycles!Next]_(Lifecycles!vars)
<1>. USE DEF IInv, TypeInv
<1>1. PICK x \in cascade : FailDependents(x)
  BY DEF FailCascades
<1>. DEFINE D == Doomed(x) \ failed
<1>2. /\ UNCHANGED <<need, pending, running, completed, sub>>
      /\ failed' = failed \cup D
  BY <1>1 DEF FailCascades, FailDependents, submitVars
<1>3. ASSUME NEW u \in D
      PROVE  /\ u \in Tasks /\ u \notin completed /\ x \in need[u]
             /\ Phase[u] \in {"unknown", "waiting"}
  BY <1>3, DoomedWait, PhaseOf DEF PhaseSays
<1>4. \A u \in Tasks : u \notin D => Phase'[u] = Phase[u] /\ Needs'[u] = Needs[u]
  BY <1>2 DEF Phase, Needs
<1>5. CASE D = {}
  BY <1>4, <1>5, PhaseFrame
<1>6. CASE D # {}
  <2>1. \A u \in D : Phase'[u] = "failed" /\ Needs'[u] = need[u]
    BY <1>2, <1>3, PhaseOf DEF PhaseSays
  <2>2. \A u \in D : Phase[u] = "waiting" => Needs'[u] = Needs[u]
    BY <1>3, <2>1, PhaseOf DEF PhaseSays
  <2>3. x \in Tasks /\ Phase[x] = "failed"
    BY PhaseOf DEF PhaseSays, BooksInv, RunningSound, CompletedFinal, TypeOK, QueueTypeOK
  <2>4. Lifecycles!Becomes(D, "failed")
    BY <1>4, <2>1, PhaseBecomes
  <2>5. Needs' \in [Tasks -> SUBSET Tasks]
    <3>1. need' \in [Tasks -> SUBSET Tasks]
      BY <1>2 DEF TypeOK, QueueTypeOK
    <3>. QED
      BY <3>1 DEF Needs
  <2>6. Lifecycles!Doom(D)
    BY <1>3, <1>4, <1>6, <2>1, <2>2, <2>3, <2>4, <2>5 DEF Lifecycles!Doom
  <2>7. D \in SUBSET Tasks
    BY <1>3
  <2>. QED
    BY <2>6, <2>7 DEF Lifecycles!Next
<1>. QED
  BY <1>5, <1>6

\* Every step is a step of the life of a task, or changes nothing in it.
LEMMA StepRefines == IInv /\ BooksInv /\ [Next]_vars => [Lifecycles!Next]_(Lifecycles!vars)
<1>. SUFFICES ASSUME IInv, BooksInv, [Next]_vars PROVE [Lifecycles!Next]_(Lifecycles!vars)
  OBVIOUS
<1>1. CASE UNCHANGED <<need, pending, running, completed, failed, sub>>
  BY <1>1, PhaseFrame DEF Phase, Needs
<1>2. CASE UNCHANGED <<queueVars, sub>>
  BY <1>1, <1>2 DEF queueVars
<1>3. ASSUME NEW t \in Tasks, SubmitNew(t) \/ SubmitStep(t) PROVE [Lifecycles!Next]_(Lifecycles!vars)
  BY <1>3, SubmitStutters, EnqueueAccepts
<1>4. ASSUME NEW c \in Calls, BeginVerify(c) \/ RejectResult(c) PROVE [Lifecycles!Next]_(Lifecycles!vars)
  BY <1>1, <1>4 DEF BeginVerify, RejectResult, submitVars
<1>. QED
  BY <1>2, <1>3, <1>4, AssignDispatches, CompleteFinishes, RequeueRetries, FailFails, CascadeDooms, StepKinds

\* The orchestrator implements the abstract life of a task: for any tasks,
\* callers, agents, retries and failures a caller sees nothing else.
THEOREM LifecycleImplemented == Spec => ImplementsLifecycle
<1>1. Init => Lifecycles!Init
  BY DEF Init, QueueInit, Lifecycles!Init, Phase, Needs
<1>. QED
  BY <1>1, StepRefines, BooksInit, BooksNext, InductiveInvariant, PTL
     DEF Spec, ImplementsLifecycle, Lifecycles!Spec

-----------------------------------------------------------------------------
(* Cycles, with one caller at a time.                                      *)

\* From the temporary addition to Enqueue.
OnTrialStates == {"add", "check", "detect", "withdraw", "clear", "enqueue"}

\* The submissions under way of one caller: a task of its own or, while it holds on
\* to a complex one, a subtask of that.
OneTrial ==
  /\ \A t, u \in Tasks \ Subtasks : Submitting(t) /\ Submitting(u) => t = u
  /\ \A t \in Tasks : sub[t] = "planning" => t \notin Subtasks
  /\ \A t \in Subtasks : sub[t] \in OnTrialStates =>
       /\ sub[Parent(t)] = "planning"
       /\ \A u \in Plan[Parent(t)] : u # t => sub[u] \in {"new", "accepted"}

\* The tasks that passed the check for cycles.
Checked == {t \in Tasks : sub[t] \in {"clear", "enqueue", "accepted"}}

\* They do not depend on each other in a cycle, and those that the check looks at
\* are in the graph it searches.
CheckedAcyclic ==
  /\ \A t \in Tasks : sub[t] \in {"check", "detect", "clear", "accepted"} => t \in gTasks
  /\ \A S \in SUBSET Checked : S # {} => \E t \in S : need[t] \cap S = {}

TrialInv == OneTrial /\ CheckedAcyclic

\* The subtasks of a plan, and their parent.
LEMMA ParentOf ==
  /\ Subtasks \subseteq Tasks
  /\ \A t \in Subtasks : Parent(t) \in Tasks \ Subtasks /\ t \in Plan[Parent(t)]
  /\ \A p \in Tasks : \A t \in Plan[p] : t \in Subtasks /\ Parent(t) = p
<1>1. \A p \in Tasks : Plan[p] \subseteq Tasks
  BY OrchestratorAssumption
<1>2. \A p \in Tasks : \A t \in Plan[p] : t \in Subtasks
  BY DEF Subtasks
<1>3. \A t \in Subtasks : Parent(t) \in Tasks /\ t \in Plan[Parent(t)]
  <2>1. \A t \in Subtasks : \E p \in Tasks : t \in Plan[p]
    BY DEF Subtasks
  <2>. QED
    BY <2>1 DEF Parent
<1>4. \A p \in Tasks : \A t \in Plan[p] : Parent(t) = p
  <2>1. \A p, q \in Tasks : p # q => Plan[p] \cap Plan[q] = {}
    BY OrchestratorAssumption
  <2>. QED
    BY <1>2, <1>3, <2>1
<1>5. \A t \in Subtasks : Parent(t) \notin Subtasks
  <2>1. \A p \in Tasks : \A t \in Plan[p] : Plan[t] = {}
    BY OrchestratorAssumption
  <2>2. \A t \in Subtasks : Plan[t] = {}
    BY <1>3, <2>1
  <2>. QED
    BY <1>3, <2>2
<1>. QED
  BY <1>1, <1>2, <1>3, <1>4, <1>5 DEF Subtasks

\* No two tasks are between Add and Enqueue.
LEMMA OnlyOne ==
  ASSUME TypeOK, OneTrial, NEW t \in Tasks, NEW u \in Tasks,
         sub[t] \in OnTrialStates, sub[u] \in OnTrialStates
  PROVE  t = u
<1>1. \A x \in Tasks : sub[x] \in OnTrialStates \cup {"planning"} => Submitting(x)
  BY DEF Submitting, OnTrialStates
<1>2. \A x \in Tasks : sub[x] \in OnTrialStates => sub[x] \notin {"planning", "new", "accepted"}
  BY DEF OnTrialStates
<1>3. CASE t \notin Subtasks /\ u \notin Subtasks
  BY <1>1, <1>3 DEF OneTrial
<1>4. ASSUME NEW x \in Subtasks, NEW y \in Tasks \ Subtasks,
             sub[x] \in OnTrialStates, sub[y] \in OnTrialStates
      PROVE  FALSE
  <2>1. Parent(x) \in Tasks \ Subtasks /\ sub[Parent(x)] = "planning"
    BY <1>4, ParentOf DEF OneTrial
  <2>2. Parent(x) = y
    BY <1>1, <1>4, <2>1 DEF OneTrial
  <2>. QED
    BY <1>2, <1>4, <2>1, <2>2
<1>5. CASE t \in Subtasks /\ u \in Subtasks
  <2>1. /\ Parent(t) \in Tasks \ Subtasks /\ Parent(u) \in Tasks \ Subtasks
        /\ sub[Parent(t)] = "planning" /\ sub[Parent(u)] = "planning" /\ u \in Plan[Parent(u)]
    BY <1>5, ParentOf DEF OneTrial
  <2>2. Parent(t) = Parent(u)
    BY <1>1, <2>1 DEF OneTrial
  <2>. QED
    BY <1>2, <1>5, <2>1, <2>2 DEF OneTrial
<1>. QED
  BY <1>3, <1>4, <1>5

\* A caller is let in only when no other is inside, if one is the limit.
LEMMA NobodyInside ==
  ASSUME MaxSubmitters = 1, OneTrial, NEW t \in Tasks, SubmitTask(t) \/ SubmitComplex(t)
  PROVE  \A u \in Tasks \ Subtasks : ~Submitting(u)
<1>. SUFFICES ASSUME NEW u \in Tasks \ Subtasks, Submitting(u)
              PROVE  FALSE
  OBVIOUS
<1>1. Submitters = {u}
  BY DEF OneTrial, Submitters
<1>2. Cardinality(Submitters) = 1
  BY <1>1, FS_Singleton
<1>3. Cardinality(Submitters) < 1
  BY DEF SubmitTask, SubmitComplex
<1>. QED
  BY <1>2, <1>3

\* What a step of a submission does to it.
LEMMA TrialMoves ==
  ASSUME TypeOK, NEW t \in Tasks, SubmitNew(t) \/ SubmitStep(t)
  PROVE  /\ \A u \in Tasks : u # t => sub'[u] = sub[u] /\ need'[u] = need[u]
         /\ \/ sub[t] = "new" /\ sub'[t] \in {"add", "planning"}
            \/ /\ need'[t] = need[t]
               /\ \/ sub[t] = "planning" /\ sub'[t] = "planned"
                  \/ /\ sub[t] \in OnTrialStates
                     /\ sub'[t] \in OnTrialStates \cup {"accepted", "rejected"}
<1>1. CASE SubmitTask(t) \/ SubmitComplex(t) \/ SubmitSubtask(t)
  <2>1. /\ sub[t] = "new" /\ sub \in [Tasks -> SubmitStates] /\ need \in [Tasks -> SUBSET Tasks]
        /\ \E to \in {"add", "planning"} : sub' = [sub EXCEPT ![t] = to]
        /\ need' = need \/ need' = [need EXCEPT ![t] = @ \cup {Parent(t)}]
    BY <1>1 DEF SubmitTask, SubmitComplex, SubmitSubtask, SubmitGoes, TypeOK, QueueTypeOK
  <2>. QED
    BY <2>1
<1>2. CASE \/ PlanSubmitted(t) \/ AddTemporarily(t) \/ CheckHasCycle(t) \/ CheckDetectCycle(t)
           \/ Withdraw(t) \/ ClearTemporary(t) \/ EnqueueSubmitted(t)
  <2>1. /\ UNCHANGED need /\ sub \in [Tasks -> SubmitStates]
        /\ \/ SubmitGoes(t, "planning", "planned")
           \/ \E from \in OnTrialStates, to \in OnTrialStates \cup {"accepted", "rejected"} :
                SubmitGoes(t, from, to)
    BY <1>2 DEF PlanSubmitted, AddTemporarily, CheckHasCycle, CheckDetectCycle, Withdraw,
       ClearTemporary, EnqueueSubmitted, Enqueue, SubmitGoes, OnTrialStates, queueVars, TypeOK
  <2>. QED
    BY <2>1 DEF SubmitGoes
<1>. QED
  BY <1>1, <1>2 DEF SubmitNew, SubmitStep

\* One caller has one task on trial.
LEMMA OneTrialKept ==
  ASSUME MaxSubmitters = 1, TypeOK, OneTrial, NEW t \in Tasks, SubmitNew(t) \/ SubmitStep(t)
  PROVE  OneTrial'
<1>1. \A u \in Tasks : u # t => sub'[u] = sub[u]
  BY TrialMoves
<1>2. \A u \in Tasks : Submitting(u)' <=> sub'[u] \notin {"new", "accepted", "rejected", "planned"}
  BY DEF Submitting
<1>3. \A u \in Tasks : Submitting(u) <=> sub[u] \notin {"new", "accepted", "rejected", "planned"}
  BY DEF Submitting
<1>4. \A u \in Subtasks : Parent(u) \in Tasks \ Subtasks /\ u \in Tasks /\ u \in Plan[Parent(u)]
  BY ParentOf
<1>5. CASE SubmitTask(t) \/ SubmitComplex(t)
  <2>1. /\ t \notin Subtasks /\ sub[t] = "new" /\ \A u \in Tasks \ Subtasks : ~Submitting(u)
    BY <1>5, NobodyInside DEF SubmitTask, SubmitComplex, SubmitGoes
  <2>2. \A u \in Subtasks : sub[u] \notin OnTrialStates
    BY <1>3, <1>4, <2>1 DEF OneTrial
  <2>3. \A u \in Subtasks : sub'[u] = sub[u]
    BY <1>1, <1>4, <2>1
  <2>4. \A u \in Tasks \ Subtasks : Submitting(u)' => u = t
    BY <1>1, <1>2, <1>3, <2>1
  <2>5. \A u \in Tasks : sub'[u] = "planning" => u \notin Subtasks
    BY <1>1, <2>1 DEF OneTrial
  <2>. QED
    BY <2>2, <2>3, <2>4, <2>5 DEF OneTrial
<1>6. CASE SubmitSubtask(t)
  <2>1. /\ t \in Subtasks /\ sub[t] = "new" /\ sub'[t] = "add" /\ sub[Parent(t)] = "planning"
        /\ \A u \in Plan[Parent(t)] : sub[u] \in {"new", "accepted"}
    BY <1>6 DEF SubmitSubtask, SubmitGoes, TypeOK
  <2>2. \A u \in Subtasks : sub[u] \notin OnTrialStates
    <3>. SUFFICES ASSUME NEW u \in Subtasks, sub[u] \in OnTrialStates
                  PROVE  FALSE
      OBVIOUS
    <3>1. sub[Parent(u)] = "planning"
      BY DEF OneTrial
    <3>2. Parent(u) = Parent(t)
      BY <1>3, <1>4, <2>1, <3>1 DEF OneTrial
    <3>. QED
      BY <1>4, <2>1, <3>2 DEF OnTrialStates
  <2>3. \A u \in Tasks \ Subtasks : sub'[u] = sub[u]
    BY <1>1, <2>1
  <2>4. \A u \in Plan[Parent(t)] : u # t => sub'[u] \in {"new", "accepted"}
    <3>1. \A u \in Plan[Parent(t)] : u \in Tasks
      BY <1>4, <2>1, ParentOf
    <3>. QED
      BY <1>1, <2>1, <3>1
  <2>5. \A x, u \in Tasks \ Subtasks : Submitting(x)' /\ Submitting(u)' => x = u
    BY <1>2, <1>3, <2>3 DEF OneTrial
  <2>6. \A u \in Tasks : sub'[u] = "planning" => u \notin Subtasks
    BY <1>1, <2>1 DEF OneTrial
  <2>7. \A u \in Subtasks : sub'[u] \in OnTrialStates => u = t
    BY <1>1, <1>4, <2>2
  <2>8. sub'[Parent(t)] = "planning"
    BY <1>4, <2>1, <2>3
  <2>. QED
    BY <2>4, <2>5, <2>6, <2>7, <2>8 DEF OneTrial
<1>7. CASE SubmitStep(t) /\ ~SubmitSubtask(t)
  <2>1. \/ sub[t] = "planning" /\ sub'[t] = "planned"
        \/ sub[t] \in OnTrialStates /\ sub'[t] \in OnTrialStates \cup {"accepted", "rejected"}
    BY <1>7, TrialMoves DEF SubmitStep, PlanSubmitted, AddTemporarily, CheckHasCycle,
       CheckDetectCycle, Withdraw, ClearTemporary, EnqueueSubmitted, SubmitGoes
  <2>2. \A u \in Tasks : Submitting(u)' => Submitting(u)
    BY <1>1, <1>2, <1>3, <2>1 DEF OnTrialStates
  <2>3. \A u \in Tasks : sub'[u] = "planning" => sub[u] = "planning"
    BY <1>1, <2>1 DEF OnTrialStates
  <2>4. ASSUME NEW u \in Subtasks, sub'[u] \in OnTrialStates
        PROVE  /\ sub'[Parent(u)] = "planning"
               /\ \A x \in Plan[Parent(u)] : x # u => sub'[x] \in {"new", "accepted"}
    <3>1. sub[u] \in OnTrialStates
      BY <1>1, <1>4, <2>1, <2>4 DEF OnTrialStates
    <3>2. /\ sub[Parent(u)] = "planning"
          /\ \A x \in Plan[Parent(u)] : x # u => sub[x] \in {"new", "accepted"}
      BY <3>1 DEF OneTrial
    <3>3. CASE sub[t] = "planning"
      <4>1. PlanSubmitted(t)
        BY <1>7, <3>3 DEF SubmitStep, AddTemporarily, CheckHasCycle, CheckDetectCycle, Withdraw,
           ClearTemporary, EnqueueSubmitted, SubmitGoes
      <4>2. t # Parent(u)
        <5>. SUFFICES ASSUME t = Parent(u)
                      PROVE  FALSE
          OBVIOUS
        <5>1. u \in Plan[t] /\ sub[u] # "accepted" /\ sub[u] # "rejected"
          BY <1>4, <3>1 DEF OnTrialStates
        <5>. QED
          BY <3>2, <4>1, <5>1 DEF PlanSubmitted
      <4>3. t \notin Subtasks
        BY <3>3 DEF OneTrial
      <4>. QED
        BY <1>1, <1>4, <3>2, <4>2, <4>3, ParentOf
    <3>4. CASE sub[t] \in OnTrialStates
      <4>1. t = u
        BY <1>4, <3>1, <3>4, OnlyOne
      <4>2. Parent(u) # t
        BY <1>4, <4>1
      <4>3. \A x \in Plan[Parent(u)] : x \in Tasks
        BY <1>4, ParentOf
      <4>. QED
        BY <1>1, <1>4, <3>2, <4>1, <4>2, <4>3
    <3>. QED
      BY <2>1, <3>3, <3>4
  <2>5. \A x, u \in Tasks \ Subtasks : Submitting(x)' /\ Submitting(u)' => x = u
    BY <2>2 DEF OneTrial
  <2>6. \A u \in Tasks : sub'[u] = "planning" => u \notin Subtasks
    BY <2>3 DEF OneTrial
  <2>. QED
    BY <2>4, <2>5, <2>6 DEF OneTrial
<1>. QED
  BY <1>5, <1>6, <1>7 DEF SubmitNew

\* With one task on trial, what the check saw is what Enqueue adds.
LEMMA CheckedKept ==
  ASSUME IInv, OneTrial, CheckedAcyclic, NEW t \in Tasks, SubmitNew(t) \/ SubmitStep(t)
  PROVE  CheckedAcyclic'
<1>. USE DEF IInv, TypeInv
<1>1. /\ \A u \in Tasks : u # t => sub'[u] = sub[u] /\ need'[u] = need[u]
      /\ \/ sub[t] = "new" /\ sub'[t] \in {"add", "planning"}
         \/ /\ need'[t] = need[t]
            /\ \/ sub[t] = "planning" /\ sub'[t] = "planned"
               \/ /\ sub[t] \in OnTrialStates
                  /\ sub'[t] \in OnTrialStates \cup {"accepted", "rejected"}
  BY TrialMoves
<1>2. \A u \in Tasks : sub'[u] \in {"check", "detect", "clear", "accepted"} => u \in gTasks'
  <2>1. gTasks \ {t} \subseteq gTasks' /\ (sub'[t] # "rejected" /\ sub'[t] # "enqueue" => gTasks \subseteq gTasks')
    BY DEF SubmitNew, SubmitStep, SubmitTask, SubmitComplex, SubmitSubtask, PlanSubmitted,
       AddTemporarily, CheckHasCycle, CheckDetectCycle, Withdraw, ClearTemporary, EnqueueSubmitted,
       Enqueue, SubmitGoes, queueVars, Add, Remove, TypeOK, QueueTypeOK
  <2>2. ASSUME sub'[t] \in {"check", "detect", "clear", "accepted"}
        PROVE  t \in gTasks'
    <3>1. CASE AddTemporarily(t) \/ EnqueueSubmitted(t)
      BY <3>1 DEF AddTemporarily, EnqueueSubmitted, Enqueue, Add
    <3>2. CASE CheckHasCycle(t) \/ CheckDetectCycle(t)
      <4>1. t \in gTasks
        BY <3>2 DEF CheckHasCycle, CheckDetectCycle, SubmitGoes, CheckedAcyclic
      <4>. QED
        BY <2>1, <2>2, <4>1
    <3>3. CASE Withdraw(t) \/ ClearTemporary(t) \/ SubmitTask(t) \/ SubmitComplex(t)
               \/ SubmitSubtask(t) \/ PlanSubmitted(t)
      BY <2>2, <3>3 DEF Withdraw, ClearTemporary, SubmitTask, SubmitComplex, SubmitSubtask,
         PlanSubmitted, SubmitGoes, TypeOK
    <3>. QED
      BY <3>1, <3>2, <3>3 DEF SubmitNew, SubmitStep
  <2>. QED
    BY <1>1, <2>1, <2>2 DEF CheckedAcyclic
<1>3. \A u \in Tasks : u \in Checked => u \in Tasks /\ need'[u] = need[u]
  BY <1>1 DEF Checked
<1>4. CASE Checked' \subseteq Checked
  BY <1>3, <1>4, <1>2 DEF CheckedAcyclic, Checked
<1>5. CASE ~(Checked' \subseteq Checked)
  <2>1. /\ sub'[t] = "clear" /\ sub[t] \in {"check", "detect"}
        /\ CheckHasCycle(t) \/ CheckDetectCycle(t)
    <3>1. sub[t] \notin {"clear", "enqueue", "accepted"} /\ sub'[t] \in {"clear", "enqueue", "accepted"}
      BY <1>1, <1>5 DEF Checked
    <3>. QED
      BY <3>1 DEF SubmitNew, SubmitStep, SubmitTask, SubmitComplex, SubmitSubtask, PlanSubmitted,
         AddTemporarily, CheckHasCycle, CheckDetectCycle, Withdraw, ClearTemporary,
         EnqueueSubmitted, SubmitGoes, TypeOK
  <2>2. t \in gTasks /\ UNCHANGED <<need, gTasks, deps>>
    BY <2>1 DEF CheckedAcyclic, CheckHasCycle, CheckDetectCycle, queueVars
  <2>3. Checked' \subseteq Checked \cup {t} /\ Checked' \subseteq gTasks
    <3>1. \A u \in Tasks : u # t => sub[u] \notin OnTrialStates
      BY <2>1, OnlyOne DEF OnTrialStates
    <3>2. \A u \in Checked : u # t => u \in gTasks
      BY <3>1 DEF Checked, CheckedAcyclic, OnTrialStates
    <3>3. Checked' \subseteq Checked \cup {t}
      BY <1>1 DEF Checked
    <3>. QED
      BY <2>2, <3>2, <3>3
  <2>4. ASSUME NEW S \in SUBSET Checked', S # {}, \A x \in S : need[x] \cap S # {}
        PROVE  FALSE
    <3>1. Knotted(S)
      BY <2>3, <2>4 DEF Knotted, Inv, Linked
    <3>2. t \in S
      <4>1. ~(S \subseteq Checked)
        BY <2>4 DEF CheckedAcyclic
      <4>. QED
        BY <2>3, <4>1
    <3>3. S \in SUBSET Tasks /\ S \cap gTasks # {}
      BY <2>3, <2>4, <3>2, <2>2 DEF TypeOK, QueueTypeOK
    <3>4. HasCycle /\ DetectCycle(t)
      BY <3>1, <3>2, <3>3 DEF HasCycle, DetectCycle
    <3>5. sub'[t] # "clear"
      BY <2>1, <3>4 DEF CheckHasCycle, CheckDetectCycle, SubmitGoes, TypeOK
    <3>. QED
      BY <2>1, <3>5
  <2>5. \A S \in SUBSET Checked' : S # {} => \E x \in S : need'[x] \cap S = {}
    BY <2>2, <2>4
  <2>. QED
    BY <1>2, <2>5 DEF CheckedAcyclic
<1>. QED
  BY <1>4, <1>5

\* Every other step leaves the submissions and what they need alone.
LEMMA TrialNext == MaxSubmitters = 1 /\ IInv /\ TrialInv /\ [Next]_vars => TrialInv'
<1>. SUFFICES ASSUME MaxSubmitters = 1, IInv, TrialInv, [Next]_vars
              PROVE  TrialInv'
  OBVIOUS
<1>1. ASSUME NEW t \in Tasks, SubmitNew(t) \/ SubmitStep(t)
      PROVE  TrialInv'
  BY <1>1, OneTrialKept, CheckedKept DEF TrialInv, IInv, TypeInv
<1>2. CASE UNCHANGED <<sub, need>> /\ gTasks \subseteq gTasks'
  <2>1. OneTrial'
    BY <1>2 DEF TrialInv, OneTrial, Submitting
  <2>2. CheckedAcyclic'
    BY <1>2 DEF TrialInv, CheckedAcyclic, Checked
  <2>. QED
    BY <2>1, <2>2 DEF TrialInv
<1>3. \/ UNCHANGED <<sub, need>> /\ gTasks \subseteq gTasks'
      \/ \E t \in Tasks : SubmitNew(t) \/ SubmitStep(t)
  <2>1. CASE UNCHANGED <<queueVars, sub>>
    BY <2>1 DEF queueVars
  <2>2. ASSUME NEW a \in Agents, NEW t \in Tasks, NEW s \in Slots, Assign(a, t, s)
        PROVE  UNCHANGED <<sub, need>> /\ gTasks \subseteq gTasks'
    BY <2>2 DEF Assign, Dequeue, submitVars
  <2>3. ASSUME NEW c \in Calls,
               \/ BeginVerify(c) \/ CompleteUnverified(c) \/ CompleteVerified(c)
               \/ RejectResult(c) \/ Requeue(c) \/ FailExecution(c)
               \/ FailVerification(c) \/ FailCascades(c)
        PROVE  UNCHANGED <<sub, need>> /\ gTasks \subseteq gTasks'
    <3>1. CASE BeginVerify(c) \/ RejectResult(c)
      BY <3>1 DEF BeginVerify, RejectResult, submitVars
    <3>2. CASE CompleteUnverified(c) \/ CompleteVerified(c)
      BY <3>2 DEF CompleteUnverified, CompleteVerified, Complete, submitVars
    <3>3. CASE Requeue(c)
      BY <3>3 DEF Requeue, Enqueue, Add, submitVars
    <3>4. CASE FailExecution(c) \/ FailVerification(c) \/ FailCascades(c)
      BY <3>4 DEF FailExecution, FailVerification, FailCascades, FailTask, Fail, FailDependents, submitVars
    <3>. QED
      BY <2>3, <3>1, <3>2, <3>3, <3>4
  <2>. QED
    BY <2>1, <2>2, <2>3, StepKinds
<1>. QED
  BY <1>1, <1>2, <1>3

\* Nothing is submitted at first.
LEMMA TrialInit == Init => TrialInv
<1>. SUFFICES ASSUME Init
              PROVE  TrialInv
  OBVIOUS
<1>1. sub = [t \in Tasks |-> "new"]
  BY DEF Init
<1>2. Checked = {}
  BY <1>1 DEF Checked
<1>. QED
  BY <1>1, <1>2, ParentOf DEF TrialInv, OneTrial, CheckedAcyclic, Submitting, OnTrialStates

\* With one caller at a time, no cycle of accepted tasks can form: two are needed,
\* as the check and Enqueue are separate steps.
THEOREM OneCallerAcyclic ==
  ASSUME MaxSubmitters = 1
  PROVE  Spec => []AcceptedAcyclic
<1>1. IInv /\ TrialInv => AcceptedAcyclic
  <2>1. Accepted \subseteq Checked \/ ~IInv
    BY DEF Accepted, Checked, IInv, TypeInv, TypeOK, QueueTypeOK
  <2>. QED
    BY <2>1 DEF TrialInv, CheckedAcyclic, AcceptedAcyclic
<1>2. IInv /\ TrialInv /\ [Next]_vars => TrialInv'
  BY TrialNext
<1>. QED
  BY <1>1, <1>2, TrialInit, InductiveInvariant, PTL DEF Spec
=============================================================================
