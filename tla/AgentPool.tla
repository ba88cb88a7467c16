----------------------------- MODULE AgentPool -----------------------------
(***************************************************************************)
(* A managed pool of agents of one type (internal/core/agent/pool.go) over *)
(* the factory's CreateAgent and DestroyAgent (factory.go).                *)
(*                                                                         *)
(* GetAgent and ReturnAgent are critical sections of pool.mu.  AutoScale   *)
(* decides under pool.mu, gives it up, calls the factory, and takes it     *)
(* again to record the outcome: <<"down", a>> is a scaler that has chosen  *)
(* agent a, <<"gone", a>> one that has destroyed it.  Users and other      *)
(* scalers come in between.  Whether a cooldown is over is chosen freely.  *)
(*                                                                         *)
(* Agents are the numbers 1, 2, ... in the order of their creation: the    *)
(* ids are random and never used twice.                                    *)
(***************************************************************************)
EXTENDS Integers, FiniteSets

CONSTANTS Users,        \* goroutines that get and return agents
          Scalers,      \* goroutines that call AutoScale
          MinSize, MaxSize, TargetSize,   \* PoolConfig
          MaxCreated    \* bound on the agents ever created

ASSUME PoolAssumption ==
  /\ IsFiniteSet(Users) /\ IsFiniteSet(Scalers)
  /\ MinSize \in Nat /\ MaxSize \in Nat /\ TargetSize \in Nat /\ MaxCreated \in Nat
  /\ MinSize <= MaxSize /\ MinSize <= MaxCreated

VARIABLES pooled,       \* keys of pool.Agents
          free,         \* ids for which pool.Available is true
          taken,        \* ids for which pool.Available is false
          busy,         \* ids for which pool.Busy is true
          created,      \* number of agents created so far
          destroyed,    \* ids of agents the factory has stopped and dropped
          activeAgents, \* metrics.ActiveAgents
          idleAgents,   \* metrics.IdleAgents
          held,         \* what each user got from GetAgent
          scaling       \* progress of each AutoScale

poolVars == <<pooled, free, taken, busy, created, destroyed, activeAgents,
              idleAgents, held, scaling>>

Ids == 1..MaxCreated

\* 0: the user has no agent.  -1: it got pool.Agents[id] of an id that is no
\* longer there, a nil agent, and cannot return it.
Nothing == 0
NilAgent == -1

Idle == <<"idle", 0>>
ScalerStates == {Idle, <<"up", 0>>} \cup ({"down", "gone"} \X (1..created))

PoolTypeOK ==
  /\ created \in 0..MaxCreated
  /\ pooled \subseteq 1..created
  /\ free \subseteq 1..created
  /\ taken \subseteq 1..created
  /\ busy \subseteq 1..created
  /\ destroyed \subseteq 1..created
  /\ activeAgents \in Int
  /\ idleAgents \in Int
  /\ held \in [Users -> 1..created \cup {Nothing, NilAgent}]
  /\ scaling \in [Scalers -> ScalerStates]

\* InitializePools
PoolInit ==
  /\ pooled = 1..MinSize
  /\ free = 1..MinSize
  /\ taken = {}
  /\ busy = {}
  /\ created = MinSize
  /\ destroyed = {}
  /\ activeAgents = 0
  /\ idleAgents = MinSize
  /\ held = [u \in Users |-> Nothing]
  /\ scaling = [s \in Scalers |-> Idle]

-----------------------------------------------------------------------------
(* Users.                                                                  *)

\* Mutant: the agent stays available.
TakeKeepsFree(u, a) ==
  /\ held[u] = Nothing
  /\ a \in free
  /\ busy' = busy \cup {a}
  /\ activeAgents' = activeAgents + 1
  /\ idleAgents' = idleAgents - 1
  /\ held' = [held EXCEPT ![u] = IF a \in pooled THEN a ELSE NilAgent]
  /\ UNCHANGED <<pooled, free, taken, created, destroyed, scaling>>

\* GetAgent, with an available agent.
TakeFree(u, a) ==
  /\ held[u] = Nothing
  /\ a \in free
  /\ free' = free \ {a}
  /\ taken' = taken \cup {a}
  /\ busy' = busy \cup {a}
  /\ activeAgents' = activeAgents + 1
  /\ idleAgents' = idleAgents - 1
  /\ held' = [held EXCEPT ![u] = IF a \in pooled THEN a ELSE NilAgent]
  /\ UNCHANGED <<pooled, created, destroyed, scaling>>

\* GetAgent, with none available and room to grow: the factory is called under
\* pool.mu, and the new agent gets no entry in Available.  (When the pool may
\* not grow or CreateAgent fails, GetAgent only counts the failure.)
TakeNew(u) ==
  /\ held[u] = Nothing
  /\ free = {}
  /\ Cardinality(pooled) < MaxSize
  /\ created < MaxCreated
  /\ created' = created + 1
  /\ pooled' = pooled \cup {created'}
  /\ busy' = busy \cup {created'}
  /\ activeAgents' = activeAgents + 1
  /\ held' = [held EXCEPT ![u] = created']
  /\ UNCHANGED <<free, taken, destroyed, idleAgents, scaling>>

\* Mutant: the gauge of idle agents is not raised again.
ReturnUncounted(u) ==
  /\ held[u] \in Ids
  /\ busy' = busy \ {held[u]}
  /\ free' = free \cup {held[u]}
  /\ taken' = taken \ {held[u]}
  /\ activeAgents' = activeAgents - 1
  /\ held' = [held EXCEPT ![u] = Nothing]
  /\ UNCHANGED <<pooled, created, destroyed, scaling, idleAgents>>

\* ReturnAgent.  It does not ask whether the agent is still pooled.
ReturnAgent(u) ==
  /\ held[u] \in Ids
  /\ IF held[u] \in busy
     THEN /\ busy' = busy \ {held[u]}
          /\ free' = free \cup {held[u]}
          /\ taken' = taken \ {held[u]}
          /\ activeAgents' = activeAgents - 1
          /\ idleAgents' = idleAgents + 1
     ELSE UNCHANGED <<busy, free, taken, activeAgents, idleAgents>>
  /\ held' = [held EXCEPT ![u] = Nothing]
  /\ UNCHANGED <<pooled, created, destroyed, scaling>>

-----------------------------------------------------------------------------
(* AutoScale.                                                              *)

\* len(pool.Available): the entries that are false count too.
Listed == Cardinality(free \cup taken)

DecideUp(s) ==
  /\ scaling[s] = Idle
  /\ Listed < 2
  /\ Cardinality(pooled) < MaxSize
  /\ scaling' = [scaling EXCEPT ![s] = <<"up", 0>>]
  /\ UNCHANGED <<pooled, free, taken, busy, created, destroyed, activeAgents,
                 idleAgents, held>>

\* Mutant: the lower limit is not looked at.
DecideDownUnbounded(s, a) ==
  /\ scaling[s] = Idle
  /\ ~ (Listed < 2 /\ Cardinality(pooled) < MaxSize)
  /\ Listed > TargetSize
  /\ a \in pooled \cap free
  /\ scaling' = [scaling EXCEPT ![s] = <<"down", a>>]
  /\ UNCHANGED <<pooled, free, taken, busy, created, destroyed, activeAgents,
                 idleAgents, held>>

DecideDown(s, a) ==
  /\ scaling[s] = Idle
  /\ ~ (Listed < 2 /\ Cardinality(pooled) < MaxSize)
  /\ Listed > TargetSize
  /\ Cardinality(pooled) > MinSize
  /\ a \in pooled \cap free
  /\ scaling' = [scaling EXCEPT ![s] = <<"down", a>>]
  /\ UNCHANGED <<pooled, free, taken, busy, created, destroyed, activeAgents,
                 idleAgents, held>>

\* CreateAgent, and the second critical section.  Nobody can see the new agent
\* before it is in the pool.
AddScaled(s) ==
  /\ scaling[s] = <<"up", 0>>
  /\ created < MaxCreated
  /\ created' = created + 1
  /\ pooled' = pooled \cup {created'}
  /\ free' = free \cup {created'}
  /\ idleAgents' = idleAgents + 1
  /\ scaling' = [scaling EXCEPT ![s] = Idle]
  /\ UNCHANGED <<taken, busy, destroyed, activeAgents, held>>

\* CreateAgent returned an error.
CreateFails(s) ==
  /\ scaling[s] = <<"up", 0>>
  /\ scaling' = [scaling EXCEPT ![s] = Idle]
  /\ UNCHANGED <<pooled, free, taken, busy, created, destroyed, activeAgents,
                 idleAgents, held>>

\* DestroyAgent stops the agent and drops it from the factory, or does not
\* find it because another scaler was faster.
DestroyAgent(s, a) ==
  /\ scaling[s] = <<"down", a>>
  /\ IF a \notin destroyed
     THEN /\ destroyed' = destroyed \cup {a}
          /\ scaling' = [scaling EXCEPT ![s] = <<"gone", a>>]
     ELSE /\ scaling' = [scaling EXCEPT ![s] = Idle]
          /\ UNCHANGED destroyed
  /\ UNCHANGED <<pooled, free, taken, busy, created, activeAgents, idleAgents,
                 held>>

\* Mutant: the agent is taken off the list of available agents only.
RemoveUnlists(s, a) ==
  /\ scaling[s] = <<"gone", a>>
  /\ free' = free \ {a}
  /\ taken' = taken \ {a}
  /\ idleAgents' = idleAgents - 1
  /\ scaling' = [scaling EXCEPT ![s] = Idle]
  /\ UNCHANGED <<pooled, busy, created, destroyed, activeAgents, held>>

\* The second critical section of a scaler that has destroyed an agent.
RemoveScaled(s, a) ==
  /\ scaling[s] = <<"gone", a>>
  /\ pooled' = pooled \ {a}
  /\ free' = free \ {a}
  /\ taken' = taken \ {a}
  /\ idleAgents' = idleAgents - 1
  /\ scaling' = [scaling EXCEPT ![s] = Idle]
  /\ UNCHANGED <<busy, created, destroyed, activeAgents, held>>

-----------------------------------------------------------------------------

UserStep(u) ==
  \/ \E a \in Ids : TakeFree(u, a)
  \/ TakeNew(u)
  \/ ReturnAgent(u)

ScalerStep(s) ==
  \/ DecideUp(s)
  \/ AddScaled(s)
  \/ CreateFails(s)
  \/ \E a \in Ids : \/ DecideDown(s, a)
                    \/ DestroyAgent(s, a)
                    \/ RemoveScaled(s, a)

PoolNext == \/ \E u \in Users : UserStep(u)
            \/ \E s \in Scalers : ScalerStep(s)

PoolSpec == PoolInit /\ [][PoolNext]_poolVars

-----------------------------------------------------------------------------
(* Properties.                                                             *)

\* GetAgent hands an agent to one user at a time, whatever AutoScale does
\* meanwhile, and an agent that a user has is not on offer.
OneUserPerAgent ==
  /\ \A u, v \in Users : u # v /\ held[u] \in Ids => held[u] # held[v]
  /\ \A u \in Users : held[u] \in Ids => held[u] \in busy \ free

\* The gauges of PoolMetrics: ActiveAgents counts the busy ids, and IdleAgents
\* the free agents of the pool, less the ids that AutoScale removed from the
\* pool while a user had them.
GaugesAreExact ==
  /\ activeAgents = Cardinality(busy)
  /\ idleAgents = Cardinality(free \cap pooled) - Cardinality(busy \ pooled)

\* Each scaler that acts on an old decision can take the pool past a limit by
\* one agent, and no more: one scaler alone never goes below MinSize.
SizeNearLimits ==
  /\ Cardinality(pooled) <= MaxSize + Cardinality(Scalers)
  /\ Cardinality(pooled) >= MinSize
       - (IF Scalers = {} THEN 0 ELSE Cardinality(Scalers) - 1)

\* What the pool knows of its size is so, and its size is near its limits.
PoolCountsHold == GaugesAreExact /\ SizeNearLimits

\* A user is given a stopped agent only while the scaler that stopped it has
\* yet to take it out of the pool.
StoppedOnlyInWindow ==
  [][\A u \in Users :
       (held[u] = Nothing /\ held'[u] \in destroyed)
         => \E s \in Scalers : scaling[s] = <<"gone", held'[u]>>]_poolVars
=============================================================================
