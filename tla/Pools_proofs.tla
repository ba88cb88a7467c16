---------------------------- MODULE Pools_proofs ----------------------------
(***************************************************************************)
(* Proofs about the two pools of agents: the managed pool and the pool of the *)
(* factory (internal/core/agent).                                          *)
(***************************************************************************)
EXTENDS AgentPool, FactoryPool, FiniteSetTheorems, TLAPS

-----------------------------------------------------------------------------
(***************************************************************************)
(* Proofs about the managed pool, for any number of users, scalers and     *)
(* agents and any limits.                                                  *)
(***************************************************************************)

-----------------------------------------------------------------------------
(* Types, one user per agent, and where stopped agents are.                *)

\* An agent that was stopped and is still in the pool has a scaler that is
\* about to take it out.
StoppedIsLeaving ==
  \A a \in pooled \cap destroyed : \E s \in Scalers : scaling[s] = <<"gone", a>>

UseInv == PoolTypeOK /\ OneUserPerAgent /\ StoppedIsLeaving

\* What is known of the progress of scalers.
LEMMA ScalerStatesHave ==
  ASSUME PoolTypeOK
  PROVE  /\ Idle \in ScalerStates /\ <<"up", 0>> \in ScalerStates
         /\ \A a \in 1..created : <<"down", a>> \in ScalerStates /\ <<"gone", a>> \in ScalerStates
         /\ \A a : <<"gone", a>> # Idle /\ <<"gone", a>> # <<"up", 0>>
         /\ \A a, b : <<"gone", a>> # <<"down", b>>
         /\ \A s \in Scalers, a \in Ids :
              scaling[s] \in {<<"down", a>>, <<"gone", a>>} => a \in 1..created
BY DEF ScalerStates, Idle, PoolTypeOK

\* A scaler that is not about to remove an agent may move on.
LEMMA OthersAreLeaving ==
  ASSUME StoppedIsLeaving, NEW s \in Scalers, NEW x,
         \A a : scaling[s] # <<"gone", a>>,
         scaling' = [scaling EXCEPT ![s] = x],
         pooled' \cap destroyed' \subseteq pooled \cap destroyed
  PROVE  StoppedIsLeaving'
<1>. SUFFICES ASSUME NEW a \in pooled \cap destroyed
              PROVE  \E t \in Scalers : scaling'[t] = <<"gone", a>>
  BY DEF StoppedIsLeaving
<1>1. PICK t \in Scalers : scaling[t] = <<"gone", a>>
  BY DEF StoppedIsLeaving
<1>2. t # s /\ scaling'[t] = scaling[t]
  BY <1>1
<1>. QED
  BY <1>1, <1>2

\* GetAgent, with an agent from the list or a new one.
LEMMA TakeKeepsUse ==
  ASSUME UseInv, NEW u \in Users, TakeNew(u) \/ \E a \in Ids : TakeFree(u, a)
  PROVE  UseInv'
<1>. USE DEF UseInv, PoolTypeOK, Ids, Nothing, NilAgent
<1>1. CASE TakeNew(u)
  <2>1. PoolTypeOK'
    BY <1>1, PoolAssumption DEF TakeNew, ScalerStates
  <2>2. OneUserPerAgent'
    BY <1>1, PoolAssumption DEF TakeNew, OneUserPerAgent
  <2>3. created + 1 \notin destroyed
    BY DEF TakeNew
  <2>4. pooled' \cap destroyed' = pooled \cap destroyed
    BY <1>1, <2>3 DEF TakeNew
  <2>5. StoppedIsLeaving'
    BY <1>1, <2>4 DEF TakeNew, StoppedIsLeaving
  <2>. QED
    BY <2>1, <2>2, <2>5
<1>2. ASSUME NEW a \in Ids, TakeFree(u, a)
      PROVE  UseInv'
  <2>1. PoolTypeOK'
    BY <1>2, PoolAssumption DEF TakeFree, ScalerStates
  <2>2. OneUserPerAgent'
    BY <1>2, PoolAssumption DEF TakeFree, OneUserPerAgent
  <2>3. StoppedIsLeaving'
    BY <1>2 DEF TakeFree, StoppedIsLeaving
  <2>. QED
    BY <2>1, <2>2, <2>3
<1>. QED
  BY <1>1, <1>2

LEMMA ReturnKeepsUse ==
  ASSUME UseInv, NEW u \in Users, ReturnAgent(u)
  PROVE  UseInv'
<1>. USE DEF UseInv, PoolTypeOK, Ids, Nothing, NilAgent
<1>1. PoolTypeOK'
  <2>1. held' \in [Users -> 1..created \cup {Nothing, NilAgent}]
    BY DEF ReturnAgent
  <2>2. activeAgents' \in Int /\ idleAgents' \in Int
    BY DEF ReturnAgent
  <2>3. held[u] \in 1..created
    BY PoolAssumption DEF ReturnAgent
  <2>4. free' \subseteq 1..created /\ taken' \subseteq 1..created /\ busy' \subseteq 1..created
    BY <2>3 DEF ReturnAgent
  <2>5. ScalerStates' = ScalerStates
    BY DEF ReturnAgent, ScalerStates
  <2>. QED
    BY <2>1, <2>2, <2>4, <2>5 DEF ReturnAgent
<1>2. OneUserPerAgent'
  BY PoolAssumption DEF ReturnAgent, OneUserPerAgent
<1>3. StoppedIsLeaving'
  BY DEF ReturnAgent, StoppedIsLeaving
<1>. QED
  BY <1>1, <1>2, <1>3

\* AutoScale.
LEMMA ScalerKeepsUse ==
  ASSUME UseInv, NEW s \in Scalers, ScalerStep(s)
  PROVE  UseInv'
<1>. USE DEF UseInv
<1>1. CASE DecideUp(s) \/ CreateFails(s)
  <2>1. PoolTypeOK'
    BY <1>1, ScalerStatesHave DEF DecideUp, CreateFails, PoolTypeOK, ScalerStates
  <2>2. OneUserPerAgent'
    BY <1>1 DEF DecideUp, CreateFails, OneUserPerAgent
  <2>3. StoppedIsLeaving'
    BY <1>1, ScalerStatesHave, OthersAreLeaving DEF DecideUp, CreateFails
  <2>. QED
    BY <2>1, <2>2, <2>3
<1>2. CASE AddScaled(s)
  <2>1. PoolTypeOK'
    BY <1>2, ScalerStatesHave, PoolAssumption
    DEF AddScaled, PoolTypeOK, ScalerStates, Ids, Nothing, NilAgent
  <2>2. OneUserPerAgent'
    BY <1>2, PoolAssumption DEF AddScaled, OneUserPerAgent, PoolTypeOK, Ids, Nothing, NilAgent
  <2>3. pooled' \cap destroyed' \subseteq pooled \cap destroyed
    BY <1>2, PoolAssumption DEF AddScaled, PoolTypeOK
  <2>4. StoppedIsLeaving'
    BY <1>2, <2>3, ScalerStatesHave, OthersAreLeaving DEF AddScaled
  <2>. QED
    BY <2>1, <2>2, <2>4
<1>3. ASSUME NEW a \in Ids, DecideDown(s, a)
      PROVE  UseInv'
  <2>1. a \in 1..created
    BY <1>3 DEF DecideDown, PoolTypeOK
  <2>2. PoolTypeOK'
    BY <1>3, <2>1, ScalerStatesHave DEF DecideDown, PoolTypeOK, ScalerStates
  <2>3. OneUserPerAgent'
    BY <1>3 DEF DecideDown, OneUserPerAgent
  <2>4. StoppedIsLeaving'
    BY <1>3, ScalerStatesHave, OthersAreLeaving DEF DecideDown
  <2>. QED
    BY <2>2, <2>3, <2>4
<1>4. ASSUME NEW a \in Ids, DestroyAgent(s, a)
      PROVE  UseInv'
  <2>1. a \in 1..created
    BY <1>4, ScalerStatesHave DEF DestroyAgent
  <2>2. PoolTypeOK'
    <3>1. UNCHANGED <<pooled, free, taken, busy, created, activeAgents, idleAgents, held>>
      BY <1>4 DEF DestroyAgent
    <3>2. destroyed' \subseteq 1..created
      BY <1>4, <2>1 DEF DestroyAgent, PoolTypeOK
    <3>3. scaling' \in [Scalers -> ScalerStates]
      BY <1>4, <2>1 DEF DestroyAgent, PoolTypeOK, ScalerStates
    <3>. QED
      BY <3>1, <3>2, <3>3 DEF PoolTypeOK, ScalerStates
  <2>3. OneUserPerAgent'
    BY <1>4 DEF DestroyAgent, OneUserPerAgent
  <2>4. StoppedIsLeaving'
    <3>1. CASE a \in destroyed
      BY <1>4, <3>1, ScalerStatesHave, OthersAreLeaving DEF DestroyAgent
    <3>2. CASE a \notin destroyed
      <4>. SUFFICES ASSUME NEW b \in pooled \cap (destroyed \cup {a})
                    PROVE  \E t \in Scalers : scaling'[t] = <<"gone", b>>
        BY <1>4, <3>2 DEF DestroyAgent, StoppedIsLeaving
      <4>1. CASE b = a
        BY <1>4, <3>2, <4>1 DEF DestroyAgent, PoolTypeOK
      <4>2. CASE b # a
        <5>1. PICK t \in Scalers : scaling[t] = <<"gone", b>>
          BY <4>2 DEF StoppedIsLeaving
        <5>2. t # s
          BY <1>4, <5>1, ScalerStatesHave DEF DestroyAgent
        <5>3. scaling'[t] = scaling[t]
          BY <1>4, <3>2, <5>2 DEF DestroyAgent, PoolTypeOK
        <5>. QED
          BY <5>1, <5>3
      <4>. QED
        BY <4>1, <4>2
    <3>. QED
      BY <3>1, <3>2
  <2>. QED
    BY <2>2, <2>3, <2>4
<1>5. ASSUME NEW a \in Ids, RemoveScaled(s, a)
      PROVE  UseInv'
  <2>1. PoolTypeOK'
    <3>1. ScalerStates' = ScalerStates
      BY <1>5 DEF RemoveScaled, ScalerStates
    <3>2. scaling' \in [Scalers -> ScalerStates]
      BY <1>5, ScalerStatesHave DEF RemoveScaled, PoolTypeOK
    <3>3. idleAgents' \in Int
      BY <1>5 DEF RemoveScaled, PoolTypeOK
    <3>4. UNCHANGED <<busy, created, destroyed, activeAgents, held>>
      BY <1>5 DEF RemoveScaled
    <3>5. /\ pooled' \subseteq pooled
          /\ free' \subseteq free
          /\ taken' \subseteq taken
      BY <1>5 DEF RemoveScaled
    <3>. QED
      BY <3>1, <3>2, <3>3, <3>4, <3>5 DEF PoolTypeOK
  <2>2. OneUserPerAgent'
    BY <1>5 DEF RemoveScaled, OneUserPerAgent
  <2>3. StoppedIsLeaving'
    <3>. SUFFICES ASSUME NEW b \in pooled \cap destroyed, b # a
                  PROVE  \E t \in Scalers : scaling'[t] = <<"gone", b>>
      BY <1>5 DEF RemoveScaled, StoppedIsLeaving
    <3>1. PICK t \in Scalers : scaling[t] = <<"gone", b>>
      BY DEF StoppedIsLeaving
    <3>2. t # s
      BY <1>5, <3>1 DEF RemoveScaled
    <3>. QED
      BY <1>5, <3>1, <3>2 DEF RemoveScaled
  <2>. QED
    BY <2>1, <2>2, <2>3
<1>. QED
  BY <1>1, <1>2, <1>3, <1>4, <1>5 DEF ScalerStep

\* The invariant of this section.
LEMMA UseInvariant == PoolSpec => []UseInv
<1>1. PoolInit => UseInv
  BY PoolAssumption
  DEF PoolInit, UseInv, PoolTypeOK, OneUserPerAgent, StoppedIsLeaving, ScalerStates,
      Ids, Nothing, NilAgent
<1>2. UseInv /\ [PoolNext]_poolVars => UseInv'
  <2>. SUFFICES ASSUME UseInv, [PoolNext]_poolVars
                PROVE  UseInv'
    OBVIOUS
  <2>1. CASE UNCHANGED poolVars
    BY <2>1 DEF poolVars, UseInv, PoolTypeOK, OneUserPerAgent, StoppedIsLeaving, ScalerStates
  <2>2. ASSUME NEW u \in Users, UserStep(u)
        PROVE  UseInv'
    BY <2>2, TakeKeepsUse, ReturnKeepsUse DEF UserStep
  <2>3. ASSUME NEW s \in Scalers, ScalerStep(s)
        PROVE  UseInv'
    BY <2>3, ScalerKeepsUse
  <2>. QED
    BY <2>1, <2>2, <2>3 DEF PoolNext
<1>. QED
  BY <1>1, <1>2, PTL DEF PoolSpec

\* Every variable of the pool has its type in every reachable state.
THEOREM PoolTypes == PoolSpec => []PoolTypeOK
BY UseInvariant, PTL DEF UseInv

\* GetAgent never gives one agent to two users, however AutoScale and the
\* users interleave.
THEOREM PoolExclusive == PoolSpec => []OneUserPerAgent
BY UseInvariant, PTL DEF UseInv

\* A user is given a stopped agent only in the window between DestroyAgent and
\* the second critical section of AutoScale.
THEOREM PoolWindow == PoolSpec => StoppedOnlyInWindow
<1>1. UseInv /\ [PoolNext]_poolVars
        => [\A u \in Users :
              (held[u] = Nothing /\ held'[u] \in destroyed)
                => \E s \in Scalers : scaling[s] = <<"gone", held'[u]>>]_poolVars
  <2>. SUFFICES ASSUME UseInv, PoolNext, NEW u \in Users,
                       held[u] = Nothing, held'[u] \in destroyed
                PROVE  \E s \in Scalers : scaling[s] = <<"gone", held'[u]>>
    OBVIOUS
  <2>1. Nothing \notin destroyed /\ NilAgent \notin destroyed /\ created + 1 \notin destroyed
    BY PoolAssumption DEF UseInv, PoolTypeOK, Nothing, NilAgent
  <2>2. ASSUME NEW s \in Scalers, ScalerStep(s)
        PROVE  FALSE
    BY <2>1, <2>2
    DEF ScalerStep, DecideUp, AddScaled, CreateFails, DecideDown, DestroyAgent, RemoveScaled
  <2>3. PICK v \in Users : UserStep(v)
    BY <2>2 DEF PoolNext
  <2>4. ~ReturnAgent(v) /\ ~TakeNew(v)
    BY <2>1 DEF ReturnAgent, TakeNew, UseInv, PoolTypeOK
  <2>5. PICK a \in Ids : TakeFree(v, a)
    BY <2>3, <2>4 DEF UserStep
  <2>6. v = u /\ a \in pooled /\ held'[u] = a
    BY <2>1, <2>5 DEF TakeFree, UseInv, PoolTypeOK
  <2>. QED
    BY <2>6 DEF UseInv, StoppedIsLeaving
<1>. QED
  BY <1>1, UseInvariant, PTL DEF PoolSpec, StoppedOnlyInWindow

-----------------------------------------------------------------------------
(* The gauges.                                                             *)

\* Every agent of the pool is free or busy and none is both; a scaler that is
\* about to remove an agent is the only one, and the agent is still there.
BooksInv ==
  /\ free \cap busy = {}
  /\ pooled \subseteq free \cup busy
  /\ \A s \in Scalers, a \in Ids :
       scaling[s] = <<"gone", a>> => a \in pooled \cap destroyed
  /\ \A s \in Scalers, a \in Ids :
       scaling[s] = <<"down", a>> => a \in pooled \cup destroyed
  /\ \A s, t \in Scalers, a \in Ids :
       scaling[s] = <<"gone", a>> /\ scaling[t] = <<"gone", a>> => s = t

GaugeInv == UseInv /\ BooksInv /\ GaugesAreExact

\* Sets of agents are finite.
LEMMA AgentSetsFinite ==
  ASSUME PoolTypeOK, NEW S \in SUBSET (1..created)
  PROVE  IsFiniteSet(S) /\ Cardinality(S) \in Nat
<1>1. created \in Int
  BY PoolAssumption DEF PoolTypeOK
<1>2. IsFiniteSet(1..created)
  BY <1>1, FS_Interval
<1>. QED
  BY <1>2, FS_Subset, FS_CardinalityType

\* The agents that the two terms of the gauge of idle agents count.
LEMMA GaugeSetsFinite ==
  ASSUME PoolTypeOK
  PROVE  /\ IsFiniteSet(busy) /\ IsFiniteSet(free \cap pooled) /\ IsFiniteSet(busy \ pooled)
         /\ Cardinality(busy) \in Nat /\ Cardinality(free \cap pooled) \in Nat
         /\ Cardinality(busy \ pooled) \in Nat
         /\ activeAgents \in Int /\ idleAgents \in Int
BY AgentSetsFinite DEF PoolTypeOK

LEMMA BooksUser ==
  ASSUME UseInv, BooksInv, NEW u \in Users, UserStep(u)
  PROVE  BooksInv'
<1>. USE DEF UseInv, BooksInv
<1>1. ASSUME NEW a \in Ids, TakeFree(u, a)
      PROVE  BooksInv'
  BY <1>1 DEF TakeFree
<1>2. CASE TakeNew(u)
  <2>1. free = {} /\ pooled' = pooled \cup {created'} /\ busy' = busy \cup {created'}
    BY <1>2 DEF TakeNew
  <2>. QED
    BY <1>2, <2>1 DEF TakeNew
<1>3. CASE ReturnAgent(u)
  BY <1>3 DEF ReturnAgent
<1>. QED
  BY <1>1, <1>2, <1>3 DEF UserStep

LEMMA BooksScaler ==
  ASSUME UseInv, BooksInv, NEW s \in Scalers, ScalerStep(s)
  PROVE  BooksInv'
<1>. USE DEF UseInv, BooksInv
<1>0. \A x \in Ids : <<"gone", x>> # Idle /\ <<"gone", x>> # <<"up", 0>>
                      /\ <<"down", x>> # Idle /\ <<"down", x>> # <<"up", 0>>
  BY DEF Idle
<1>1. CASE DecideUp(s) \/ CreateFails(s)
  <2>1. UNCHANGED <<pooled, free, busy, destroyed>>
    BY <1>1 DEF DecideUp, CreateFails
  <2>2. \A t \in Scalers, x \in Ids :
          /\ scaling'[t] = <<"gone", x>> => scaling[t] = <<"gone", x>>
          /\ scaling'[t] = <<"down", x>> => scaling[t] = <<"down", x>>
    BY <1>0, <1>1 DEF DecideUp, CreateFails, PoolTypeOK
  <2>. QED
    BY <2>1, <2>2
<1>2. CASE AddScaled(s)
  <2>1. created + 1 \notin busy
    BY PoolAssumption DEF PoolTypeOK
  <2>2. (free \cap busy)' = {} /\ (pooled \subseteq free \cup busy)'
    BY <1>2, <2>1 DEF AddScaled
  <2>3. pooled \subseteq pooled' /\ destroyed' = destroyed
    BY <1>2 DEF AddScaled
  <2>. QED
    BY <1>0, <1>2, <2>2, <2>3 DEF AddScaled, PoolTypeOK
<1>3. ASSUME NEW a \in Ids, DecideDown(s, a)
      PROVE  BooksInv'
  BY <1>0, <1>3 DEF DecideDown, PoolTypeOK
<1>4. ASSUME NEW a \in Ids, DestroyAgent(s, a)
      PROVE  BooksInv'
  <2>0. \A x, y \in Ids : /\ <<"gone", x>> # <<"down", y>>
                           /\ <<"gone", x>> = <<"gone", y>> => x = y
    OBVIOUS
  <2>1. UNCHANGED <<pooled, free, busy>> /\ scaling[s] = <<"down", a>>
    BY <1>4 DEF DestroyAgent
  <2>2. CASE a \in destroyed
    <3>1. destroyed' = destroyed /\ scaling' = [scaling EXCEPT ![s] = Idle]
      BY <1>4, <2>2 DEF DestroyAgent
    <3>2. \A t \in Scalers, x \in Ids :
            /\ scaling'[t] = <<"gone", x>> => scaling[t] = <<"gone", x>>
            /\ scaling'[t] = <<"down", x>> => scaling[t] = <<"down", x>>
      BY <1>0, <3>1 DEF PoolTypeOK
    <3>. QED
      BY <2>1, <3>1, <3>2
  <2>3. CASE a \notin destroyed
    <3>1. destroyed' = destroyed \cup {a} /\ scaling' = [scaling EXCEPT ![s] = <<"gone", a>>]
      BY <1>4, <2>3 DEF DestroyAgent
    <3>2. \A t \in Scalers, x \in Ids :
            /\ scaling'[t] = <<"gone", x>>
                 => \/ t = s /\ x = a
                    \/ t # s /\ x # a /\ scaling[t] = <<"gone", x>>
            /\ scaling'[t] = <<"down", x>> => scaling[t] = <<"down", x>>
      BY <2>0, <2>3, <3>1 DEF PoolTypeOK
    <3>3. a \in pooled
      BY <2>1, <2>3
    <3>. QED
      BY <2>1, <3>1, <3>2, <3>3
  <2>. QED
    BY <2>2, <2>3
<1>5. ASSUME NEW a \in Ids, RemoveScaled(s, a)
      PROVE  BooksInv'
  <2>1. UNCHANGED <<busy, destroyed>> /\ pooled' = pooled \ {a} /\ free' = free \ {a}
    BY <1>5 DEF RemoveScaled
  <2>2. \A t \in Scalers, x \in Ids :
          /\ scaling'[t] = <<"gone", x>> => t # s /\ scaling[t] = <<"gone", x>>
          /\ scaling'[t] = <<"down", x>> => t # s /\ scaling[t] = <<"down", x>>
    BY <1>0, <1>5 DEF RemoveScaled, PoolTypeOK
  <2>3. scaling[s] = <<"gone", a>> /\ a \in destroyed
    BY <1>5 DEF RemoveScaled
  <2>. QED
    BY <2>1, <2>2, <2>3
<1>. QED
  BY <1>1, <1>2, <1>3, <1>4, <1>5 DEF ScalerStep

LEMMA GaugesUser ==
  ASSUME GaugeInv, NEW u \in Users, UserStep(u)
  PROVE  GaugesAreExact'
<1>. USE GaugeSetsFinite DEF GaugeInv, UseInv
<1>. USE DEF GaugesAreExact
<1>1. ASSUME NEW a \in Ids, TakeFree(u, a)
      PROVE  GaugesAreExact'
  <2>1. a \notin busy /\ a \in free
    BY <1>1 DEF TakeFree, BooksInv
  <2>2. Cardinality(busy') = Cardinality(busy) + 1
    BY <1>1, <2>1, FS_AddElement DEF TakeFree
  <2>5. activeAgents' = activeAgents + 1 /\ idleAgents' = idleAgents - 1
    BY <1>1 DEF TakeFree
  <2>3. CASE a \in pooled
    <3>1. (free \cap pooled)' = (free \cap pooled) \ {a} /\ (busy \ pooled)' = busy \ pooled
      BY <1>1, <2>3 DEF TakeFree
    <3>2. Cardinality((free \cap pooled)') = Cardinality(free \cap pooled) - 1
      BY <2>1, <2>3, <3>1, FS_RemoveElement
    <3>3. Cardinality((busy \ pooled)') = Cardinality(busy \ pooled)
      BY <3>1
    <3>. QED
      BY <2>2, <2>5, <3>2, <3>3
  <2>4. CASE a \notin pooled
    <3>1. (free \cap pooled)' = free \cap pooled /\ (busy \ pooled)' = (busy \ pooled) \cup {a}
      BY <1>1, <2>4 DEF TakeFree
    <3>2. Cardinality((busy \ pooled)') = Cardinality(busy \ pooled) + 1
      BY <2>1, <3>1, FS_AddElement
    <3>3. Cardinality((free \cap pooled)') = Cardinality(free \cap pooled)
      BY <3>1
    <3>. QED
      BY <2>2, <2>5, <3>2, <3>3
  <2>. QED
    BY <2>3, <2>4
<1>2. CASE TakeNew(u)
  <2>1. created' \notin busy /\ created' \notin pooled /\ created' \notin free
    BY <1>2, PoolAssumption DEF TakeNew, PoolTypeOK
  <2>2. Cardinality(busy') = Cardinality(busy) + 1
    BY <1>2, <2>1, FS_AddElement DEF TakeNew
  <2>3. (free \cap pooled)' = free \cap pooled /\ (busy \ pooled)' = busy \ pooled
    BY <1>2, <2>1 DEF TakeNew
  <2>. QED
    BY <1>2, <2>2, <2>3 DEF TakeNew
<1>3. CASE ReturnAgent(u)
  <2>. DEFINE a == held[u]
  <2>1. a \in busy /\ a \notin free
    BY <1>3 DEF ReturnAgent, OneUserPerAgent
  <2>2. Cardinality(busy') = Cardinality(busy) - 1
    BY <1>3, <2>1, FS_RemoveElement DEF ReturnAgent
  <2>5. activeAgents' = activeAgents - 1 /\ idleAgents' = idleAgents + 1
    BY <1>3, <2>1 DEF ReturnAgent
  <2>3. CASE a \in pooled
    <3>1. (free \cap pooled)' = (free \cap pooled) \cup {a} /\ (busy \ pooled)' = busy \ pooled
      BY <1>3, <2>1, <2>3 DEF ReturnAgent
    <3>2. Cardinality((free \cap pooled)') = Cardinality(free \cap pooled) + 1
      BY <2>1, <3>1, FS_AddElement
    <3>3. Cardinality((busy \ pooled)') = Cardinality(busy \ pooled)
      BY <3>1
    <3>. QED
      BY <2>2, <2>5, <3>2, <3>3
  <2>4. CASE a \notin pooled
    <3>1. (free \cap pooled)' = free \cap pooled /\ (busy \ pooled)' = (busy \ pooled) \ {a}
      BY <1>3, <2>1, <2>4 DEF ReturnAgent
    <3>2. Cardinality((busy \ pooled)') = Cardinality(busy \ pooled) - 1
      <4>1. a \in busy \ pooled /\ IsFiniteSet(busy \ pooled)
        BY <2>1, <2>4
      <4>2. Cardinality((busy \ pooled) \ {a}) = Cardinality(busy \ pooled) - 1
        <5>. HIDE DEF a
        <5>. QED
          BY <4>1, FS_RemoveElement
      <4>. QED
        BY <3>1, <4>2
    <3>3. Cardinality((free \cap pooled)') = Cardinality(free \cap pooled)
      BY <3>1
    <3>. QED
      BY <2>2, <2>5, <3>2, <3>3
  <2>. QED
    BY <2>3, <2>4
<1>. QED
  BY <1>1, <1>2, <1>3 DEF UserStep

LEMMA GaugesScaler ==
  ASSUME GaugeInv, NEW s \in Scalers, ScalerStep(s)
  PROVE  GaugesAreExact'
<1>. USE GaugeSetsFinite DEF GaugeInv, UseInv
<1>. USE DEF GaugesAreExact
<1>1. CASE \/ DecideUp(s) \/ CreateFails(s)
           \/ \E a \in Ids : DecideDown(s, a) \/ DestroyAgent(s, a)
  BY <1>1 DEF DecideUp, CreateFails, DecideDown, DestroyAgent
<1>2. CASE AddScaled(s)
  <2>1. created' \notin busy /\ created' \notin pooled /\ created' \notin free
    BY <1>2, PoolAssumption DEF AddScaled, PoolTypeOK
  <2>2. (free \cap pooled)' = (free \cap pooled) \cup {created'}
    BY <1>2, <2>1 DEF AddScaled
  <2>3. Cardinality((free \cap pooled)') = Cardinality(free \cap pooled) + 1
    BY <2>1, <2>2, FS_AddElement
  <2>4. (busy \ pooled)' = busy \ pooled /\ busy' = busy
    BY <1>2, <2>1 DEF AddScaled
  <2>5. /\ Cardinality((busy \ pooled)') = Cardinality(busy \ pooled)
        /\ Cardinality(busy') = Cardinality(busy)
    BY <2>4
  <2>6. activeAgents' = activeAgents /\ idleAgents' = idleAgents + 1
    BY <1>2 DEF AddScaled
  <2>. QED
    BY <2>3, <2>5, <2>6
<1>3. ASSUME NEW a \in Ids, RemoveScaled(s, a)
      PROVE  GaugesAreExact'
  <2>1. a \in pooled
    BY <1>3 DEF RemoveScaled, BooksInv
  <2>4. activeAgents' = activeAgents /\ idleAgents' = idleAgents - 1
    BY <1>3 DEF RemoveScaled
  <2>5. Cardinality(busy') = Cardinality(busy)
    BY <1>3 DEF RemoveScaled
  <2>2. CASE a \in free
    <3>1. a \notin busy
      BY <2>2 DEF BooksInv
    <3>2. (free \cap pooled)' = (free \cap pooled) \ {a} /\ (busy \ pooled)' = busy \ pooled
      BY <1>3, <3>1 DEF RemoveScaled
    <3>3. Cardinality((free \cap pooled)') = Cardinality(free \cap pooled) - 1
      BY <2>1, <2>2, <3>2, FS_RemoveElement
    <3>4. Cardinality((busy \ pooled)') = Cardinality(busy \ pooled)
      BY <3>2
    <3>. QED
      BY <2>4, <2>5, <3>3, <3>4
  <2>3. CASE a \notin free
    <3>1. a \in busy
      BY <2>1, <2>3 DEF BooksInv
    <3>2. (free \cap pooled)' = free \cap pooled /\ (busy \ pooled)' = (busy \ pooled) \cup {a}
      BY <1>3, <2>3, <3>1 DEF RemoveScaled
    <3>3. Cardinality((busy \ pooled)') = Cardinality(busy \ pooled) + 1
      BY <2>1, <3>2, FS_AddElement
    <3>4. Cardinality((free \cap pooled)') = Cardinality(free \cap pooled)
      BY <3>2
    <3>. QED
      BY <2>4, <2>5, <3>3, <3>4
  <2>. QED
    BY <2>2, <2>3
<1>. QED
  BY <1>1, <1>2, <1>3 DEF ScalerStep

\* ActiveAgents and IdleAgents of the metrics say what they should in every
\* reachable state, although AutoScale lowers IdleAgents for an agent that a
\* user may have taken meanwhile.
THEOREM PoolGauges == PoolSpec => []GaugesAreExact
<1>1. PoolInit => BooksInv /\ GaugesAreExact
  <2>1. Cardinality(1..MinSize) = MinSize /\ Cardinality({}) = 0
    BY PoolAssumption, FS_Interval, FS_EmptySet
  <2>2. PoolInit => BooksInv
    BY DEF PoolInit, BooksInv, Idle
  <2>3. PoolInit => free \cap pooled = 1..MinSize /\ busy \ pooled = {} /\ busy = {}
    BY DEF PoolInit
  <2>4. PoolInit => /\ Cardinality(free \cap pooled) = MinSize
                    /\ Cardinality(busy \ pooled) = 0 /\ Cardinality(busy) = 0
    BY <2>1, <2>3
  <2>5. PoolInit => activeAgents = 0 /\ idleAgents = MinSize
    BY DEF PoolInit
  <2>6. MinSize = MinSize - 0
    BY PoolAssumption
  <2>. QED
    BY <2>2, <2>4, <2>5, <2>6 DEF GaugesAreExact
<1>2. UseInv /\ BooksInv /\ GaugesAreExact /\ [PoolNext]_poolVars
        => BooksInv' /\ GaugesAreExact'
  <2>. SUFFICES ASSUME UseInv, BooksInv, GaugesAreExact, [PoolNext]_poolVars
                PROVE  BooksInv' /\ GaugesAreExact'
    OBVIOUS
  <2>1. CASE UNCHANGED poolVars
    BY <2>1 DEF poolVars, BooksInv, GaugesAreExact
  <2>2. ASSUME NEW u \in Users, UserStep(u)
        PROVE  BooksInv' /\ GaugesAreExact'
    BY <2>2, BooksUser, GaugesUser DEF GaugeInv
  <2>3. ASSUME NEW s \in Scalers, ScalerStep(s)
        PROVE  BooksInv' /\ GaugesAreExact'
    BY <2>3, BooksScaler, GaugesScaler DEF GaugeInv
  <2>. QED
    BY <2>1, <2>2, <2>3 DEF PoolNext
<1>. QED
  BY <1>1, <1>2, UseInvariant, PTL DEF PoolSpec

-----------------------------------------------------------------------------
(* The limits of the size.                                                 *)

\* Scalers that are about to add an agent, and those that may remove one.
Ups == {s \in Scalers : scaling[s] = <<"up", 0>>}
Downs == {s \in Scalers : \E a \in Ids : scaling[s] \in {<<"down", a>>, <<"gone", a>>}}

Slack == IF Scalers = {} THEN 0 ELSE Cardinality(Scalers) - 1

\* What is under way counts as done already.
SizeInv ==
  /\ Cardinality(pooled) + Cardinality(Ups) <= MaxSize + Cardinality(Scalers)
  /\ Cardinality(pooled) - Cardinality(Downs) >= MinSize - Slack

\* Sets of scalers are finite, as is the pool.
LEMMA SizesAreNumbers ==
  ASSUME PoolTypeOK
  PROVE  /\ IsFiniteSet(Scalers) /\ Cardinality(Scalers) \in Nat
         /\ IsFiniteSet(Ups) /\ Cardinality(Ups) \in Nat
         /\ IsFiniteSet(Downs) /\ Cardinality(Downs) \in Nat
         /\ Cardinality(Ups) <= Cardinality(Scalers)
         /\ IsFiniteSet(pooled) /\ Cardinality(pooled) \in Nat
         /\ MinSize \in Nat /\ MaxSize \in Nat /\ Slack \in Int
<1>1. IsFiniteSet(Scalers) /\ Cardinality(Scalers) \in Nat
  BY PoolAssumption, FS_CardinalityType
<1>2. Ups \in SUBSET Scalers /\ Downs \in SUBSET Scalers
  BY DEF Ups, Downs
<1>3. /\ IsFiniteSet(Ups) /\ Cardinality(Ups) <= Cardinality(Scalers)
      /\ IsFiniteSet(Downs)
  BY <1>1, <1>2, FS_Subset
<1>4. IsFiniteSet(pooled) /\ Cardinality(pooled) \in Nat
  BY AgentSetsFinite DEF PoolTypeOK
<1>5. Slack \in Int
  BY <1>1 DEF Slack
<1>. QED
  BY <1>1, <1>3, <1>4, <1>5, FS_CardinalityType, PoolAssumption

\* How the two sets follow the progress of a scaler.
LEMMA ScalerMoves ==
  ASSUME PoolTypeOK, NEW s \in Scalers, NEW x, scaling' = [scaling EXCEPT ![s] = x]
  PROVE  /\ Ups' = IF x = <<"up", 0>> THEN Ups \cup {s} ELSE Ups \ {s}
         /\ Downs' = IF \E a \in Ids : x \in {<<"down", a>>, <<"gone", a>>}
                     THEN Downs \cup {s} ELSE Downs \ {s}
<1>1. \A t \in Scalers : scaling'[t] = IF t = s THEN x ELSE scaling[t]
  BY DEF PoolTypeOK
<1>2. Ups' = {t \in Scalers : scaling'[t] = <<"up", 0>>}
  BY DEF Ups
<1>3. Downs' = {t \in Scalers : \E a \in Ids : scaling'[t] \in {<<"down", a>>, <<"gone", a>>}}
  BY DEF Downs
<1>4. Ups' = IF x = <<"up", 0>> THEN Ups \cup {s} ELSE Ups \ {s}
  BY <1>1, <1>2 DEF Ups
<1>5. CASE \E a \in Ids : x \in {<<"down", a>>, <<"gone", a>>}
  BY <1>1, <1>3, <1>4, <1>5 DEF Downs
<1>6. CASE ~ \E a \in Ids : x \in {<<"down", a>>, <<"gone", a>>}
  BY <1>1, <1>3, <1>4, <1>6 DEF Downs
<1>. QED
  BY <1>5, <1>6

LEMMA SizeUser ==
  ASSUME PoolTypeOK, SizeInv, NEW u \in Users, UserStep(u)
  PROVE  SizeInv'
<1>. USE SizesAreNumbers
<1>1. Ups' = Ups /\ Downs' = Downs /\ Slack' = Slack
  BY DEF UserStep, TakeFree, TakeNew, ReturnAgent, Ups, Downs, Slack
<1>2. CASE pooled' = pooled
  BY <1>1, <1>2 DEF SizeInv
<1>3. CASE TakeNew(u)
  <2>1. created' \notin pooled /\ pooled' = pooled \cup {created'}
    BY <1>3, PoolAssumption DEF TakeNew, PoolTypeOK
  <2>2. Cardinality(pooled') = Cardinality(pooled) + 1
    BY <2>1, FS_AddElement
  <2>3. Cardinality(pooled) < MaxSize
    BY <1>3 DEF TakeNew
  <2>4. Cardinality(Ups') = Cardinality(Ups) /\ Cardinality(Downs') = Cardinality(Downs)
    BY <1>1
  <2>. QED
    BY <1>1, <2>2, <2>3, <2>4 DEF SizeInv
<1>. QED
  BY <1>2, <1>3 DEF UserStep, TakeFree, ReturnAgent

LEMMA SizeScaler ==
  ASSUME PoolTypeOK, SizeInv, NEW s \in Scalers, ScalerStep(s)
  PROVE  SizeInv'
<1>. USE SizesAreNumbers
<1>0. /\ Slack' = Slack /\ Slack = Cardinality(Scalers) - 1
      /\ Idle # <<"up", 0>>
      /\ ~ \E a \in Ids : Idle \in {<<"down", a>>, <<"gone", a>>}
      /\ ~ \E a \in Ids : <<"up", 0>> \in {<<"down", a>>, <<"gone", a>>}
  BY DEF Slack, Idle
<1>1. CASE DecideUp(s)
  <2>1. /\ scaling[s] = Idle /\ scaling' = [scaling EXCEPT ![s] = <<"up", 0>>]
        /\ pooled' = pooled /\ Cardinality(pooled) < MaxSize
    BY <1>1 DEF DecideUp
  <2>2. s \notin Ups /\ s \notin Downs
    BY <1>0, <2>1 DEF Ups, Downs
  <2>3. Ups' = Ups \cup {s} /\ Downs' = Downs \ {s}
    BY <1>0, <2>1, ScalerMoves
  <2>4. Cardinality(Ups') = Cardinality(Ups) + 1 /\ Cardinality(Downs') = Cardinality(Downs)
    BY <2>2, <2>3, FS_AddElement, FS_RemoveElement
  <2>5. Ups \in SUBSET (Scalers \ {s}) /\ IsFiniteSet(Scalers \ {s})
        /\ Cardinality(Scalers \ {s}) = Cardinality(Scalers) - 1
    BY <2>2, FS_RemoveElement DEF Ups
  <2>6. Cardinality(Ups) <= Cardinality(Scalers) - 1
    BY <2>5, FS_Subset
  <2>7. Cardinality(pooled') = Cardinality(pooled)
    BY <2>1
  <2>8. Cardinality(pooled) < MaxSize
    BY <2>1
  <2>. QED
    BY <1>0, <2>4, <2>6, <2>7, <2>8 DEF SizeInv
<1>2. ASSUME NEW a \in Ids, DecideDown(s, a)
      PROVE  SizeInv'
  <2>1. /\ scaling[s] = Idle /\ scaling' = [scaling EXCEPT ![s] = <<"down", a>>]
        /\ pooled' = pooled /\ Cardinality(pooled) > MinSize
    BY <1>2 DEF DecideDown
  <2>2. s \notin Ups /\ s \notin Downs
    BY <1>0, <2>1 DEF Ups, Downs
  <2>3. Ups' = Ups \ {s} /\ Downs' = Downs \cup {s}
    BY <1>0, <2>1, ScalerMoves
  <2>4. Cardinality(Ups') = Cardinality(Ups) /\ Cardinality(Downs') = Cardinality(Downs) + 1
    BY <2>2, <2>3, FS_AddElement, FS_RemoveElement
  <2>5. Downs \in SUBSET (Scalers \ {s}) /\ IsFiniteSet(Scalers \ {s})
        /\ Cardinality(Scalers \ {s}) = Cardinality(Scalers) - 1
    BY <2>2, FS_RemoveElement DEF Downs
  <2>6. Cardinality(Downs) <= Cardinality(Scalers) - 1
    BY <2>5, FS_Subset
  <2>7. Cardinality(pooled') = Cardinality(pooled)
    BY <2>1
  <2>8. Cardinality(pooled) > MinSize
    BY <2>1
  <2>. QED
    BY <1>0, <2>4, <2>6, <2>7, <2>8 DEF SizeInv
<1>3. CASE AddScaled(s)
  <2>1. /\ scaling[s] = <<"up", 0>> /\ scaling' = [scaling EXCEPT ![s] = Idle]
        /\ created' \notin pooled /\ pooled' = pooled \cup {created'}
    BY <1>3, PoolAssumption DEF AddScaled, PoolTypeOK
  <2>2. s \in Ups /\ s \notin Downs
    BY <1>0, <2>1 DEF Ups, Downs
  <2>3. Ups' = Ups \ {s} /\ Downs' = Downs \ {s}
    BY <1>0, <2>1, ScalerMoves
  <2>4. Cardinality(Ups') = Cardinality(Ups) - 1 /\ Cardinality(Downs') = Cardinality(Downs)
    BY <2>2, <2>3, FS_RemoveElement
  <2>5. Cardinality(pooled') = Cardinality(pooled) + 1
    BY <2>1, FS_AddElement
  <2>. QED
    BY <1>0, <2>4, <2>5 DEF SizeInv
<1>4. CASE CreateFails(s)
  <2>1. /\ scaling[s] = <<"up", 0>> /\ scaling' = [scaling EXCEPT ![s] = Idle]
        /\ pooled' = pooled
    BY <1>4 DEF CreateFails
  <2>2. s \in Ups /\ s \notin Downs
    BY <1>0, <2>1 DEF Ups, Downs
  <2>3. Ups' = Ups \ {s} /\ Downs' = Downs \ {s}
    BY <1>0, <2>1, ScalerMoves
  <2>4. Cardinality(Ups') = Cardinality(Ups) - 1 /\ Cardinality(Downs') = Cardinality(Downs)
    BY <2>2, <2>3, FS_RemoveElement
  <2>5. Cardinality(pooled') = Cardinality(pooled)
    BY <2>1
  <2>. QED
    BY <1>0, <2>4, <2>5 DEF SizeInv
<1>5. ASSUME NEW a \in Ids, DestroyAgent(s, a)
      PROVE  SizeInv'
  <2>1. scaling[s] = <<"down", a>> /\ pooled' = pooled
    BY <1>5 DEF DestroyAgent
  <2>2. s \notin Ups /\ s \in Downs
    BY <1>0, <2>1 DEF Ups, Downs
  <2>3. PICK x \in {Idle, <<"gone", a>>} : scaling' = [scaling EXCEPT ![s] = x]
    BY <1>5 DEF DestroyAgent
  <2>4. Ups' = Ups \ {s} /\ (Downs' = Downs \cup {s} \/ Downs' = Downs \ {s})
    BY <1>0, <2>3, ScalerMoves
  <2>5. /\ Cardinality(Ups') = Cardinality(Ups)
        /\ Cardinality(Downs') \in {Cardinality(Downs), Cardinality(Downs) - 1}
    <3>1. Ups \ {s} = Ups /\ Downs \cup {s} = Downs
      BY <2>2
    <3>2. Cardinality(Downs \ {s}) = Cardinality(Downs) - 1
      BY <2>2, FS_RemoveElement
    <3>. QED
      BY <2>4, <3>1, <3>2
  <2>6. Cardinality(pooled') = Cardinality(pooled)
    BY <2>1
  <2>. QED
    BY <1>0, <2>5, <2>6 DEF SizeInv
<1>6. ASSUME NEW a \in Ids, RemoveScaled(s, a)
      PROVE  SizeInv'
  <2>1. /\ scaling[s] = <<"gone", a>> /\ scaling' = [scaling EXCEPT ![s] = Idle]
        /\ pooled' = pooled \ {a}
    BY <1>6 DEF RemoveScaled
  <2>2. s \notin Ups /\ s \in Downs
    BY <1>0, <2>1 DEF Ups, Downs
  <2>3. Ups' = Ups \ {s} /\ Downs' = Downs \ {s}
    BY <1>0, <2>1, ScalerMoves
  <2>4. Cardinality(Ups') = Cardinality(Ups) /\ Cardinality(Downs') = Cardinality(Downs) - 1
    BY <2>2, <2>3, FS_RemoveElement
  <2>5. Cardinality(pooled') \in {Cardinality(pooled), Cardinality(pooled) - 1}
    <3>1. Cardinality(pooled \ {a}) =
            IF a \in pooled THEN Cardinality(pooled) - 1 ELSE Cardinality(pooled)
      BY FS_RemoveElement
    <3>. QED
      BY <2>1, <3>1
  <2>. QED
    BY <1>0, <2>4, <2>5 DEF SizeInv
<1>. QED
  BY <1>1, <1>2, <1>3, <1>4, <1>5, <1>6 DEF ScalerStep

\* However many scalers act on old decisions, the pool has at most as many
\* agents above MaxSize as there are scalers, and fewer missing below MinSize.
THEOREM PoolSize == PoolSpec => []SizeNearLimits
<1>1. PoolTypeOK /\ SizeInv => SizeNearLimits
  BY SizesAreNumbers DEF SizeInv, SizeNearLimits, Slack
<1>2. PoolTypeOK /\ PoolInit => SizeInv
  <2>. SUFFICES ASSUME PoolTypeOK, PoolInit
                PROVE  SizeInv
    OBVIOUS
  <2>1. Ups = {} /\ Downs = {} /\ pooled = 1..MinSize
    BY DEF PoolInit, Ups, Downs, Idle
  <2>2. Cardinality(Ups) = 0 /\ Cardinality(Downs) = 0 /\ Cardinality(pooled) = MinSize
    BY <2>1, PoolAssumption, FS_EmptySet, FS_Interval
  <2>3. Slack >= 0
    <3>1. Scalers # {} => Cardinality(Scalers) # 0
      BY SizesAreNumbers, FS_EmptySet
    <3>. QED
      BY <3>1, SizesAreNumbers DEF Slack
  <2>. QED
    BY <2>2, <2>3, PoolAssumption, SizesAreNumbers DEF SizeInv
<1>3. PoolTypeOK /\ SizeInv /\ [PoolNext]_poolVars => SizeInv'
  <2>. SUFFICES ASSUME PoolTypeOK, SizeInv, [PoolNext]_poolVars
                PROVE  SizeInv'
    OBVIOUS
  <2>1. CASE UNCHANGED poolVars
    BY <2>1 DEF poolVars, SizeInv, Ups, Downs, Slack
  <2>. QED
    BY <2>1, SizeUser, SizeScaler DEF PoolNext
<1>. QED
  BY <1>1, <1>2, <1>3, PoolTypes, PTL DEF PoolSpec

\* The gauges are exact and the size is near its limits, in every reachable state.
THEOREM PoolCounts == PoolSpec => []PoolCountsHold
BY PoolGauges, PoolSize, PTL DEF PoolCountsHold

-----------------------------------------------------------------------------
(***************************************************************************)
(* An agent of the factory's pool is offered once or is in the hands of    *)
(* one user (OnePlace), for any number of users, of overlapping calls of   *)
(* ScalePool and of agents.                                                *)
(*                                                                         *)
(* OnePlace counts places; the inductive invariant says the same pair by   *)
(* pair: no two positions of the channel, no two users, no two senders and *)
(* no two of different kinds hold the same agent.                          *)
(***************************************************************************)

Sending(r) == resize[r].do = "send"

PlacesTyped ==
  /\ made \in Nat
  /\ list \in Seq(Nat)
  /\ chan \in Seq(1..made)
  /\ inHand \in [Takers -> 0..made]
  /\ resize \in [Resizers -> [do : {"rest", "create", "send", "cut", "destroy"},
                              left : Int, id : Int]]
  /\ \A r \in Resizers : Sending(r) => resize[r].id \in 1..made

ChanOnce == \A i, j \in DOMAIN chan : chan[i] = chan[j] => i = j

HandOnce == \A u, v \in Takers : inHand[u] # 0 /\ inHand[u] = inHand[v] => u = v

SendOnce ==
  \A r, s \in Resizers :
    Sending(r) /\ Sending(s) /\ resize[r].id = resize[s].id => r = s

Apart ==
  /\ \A i \in DOMAIN chan, u \in Takers : chan[i] # inHand[u]
  /\ \A i \in DOMAIN chan, r \in Resizers : Sending(r) => chan[i] # resize[r].id
  /\ \A u \in Takers, r \in Resizers : Sending(r) => inHand[u] # resize[r].id

PlaceInv == PlacesTyped /\ ChanOnce /\ HandOnce /\ SendOnce /\ Apart

-----------------------------------------------------------------------------
(* The steps.                                                              *)

\* Appending an agent that is not in the channel keeps it free of repetitions.
LEMMA AppendOnce ==
  ASSUME NEW n \in Nat, NEW s \in Seq(1..n), NEW a \in 1..n
  PROVE  /\ Append(s, a) \in Seq(1..n)
         /\ DOMAIN Append(s, a) = 1..(Len(s) + 1)
         /\ \A i \in DOMAIN Append(s, a) :
              Append(s, a)[i] = IF i = Len(s) + 1 THEN a ELSE s[i]
         /\ DOMAIN s = 1..Len(s) /\ Len(s) \in Nat
OBVIOUS

\* The tail of the channel.
LEMMA TailMoves ==
  ASSUME NEW n \in Nat, NEW s \in Seq(1..n), s # <<>>
  PROVE  /\ Tail(s) \in Seq(1..n)
         /\ Len(s) \in Nat \ {0} /\ DOMAIN s = 1..Len(s)
         /\ DOMAIN Tail(s) = 1..(Len(s) - 1)
         /\ \A i \in DOMAIN Tail(s) : Tail(s)[i] = s[i + 1]
         /\ Head(s) = s[1] /\ Head(s) \in 1..n
OBVIOUS

\* The list without its last agent.
LEMMA FrontTyped ==
  ASSUME NEW s \in Seq(Nat), s # <<>>
  PROVE  Front(s) \in Seq(Nat) /\ Last(s) \in Nat
<1>1. Len(s) \in Nat \ {0} /\ Len(s) \in DOMAIN s
  OBVIOUS
<1> QED
  BY <1>1 DEF Front, Last

\* A user takes an agent out of the channel, or puts it back.
LEMMA TakerInv ==
  ASSUME PlaceInv, NEW u \in Takers, TakerStep(u)
  PROVE  PlaceInv'
<1> USE DEF PlaceInv, PlacesTyped, ChanOnce, HandOnce, SendOnce, Apart, Sending
<1>1. CASE GetAvailable(u)
  <2>1. /\ inHand[u] = 0 /\ chan # <<>>
        /\ inHand' = [inHand EXCEPT ![u] = Head(chan)]
        /\ chan' = Tail(chan)
        /\ UNCHANGED <<list, made, resize>>
    BY <1>1 DEF GetAvailable
  <2>2. /\ Tail(chan) \in Seq(1..made)
        /\ Len(chan) \in Nat \ {0} /\ DOMAIN chan = 1..Len(chan)
        /\ DOMAIN Tail(chan) = 1..(Len(chan) - 1)
        /\ \A i \in DOMAIN Tail(chan) : Tail(chan)[i] = chan[i + 1]
        /\ Head(chan) = chan[1] /\ Head(chan) \in 1..made
    BY <2>1, TailMoves
  <2>3. PlacesTyped'
    BY <2>1, <2>2
  <2>4. \A i \in DOMAIN Tail(chan) : i + 1 \in DOMAIN chan /\ i + 1 # 1
    BY <2>2
  <2>5. 1 \in DOMAIN chan
    BY <2>2
  <2>6. ChanOnce'
    <3> SUFFICES ASSUME NEW i \in DOMAIN chan', NEW j \in DOMAIN chan', chan'[i] = chan'[j]
                 PROVE  i = j
      BY DEF ChanOnce
    <3>1. chan[i + 1] = chan[j + 1] /\ i + 1 \in DOMAIN chan /\ j + 1 \in DOMAIN chan
      BY <2>1, <2>2, <2>4
    <3>2. i + 1 = j + 1 /\ i \in Int /\ j \in Int
      BY <2>1, <2>2, <3>1
    <3> QED
      BY <3>2
  <2>7. HandOnce' /\ SendOnce'
    <3>1. \A v \in Takers : inHand[v] # chan[1]
      BY <2>5
    <3>2. inHand' = [inHand EXCEPT ![u] = chan[1]]
      BY <2>1, <2>2
    <3> QED
      BY <2>1, <3>1, <3>2
  <2>8. Apart'
    <3>1. \A i \in DOMAIN chan' : /\ chan'[i] = chan[i + 1]
                                  /\ i + 1 \in DOMAIN chan /\ i + 1 # 1
      BY <2>1, <2>2, <2>4
    <3>2. \A v \in Takers : inHand'[v] = IF v = u THEN chan[1] ELSE inHand[v]
      BY <2>1, <2>2
    <3>3. ASSUME NEW i \in DOMAIN chan', NEW v \in Takers
          PROVE  chan'[i] # inHand'[v]
      <4>1. CASE v = u
        BY <2>5, <3>1, <3>2, <4>1
      <4>2. CASE v # u
        BY <3>1, <3>2, <4>2
      <4> QED
        BY <4>1, <4>2
    <3>4. ASSUME NEW i \in DOMAIN chan', NEW r \in Resizers, Sending(r)'
          PROVE  chan'[i] # (resize[r].id)'
      BY <2>1, <3>1, <3>4
    <3>5. ASSUME NEW v \in Takers, NEW r \in Resizers, Sending(r)'
          PROVE  inHand'[v] # (resize[r].id)'
      BY <2>1, <2>5, <3>2, <3>5
    <3> QED
      BY <3>3, <3>4, <3>5
  <2> QED
    BY <2>3, <2>6, <2>7, <2>8
<1>2. CASE PutBack(u)
  <2>1. /\ inHand[u] # 0
        /\ inHand' = [inHand EXCEPT ![u] = 0]
        /\ UNCHANGED <<list, made, resize>>
        /\ chan' = chan \/ chan' = Append(chan, inHand[u])
    BY <1>2 DEF PutBack
  <2>2. inHand[u] \in 1..made
    BY <2>1
  <2>3. CASE chan' = chan
    BY <2>1, <2>3
  <2>4. CASE chan' = Append(chan, inHand[u])
    <3>1. /\ chan' \in Seq(1..made)
          /\ DOMAIN chan' = 1..(Len(chan) + 1)
          /\ \A i \in DOMAIN chan' :
               chan'[i] = IF i = Len(chan) + 1 THEN inHand[u] ELSE chan[i]
          /\ DOMAIN chan = 1..Len(chan) /\ Len(chan) \in Nat
      BY <2>2, <2>4, AppendOnce
    <3>2. \A i \in DOMAIN chan' : i # Len(chan) + 1 => i \in DOMAIN chan
      BY <3>1
    <3>3. PlacesTyped'
      BY <2>1, <3>1
    <3>4. ChanOnce'
      <4> SUFFICES ASSUME NEW i \in DOMAIN chan', NEW j \in DOMAIN chan', chan'[i] = chan'[j]
                   PROVE  i = j
        BY DEF ChanOnce
      <4>1. \A k \in DOMAIN chan : chan[k] # inHand[u]
        BY DEF PlaceInv, Apart
      <4>2. CASE i = Len(chan) + 1 \/ j = Len(chan) + 1
        BY <3>1, <3>2, <4>1, <4>2
      <4>3. CASE i # Len(chan) + 1 /\ j # Len(chan) + 1
        BY <3>1, <3>2, <4>3
      <4> QED
        BY <4>2, <4>3
    <3>5. HandOnce' /\ SendOnce'
      BY <2>1, <2>2
    <3>6. Apart'
      <4>1. \A v \in Takers : inHand'[v] = IF v = u THEN 0 ELSE inHand[v]
        BY <2>1
      <4>2. ASSUME NEW i \in DOMAIN chan', NEW v \in Takers
            PROVE  chan'[i] # inHand'[v]
        <5>1. chan'[i] \in 1..made
          BY <3>1
        <5> QED
          BY <2>1, <3>1, <3>2, <4>1, <5>1
      <4>3. ASSUME NEW i \in DOMAIN chan', NEW r \in Resizers, Sending(r)'
            PROVE  chan'[i] # (resize[r].id)'
        BY <2>1, <3>1, <3>2, <4>3
      <4>4. ASSUME NEW v \in Takers, NEW r \in Resizers, Sending(r)'
            PROVE  inHand'[v] # (resize[r].id)'
        BY <2>1, <4>1, <4>4
      <4> QED
        BY <4>2, <4>3, <4>4
    <3> QED
      BY <3>3, <3>4, <3>5, <3>6
  <2> QED
    BY <2>1, <2>3, <2>4
<1> QED
  BY <1>1, <1>2 DEF TakerStep

\* ScalePool: only a new agent is sent, and it is sent once.
LEMMA ResizerInv ==
  ASSUME PlaceInv, NEW r \in Resizers, ResizerStep(r), PoolMin \in Nat, PoolMax \in Nat
  PROVE  PlaceInv'
<1> USE DEF PlaceInv, PlacesTyped, ChanOnce, HandOnce, SendOnce, Apart, Sending
<1>1. ASSUME NEW target \in 0..PoolMax + 1, ResizeBegin(r, target)
      PROVE  PlaceInv'
  BY <1>1 DEF ResizeBegin
<1>2. CASE ResizeCreate(r)
  <2>1. /\ made' = made + 1
        /\ list' = Append(list, made + 1)
        /\ resize' = [resize EXCEPT ![r] = [do |-> "send", left |-> @.left, id |-> made + 1]]
        /\ UNCHANGED <<chan, inHand>>
    BY <1>2 DEF ResizeCreate
  <2>2. /\ resize' \in [Resizers -> [do : {"rest", "create", "send", "cut", "destroy"},
                                     left : Int, id : Int]]
        /\ Sending(r)' /\ (resize[r].id)' = made + 1
        /\ \A s \in Resizers \ {r} : resize'[s] = resize[s]
    BY <2>1
  <2>3. PlacesTyped'
    <3>1. chan \in Seq(1..made') /\ list' \in Seq(Nat) /\ made' \in Nat
      BY <2>1
    <3>2. \A s \in Resizers : Sending(s)' => (resize[s].id)' \in 1..made'
      BY <2>1, <2>2
    <3> QED
      BY <2>1, <2>2, <3>1, <3>2
  <2>4. \A i \in DOMAIN chan : chan[i] \in 1..made
    OBVIOUS
  <2>5. SendOnce'
    BY <2>1, <2>2
  <2>6. ChanOnce' /\ HandOnce'
    BY <2>1
  <2>7. Apart'
    <3>1. \A i \in DOMAIN chan : chan[i] # made + 1
      BY <2>4
    <3>2. \A v \in Takers : inHand[v] # made + 1
      OBVIOUS
    <3>3. ASSUME NEW s \in Resizers, Sending(s)'
          PROVE  /\ \A i \in DOMAIN chan : chan[i] # (resize[s].id)'
                 /\ \A v \in Takers : inHand[v] # (resize[s].id)'
      <4>1. CASE s = r
        BY <2>2, <3>1, <3>2, <4>1
      <4>2. CASE s # r
        BY <2>2, <3>3, <4>2
      <4> QED
        BY <4>1, <4>2
    <3> QED
      BY <2>1, <3>3
  <2> QED
    BY <2>3, <2>5, <2>6, <2>7
<1>3. CASE ResizeCreateFails(r)
  BY <1>3 DEF ResizeCreateFails, Resting
<1>4. CASE ResizeSend(r)
  <2> DEFINE a == resize[r].id
  <2>1. /\ Sending(r) /\ a \in 1..made
        /\ chan' = Append(chan, a)
        /\ UNCHANGED <<list, made, inHand>>
        /\ resize' = [resize EXCEPT ![r] =
             IF @.left > 1 THEN [do |-> "create", left |-> @.left - 1, id |-> 0] ELSE Resting]
    BY <1>4 DEF ResizeSend, NextTurn
  <2>2. /\ chan' \in Seq(1..made)
        /\ DOMAIN chan' = 1..(Len(chan) + 1)
        /\ \A i \in DOMAIN chan' : chan'[i] = IF i = Len(chan) + 1 THEN a ELSE chan[i]
        /\ DOMAIN chan = 1..Len(chan) /\ Len(chan) \in Nat
    BY <2>1, AppendOnce
  <2>3. \A i \in DOMAIN chan' : i # Len(chan) + 1 => i \in DOMAIN chan
    BY <2>2
  <2>4. /\ resize' \in [Resizers -> [do : {"rest", "create", "send", "cut", "destroy"},
                                     left : Int, id : Int]]
        /\ ~Sending(r)'
        /\ \A s \in Resizers \ {r} : resize'[s] = resize[s]
    BY <2>1 DEF Resting
  <2>5. PlacesTyped'
    BY <2>1, <2>2, <2>4
  <2>6. ChanOnce'
    BY <2>1, <2>2, <2>3
  <2>7. HandOnce' /\ SendOnce'
    BY <2>1, <2>4
  <2>8. Apart'
    BY <2>1, <2>2, <2>3, <2>4
  <2> QED
    BY <2>5, <2>6, <2>7, <2>8
<1>5. CASE ResizeCut(r)
  <2>1. UNCHANGED <<chan, made, inHand>>
    BY <1>5 DEF ResizeCut
  <2>2. /\ list' \in Seq(Nat)
        /\ resize' \in [Resizers -> [do : {"rest", "create", "send", "cut", "destroy"},
                                     left : Int, id : Int]]
        /\ ~Sending(r)'
        /\ \A s \in Resizers \ {r} : resize'[s] = resize[s]
    <3>1. CASE list = <<>>
      <4>1. resize' = [resize EXCEPT ![r] = Resting] /\ list' = list
        BY <1>5, <3>1 DEF ResizeCut
      <4> QED
        BY <4>1 DEF Resting
    <3>2. CASE list # <<>>
      <4>1. Front(list) \in Seq(Nat) /\ Last(list) \in Nat
        BY <3>2, FrontTyped
      <4>2. /\ list' = Front(list)
            /\ resize' = [resize EXCEPT ![r] = [do |-> "destroy", left |-> @.left, id |-> Last(list)]]
        BY <1>5, <3>2 DEF ResizeCut
      <4> QED
        BY <4>1, <4>2
    <3> QED
      BY <3>1, <3>2
  <2>3. PlacesTyped'
    <3>1. made' \in Nat /\ chan' \in Seq(1..made') /\ inHand' \in [Takers -> 0..made']
      BY <2>1
    <3>2. \A s \in Resizers : Sending(s)' => (resize[s].id)' \in 1..made'
      BY <2>1, <2>2
    <3> QED
      BY <2>2, <3>1, <3>2
  <2>4. ChanOnce' /\ HandOnce'
    BY <2>1
  <2>5. \A s \in Resizers :
          Sending(s)' => Sending(s) /\ (resize[s].id)' = resize[s].id
    BY <2>2
  <2>6. SendOnce'
    BY <2>5
  <2>7. Apart'
    BY <2>1, <2>5
  <2> QED
    BY <2>3, <2>4, <2>6, <2>7
<1>6. CASE ResizeDestroy(r)
  BY <1>6 DEF ResizeDestroy, NextTurn, Resting
<1> QED
  BY <1>1, <1>2, <1>3, <1>4, <1>5, <1>6 DEF ResizerStep

-----------------------------------------------------------------------------
(* From pairs to places.                                                   *)

\* Where any two members are the same there is at most one.
LEMMA AtMostOne ==
  ASSUME NEW S, \A x, y \in S : x = y
  PROVE  Cardinality(S) <= 1
<1>1. CASE S = {}
  BY <1>1, FS_EmptySet
<1>2. CASE S # {}
  <2>1. PICK x : x \in S
    BY <1>2
  <2>2. S = {x}
    BY <2>1
  <2> QED
    BY <2>2, FS_Singleton
<1> QED
  BY <1>1, <1>2

LEMMA PairsToPlaces ==
  ASSUME PlaceInv
  PROVE  OnePlace
<1> SUFFICES ASSUME NEW a \in 1..made
             PROVE  Cardinality(Places(a)) <= 1
  BY DEF OnePlace
<1>1. ASSUME NEW x \in Places(a), NEW y \in Places(a)
      PROVE  x = y
  <2> DEFINE Held(p) ==
        \/ \E i \in DOMAIN chan : p = <<"chan", i>> /\ chan[i] = a
        \/ \E u \in Takers : p = <<"hand", u>> /\ inHand[u] = a
        \/ \E r \in Resizers : p = <<"send", r>> /\ Sending(r) /\ resize[r].id = a
  <2>1. Held(x) /\ Held(y)
    BY <1>1 DEF Places, Sending
  <2>2. a # 0
    BY DEF PlaceInv, PlacesTyped
  <2>3. CASE \E i \in DOMAIN chan : x = <<"chan", i>> /\ chan[i] = a
    BY <2>1, <2>3 DEF PlaceInv, ChanOnce, Apart
  <2>4. CASE \E u \in Takers : x = <<"hand", u>> /\ inHand[u] = a
    BY <2>1, <2>2, <2>4 DEF PlaceInv, HandOnce, Apart
  <2>5. CASE \E r \in Resizers : x = <<"send", r>> /\ Sending(r) /\ resize[r].id = a
    BY <2>1, <2>5 DEF PlaceInv, SendOnce, Apart
  <2> QED
    BY <2>1, <2>3, <2>4, <2>5
<1> QED
  BY <1>1, AtMostOne

\* GetAvailableAgent never hands an agent to two users, however calls of
\* ScalePool, GetAvailableAgent and ReturnAgent overlap.
THEOREM OnePlaceAlways == FactoryPoolSpec => []OnePlace
<1>1. FactoryPoolInit => PlaceInv
  BY DEF FactoryPoolInit, PlaceInv, PlacesTyped, ChanOnce, HandOnce, SendOnce, Apart,
         Sending, Resting
<1>2. PlaceInv /\ [FactoryPoolNext]_factoryVars => PlaceInv'
  <2>1. CASE UNCHANGED factoryVars
    BY <2>1 DEF factoryVars, PlaceInv, PlacesTyped, ChanOnce, HandOnce, SendOnce,
                Apart, Sending
  <2> QED
    BY <2>1, TakerInv, ResizerInv, FactoryPoolAssumption DEF FactoryPoolNext
<1> QED
  BY <1>1, <1>2, PairsToPlaces, PTL DEF FactoryPoolSpec
=============================================================================
