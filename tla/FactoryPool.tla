---------------------------- MODULE FactoryPool ----------------------------
(***************************************************************************)
(* The factory's own pool of one type (AgentPool in                        *)
(* internal/core/agent/factory.go): a list of agents, and a buffered       *)
(* channel of MaxSize agents from which users take them.                   *)
(*                                                                         *)
(* ScalePool compares its target with the length of the list once and      *)
(* gives up f.mu; it then appends and sends, or cuts off and destroys, one *)
(* agent at a time.  The send blocks while the channel is full.  Nothing   *)
(* takes a destroyed agent out of the channel.                             *)
(***************************************************************************)
EXTENDS Integers, Sequences, FiniteSets, SequencesExt

CONSTANTS Takers,       \* goroutines that get and return agents
          Resizers,     \* goroutines that call ScalePool
          PoolMin, PoolMax,     \* MinSize and MaxSize of the pool
          MaxMade       \* bound on the agents ever created

ASSUME FactoryPoolAssumption ==
  /\ PoolMin \in Nat /\ PoolMax \in Nat /\ PoolMin <= PoolMax
  /\ MaxMade \in Nat

VARIABLES list,         \* pool.agents
          chan,         \* pool.available
          made,         \* number of agents created so far
          stopped,      \* agents destroyed
          inHand,       \* the agent of each taker, 0 if none
          resize        \* progress of each ScalePool

factoryVars == <<list, chan, made, stopped, inHand, resize>>

\* do: "create", "send", "cut" or "destroy" agent id next; left: how many
\* agents are to be created or destroyed, that one included.
Resting == [do |-> "rest", left |-> 0, id |-> 0]
ResizeStates ==
  [do : {"rest", "create", "send", "cut", "destroy"}, left : 0..PoolMax + MaxMade,
   id : 0..MaxMade]

FactoryPoolTypeOK ==
  /\ made \in 0..MaxMade
  /\ list \in Seq(1..made)
  /\ chan \in Seq(1..made)
  /\ stopped \subseteq 1..made
  /\ inHand \in [Takers -> 0..made]
  /\ resize \in [Resizers -> ResizeStates]

\* CreatePool has registered the empty pool; its call of ScalePool is one of
\* the calls below.
FactoryPoolInit ==
  /\ list = <<>>
  /\ chan = <<>>
  /\ made = 0
  /\ stopped = {}
  /\ inHand = [u \in Takers |-> 0]
  /\ resize = [r \in Resizers |-> Resting]

-----------------------------------------------------------------------------

\* ScalePool up to the point where it gives up f.mu.
ResizeBegin(r, target) ==
  /\ resize[r] = Resting
  /\ target \in PoolMin..PoolMax
  /\ target # Len(list)
  /\ resize' = [resize EXCEPT ![r] =
       IF target > Len(list)
       THEN [do |-> "create", left |-> target - Len(list), id |-> 0]
       ELSE [do |-> "cut", left |-> Len(list) - target, id |-> 0]]
  /\ UNCHANGED <<list, chan, made, stopped, inHand>>

\* CreateAgent and the append.
ResizeCreate(r) ==
  /\ resize[r].do = "create"
  /\ made < MaxMade
  /\ made' = made + 1
  /\ list' = Append(list, made')
  /\ resize' = [resize EXCEPT ![r] = [do |-> "send", left |-> @.left, id |-> made']]
  /\ UNCHANGED <<chan, stopped, inHand>>

\* CreateAgent fails, and ScalePool returns its error.
ResizeCreateFails(r) ==
  /\ resize[r].do = "create"
  /\ resize' = [resize EXCEPT ![r] = Resting]
  /\ UNCHANGED <<list, chan, made, stopped, inHand>>

\* One turn of the loop is over.
NextTurn(r, do) ==
  resize' = [resize EXCEPT ![r] =
    IF @.left > 1 THEN [do |-> do, left |-> @.left - 1, id |-> 0] ELSE Resting]

\* pool.available <- agent
ResizeSend(r) ==
  /\ resize[r].do = "send"
  /\ Len(chan) < PoolMax
  /\ chan' = Append(chan, resize[r].id)
  /\ NextTurn(r, "create")
  /\ UNCHANGED <<list, made, stopped, inHand>>

\* The last agent leaves the list; with an empty list the loop ends.
ResizeCut(r) ==
  /\ resize[r].do = "cut"
  /\ IF list = <<>>
     THEN /\ resize' = [resize EXCEPT ![r] = Resting]
          /\ UNCHANGED list
     ELSE /\ list' = Front(list)
          /\ resize' = [resize EXCEPT ![r] = [do |-> "destroy", left |-> @.left, id |-> Last(list)]]
  /\ UNCHANGED <<chan, made, stopped, inHand>>

\* DestroyAgent.  The agent is in no pool any more, so removeFromPools finds
\* nothing.
ResizeDestroy(r) ==
  /\ resize[r].do = "destroy"
  /\ stopped' = stopped \cup {resize[r].id}
  /\ NextTurn(r, "cut")
  /\ UNCHANGED <<list, chan, made, inHand>>

\* GetAvailableAgent
GetAvailable(u) ==
  /\ inHand[u] = 0
  /\ chan # <<>>
  /\ inHand' = [inHand EXCEPT ![u] = Head(chan)]
  /\ chan' = Tail(chan)
  /\ UNCHANGED <<list, made, stopped, resize>>

\* Mutant: the user may return the agent again.
PutBackKeeps(u) ==
  /\ inHand[u] # 0
  /\ chan' = IF Len(chan) < PoolMax THEN Append(chan, inHand[u]) ELSE chan
  /\ UNCHANGED <<inHand, list, made, stopped, resize>>

\* ReturnAgent of the factory.  When the channel is full the user gets an
\* error, and the agent is in nobody's hands.
PutBack(u) ==
  /\ inHand[u] # 0
  /\ chan' = IF Len(chan) < PoolMax THEN Append(chan, inHand[u]) ELSE chan
  /\ inHand' = [inHand EXCEPT ![u] = 0]
  /\ UNCHANGED <<list, made, stopped, resize>>

TakerStep(u) == GetAvailable(u) \/ PutBack(u)

ResizerStep(r) ==
  \/ \E target \in 0..PoolMax + 1 : ResizeBegin(r, target)
  \/ ResizeCreate(r)
  \/ ResizeCreateFails(r)
  \/ ResizeSend(r)
  \/ ResizeCut(r)
  \/ ResizeDestroy(r)

FactoryPoolNext == \/ \E u \in Takers : TakerStep(u)
                   \/ \E r \in Resizers : ResizerStep(r)

FactoryPoolSpec == FactoryPoolInit /\ [][FactoryPoolNext]_factoryVars

-----------------------------------------------------------------------------
(* Properties.                                                             *)

\* Where agent a is: in the channel, in hands, or about to be sent.
Places(a) ==
  {<<"chan", i>> : i \in {i \in DOMAIN chan : chan[i] = a}}
    \cup {<<"hand", u>> : u \in {u \in Takers : inHand[u] = a}}
    \cup {<<"send", r>> : r \in {r \in Resizers : resize[r].do = "send" /\ resize[r].id = a}}

\* An agent is offered once or is in the hands of one user, destroyed or not.
OnePlace == \A a \in 1..made : Cardinality(Places(a)) <= 1

=============================================================================
