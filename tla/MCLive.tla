------------------------------- MODULE MCLive -------------------------------
(***************************************************************************)
(* The WebSocket hub, the session manager, and Start and Stop of the       *)
(* orchestrator under fairness for TLC, side by side: `part' says which of *)
(* them a behaviour is about, and the others never move.  No fair action is*)
(* enabled in an initial state, so fairness asks nothing of the others.    *)
(***************************************************************************)
EXTENDS WsHub, Session, CoordinatorLifecycle

CONSTANT x
MCUserOf == [c \in Clients |-> x]

VARIABLE part

Init == /\ part \in {"hub", "session", "lifecycle"}
        /\ WsInit
        /\ SessInit
        /\ LifecycleInit

Next ==
  \/ /\ part = "hub" /\ WsNext
     /\ UNCHANGED <<part, sessVars, lifecycleVars>>
  \/ /\ part = "session" /\ SessNext
     /\ UNCHANGED <<part, wsVars, lifecycleVars>>
  \/ /\ part = "lifecycle" /\ LifecycleNext
     /\ UNCHANGED <<part, wsVars, sessVars>>

FairSpec == /\ Init /\ [][Next]_<<part, wsVars, sessVars, lifecycleVars>>
            /\ WsFairness /\ SessFairness /\ LifecycleFairness
=============================================================================
