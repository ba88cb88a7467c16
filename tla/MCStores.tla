------------------------------ MODULE MCStores ------------------------------
(***************************************************************************)
(* The knowledge graph, the state manager, the planning, the rate limiter, *)
(* the login sessions and the skill loader for TLC, side by side: `part'   *)
(* says which of them a behaviour is about, and the others never move.     *)
(***************************************************************************)
EXTENDS KnowledgeGraph, StateManager, GraphAlgorithms, TaskPlanning,
        RateLimiter, AuthSessions, SkillLoader, TLC

MCSymmetry == Permutations(Named) \cup Permutations(EdgeIds)

VARIABLE part

Init == /\ part \in {"knowledge", "state", "graph", "planning", "limiter", "logins",
                    "loader"}
        /\ KnowledgeInit
        /\ StateInit
        /\ GraphInit
        /\ part # "graph" => dependsOn = [n \in Nodes |-> {}]
        /\ PlanInit
        /\ LimiterInit
        /\ AuthInit
        /\ LoaderInit

storesVars == <<graphStoreVars, stateVars>>
planningVars == <<graphVars, planVars>>
clientVars == <<limiterVars, authVars, loaderVars>>

Next ==
  \/ /\ part = "knowledge" /\ KnowledgeNext
     /\ UNCHANGED <<part, stateVars, planningVars, clientVars>>
  \/ /\ part = "state" /\ StateNext
     /\ UNCHANGED <<part, graphStoreVars, planningVars, clientVars>>
  \/ /\ part = "graph" /\ GraphNext
     /\ UNCHANGED <<part, storesVars, planVars, clientVars>>
  \/ /\ part = "planning" /\ PlanNext
     /\ UNCHANGED <<part, storesVars, graphVars, clientVars>>
  \/ /\ part = "limiter" /\ LimiterNext
     /\ UNCHANGED <<part, storesVars, planningVars, authVars, loaderVars>>
  \/ /\ part = "logins" /\ AuthNext
     /\ UNCHANGED <<part, storesVars, planningVars, limiterVars, loaderVars>>
  \/ /\ part = "loader" /\ LoaderNext
     /\ UNCHANGED <<part, storesVars, planningVars, limiterVars, authVars>>

Spec == Init /\ [][Next]_<<part, storesVars, planningVars, clientVars>>
=============================================================================
