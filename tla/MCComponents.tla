---------------------------- MODULE MCComponents ----------------------------
(***************************************************************************)
(* One agent, the buffered broadcaster, the gRPC streams, the              *)
(* configuration manager, the REST server, the skill loader and the skill  *)
(* registries for TLC, side by side: `part' says which of them a behaviour *)
(* is about, and the others never move.  No fair action is enabled in an   *)
(* initial state, so fairness asks nothing of the others.                  *)
(*                                                                         *)
(* The agent: up to three Execute calls at a time and two Resumes, enough  *)
(* for two overlapping executions to end in either order while a third one *)
(* starts.                                                                 *)
(***************************************************************************)
EXTENDS BaseAgent, BufferedBroadcaster, GrpcStreams, ConfigManager, RestServer,
        SkillLoader, SkillRegistry, TLC

\* One of the streams is about an agent, the others are about a task.
CONSTANTS agent, task, c1
MCTopicOf == [s \in Streams |-> IF s = c1 THEN agent ELSE task]

\* Each registry has the other as a source; one has a file.
CONSTANTS east, west, lint, go, tag
MCLocalSkills == (east :> {lint}) @@ (west :> {})
MCKeysOf == lint :> {go, tag}

VARIABLE part

Init == /\ part \in {"agent", "buffer", "streams", "config", "rest", "loader", "registry"}
        /\ AgentInit
        /\ BufferInit
        /\ StreamInit
        /\ ConfigInit
        /\ RestInit
        /\ LoaderInit
        /\ RegistryInit

smallVars == <<agentVars, bufferVars, streamVars, configVars>>
serverVars == <<restVars, loaderVars, registryVars>>

Next ==
  \/ /\ part = "agent" /\ AgentNext
     /\ UNCHANGED <<part, bufferVars, streamVars, configVars, serverVars>>
  \/ /\ part = "buffer" /\ BufferNext
     /\ UNCHANGED <<part, agentVars, streamVars, configVars, serverVars>>
  \/ /\ part = "streams" /\ StreamNext
     /\ UNCHANGED <<part, agentVars, bufferVars, configVars, serverVars>>
  \/ /\ part = "config" /\ ConfigNext
     /\ UNCHANGED <<part, agentVars, bufferVars, streamVars, serverVars>>
  \/ /\ part = "rest" /\ RestNext
     /\ UNCHANGED <<part, smallVars, loaderVars, registryVars>>
  \/ /\ part = "loader" /\ LoaderNext
     /\ UNCHANGED <<part, smallVars, restVars, registryVars>>
  \/ /\ part = "registry" /\ RegistryNext
     /\ UNCHANGED <<part, smallVars, restVars, loaderVars>>

Spec == /\ Init /\ [][Next]_<<part, smallVars, serverVars>>
        /\ BufferFairness /\ StreamFairness /\ ConfigFairness
        /\ RestFairness /\ LoaderFairness /\ RegistryFairness
=============================================================================
