---------------------------- MODULE GrpcStreams ----------------------------
(***************************************************************************)
(* The streaming calls of the gRPC server (internal/server/grpc): each is  *)
(* a handler that registers itself with the stream manager, sends at every *)
(* tick and unregisters itself when it returns; Stop cancels what is       *)
(* registered, lets the library drain the calls and, ten seconds later,    *)
(* cuts the connections.                                                   *)
(*                                                                         *)
(* Stream ids are unique, so registering one never fails.  The unary calls *)
(* answer with fixed data and keep no state.                               *)
(***************************************************************************)
EXTENDS Sequences, FiniteSets, SequencesExt

CONSTANTS Streams,      \* calls that may come in
          TopicOf,      \* the agent or task each of them is about
          AgentTopics        \* the topics that are agents

Topics == {TopicOf[s] : s \in Streams}

ASSUME StreamAssumption == TopicOf \in [Streams -> Topics] /\ AgentTopics \subseteq Topics

VARIABLES handler,      \* where each call's handler is
          registered,   \* sm.streams
          byTopic,      \* sm.registry
          ctxDone,      \* calls whose context is cancelled
          cut,          \* calls whose connection is gone
          server        \* how far Stop is

streamVars == <<handler, registered, byTopic, ctxDone, cut, server>>

StreamTypeOK ==
  /\ handler \in [Streams -> {"none", "called", "ticks", "sends", "leaves", "ended"}]
  /\ registered \subseteq Streams
  /\ byTopic \in [Topics -> Seq(Streams)]
  /\ ctxDone \subseteq Streams /\ cut \subseteq ctxDone
  /\ server \in {"up", "stopping", "closed", "draining", "down"}

StreamInit ==
  /\ handler = [s \in Streams |-> "none"]
  /\ registered = {} /\ byTopic = [t \in Topics |-> <<>>]
  /\ ctxDone = {} /\ cut = {} /\ server = "up"

Moves(s, to) == handler' = [handler EXCEPT ![s] = to]
managerVars == <<registered, byTopic>>
contextVars == <<ctxDone, cut>>

-----------------------------------------------------------------------------
(* A streaming handler.                                                    *)

\* The library takes calls until it drains them.
Call(s) ==
  /\ handler[s] = "none" /\ server \in {"up", "stopping", "closed"}
  /\ Moves(s, "called")
  /\ UNCHANGED <<managerVars, contextVars, server>>

\* RegisterStream.  For an agent an interval of 0 makes NewTicker panic, which
\* an interceptor recovers after the deferred calls.
RegisterStream(s) ==
  /\ handler[s] = "called"
  /\ registered' = registered \cup {s}
  /\ byTopic' = [byTopic EXCEPT ![TopicOf[s]] = Append(@, s)]
  /\ \/ Moves(s, "ticks")
     \/ TopicOf[s] \in AgentTopics /\ Moves(s, "leaves")
  /\ UNCHANGED <<contextVars, server>>

Tick(s) ==
  /\ handler[s] = "ticks"
  /\ Moves(s, "sends")
  /\ UNCHANGED <<managerVars, contextVars, server>>

SeesDone(s) ==
  /\ handler[s] = "ticks" /\ s \in ctxDone
  /\ Moves(s, "leaves")
  /\ UNCHANGED <<managerVars, contextVars, server>>

\* The peer has room for the update; the updates of a task come to an end.
\* Send waits for the connection, not for the context CloseAll cancels.
Sent(s) ==
  /\ handler[s] = "sends" /\ s \notin cut
  /\ \/ Moves(s, "ticks")
     \/ TopicOf[s] \notin AgentTopics /\ Moves(s, "leaves")
  /\ UNCHANGED <<managerVars, contextVars, server>>

SendFails(s) ==
  /\ handler[s] = "sends" /\ s \in cut
  /\ Moves(s, "leaves")
  /\ UNCHANGED <<managerVars, contextVars, server>>

\* UnregisterStream: CloseAll may have removed the stream before.
UnregisterStream(s) ==
  /\ handler[s] = "leaves"
  /\ Moves(s, "ended")
  /\ IF s \in registered
     THEN /\ registered' = registered \ {s}
          /\ byTopic' = [byTopic EXCEPT ![TopicOf[s]] = Remove(@, s)]
     ELSE UNCHANGED managerVars
  /\ ctxDone' = ctxDone \cup {s}
  /\ UNCHANGED <<cut, server>>

\* The peer goes away.
PeerGone(s) ==
  /\ handler[s] \notin {"none", "ended"} /\ s \notin cut
  /\ cut' = cut \cup {s} /\ ctxDone' = ctxDone \cup {s}
  /\ UNCHANGED <<handler, managerVars, server>>

-----------------------------------------------------------------------------
(* Stop of the server.                                                     *)

StopBegin ==
  /\ server = "up"
  /\ server' = "stopping"
  /\ UNCHANGED <<handler, managerVars, contextVars>>

CloseAll ==
  /\ server = "stopping"
  /\ server' = "closed"
  /\ ctxDone' = ctxDone \cup registered
  /\ registered' = {} /\ byTopic' = [t \in Topics |-> <<>>]
  /\ UNCHANGED <<handler, cut>>

GracefulStop ==
  /\ server = "closed"
  /\ server' = "draining"
  /\ UNCHANGED <<handler, managerVars, contextVars>>

Drained ==
  /\ server = "draining"
  /\ \A s \in Streams : handler[s] \in {"none", "ended"}
  /\ server' = "down"
  /\ UNCHANGED <<handler, managerVars, contextVars>>

\* Mutant: Stop gives up waiting and leaves the connections alone.
GiveUp ==
  /\ server = "draining"
  /\ server' = "down"
  /\ UNCHANGED <<handler, managerVars, contextVars>>

\* The ten seconds are over: the library's own Stop.
Kill ==
  /\ server = "draining"
  /\ server' = "down"
  /\ cut' = {s \in Streams : handler[s] \notin {"none", "ended"}} \cup cut
  /\ ctxDone' = ctxDone \cup cut'
  /\ UNCHANGED <<handler, managerVars>>

HandlerStep(s) == RegisterStream(s) \/ SeesDone(s) \/ SendFails(s) \/ UnregisterStream(s)
StopStep == CloseAll \/ GracefulStop \/ Drained \/ Kill

StreamNext == \/ \E s \in Streams : Call(s) \/ Tick(s) \/ Sent(s) \/ PeerGone(s)
                                    \/ HandlerStep(s)
              \/ StopBegin \/ StopStep

\* Handlers and Stop are scheduled; nothing makes a peer read what it is sent.
StreamFairness == /\ \A s \in Streams : WF_streamVars(HandlerStep(s))
                  /\ WF_streamVars(StopStep)

StreamSpec == StreamInit /\ [][StreamNext]_streamVars /\ StreamFairness

-----------------------------------------------------------------------------
(* Properties.                                                             *)

\* Once the server stops every streaming call ends, also one that registers
\* after CloseAll and one whose peer reads nothing; none stays registered, or
\* listed under its agent or task.
StreamsEnd ==
  (server # "up") ~> [](/\ \A s \in Streams : handler[s] \in {"none", "ended"}
                        /\ registered = {}
                        /\ \A t \in Topics : byTopic[t] = <<>>)
=============================================================================
