---------------------------- MODULE McpExchange ----------------------------
(***************************************************************************)
(* The MCP client and server over a line transport (internal/mcp/client,   *)
(* internal/mcp/server).  The client writes a request and takes the next   *)
(* line it can read for the response, whatever its id.  The server answers *)
(* each message in a goroutine of its own and sends notifications.         *)
(*                                                                         *)
(* A message is the number of its request, or one of the notifications     *)
(* "initialized" and "other" (any method the server has no case for).      *)
(***************************************************************************)
EXTENDS Integers, Sequences, FiniteSets

CONSTANTS Requesters,   \* goroutines that call the client
          MaxRequests,  \* bound on the requests
          MaxNotices    \* bound on the notifications

ASSUME McpAssumption == MaxRequests \in Nat /\ MaxNotices \in Nat

VARIABLES requestId,    \* c.requestID
          toServer, toClient,   \* the lines on their way
          handling,     \* messages the server's goroutines work on
          initialized,  \* s.initialized
          asking,       \* what each caller waits for, and what it got
          notices,      \* number of notifications so far
          disturbed     \* ghost: something made requests and responses diverge

mcpVars == <<requestId, toServer, toClient, handling, initialized, asking, notices,
             disturbed>>

Requests == 1..MaxRequests
Silent == [at |-> "idle", id |-> 0, got |-> "nothing"]

McpInit ==
  /\ requestId = 1 /\ toServer = <<>> /\ toClient = <<>>
  /\ handling = {} /\ initialized = FALSE
  /\ asking = [c \in Requesters |-> Silent]
  /\ notices = 0 /\ disturbed = FALSE

serverVars == <<handling, initialized>>

-----------------------------------------------------------------------------
(* The client.                                                             *)

\* buildRequest.
BuildRequest(c) ==
  /\ asking[c] = Silent /\ requestId \in Requests
  /\ asking' = [asking EXCEPT ![c] = [at |-> "built", id |-> requestId, got |-> "nothing"]]
  /\ requestId' = requestId + 1
  /\ UNCHANGED <<toServer, toClient, serverVars, notices, disturbed>>

SendRequest(c) ==
  /\ asking[c].at = "built"
  /\ toServer' = Append(toServer, [kind |-> "request", id |-> asking[c].id])
  /\ asking' = [asking EXCEPT ![c].at = "sent"]
  /\ disturbed' = (disturbed \/ \E d \in Requesters : asking[d].at = "sent")
  /\ UNCHANGED <<requestId, toClient, serverVars, notices>>

ReceiveLine(c) ==
  /\ asking[c].at = "sent" /\ toClient # <<>>
  /\ asking' = [asking EXCEPT ![c].at = "returned", ![c].got = Head(toClient)]
  /\ toClient' = Tail(toClient)
  /\ UNCHANGED <<requestId, toServer, serverVars, notices, disturbed>>

\* The context is done before the line is read; the response will come.
AbandonRequest(c) ==
  /\ asking[c].at = "sent"
  /\ asking' = [asking EXCEPT ![c] = Silent]
  /\ disturbed' = TRUE
  /\ UNCHANGED <<requestId, toServer, toClient, serverVars, notices>>

TakeAnswer(c) ==
  /\ asking[c].at = "returned"
  /\ asking' = [asking EXCEPT ![c] = Silent]
  /\ UNCHANGED <<requestId, toServer, toClient, serverVars, notices, disturbed>>

\* SendNotification of the client; a method without a case is answered with an
\* error.
ClientNotifies(kind) ==
  /\ notices < MaxNotices
  /\ notices' = notices + 1
  /\ toServer' = Append(toServer, [kind |-> kind, id |-> 0])
  /\ disturbed' = (disturbed \/ kind = "other")
  /\ UNCHANGED <<requestId, toClient, serverVars, asking>>

-----------------------------------------------------------------------------
(* The server.                                                             *)

\* Serve starts a goroutine for each message.
Accepts ==
  /\ toServer # <<>>
  /\ handling' = handling \cup {Head(toServer)}
  /\ toServer' = Tail(toServer)
  /\ UNCHANGED <<requestId, toClient, initialized, asking, notices, disturbed>>

\* Mutant: "initialized" is answered, too.
AnswersAll(m) ==
  /\ m \in handling
  /\ handling' = handling \ {m}
  /\ toClient' = Append(toClient, m)
  /\ initialized' = (initialized \/ m.kind = "initialized")
  /\ UNCHANGED <<requestId, toServer, asking, notices, disturbed>>

\* handleMessage, with sendSuccess or sendError.
Answers(m) ==
  /\ m \in handling
  /\ handling' = handling \ {m}
  /\ IF m.kind = "initialized" THEN initialized' = TRUE /\ UNCHANGED toClient
     ELSE toClient' = Append(toClient, m) /\ UNCHANGED initialized
  /\ UNCHANGED <<requestId, toServer, asking, notices, disturbed>>

\* SendNotification of the server, also through SendLogMessage.
ServerNotifies ==
  /\ initialized /\ notices < MaxNotices
  /\ notices' = notices + 1
  /\ toClient' = Append(toClient, [kind |-> "notice", id |-> 0])
  /\ disturbed' = TRUE
  /\ UNCHANGED <<requestId, toServer, serverVars, asking>>

McpNext ==
  \/ \E c \in Requesters : \/ BuildRequest(c) \/ SendRequest(c) \/ ReceiveLine(c)
                           \/ AbandonRequest(c) \/ TakeAnswer(c)
  \/ \E kind \in {"initialized", "other"} : ClientNotifies(kind)
  \/ Accepts \/ (\E m \in handling : Answers(m)) \/ ServerNotifies

McpSpec == McpInit /\ [][McpNext]_mcpVars

-----------------------------------------------------------------------------
(* Properties.                                                             *)

\* Requests one at a time, none given up, no notification but the client's
\* "initialized", whenever it comes: then each call returns the response to its
\* own request.  Each of these conditions is needed, and after one is broken the
\* client and the server stay out of step.
AnswersAreOwn ==
  \A c \in Requesters :
    (asking[c].at = "returned" /\ ~disturbed) =>
      asking[c].got = [kind |-> "request", id |-> asking[c].id]
=============================================================================
