-------------------------- MODULE Messaging_proofs --------------------------
(***************************************************************************)
(* Proofs about the WebSocket hub and about the exchange of an MCP client  *)
(* with its server.                                                        *)
(***************************************************************************)
EXTENDS WsHub, McpExchange, SequenceTheorems, TLAPS

(***************************************************************************)
(* The hub's index by user agrees with its clients (IndexAgrees), and a    *)
(* hub that has stopped has disconnected everybody it listed               *)
(* (StopDisconnects), for any number of clients, users, workers and        *)
(* messages.                                                               *)
(*                                                                         *)
(* The first is inductive alone.  The second needs to know where an        *)
(* unregistration can come from: a read pump on its way out, or a sweep    *)
(* that has disconnected the client before.                                *)
(***************************************************************************)

-----------------------------------------------------------------------------
(* The index.                                                              *)

LEMMA IndexAfterRegister ==
  ASSUME NEW c \in Clients, IndexAgrees, HandleRegister(c)
  PROVE  IndexAgrees'
<1>1. userClients = Index(clients) /\ clients' = clients \cup {c}
  BY DEF IndexAgrees, HandleRegister
<1>2. DOMAIN Index(clients') = DOMAIN Index(clients) \cup {UserOf[c]}
  BY <1>1 DEF Index
<1>3. userClients' = [u \in DOMAIN Index(clients') |-> {d \in clients' : UserOf[d] = u}]
  BY <1>1, <1>2 DEF HandleRegister, Index
<1> QED
  BY <1>3 DEF IndexAgrees, Index

LEMMA IndexAfterUnregister ==
  ASSUME NEW c \in Clients, IndexAgrees, HandleUnregister(c)
  PROVE  IndexAgrees'
<1>1. userClients = Index(clients)
  BY DEF IndexAgrees
<1>2. CASE c \notin clients
  BY <1>1, <1>2 DEF HandleUnregister, IndexAgrees
<1>3. CASE c \in clients
  <2> DEFINE u == UserOf[c]
             rest == userClients[u] \ {c}
  <2>1. /\ clients' = clients \ {c}
        /\ userClients' = [v \in IF rest = {} THEN DOMAIN userClients \ {u}
                                              ELSE DOMAIN userClients |->
                             userClients[v] \ {c}]
    BY <1>3 DEF HandleUnregister
  <2>2. rest = {d \in clients' : UserOf[d] = u}
    BY <1>1, <1>3, <2>1 DEF Index
  <2>3. DOMAIN Index(clients') = IF rest = {} THEN DOMAIN userClients \ {u}
                                              ELSE DOMAIN userClients
    BY <1>1, <1>3, <2>1, <2>2 DEF Index
  <2>4. \A v \in DOMAIN Index(clients') :
          userClients[v] \ {c} = {d \in clients' : UserOf[d] = v}
    BY <1>1, <2>1 DEF Index
  <2> QED
    BY <2>1, <2>3, <2>4 DEF IndexAgrees, Index
<1> QED
  BY <1>2, <1>3

LEMMA EmptyIndex ==
  ASSUME clients = {}, userClients = [u \in {} |-> {}]
  PROVE  IndexAgrees
BY DEF IndexAgrees, Index

-----------------------------------------------------------------------------
(* Disconnection.                                                          *)

Disconnected(c) == life[c] # "open"

HubTyped ==
  /\ clients \subseteq Clients
  /\ life \in [Clients -> {"none", "open", "flagged", "closed"}]
  /\ readPump \in [Clients -> {"off", "reading", "leaving", "closing", "done"}]
  /\ regMsg \in [Clients -> {"none", "due", "queued", "handled", "late", "dropped"}]
  /\ unregister \in [Clients -> Nat]
  /\ sweep \in [left : SUBSET Clients, due : SUBSET Clients]

\* Nobody has heard of a connection that has not come in yet.
Unheard(c) ==
  /\ readPump[c] = "off" /\ regMsg[c] = "none" /\ unregister[c] = 0
  /\ c \notin clients /\ c \notin sweep.left /\ c \notin sweep.due

\* Who leaves the hub is disconnected, or is being disconnected by its own read
\* pump, which has sent the unregistration.
Leaving(c) ==
  /\ life[c] = "none" => Unheard(c)
  /\ readPump[c] = "done" => Disconnected(c)
  /\ c \in sweep.due => Disconnected(c)
  /\ unregister[c] > 0 => Disconnected(c) \/ readPump[c] = "closing"
  /\ regMsg[c] \in {"handled", "late"} => c \in clients \/ Disconnected(c) \/ readPump[c] = "closing"

HubInv == HubTyped /\ (\A c \in Clients : Leaving(c)) /\ StopDisconnects

\* A panic ends the program.
LEMMA PanicInv ==
  ASSUME Panic
  PROVE  HubInv' /\ IndexAgrees'
<1>1. IndexAgrees'
  BY EmptyIndex DEF Panic, IndexAgrees, Index
<1>2. HubInv'
  BY DEF Panic, HubInv, HubTyped, Leaving, Unheard, Disconnected, StopDisconnects, ChannelsClosed, NoSweep
<1> QED
  BY <1>1, <1>2

\* The hub handles what its channels hold, sends, and cleans up.
LEMMA HubStepInv ==
  ASSUME HubInv,
         \/ Collect
         \/ CleanupBegin
         \/ CleanupEnd
         \/ (\E c \in Clients : HandleRegister(c))
         \/ (\E c \in Clients : HandleUnregister(c))
         \/ (\E c \in Clients : SendTo(c))
         \/ (\E c \in Clients : CleanupClient(c))
  PROVE  HubInv'
<1> USE DEF HubInv, HubTyped, Leaving, Unheard, Disconnected, StopDisconnects, ChannelsClosed
<1>1. CASE Collect
  BY <1>1 DEF Collect, hubVars, clientVars, senderVars
<1>2. CASE CleanupBegin
  BY <1>2 DEF CleanupBegin, hubVars, clientVars, senderVars
<1>3. CASE CleanupEnd
  BY <1>3 DEF CleanupEnd, hubVars, clientVars, senderVars
<1>4. ASSUME NEW c \in Clients, HandleRegister(c)
      PROVE  HubInv'
  BY <1>4 DEF HandleRegister, hubVars, clientVars, senderVars
<1>5. ASSUME NEW c \in Clients, HandleUnregister(c)
      PROVE  HubInv'
  BY <1>5 DEF HandleUnregister, hubVars, clientVars, senderVars
<1>6. ASSUME NEW c \in Clients, SendTo(c)
      PROVE  HubInv'
  BY <1>6, PanicInv DEF SendTo, hubVars, clientVars, senderVars
<1>7. ASSUME NEW c \in Clients, CleanupClient(c)
      PROVE  HubInv'
  BY <1>7 DEF CleanupClient, Flag, hubVars, clientVars, senderVars
<1> QED
  BY <1>1, <1>2, <1>3, <1>4, <1>5, <1>6, <1>7

\* A connection: it is accepted, registered, read, written and closed.
LEMMA ConnectionInv ==
  ASSUME HubInv,
         \/ (\E c \in Clients : Accept(c))
         \/ (\E c \in Clients : Register(c))
         \/ (\E c \in Clients : ReadFails(c))
         \/ (\E c \in Clients : ReadUnregister(c))
         \/ (\E c \in Clients : ReadDisconnect(c))
         \/ (\E c \in Clients : WriteFails(c))
         \/ (\E c \in Clients : CloseSend(c))
  PROVE  HubInv'
<1> USE DEF HubInv, HubTyped, Leaving, Unheard, Disconnected, StopDisconnects, ChannelsClosed
<1>1. ASSUME NEW c \in Clients, Accept(c)
      PROVE  HubInv'
  BY <1>1 DEF Accept, hubVars, clientVars, senderVars
<1>2. ASSUME NEW c \in Clients, Register(c)
      PROVE  HubInv'
  BY <1>2 DEF Register, hubVars, clientVars, senderVars
<1>3. ASSUME NEW c \in Clients, ReadFails(c)
      PROVE  HubInv'
  BY <1>3 DEF ReadFails, hubVars, clientVars, senderVars
<1>4. ASSUME NEW c \in Clients, ReadUnregister(c)
      PROVE  HubInv'
  BY <1>4 DEF ReadUnregister, hubVars, clientVars, senderVars
<1>5. ASSUME NEW c \in Clients, ReadDisconnect(c)
      PROVE  HubInv'
  BY <1>5 DEF ReadDisconnect, Flag, hubVars, clientVars, senderVars
<1>6. ASSUME NEW c \in Clients, WriteFails(c)
      PROVE  HubInv'
  BY <1>6 DEF WriteFails, Flag, hubVars, clientVars, senderVars
<1>7. ASSUME NEW c \in Clients, CloseSend(c)
      PROVE  HubInv'
  BY <1>7 DEF CloseSend, hubVars, clientVars, senderVars
<1> QED
  BY <1>1, <1>2, <1>3, <1>4, <1>5, <1>6, <1>7

\* Broadcasts, direct sends and the cleanup task.
LEMMA SenderInv ==
  ASSUME HubInv,
         \/ StopHub
         \/ Broadcast
         \/ (\E w \in Workers : BeginJob(w))
         \/ (\E w \in Workers, c \in Clients : CheckClient(w, c))
         \/ (\E w \in Workers, c \in Clients : SendDirect(w, c))
         \/ SweepBegin
         \/ (\E c \in Clients : SweepVisit(c))
         \/ (\E c \in Clients : SweepUnregister(c))
  PROVE  HubInv'
<1> USE DEF HubInv, HubTyped, Leaving, Unheard, Disconnected, StopDisconnects, ChannelsClosed
<1>1. CASE StopHub
  BY <1>1 DEF StopHub, hubVars, clientVars, senderVars
<1>2. CASE Broadcast
  BY <1>2 DEF Broadcast, hubVars, clientVars, senderVars
<1>3. ASSUME NEW w \in Workers, BeginJob(w)
      PROVE  HubInv'
  BY <1>3 DEF BeginJob, hubVars, clientVars, senderVars
<1>4. ASSUME NEW w \in Workers, NEW c \in Clients, CheckClient(w, c)
      PROVE  HubInv'
  BY <1>4 DEF CheckClient, hubVars, clientVars, senderVars
<1>5. ASSUME NEW w \in Workers, NEW c \in Clients, SendDirect(w, c)
      PROVE  HubInv'
  BY <1>5 DEF SendDirect, hubVars, clientVars, senderVars
<1>6. CASE SweepBegin
  BY <1>6 DEF SweepBegin, hubVars, clientVars, senderVars
<1>7. ASSUME NEW c \in Clients, SweepVisit(c)
      PROVE  HubInv'
  BY <1>7 DEF SweepVisit, Flag, hubVars, clientVars, senderVars
<1>8. ASSUME NEW c \in Clients, SweepUnregister(c)
      PROVE  HubInv'
  BY <1>8 DEF SweepUnregister, hubVars, clientVars, senderVars
<1> QED
  BY <1>1, <1>2, <1>3, <1>4, <1>5, <1>6, <1>7, <1>8

-----------------------------------------------------------------------------
(* The theorems.                                                           *)

\* Every step is one of those of the lemmas above, or a panic.
LEMMA StepCases ==
  ASSUME WsNext
  PROVE  \/ Panic
         \/ Collect \/ CleanupBegin \/ CleanupEnd
         \/ (\E c \in Clients : HandleRegister(c))
         \/ (\E c \in Clients : HandleUnregister(c))
         \/ (\E c \in Clients : SendTo(c))
         \/ (\E c \in Clients : CleanupClient(c))
         \/ (\E c \in Clients : Accept(c))
         \/ (\E c \in Clients : Register(c))
         \/ (\E c \in Clients : ReadFails(c))
         \/ (\E c \in Clients : ReadUnregister(c))
         \/ (\E c \in Clients : ReadDisconnect(c))
         \/ (\E c \in Clients : WriteFails(c))
         \/ (\E c \in Clients : CloseSend(c))
         \/ StopHub \/ Broadcast
         \/ (\E w \in Workers : BeginJob(w))
         \/ (\E w \in Workers, c \in Clients : CheckClient(w, c))
         \/ (\E w \in Workers, c \in Clients : SendDirect(w, c))
         \/ SweepBegin
         \/ (\E c \in Clients : SweepVisit(c))
         \/ (\E c \in Clients : SweepUnregister(c))
<1>1. CASE HubStep
  BY <1>1 DEF HubStep
<1>2. CASE SweepStep
  BY <1>2 DEF SweepStep, SweepPanics
<1>3. CASE StopHub \/ Broadcast \/ BroadcastPanics
  BY <1>3 DEF BroadcastPanics
<1>4. ASSUME NEW w \in Workers, WorkerStep(w)
      PROVE  \/ Panic
             \/ BeginJob(w)
             \/ (\E c \in Clients : CheckClient(w, c))
             \/ (\E c \in Clients : SendDirect(w, c))
  BY <1>4 DEF WorkerStep, SendDirectPanics
<1>5. ASSUME NEW c \in Clients, ClientStep(c)
      PROVE  \/ Panic
             \/ Register(c) \/ ReadUnregister(c) \/ ReadDisconnect(c) \/ CloseSend(c)
  BY <1>5 DEF ClientStep, RegisterPanics, UnregisterPanics
<1> QED
  BY <1>1, <1>2, <1>3, <1>4, <1>5 DEF WsNext, ReportPanics

\* What steps other than these four do leaves the index and the clients alone.
LEMMA IndexStep ==
  ASSUME IndexAgrees, WsNext
  PROVE  IndexAgrees'
<1>1. CASE Panic
  BY <1>1 DEF Panic, IndexAgrees, Index
<1>2. CASE CleanupEnd
  BY <1>2 DEF CleanupEnd, IndexAgrees, Index
<1>3. CASE UNCHANGED <<clients, userClients>>
  BY <1>3 DEF IndexAgrees, Index
<1>4. CASE Collect \/ CleanupBegin \/ StopHub \/ Broadcast \/ SweepBegin
  BY <1>3, <1>4 DEF Collect, CleanupBegin, StopHub, Broadcast, SweepBegin, hubVars
<1>5. CASE \E c \in Clients : CleanupClient(c) \/ Accept(c) \/ Register(c) \/ ReadFails(c)
  BY <1>3, <1>5 DEF CleanupClient, Accept, Register, ReadFails, hubVars
<1>6. CASE \E c \in Clients : ReadUnregister(c) \/ ReadDisconnect(c) \/ WriteFails(c) \/ CloseSend(c)
  BY <1>3, <1>6 DEF ReadUnregister, ReadDisconnect, WriteFails, CloseSend, hubVars
<1>7. CASE \E w \in Workers : BeginJob(w)
  BY <1>3, <1>7 DEF BeginJob
<1>8. CASE \E w \in Workers, c \in Clients : CheckClient(w, c) \/ SendDirect(w, c)
  BY <1>3, <1>8 DEF CheckClient, SendDirect, hubVars
<1>9. CASE \E c \in Clients : SweepVisit(c) \/ SweepUnregister(c)
  BY <1>3, <1>9 DEF SweepVisit, SweepUnregister, hubVars
<1>10. CASE \E c \in Clients : SendTo(c)
  BY <1>1, <1>3, <1>10 DEF SendTo
<1>11. CASE \E c \in Clients : HandleRegister(c)
  BY <1>11, IndexAfterRegister
<1>12. CASE \E c \in Clients : HandleUnregister(c)
  BY <1>12, IndexAfterUnregister
<1> QED
  BY StepCases, <1>1, <1>2, <1>4, <1>5, <1>6, <1>7, <1>8, <1>9, <1>10, <1>11, <1>12

\* GetClientsByUser finds exactly the clients the hub has under that user.
THEOREM IndexAgreesAlways == WsSpec => []IndexAgrees
<1>1. WsInit => IndexAgrees
  BY DEF WsInit, IndexAgrees, Index
<1>2. IndexAgrees /\ [WsNext]_wsVars => IndexAgrees'
  <2>1. CASE UNCHANGED wsVars
    BY <2>1 DEF wsVars, hubVars, IndexAgrees, Index
  <2> QED
    BY <2>1, IndexStep
<1> QED
  BY <1>1, <1>2, PTL DEF WsSpec

\* Hub.Stop leaves nobody it listed connected: each such client is
\* disconnected, or its own read pump is about to do it.
THEOREM StopDisconnectsAlways == WsSpec => []StopDisconnects
<1>1. WsInit => HubInv
  BY DEF WsInit, HubInv, HubTyped, Leaving, Unheard, Disconnected, StopDisconnects,
         ChannelsClosed, NoSweep
<1>2. HubInv /\ [WsNext]_wsVars => HubInv'
  <2>1. CASE UNCHANGED wsVars
    BY <2>1 DEF wsVars, hubVars, clientVars, senderVars, HubInv, HubTyped, Leaving,
                Unheard, Disconnected, StopDisconnects, ChannelsClosed
  <2> QED
    BY <2>1, StepCases, PanicInv, HubStepInv, ConnectionInv, SenderInv
<1>3. HubInv => StopDisconnects
  BY DEF HubInv
<1> QED
  BY <1>1, <1>2, <1>3, PTL DEF WsSpec

\* Both hold in every reachable state of the hub.
THEOREM HubTables == WsSpec => []HubTablesHold
BY IndexAgreesAlways, StopDisconnectsAlways, PTL DEF HubTablesHold

-----------------------------------------------------------------------------
(***************************************************************************)
(* While nothing has disturbed the exchange, each call of the client gets  *)
(* the response to its own request (AnswersAreOwn), for any number of      *)
(* callers, requests and notifications.                                    *)
(*                                                                         *)
(* The inductive invariant: at most one caller waits; the requests that    *)
(* are on their way to the server, worked on or on their way back are its  *)
(* request, in one of these places only and there once; and nothing else   *)
(* comes back.  One disturbance makes it false for good.                   *)
(***************************************************************************)

Messages == [kind : {"request", "initialized", "other", "notice"}, id : Int]
Request(n) == [kind |-> "request", id |-> n]
Noted == [kind |-> "initialized", id |-> 0]

Positions == [at : {"idle", "built", "sent", "returned"}, id : Int,
              got : Messages \cup {"nothing"}]

McpTyped ==
  /\ requestId \in Int
  /\ toServer \in Seq(Messages) /\ toClient \in Seq(Messages)
  /\ handling \subseteq Messages
  /\ asking \in [Requesters -> Positions]
  /\ disturbed \in BOOLEAN

Waits(c) == asking[c].at = "sent"

\* Where a request can be.
OnTheWay(i) == i \in 1..Len(toServer) /\ toServer[i].kind = "request"
Worked(m) == m \in handling /\ m.kind = "request"
OnTheWayBack(i) == i \in 1..Len(toClient)

OnePlaceOnly ==
  /\ \A i, j \in Nat : OnTheWay(i) /\ OnTheWay(j) => i = j
  /\ Len(toClient) <= 1
  /\ \A i \in Nat, m \in Messages : OnTheWay(i) => ~Worked(m)
  /\ toClient # <<>> => /\ \A i \in Nat : ~OnTheWay(i)
                        /\ \A m \in Messages : ~Worked(m)

IsAwaited(m) == \E c \in Requesters : Waits(c) /\ m = Request(asking[c].id)

\* The messages that are under way, and whose they are.
WaiterOwns ==
  /\ \A i \in 1..Len(toServer) : toServer[i] = Noted \/ IsAwaited(toServer[i])
  /\ \A m \in handling : m = Noted \/ IsAwaited(m)
  /\ \A i \in 1..Len(toClient) : IsAwaited(toClient[i])

InStep ==
  /\ \A c, d \in Requesters : Waits(c) /\ Waits(d) => c = d
  /\ OnePlaceOnly
  /\ WaiterOwns
  /\ AnswersAreOwn

ExchangeInv == McpTyped /\ (~disturbed => InStep)

LEMMA McpInitially == McpInit => ExchangeInv
<1>. SUFFICES ASSUME McpInit PROVE ExchangeInv
  OBVIOUS
<1>1. McpTyped
  <2>1. <<>> \in Seq(Messages)
    BY EmptySeq
  <2>. QED
    <3>1. disturbed \in BOOLEAN /\ handling \subseteq Messages
      BY Zenon DEF McpInit
    <3>2. requestId \in Int /\ toServer \in Seq(Messages) /\ toClient \in Seq(Messages)
      BY <2>1 DEF McpInit
    <3>3. asking \in [Requesters -> Positions]
      BY DEF McpInit, Silent, Positions
    <3>. QED
      BY <3>1, <3>2, <3>3 DEF McpTyped
<1>2. Len(toServer) = 0 /\ Len(toClient) = 0 /\ handling = {}
  BY EmptySeq DEF McpInit
<1>3. \A c \in Requesters : ~Waits(c) /\ asking[c].at # "returned"
  BY DEF McpInit, Waits, Silent
<1>4. OnePlaceOnly
  BY <1>2 DEF OnePlaceOnly, OnTheWay, Worked, McpInit
<1>. QED
  BY <1>1, <1>2, <1>3, <1>4 DEF ExchangeInv, InStep, WaiterOwns, IsAwaited, AnswersAreOwn

-----------------------------------------------------------------------------
(* Types.                                                                  *)

LEMMA LengthsAreNat ==
  ASSUME McpTyped
  PROVE  /\ Len(toServer) \in Nat /\ Len(toClient) \in Nat
         /\ \A i \in 1..Len(toServer) : toServer[i] \in Messages
         /\ \A i \in 1..Len(toClient) : toClient[i] \in Messages
BY LenProperties, ElementOfSeq DEF McpTyped

\* Taking a line, and adding one.
LEMMA TakesLine ==
  ASSUME NEW s \in Seq(Messages), s # <<>>
  PROVE  /\ Head(s) \in Messages /\ Head(s) = s[1] /\ 1 \in 1..Len(s)
         /\ Tail(s) \in Seq(Messages) /\ Len(Tail(s)) = Len(s) - 1
         /\ \A i \in 1..(Len(s) - 1) : Tail(s)[i] = s[i + 1]
<1>1. Len(s) \in Nat \ {0}
  BY EmptySeq
<1>. QED
  BY <1>1, HeadTailProperties, ElementOfSeq

LEMMA AddsLine ==
  ASSUME NEW s \in Seq(Messages), NEW m \in Messages
  PROVE  /\ Append(s, m) \in Seq(Messages) /\ Len(Append(s, m)) = Len(s) + 1
         /\ \A i \in 1..Len(s) : Append(s, m)[i] = s[i]
         /\ Append(s, m)[Len(s) + 1] = m
BY AppendProperties

-----------------------------------------------------------------------------
(* The steps.                                                              *)

\* Steps that move no message and neither start nor end the wait of a caller.
LEMMA StillStep ==
  ASSUME ExchangeInv, NEW c \in Requesters, BuildRequest(c) \/ TakeAnswer(c)
  PROVE  ExchangeInv'
<1>1. /\ UNCHANGED <<toServer, toClient, handling, disturbed>>
      /\ requestId' \in Int
      /\ asking[c].at \in {"idle", "returned"}
      /\ \E r \in Positions : r.at \in {"idle", "built"} /\ asking' = [asking EXCEPT ![c] = r]
  BY DEF BuildRequest, TakeAnswer, Silent, Positions, serverVars, ExchangeInv, McpTyped
<1>2. asking' \in [Requesters -> Positions] /\ McpTyped'
  BY <1>1 DEF ExchangeInv, McpTyped
<1>3. /\ \A d \in Requesters : Waits(d)' <=> Waits(d)
      /\ \A d \in Requesters : Waits(d) => asking'[d] = asking[d]
      /\ \A d \in Requesters : asking'[d].at = "returned" => asking'[d] = asking[d]
  BY <1>1 DEF ExchangeInv, McpTyped, Waits
<1>4. InStep => InStep'
  BY <1>1, <1>3 DEF InStep, OnePlaceOnly, OnTheWay, Worked, WaiterOwns, IsAwaited, AnswersAreOwn
<1>. QED
  BY <1>1, <1>2, <1>4 DEF ExchangeInv

\* With nobody waiting, no request is anywhere.
LEMMA NobodyWaits ==
  ASSUME McpTyped, InStep, \A c \in Requesters : ~Waits(c)
  PROVE  /\ \A i \in 1..Len(toServer) : toServer[i] = Noted
         /\ \A m \in handling : m = Noted
         /\ Len(toClient) = 0
<1>1. Len(toClient) \in Nat
  BY LengthsAreNat
<1>. QED
  BY <1>1 DEF InStep, WaiterOwns, IsAwaited

LEMMA SendStep ==
  ASSUME ExchangeInv, NEW c \in Requesters, SendRequest(c)
  PROVE  ExchangeInv'
<1>. DEFINE n == asking[c].id
<1>1. asking \in [Requesters -> Positions] /\ n \in Int /\ asking[c].at = "built"
  BY DEF ExchangeInv, McpTyped, Positions, SendRequest
<1>2. /\ asking' \in [Requesters -> Positions]
      /\ asking'[c].at = "sent" /\ asking'[c].id = n
      /\ \A d \in Requesters : d # c => asking'[d] = asking[d]
  <2>1. /\ asking' \in [Requesters -> {asking'[d] : d \in Requesters}]
        /\ asking'[c] = [asking[c] EXCEPT !.at = "sent"]
        /\ \A d \in Requesters : d # c => asking'[d] = asking[d]
    BY <1>1 DEF SendRequest
  <2>2. asking'[c] \in Positions /\ asking'[c].at = "sent" /\ asking'[c].id = n
    BY <1>1, <2>1 DEF Positions
  <2>. QED
    BY <1>1, <2>1, <2>2
<1>3. Request(n) \in Messages /\ Request(n).kind = "request"
  BY <1>1 DEF Request, Messages
<1>4. /\ toServer' = Append(toServer, Request(n))
      /\ UNCHANGED <<requestId, toClient, handling>>
      /\ disturbed' = (disturbed \/ \E d \in Requesters : Waits(d))
  BY DEF SendRequest, serverVars, Request, Waits
<1>. HIDE DEF n
<1>5. /\ toServer' \in Seq(Messages) /\ Len(toServer') = Len(toServer) + 1
      /\ \A i \in 1..Len(toServer) : toServer'[i] = toServer[i]
      /\ toServer'[Len(toServer) + 1] = Request(n)
  BY <1>3, <1>4, AddsLine DEF ExchangeInv, McpTyped
<1>6. McpTyped'
  BY <1>2, <1>4, <1>5 DEF ExchangeInv, McpTyped
<1>7. ASSUME ~disturbed'
      PROVE  InStep'
  <2>1. InStep /\ \A d \in Requesters : ~Waits(d)
    BY <1>4, <1>7 DEF ExchangeInv
  <2>2. /\ Len(toServer) \in Nat
        /\ \A i \in 1..Len(toServer) : toServer[i] = Noted
        /\ \A m \in handling : m = Noted
        /\ Len(toClient) = 0
    BY <2>1, NobodyWaits, LengthsAreNat DEF ExchangeInv
  <2>3. Noted.kind # "request" /\ toClient = <<>>
    BY <2>2, EmptySeq DEF Noted, ExchangeInv, McpTyped
  <2>4. \A d \in Requesters : Waits(d)' => d = c
    BY <1>2, <2>1 DEF Waits
  <2>5. Waits(c)'
    BY <1>2 DEF Waits
  <2>6. /\ \A i \in Nat : OnTheWay(i)' => i = Len(toServer) + 1
        /\ \A m : ~Worked(m)'
    BY <1>4, <1>5, <2>2, <2>3 DEF OnTheWay, Worked
  <2>7. OnePlaceOnly'
    BY <1>4, <2>2, <2>3, <2>6 DEF OnePlaceOnly
  <2>8. ASSUME NEW i \in 1..Len(toServer')
        PROVE  toServer'[i] = Noted \/ toServer'[i] = Request(asking'[c].id)
    <3>1. i \in 1..Len(toServer) \/ i = Len(toServer) + 1
      BY <1>5, <2>2
    <3>. QED
      BY <1>2, <1>5, <2>2, <3>1
  <2>9. WaiterOwns'
    BY <1>4, <2>2, <2>5, <2>8 DEF WaiterOwns, IsAwaited
  <2>10. AnswersAreOwn'
    BY <1>2, <1>4, <1>7, <2>1 DEF InStep, AnswersAreOwn
  <2>. QED
    BY <2>4, <2>7, <2>9, <2>10 DEF InStep
<1>. QED
  BY <1>6, <1>7 DEF ExchangeInv

LEMMA ReceiveStep ==
  ASSUME ExchangeInv, NEW c \in Requesters, ReceiveLine(c)
  PROVE  ExchangeInv'
<1>1. asking \in [Requesters -> Positions] /\ Waits(c) /\ toClient # <<>>
  BY DEF ExchangeInv, McpTyped, ReceiveLine, Waits
<1>2. /\ Head(toClient) \in Messages /\ Head(toClient) = toClient[1] /\ 1 \in 1..Len(toClient)
      /\ Tail(toClient) \in Seq(Messages) /\ Len(Tail(toClient)) = Len(toClient) - 1
  BY <1>1, TakesLine DEF ExchangeInv, McpTyped
<1>3. /\ asking' \in [Requesters -> Positions]
      /\ asking'[c].at = "returned" /\ asking'[c].got = Head(toClient)
      /\ asking'[c].id = asking[c].id
      /\ \A d \in Requesters : d # c => asking'[d] = asking[d]
  <2>1. /\ asking' \in [Requesters -> {asking'[d] : d \in Requesters}]
        /\ asking'[c] = [asking[c] EXCEPT !.at = "returned", !.got = Head(toClient)]
        /\ \A d \in Requesters : d # c => asking'[d] = asking[d]
    BY <1>1 DEF ReceiveLine
  <2>2. PICK m \in Messages : m = Head(toClient)
    BY <1>2
  <2>3. asking'[c] \in Positions /\ asking'[c].at = "returned" /\ asking'[c].got = m
        /\ asking'[c].id = asking[c].id
    <3>1. asking[c] \in Positions
      BY <1>1
    <3>2. asking'[c] = [asking[c] EXCEPT !.at = "returned", !.got = m]
      BY <2>1, <2>2
    <3>. QED
      BY <3>1, <3>2 DEF Positions
  <2>. QED
    BY <1>1, <2>1, <2>2, <2>3
<1>4. toClient' = Tail(toClient) /\ UNCHANGED <<requestId, toServer, handling, disturbed>>
  BY DEF ReceiveLine, serverVars
<1>5. McpTyped'
  BY <1>2, <1>3, <1>4 DEF ExchangeInv, McpTyped
<1>6. ASSUME ~disturbed'
      PROVE  InStep'
  <2>1. InStep
    BY <1>4, <1>6 DEF ExchangeInv
  <2>2. \A d \in Requesters : ~Waits(d)'
    BY <1>1, <1>3, <2>1 DEF InStep, Waits
  <2>3. toClient[1] = Request(asking[c].id)
    BY <1>1, <1>2, <2>1 DEF InStep, WaiterOwns, IsAwaited
  <2>4. Len(toClient) \in Nat /\ Len(toServer) \in Nat
    BY LengthsAreNat DEF ExchangeInv
  <2>5. Len(toClient') = 0 /\ toClient' = <<>>
    <3>1. Len(toClient') = 0
      BY <1>2, <1>4, <2>1, <2>4 DEF InStep, OnePlaceOnly
    <3>. QED
      BY <1>2, <1>4, <3>1, EmptySeq
  <2>6. (\A i \in Nat : ~OnTheWay(i)) /\ (\A m \in Messages : ~Worked(m))
    BY <1>1, <2>1 DEF InStep, OnePlaceOnly
  <2>7. \A i \in 1..Len(toServer) : toServer[i] = Noted
    <3>1. ASSUME NEW i \in 1..Len(toServer) PROVE toServer[i] = Noted
      <4>1. toServer[i].kind # "request"
        BY <2>4, <2>6 DEF OnTheWay, ExchangeInv, McpTyped
      <4>2. toServer[i] = Noted \/ \E k : toServer[i] = Request(k)
        BY <2>1 DEF InStep, WaiterOwns, IsAwaited
      <4>3. \A k : Request(k).kind = "request"
        BY DEF Request
      <4>. QED
        BY <4>1, <4>2, <4>3
    <3>. QED
      BY <3>1
  <2>8. \A m \in handling : m = Noted
    BY <2>1, <2>6 DEF InStep, WaiterOwns, IsAwaited, Worked, Request, ExchangeInv, McpTyped
  <2>9. OnePlaceOnly'
    <3>1. (\A i \in Nat : ~OnTheWay(i)') /\ (\A m \in Messages : ~Worked(m)')
      BY <1>4, <2>6 DEF OnTheWay, Worked
    <3>2. Len(toClient)' <= 1
      BY <2>5
    <3>. QED
      BY <3>1, <3>2 DEF OnePlaceOnly
  <2>10. WaiterOwns'
    <3>1. (\A i \in 1..Len(toServer') : toServer'[i] = Noted) /\ (\A m \in handling' : m = Noted)
      BY <1>4, <2>7, <2>8
    <3>2. 1..Len(toClient') = {}
      BY <2>5
    <3>. QED
      BY <3>1, <3>2 DEF WaiterOwns, IsAwaited
  <2>11. AnswersAreOwn'
    BY <1>2, <1>3, <1>4, <1>6, <2>1, <2>3 DEF InStep, AnswersAreOwn, Request
  <2>. QED
    BY <2>2, <2>9, <2>10, <2>11 DEF InStep
<1>. QED
  BY <1>5, <1>6 DEF ExchangeInv

\* Neither who waits nor what was answered changes in the other steps.
LEMMA AcceptStep ==
  ASSUME ExchangeInv, Accepts
  PROVE  ExchangeInv'
<1>. DEFINE h == Head(toServer)
<1>1. /\ UNCHANGED <<requestId, toClient, asking, disturbed>>
      /\ handling' = handling \cup {h} /\ toServer' = Tail(toServer) /\ toServer # <<>>
  BY DEF Accepts
<1>2. /\ h \in Messages /\ h = toServer[1] /\ 1 \in 1..Len(toServer)
      /\ Tail(toServer) \in Seq(Messages) /\ Len(Tail(toServer)) = Len(toServer) - 1
      /\ \A i \in 1..(Len(toServer) - 1) : Tail(toServer)[i] = toServer[i + 1]
  BY <1>1, TakesLine DEF ExchangeInv, McpTyped
<1>. HIDE DEF h
<1>3. McpTyped'
  BY <1>1, <1>2 DEF ExchangeInv, McpTyped
<1>4. ASSUME InStep PROVE InStep'
  <2>1. Len(toServer) \in Nat
    BY LengthsAreNat DEF ExchangeInv
  <2>2. /\ \A i \in Nat : OnTheWay(i)' => OnTheWay(i + 1)
        /\ OnTheWay(1) <=> h.kind = "request"
    BY <1>1, <1>2, <2>1 DEF OnTheWay
  <2>3. \A m : Worked(m)' => Worked(m) \/ (m = h /\ h.kind = "request")
    <3>1. ASSUME NEW m, Worked(m)' PROVE Worked(m) \/ (m = h /\ h.kind = "request")
      <4>1. m \in handling \cup {h} /\ m.kind = "request"
        BY <1>1, <3>1 DEF Worked
      <4>. QED
        BY <4>1 DEF Worked
    <3>. QED
      BY <3>1
  <2>4. ASSUME h.kind = "request"
        PROVE  /\ \A i \in Nat : ~OnTheWay(i)'
               /\ \A m \in Messages : ~Worked(m)
               /\ toClient = <<>>
    <3>1. OnTheWay(1)
      BY <2>2, <2>4
    <3>2. ASSUME NEW i \in Nat, OnTheWay(i)' PROVE FALSE
      <4>1. OnTheWay(i + 1) /\ i # 0
        BY <2>2, <3>2 DEF OnTheWay
      <4>. QED
        BY <1>4, <3>1, <4>1 DEF InStep, OnePlaceOnly
    <3>. QED
      BY <1>4, <3>1, <3>2 DEF InStep, OnePlaceOnly
  <2>5. \A i, j \in Nat : OnTheWay(i)' /\ OnTheWay(j)' => i = j
    <3>1. \A i, j \in Nat : OnTheWay(i + 1) /\ OnTheWay(j + 1) => i + 1 = j + 1
      BY <1>4 DEF InStep, OnePlaceOnly
    <3>. QED
      BY <2>2, <3>1
  <2>6. \A i \in Nat, m \in Messages : OnTheWay(i)' => ~Worked(m)'
    <3>1. \A i \in Nat, m \in Messages : OnTheWay(i + 1) => ~Worked(m)
      BY <1>4 DEF InStep, OnePlaceOnly
    <3>. QED
      BY <2>2, <2>3, <2>4, <3>1
  <2>7. toClient # <<>> => /\ \A i \in Nat : ~OnTheWay(i)'
                           /\ \A m \in Messages : ~Worked(m)'
    <3>1. toClient # <<>> => /\ \A i \in Nat : ~OnTheWay(i + 1)
                             /\ \A m \in Messages : ~Worked(m)
      BY <1>4 DEF InStep, OnePlaceOnly
    <3>. QED
      BY <2>2, <2>3, <2>4, <3>1
  <2>8. OnePlaceOnly'
    BY <1>1, <1>4, <2>5, <2>6, <2>7 DEF InStep, OnePlaceOnly
  <2>9. WaiterOwns'
    <3>1. \A i \in 1..Len(toServer') : i + 1 \in 1..Len(toServer) /\ toServer'[i] = toServer[i + 1]
      BY <1>1, <1>2, <2>1
    <3>. QED
      BY <1>1, <1>2, <1>4, <3>1 DEF InStep, WaiterOwns, IsAwaited, Waits
  <2>. QED
    BY <1>1, <1>4, <2>8, <2>9 DEF InStep, AnswersAreOwn, Waits
<1>. QED
  BY <1>1, <1>3, <1>4 DEF ExchangeInv

LEMMA AnswerStep ==
  ASSUME ExchangeInv, NEW m \in handling, Answers(m)
  PROVE  ExchangeInv'
<1>1. /\ UNCHANGED <<requestId, toServer, asking, disturbed>>
      /\ handling' = handling \ {m}
      /\ m.kind = "initialized" => toClient' = toClient
      /\ m.kind # "initialized" => toClient' = Append(toClient, m)
      /\ m \in Messages
  BY DEF Answers, ExchangeInv, McpTyped
<1>2. /\ Append(toClient, m) \in Seq(Messages) /\ Len(Append(toClient, m)) = Len(toClient) + 1
      /\ \A i \in 1..Len(toClient) : Append(toClient, m)[i] = toClient[i]
      /\ Append(toClient, m)[Len(toClient) + 1] = m
  BY <1>1, AddsLine DEF ExchangeInv, McpTyped
<1>3. McpTyped'
  BY <1>1, <1>2 DEF ExchangeInv, McpTyped
<1>4. /\ \A i \in Nat : OnTheWay(i)' <=> OnTheWay(i)
      /\ \A x : Worked(x)' <=> Worked(x) /\ x # m
      /\ \A c \in Requesters : Waits(c)' <=> Waits(c)
  BY <1>1 DEF OnTheWay, Worked, Waits
<1>5. ASSUME InStep PROVE InStep'
  <2>1. CASE m.kind = "initialized"
    <3>1. OnePlaceOnly'
      BY <1>1, <1>4, <1>5, <2>1 DEF InStep, OnePlaceOnly
    <3>2. WaiterOwns'
      BY <1>1, <1>4, <1>5, <2>1 DEF InStep, WaiterOwns, IsAwaited
    <3>. QED
      BY <1>1, <1>4, <1>5, <3>1, <3>2 DEF InStep, AnswersAreOwn
  <2>2. CASE m.kind # "initialized"
    <3>1. PICK c \in Requesters : Waits(c) /\ m = Request(asking[c].id)
      BY <1>5, <2>2 DEF InStep, WaiterOwns, IsAwaited, Noted
    <3>2. Worked(m)
      BY <3>1 DEF Worked, Request
    <3>3. /\ toClient = <<>> /\ Len(toClient) = 0
          /\ \A i \in Nat : ~OnTheWay(i)
      BY <1>1, <1>5, <3>2, EmptySeq DEF InStep, OnePlaceOnly
    <3>4. ASSUME NEW x \in Messages, Worked(x) PROVE x = m
      <4>1. PICK d \in Requesters : Waits(d) /\ x = Request(asking[d].id)
        BY <1>5, <3>4 DEF InStep, WaiterOwns, IsAwaited, Worked, Noted
      <4>. QED
        BY <1>5, <3>1, <4>1 DEF InStep
    <3>5. Len(toClient') = 1 /\ toClient'[1] = m
      BY <1>1, <1>2, <2>2, <3>3
    <3>6. OnePlaceOnly'
      BY <1>4, <3>3, <3>4, <3>5 DEF OnePlaceOnly
    <3>7. WaiterOwns'
      BY <1>1, <1>4, <1>5, <3>1, <3>5 DEF InStep, WaiterOwns, IsAwaited
    <3>. QED
      BY <1>1, <1>4, <1>5, <3>6, <3>7 DEF InStep, AnswersAreOwn
  <2>. QED
    BY <2>1, <2>2
<1>. QED
  BY <1>1, <1>3, <1>5 DEF ExchangeInv

LEMMA NoticeStep ==
  ASSUME ExchangeInv, NEW kind \in {"initialized", "other"}, ClientNotifies(kind)
  PROVE  ExchangeInv'
<1>. DEFINE m == [kind |-> kind, id |-> 0]
<1>1. /\ UNCHANGED <<requestId, toClient, handling, asking>>
      /\ toServer' = Append(toServer, m)
      /\ disturbed' = (disturbed \/ kind = "other")
      /\ m \in Messages
  BY DEF ClientNotifies, serverVars, Messages
<1>2. kind # "other" => m = Noted
  BY DEF Noted
<1>. HIDE DEF m
<1>3. /\ toServer' \in Seq(Messages) /\ Len(toServer') = Len(toServer) + 1
      /\ \A i \in 1..Len(toServer) : toServer'[i] = toServer[i]
      /\ toServer'[Len(toServer) + 1] = m
  BY <1>1, AddsLine DEF ExchangeInv, McpTyped
<1>4. McpTyped'
  BY <1>1, <1>3 DEF ExchangeInv, McpTyped
<1>5. ASSUME InStep, m = Noted PROVE InStep'
  <2>1. Len(toServer) \in Nat
    BY LengthsAreNat DEF ExchangeInv
  <2>2. ASSUME NEW i \in 1..Len(toServer')
        PROVE  \/ i \in 1..Len(toServer) /\ toServer'[i] = toServer[i]
               \/ toServer'[i] = Noted
    BY <1>3, <1>5, <2>1
  <2>3. /\ \A i \in Nat : OnTheWay(i)' => OnTheWay(i)
        /\ \A x : Worked(x)' <=> Worked(x)
        /\ \A c \in Requesters : Waits(c)' <=> Waits(c)
    BY <1>1, <2>2 DEF OnTheWay, Worked, Waits, Noted
  <2>4. OnePlaceOnly'
    BY <1>1, <1>5, <2>3 DEF InStep, OnePlaceOnly
  <2>5. WaiterOwns'
    BY <1>1, <1>5, <2>2, <2>3 DEF InStep, WaiterOwns, IsAwaited
  <2>. QED
    BY <1>1, <1>5, <2>3, <2>4, <2>5 DEF InStep, AnswersAreOwn
<1>. QED
  BY <1>1, <1>2, <1>4, <1>5 DEF ExchangeInv

\* Steps that disturb the exchange: from then on, nothing is promised.
LEMMA DisturbStep ==
  ASSUME ExchangeInv, (\E c \in Requesters : AbandonRequest(c)) \/ ServerNotifies
  PROVE  ExchangeInv'
<1>1. disturbed'
  BY DEF AbandonRequest, ServerNotifies
<1>2. CASE \E c \in Requesters : AbandonRequest(c)
  BY <1>1, <1>2 DEF AbandonRequest, ExchangeInv, McpTyped, Silent, Positions, serverVars
<1>3. CASE ServerNotifies
  <2>1. [kind |-> "notice", id |-> 0] \in Messages
    BY DEF Messages
  <2>2. toClient' \in Seq(Messages)
    BY <1>3, <2>1, AddsLine DEF ServerNotifies, ExchangeInv, McpTyped
  <2>. QED
    BY <1>1, <1>3, <2>2 DEF ServerNotifies, ExchangeInv, McpTyped, serverVars
<1>. QED
  BY <1>2, <1>3

LEMMA ExchangeNext == ExchangeInv /\ [McpNext]_mcpVars => ExchangeInv'
<1>. SUFFICES ASSUME ExchangeInv, [McpNext]_mcpVars PROVE ExchangeInv'
  OBVIOUS
<1>1. CASE \E c \in Requesters : \/ BuildRequest(c) \/ SendRequest(c) \/ ReceiveLine(c)
                                 \/ AbandonRequest(c) \/ TakeAnswer(c)
  BY <1>1, StillStep, SendStep, ReceiveStep, DisturbStep
<1>2. CASE \E kind \in {"initialized", "other"} : ClientNotifies(kind)
  BY <1>2, NoticeStep
<1>3. CASE Accepts \/ (\E m \in handling : Answers(m)) \/ ServerNotifies
  BY <1>3, AcceptStep, AnswerStep, DisturbStep
<1>4. CASE UNCHANGED mcpVars
  BY <1>4 DEF mcpVars, ExchangeInv, McpTyped, InStep, OnePlaceOnly, OnTheWay, Worked, WaiterOwns,
              IsAwaited, AnswersAreOwn, Waits
<1>. QED
  BY <1>1, <1>2, <1>3, <1>4 DEF McpNext

\* As long as callers ask one at a time, give no request up and the server sends
\* nothing by itself, each gets the response to its own request (property
\* AnswersAreOwn; client.go and transport.go of internal/mcp/client, server.go of
\* internal/mcp/server).
THEOREM AnswersAlwaysOwn == McpSpec => []AnswersAreOwn
<1>1. ExchangeInv => AnswersAreOwn
  BY DEF ExchangeInv, InStep, AnswersAreOwn
<1>. QED
  BY McpInitially, ExchangeNext, <1>1, PTL DEF McpSpec
=============================================================================
