------------------------------- MODULE WsHub -------------------------------
(***************************************************************************)
(* The WebSocket hub, its clients, the workers of the broadcast manager    *)
(* and the task that cleans up stale clients (internal/server/ws).         *)
(*                                                                         *)
(* The hub is one goroutine that selects, in any order, from its channels. *)
(* Each client has a read pump and a write pump; any of them, the hub and  *)
(* the cleanup task may disconnect it.  Disconnect sets the closed flag    *)
(* ("flagged") and then closes the client's send channel ("closed").       *)
(* Sending on a closed channel is a panic, which ends the program: from    *)
(* then on `panicked' is TRUE and nothing happens.                         *)
(*                                                                         *)
(* Contents of messages and the capacity of buffers, which drop what does  *)
(* not fit, are left out.                                                  *)
(***************************************************************************)
EXTENDS Integers, FiniteSets

CONSTANTS Clients,      \* connections that may come in
          Owners, UserOf,       \* the user of each client
          Workers,      \* workers of the broadcast manager
          MaxBroadcasts,        \* bound on broadcasts, through the hub or the manager
          MaxSweeps     \* bound on unregister messages queued per client

ASSUME HubAssumption ==
  /\ UserOf \in [Clients -> Owners]
  /\ MaxBroadcasts \in Nat /\ MaxSweeps \in Nat \ {0}

VARIABLES clients,      \* h.clients
          userClients,  \* h.userClients
          hub,          \* the hub's goroutine
          recipients,   \* the clients handleBroadcast is still to send to
          cancelled,    \* h.ctx is done
          regMsg,       \* what became of each client's message on h.register;
                        \* "late": handled after its unregistration
          unregister,   \* number of messages of each client on h.unregister
          broadcast,    \* number of messages on h.broadcast
          sent,         \* number of broadcasts begun so far
          life,         \* each client's closed flag and send channel
          readPump,     \* each client's read pump
          job,          \* each worker: recipients left, and the one it has checked
          sweep,        \* the cleanup task
          panicked      \* the program has crashed

hubVars == <<clients, userClients, hub, recipients, cancelled, regMsg, unregister,
             broadcast, sent>>
clientVars == <<life, readPump>>
senderVars == <<job, sweep>>
wsVars == <<hubVars, clientVars, senderVars, panicked>>

\* The four channels of the hub are closed.
ChannelsClosed == hub = "stopped"

WsTypeOK ==
  /\ clients \subseteq Clients
  /\ DOMAIN userClients \subseteq Owners
  /\ \A u \in DOMAIN userClients : userClients[u] \subseteq Clients
  /\ hub \in {"select", "sending", "cleanup", "stopped"}
  /\ recipients \subseteq Clients
  /\ cancelled \in BOOLEAN /\ panicked \in BOOLEAN
  /\ regMsg \in [Clients -> {"none", "due", "queued", "handled", "late", "dropped"}]
  /\ unregister \in [Clients -> 0..MaxSweeps]
  /\ broadcast \in 0..MaxBroadcasts /\ sent \in 0..MaxBroadcasts
  /\ life \in [Clients -> {"none", "open", "flagged", "closed"}]
  /\ readPump \in [Clients -> {"off", "reading", "leaving", "closing", "done"}]
  /\ job \in [Workers -> [left : SUBSET Clients, checked : SUBSET Clients]]
  /\ sweep \in [left : SUBSET Clients, due : SUBSET Clients]

NoJob == [left |-> {}, checked |-> {}]
NoSweep == [left |-> {}, due |-> {}]

\* Server.Start: the hub runs, nobody is connected.
WsInit ==
  /\ clients = {}
  /\ userClients = [u \in {} |-> {}]
  /\ hub = "select"
  /\ recipients = {}
  /\ cancelled = FALSE
  /\ regMsg = [c \in Clients |-> "none"]
  /\ unregister = [c \in Clients |-> 0]
  /\ broadcast = 0
  /\ sent = 0
  /\ life = [c \in Clients |-> "none"]
  /\ readPump = [c \in Clients |-> "off"]
  /\ job = [w \in Workers |-> NoJob]
  /\ sweep = NoSweep
  /\ panicked = FALSE

\* The program ends; what it had in memory is gone.
Panic ==
  /\ panicked' = TRUE
  /\ clients' = {}
  /\ userClients' = [u \in {} |-> {}]
  /\ hub' = "select"
  /\ recipients' = {}
  /\ cancelled' = FALSE
  /\ regMsg' = [c \in Clients |-> "none"]
  /\ unregister' = [c \in Clients |-> 0]
  /\ broadcast' = 0
  /\ sent' = 0
  /\ life' = [c \in Clients |-> "none"]
  /\ readPump' = [c \in Clients |-> "off"]
  /\ job' = [w \in Workers |-> NoJob]
  /\ sweep' = NoSweep

\* The first half of Disconnect, by whoever comes first.
Flag(c) == life' = [life EXCEPT ![c] = IF @ = "open" THEN "flagged" ELSE @]

-----------------------------------------------------------------------------
(* Connections.                                                            *)

\* handleWebSocket: the pumps start before the client is registered.
Accept(c) ==
  /\ life[c] = "none"
  /\ life' = [life EXCEPT ![c] = "open"]
  /\ readPump' = [readPump EXCEPT ![c] = "reading"]
  /\ regMsg' = [regMsg EXCEPT ![c] = "due"]
  /\ UNCHANGED <<clients, userClients, hub, recipients, cancelled, unregister,
                 broadcast, sent, senderVars, panicked>>

\* Hub.Register: a select between the channel and ctx.Done().
Register(c) ==
  /\ regMsg[c] = "due"
  /\ \E outcome \in (IF cancelled THEN {"dropped"} ELSE {})
                      \cup (IF ChannelsClosed THEN {} ELSE {"queued"}) :
       regMsg' = [regMsg EXCEPT ![c] = outcome]
  /\ UNCHANGED <<clients, userClients, hub, recipients, cancelled, unregister,
                 broadcast, sent, clientVars, senderVars, panicked>>

RegisterPanics(c) == regMsg[c] = "due" /\ ChannelsClosed /\ Panic

\* The read fails: the peer left, the deadline passed, or somebody else has
\* disconnected the client.
ReadFails(c) ==
  /\ readPump[c] = "reading"
  /\ readPump' = [readPump EXCEPT ![c] = "leaving"]
  /\ UNCHANGED <<hubVars, life, senderVars, panicked>>

\* hub.Error, for an unexpected close or a message that cannot be parsed.  The
\* errors themselves are only printed, so the model has no queue of them.
ReportPanics(c) == readPump[c] = "reading" /\ ChannelsClosed /\ Panic

\* Mutant: who is closed already is not unregistered.
ReadUnregisterOpenOnly(c) ==
  /\ readPump[c] = "leaving"
  /\ readPump' = [readPump EXCEPT ![c] = "closing"]
  /\ \/ (cancelled \/ life[c] # "open") /\ UNCHANGED unregister
     \/ /\ ~ChannelsClosed /\ life[c] = "open"
        /\ unregister[c] < MaxSweeps
        /\ unregister' = [unregister EXCEPT ![c] = @ + 1]
  /\ UNCHANGED <<clients, userClients, hub, recipients, cancelled, regMsg,
                 broadcast, sent, life, senderVars, panicked>>

\* hub.Unregister in the deferred function of the read pump.
ReadUnregister(c) ==
  /\ readPump[c] = "leaving"
  /\ readPump' = [readPump EXCEPT ![c] = "closing"]
  /\ \/ cancelled /\ UNCHANGED unregister
     \/ /\ ~ChannelsClosed
        /\ unregister[c] < MaxSweeps
        /\ unregister' = [unregister EXCEPT ![c] = @ + 1]
  /\ UNCHANGED <<clients, userClients, hub, recipients, cancelled, regMsg,
                 broadcast, sent, life, senderVars, panicked>>

UnregisterPanics(c) == readPump[c] = "leaving" /\ ChannelsClosed /\ Panic

ReadDisconnect(c) ==
  /\ readPump[c] = "closing"
  /\ readPump' = [readPump EXCEPT ![c] = "done"]
  /\ Flag(c)
  /\ UNCHANGED <<hubVars, senderVars, panicked>>

\* The write pump ends because a write fails, and disconnects the client; when
\* it ends because the client was closed, Disconnect does nothing.
WriteFails(c) ==
  /\ life[c] = "open"
  /\ Flag(c)
  /\ UNCHANGED <<hubVars, readPump, senderVars, panicked>>

\* The second half of Disconnect: cancel, close(c.send), close the connection.
CloseSend(c) ==
  /\ life[c] = "flagged"
  /\ life' = [life EXCEPT ![c] = "closed"]
  /\ UNCHANGED <<hubVars, readPump, senderVars, panicked>>

-----------------------------------------------------------------------------
(* The hub.                                                                *)

Index(S) == [u \in {UserOf[c] : c \in S} |-> {c \in S : UserOf[c] = u}]

\* The client is listed, also when its read pump has already unregistered it.
HandleRegister(c) ==
  /\ hub = "select"
  /\ regMsg[c] = "queued"
  /\ regMsg' = [regMsg EXCEPT ![c] =
                  IF readPump[c] \in {"closing", "done"} /\ unregister[c] = 0
                  THEN "late" ELSE "handled"]
  /\ clients' = clients \cup {c}
  /\ userClients' =
       [u \in DOMAIN userClients \cup {UserOf[c]} |->
          (IF u \in DOMAIN userClients THEN userClients[u] ELSE {})
            \cup (IF u = UserOf[c] THEN {c} ELSE {})]
  /\ UNCHANGED <<hub, recipients, cancelled, unregister, broadcast, sent,
                 clientVars, senderVars, panicked>>

\* Mutant: a user without clients stays in the index.
UnregisterKeepsUser(c) ==
  /\ hub = "select"
  /\ unregister[c] > 0
  /\ unregister' = [unregister EXCEPT ![c] = @ - 1]
  /\ IF c \in clients
     THEN /\ clients' = clients \ {c}
          /\ userClients' = [userClients EXCEPT ![UserOf[c]] = @ \ {c}]
     ELSE UNCHANGED <<clients, userClients>>
  /\ UNCHANGED <<hub, recipients, cancelled, regMsg, broadcast, sent, clientVars,
                 senderVars, panicked>>

HandleUnregister(c) ==
  /\ hub = "select"
  /\ unregister[c] > 0
  /\ unregister' = [unregister EXCEPT ![c] = @ - 1]
  /\ IF c \in clients
     THEN LET u == UserOf[c]
              rest == userClients[u] \ {c}
          IN  /\ clients' = clients \ {c}
              /\ userClients' =
                   [v \in IF rest = {} THEN DOMAIN userClients \ {u}
                                       ELSE DOMAIN userClients |->
                      userClients[v] \ {c}]
     ELSE UNCHANGED <<clients, userClients>>
  /\ UNCHANGED <<hub, recipients, cancelled, regMsg, broadcast, sent, clientVars,
                 senderVars, panicked>>

\* handleBroadcast, first loop: which clients the message is for is up to its
\* target and to their subscriptions.
Collect ==
  /\ hub = "select"
  /\ broadcast > 0
  /\ broadcast' = broadcast - 1
  /\ \E S \in SUBSET {c \in clients : life[c] = "open"} :
       /\ recipients' = S
       /\ hub' = IF S = {} THEN "select" ELSE "sending"
  /\ UNCHANGED <<clients, userClients, cancelled, regMsg, unregister, sent,
                 clientVars, senderVars, panicked>>

\* handleBroadcast, second loop, for one client.
SendTo(c) ==
  /\ hub = "sending"
  /\ c \in recipients
  /\ IF life[c] = "closed"
     THEN Panic
     ELSE /\ recipients' = recipients \ {c}
          /\ hub' = IF recipients' = {} THEN "select" ELSE "sending"
          /\ UNCHANGED <<clients, userClients, cancelled, regMsg, unregister,
                         broadcast, sent, clientVars, senderVars, panicked>>

\* Hub.Stop
StopHub ==
  /\ ~cancelled
  /\ cancelled' = TRUE
  /\ UNCHANGED <<clients, userClients, hub, recipients, regMsg, unregister,
                 broadcast, sent, clientVars, senderVars, panicked>>

CleanupBegin ==
  /\ hub = "select"
  /\ cancelled
  /\ hub' = "cleanup"
  /\ UNCHANGED <<clients, userClients, recipients, cancelled, regMsg, unregister,
                 broadcast, sent, clientVars, senderVars, panicked>>

CleanupClient(c) ==
  /\ hub = "cleanup"
  /\ c \in clients /\ life[c] = "open"
  /\ Flag(c)
  /\ UNCHANGED <<hubVars, readPump, senderVars, panicked>>

\* Mutant: the clients are forgotten without being disconnected.
CleanupForgets ==
  /\ hub = "cleanup"
  /\ clients' = {}
  /\ userClients' = [u \in {} |-> {}]
  /\ hub' = "stopped"
  /\ UNCHANGED <<recipients, cancelled, regMsg, unregister, broadcast, sent,
                 clientVars, senderVars, panicked>>

CleanupEnd ==
  /\ hub = "cleanup"
  /\ \A c \in clients : life[c] # "open"
  /\ clients' = {}
  /\ userClients' = [u \in {} |-> {}]
  /\ hub' = "stopped"
  /\ UNCHANGED <<recipients, cancelled, regMsg, unregister, broadcast, sent,
                 clientVars, senderVars, panicked>>

-----------------------------------------------------------------------------
(* Senders and the cleanup task.                                           *)

\* Hub.Broadcast: the message is queued, or refused with ErrHubClosed.
Broadcast ==
  /\ sent < MaxBroadcasts
  /\ sent' = sent + 1
  /\ \/ ~ChannelsClosed /\ broadcast' = broadcast + 1
     \/ cancelled /\ UNCHANGED broadcast
  /\ UNCHANGED <<clients, userClients, hub, recipients, cancelled, regMsg,
                 unregister, clientVars, senderVars, panicked>>

BroadcastPanics == sent < MaxBroadcasts /\ ChannelsClosed /\ Panic

\* getRecipients, with the clients as GetAllClients finds them.
BeginJob(w) ==
  /\ job[w] = NoJob
  /\ sent < MaxBroadcasts
  /\ hub # "cleanup"
  /\ sent' = sent + 1
  /\ \E S \in SUBSET {c \in clients : life[c] = "open"} :
       job' = [job EXCEPT ![w].left = S]
  /\ UNCHANGED <<clients, userClients, hub, recipients, cancelled, regMsg,
                 unregister, broadcast, clientVars, sweep, panicked>>

\* IsClosed in sendToRecipients and the check at the top of Client.Send.
CheckClient(w, c) ==
  /\ job[w].checked = {}
  /\ c \in job[w].left
  /\ job' = [job EXCEPT ![w] = [left |-> @.left \ {c},
                                checked |-> IF life[c] = "open" THEN {c} ELSE {}]]
  /\ UNCHANGED <<hubVars, clientVars, sweep, panicked>>

\* The select in Client.Send.  For a client that has been closed meanwhile it
\* may choose ctx.Done(), and the worker reports the error to the hub.
SendDirect(w, c) ==
  /\ c \in job[w].checked
  /\ ~(life[c] = "closed" /\ ChannelsClosed)
  /\ job' = [job EXCEPT ![w].checked = {}]
  /\ UNCHANGED <<hubVars, clientVars, sweep, panicked>>

SendDirectPanics(w, c) == c \in job[w].checked /\ life[c] = "closed" /\ Panic

\* CleanupStaleClients takes the list of clients.
SweepBegin ==
  /\ sweep = NoSweep
  /\ hub # "cleanup"
  /\ clients # {}
  /\ sweep' = [left |-> clients, due |-> {}]
  /\ UNCHANGED <<hubVars, clientVars, job, panicked>>

\* IsStale: a closed client is stale; an open one may be.
SweepVisit(c) ==
  /\ sweep.due = {}
  /\ c \in sweep.left
  /\ \/ Flag(c) /\ sweep' = [left |-> sweep.left \ {c}, due |-> {c}]
     \/ life[c] = "open" /\ sweep' = [sweep EXCEPT !.left = @ \ {c}] /\ UNCHANGED life
  /\ UNCHANGED <<hubVars, readPump, job, panicked>>

SweepUnregister(c) ==
  /\ c \in sweep.due
  /\ sweep' = [sweep EXCEPT !.due = {}]
  /\ \/ cancelled /\ UNCHANGED unregister
     \/ /\ ~ChannelsClosed
        /\ unregister[c] < MaxSweeps
        /\ unregister' = [unregister EXCEPT ![c] = @ + 1]
  /\ UNCHANGED <<clients, userClients, hub, recipients, cancelled, regMsg,
                 broadcast, sent, clientVars, job, panicked>>

SweepPanics(c) == c \in sweep.due /\ ChannelsClosed /\ Panic

-----------------------------------------------------------------------------

HubStep ==
  \/ Collect
  \/ CleanupBegin
  \/ CleanupEnd
  \/ \E c \in Clients : \/ HandleRegister(c)
                        \/ HandleUnregister(c)
                        \/ SendTo(c)
                        \/ CleanupClient(c)

ClientStep(c) ==
  \/ Register(c) \/ RegisterPanics(c)
  \/ ReadUnregister(c) \/ UnregisterPanics(c)
  \/ ReadDisconnect(c)
  \/ CloseSend(c)

WorkerStep(w) ==
  \/ BeginJob(w)
  \/ \E c \in Clients : CheckClient(w, c) \/ SendDirect(w, c) \/ SendDirectPanics(w, c)

SweepStep ==
  \/ SweepBegin
  \/ \E c \in Clients : SweepVisit(c) \/ SweepUnregister(c) \/ SweepPanics(c)

WsNext ==
  /\ ~panicked
  /\ \/ HubStep
     \/ SweepStep
     \/ StopHub
     \/ Broadcast \/ BroadcastPanics
     \/ \E w \in Workers : WorkerStep(w)
     \/ \E c \in Clients : \/ Accept(c)
                           \/ ReadFails(c) \/ ReportPanics(c)
                           \/ WriteFails(c)
                           \/ ClientStep(c)

WsSpec == WsInit /\ [][WsNext]_wsVars

\* The hub and each client's goroutines go on while they can; Go's select is fair
\* enough that no ready channel of the hub is passed over for ever.  Disconnect
\* closes the connection, so the read of a closed client fails, at the latest at
\* its deadline.  Nothing in the repository starts the cleanup task, so it may
\* run, but nothing is asked of it.
WsFairness ==
  /\ WF_wsVars(~panicked /\ (Collect \/ CleanupBegin \/ CleanupEnd))
  /\ \A c \in Clients :
       /\ WF_wsVars(~panicked /\ ClientStep(c))
       /\ WF_wsVars(~panicked /\ life[c] = "closed" /\ ReadFails(c))
       /\ SF_wsVars(~panicked /\ HandleRegister(c))
       /\ SF_wsVars(~panicked /\ HandleUnregister(c))
       /\ WF_wsVars(~panicked /\ (SendTo(c) \/ CleanupClient(c)))

-----------------------------------------------------------------------------
(* Properties.                                                             *)

\* GetClientsByUser and UserCount: the index by user lists the clients of the
\* hub, each under its user, and no user without clients.
IndexAgrees == userClients = Index(clients)

\* When the hub has stopped, every client it ever listed is disconnected or
\* its read pump is about to disconnect it.
StopDisconnects ==
  ChannelsClosed =>
    \A c \in Clients : regMsg[c] \in {"handled", "late"} =>
      life[c] # "open" \/ readPump[c] = "closing"

\* What the hub's tables say of its clients is so: under which users they are, and,
\* after the shutdown, that none of them is left connected.
HubTablesHold == IndexAgrees /\ StopDisconnects

\* A closed client leaves the hub's tables in the end, whoever closed it: its own
\* read pump unregisters it.  Only one that the hub registers after it has handled
\* the unregistration stays, until somebody runs the cleanup or the hub stops.
ClosedLeaves ==
  \A c \in Clients :
    (c \in clients /\ life[c] = "closed")
      ~> (c \notin clients \/ panicked \/ (regMsg[c] = "late" /\ ~cancelled))
=============================================================================
