----------------------------- MODULE RestServer -----------------------------
(***************************************************************************)
(* The REST server (internal/server/rest): maps of agents, tasks and       *)
(* skills under one read-write lock, which the handlers, Start and Stop    *)
(* take.  The three maps have the same handlers and are one map here.      *)
(*                                                                         *)
(* A record has two fields (say Status and UpdatedAt); a change writes its *)
(* number into the one and then into the other.  A record whose fields     *)
(* differ is halfway through a change.  The third, Config, is a map that an*)
(* update of an agent writes into.  An answer is what a handler read of the*)
(* two fields and the record's own Config, which is read when the answer is*)
(* encoded.  The other maps of an answer (Metadata, the Config of skills)  *)
(* are replaced as a whole and never written into; they are copies here.   *)
(* The net/http server is modelled from what it promises: Shutdown lets    *)
(* nobody new in and waits for the requests inside.                        *)
(***************************************************************************)
EXTENDS Integers, FiniteSets

CONSTANTS Clients,      \* connections; each has one request at a time
          RecordIds,    \* identities of the records, given out once
          MaxWrites,    \* bound on the changes
          Nobody        \* the lock has no writer

ASSUME RestAssumption ==
  /\ Nobody \notin Clients \cup RecordIds \cup {"Stop"} /\ "Stop" \notin Clients
  /\ MaxWrites \in Nat

VARIABLES listed,       \* the records in the map
          created,      \* ghost: the records made so far
          record,       \* the fields of each record; a pointer outlives the map
          writes,       \* number of changes so far
          writer,       \* who has s.mu: a client, "Stop" or Nobody
          readers,      \* the clients that have s.mu.RLock
          request,      \* what each client's request is and where it stands
          listener,     \* whether requests come in
          mapFault      \* the runtime saw a map read and written at once

restVars == <<listed, created, record, writes, writer, readers, request, listener, mapFault>>
restMap == <<listed, created, record, writes>>

\* "change" is start, stop, pause, resume, cancel and the updates of tasks and
\* skills; "merge" is the update of an agent that brings a Config.
OnRecord == {"get", "change", "merge", "delete"}
Operations == OnRecord \cup {"list", "create"}
Idle == [op |-> "none", at |-> "idle", id |-> Nobody, first |-> 0, second |-> 0, config |-> 0]

RestTypeOK ==
  /\ listed \subseteq created /\ created \subseteq RecordIds
  /\ record \in [RecordIds -> [first : 0..MaxWrites, second : 0..MaxWrites,
                            config : 0..MaxWrites]]
  /\ writes \in 0..MaxWrites
  /\ writer \in Clients \cup {"Stop", Nobody} /\ readers \subseteq Clients
  /\ request \in [Clients -> [op : Operations \cup {"none"},
                              at : {"idle", "waits", "lists", "reads", "readsOn", "writes",
                                    "writesOn", "encodes", "sends"},
                              id : RecordIds \cup {Nobody},
                              first : 0..MaxWrites, second : 0..MaxWrites,
                              config : 0..MaxWrites]]
  /\ listener \in {"new", "serves", "stops", "stopped", "failed"}
  /\ mapFault \in BOOLEAN

RestInit ==
  /\ listed = {} /\ created = {}
  /\ record = [i \in RecordIds |-> [first |-> 0, second |-> 0, config |-> 0]]
  /\ writes = 0
  /\ writer = Nobody /\ readers = {}
  /\ request = [c \in Clients |-> Idle]
  /\ listener = "new" /\ mapFault = FALSE

Free == writer = Nobody /\ readers = {}
Goes(c, at) == request' = [request EXCEPT ![c].at = at]
Answer(c) == request' = [request EXCEPT ![c] = Idle]
IsAt(c, at) == request[c].at = at
Does(c, op) == IsAt(c, "waits") /\ request[c].op = op

-----------------------------------------------------------------------------
(* The listener.                                                           *)

StartServer ==
  /\ listener = "new" /\ Free
  /\ listener' = "serves"
  /\ UNCHANGED <<restMap, writer, readers, request, mapFault>>

\* The requests that will use up one more of what is bounded.
Coming(ops) == Cardinality({c \in Clients : request[c].op \in ops
                                            /\ request[c].at \in {"waits", "writes"}})
Changes == {"change", "merge"}

\* A list (and the health answer, which takes the same lock) names no record; a
\* request for a record that was never made is answered like one for a deleted one.
Arrive(c, op, i) ==
  /\ listener = "serves" /\ IsAt(c, "idle")
  /\ op \in Changes => writes + Coming(Changes) < MaxWrites
  /\ op = "create" => Cardinality(created) + Coming({"create"}) < Cardinality(RecordIds)
  /\ i \in (IF op \in OnRecord THEN created ELSE {Nobody})
  /\ request' = [request EXCEPT ![c] = [op |-> op, at |-> "waits", id |-> i,
                                        first |-> 0, second |-> 0, config |-> 0]]
  /\ UNCHANGED <<restMap, writer, readers, listener, mapFault>>

\* Stop keeps the lock while Shutdown waits.
Stop ==
  /\ listener = "serves" /\ Free
  /\ listener' = "stops" /\ writer' = "Stop"
  /\ UNCHANGED <<restMap, readers, request, mapFault>>

ShutdownReturns ==
  /\ listener = "stops" /\ \A c \in Clients : IsAt(c, "idle")
  /\ listener' = "stopped" /\ writer' = Nobody
  /\ UNCHANGED <<restMap, readers, request, mapFault>>

\* Mutant: Shutdown is given a context without a timeout.
NoTimeout == FALSE /\ UNCHANGED restVars

\* Everything a handler does but wait for the lock is over in the 15 s of the
\* read and write timeouts: after 30 s only such waiters are left.
ShutdownTimesOut ==
  /\ listener = "stops"
  /\ \E c \in Clients : ~IsAt(c, "idle")
  /\ \A c \in Clients : IsAt(c, "idle") \/ IsAt(c, "waits")
  /\ listener' = "failed" /\ writer' = Nobody
  /\ UNCHANGED <<restMap, readers, request, mapFault>>

-----------------------------------------------------------------------------
(* The handlers that read.                                                 *)

\* handleList* and handleHealth respond with the lock held.
ListLocks(c) ==
  /\ Does(c, "list") /\ writer = Nobody
  /\ readers' = readers \cup {c} /\ Goes(c, "lists")
  /\ UNCHANGED <<restMap, writer, listener, mapFault>>

ListAnswers(c) ==
  /\ IsAt(c, "lists")
  /\ readers' = readers \ {c} /\ Answer(c)
  /\ UNCHANGED <<restMap, writer, listener, mapFault>>

\* handleGet*: only the lookup is under the lock.
GetLooksUp(c) ==
  /\ Does(c, "get") /\ writer = Nobody
  /\ IF request[c].id \in listed THEN Goes(c, "reads") ELSE Answer(c)
  /\ UNCHANGED <<restMap, writer, readers, listener, mapFault>>

ReadFirst(c) ==
  /\ IsAt(c, "reads")
  /\ request' = [request EXCEPT ![c].first = record[request[c].id].first, ![c].at = "readsOn"]
  /\ UNCHANGED <<restMap, writer, readers, listener, mapFault>>

ReadSecond(c) ==
  /\ IsAt(c, "readsOn")
  /\ request' = [request EXCEPT ![c].second = record[request[c].id].second, ![c].at = "encodes"]
  /\ UNCHANGED <<restMap, writer, readers, listener, mapFault>>

-----------------------------------------------------------------------------
(* The handlers that write.                                                *)

\* The answer reads the new record after the unlock.
CreateInserts(c, i) ==
  /\ Does(c, "create") /\ Free /\ i \in RecordIds \ created
  /\ created' = created \cup {i} /\ listed' = listed \cup {i}
  /\ request' = [request EXCEPT ![c].id = i, ![c].at = "reads"]
  /\ UNCHANGED <<record, writes, writer, readers, listener, mapFault>>

DeleteRecord(c) ==
  /\ Does(c, "delete") /\ Free
  /\ listed' = listed \ {request[c].id}
  /\ Answer(c)
  /\ UNCHANGED <<created, record, writes, writer, readers, listener, mapFault>>

\* Mutant: the lock is given up right after the lookup, as in handleGet*.
ChangeLooksUp(c) ==
  /\ Does(c, "change") \/ Does(c, "merge")
  /\ Free
  /\ IF request[c].id \in listed THEN Goes(c, "writes") ELSE Answer(c)
  /\ UNCHANGED <<restMap, writer, readers, listener, mapFault>>

ChangeLocks(c) ==
  /\ Does(c, "change") \/ Does(c, "merge")
  /\ Free
  /\ IF request[c].id \in listed THEN writer' = c /\ Goes(c, "writes")
                                 ELSE Answer(c) /\ UNCHANGED writer
  /\ UNCHANGED <<restMap, readers, listener, mapFault>>

\* The answers that hold the Config of the record itself and have yet to be encoded.
Encoding(i) == {d \in Clients : IsAt(d, "encodes") /\ request[d].id = i}

\* Merging is writing into that Config.  The runtime stops the program when it
\* notices that a map is read and written at once; else those answers will show
\* what is written here.
WriteFirst(c) ==
  LET merges == request[c].op = "merge" IN
  /\ IsAt(c, "writes")
  /\ writes' = writes + 1
  /\ record' = [record EXCEPT ![request[c].id].first = writes',
                              ![request[c].id].config = IF merges THEN writes' ELSE @]
  /\ mapFault' \in {FALSE, merges /\ Encoding(request[c].id) # {}}
  /\ Goes(c, "writesOn")
  /\ UNCHANGED <<listed, created, writer, readers, listener>>

\* Mutant: the response is built after the unlock, as it was before.
UnlockBeforeBuild(c) ==
  /\ IsAt(c, "writesOn")
  /\ record' = [record EXCEPT ![request[c].id].second = record[request[c].id].first]
  /\ writer' = Nobody /\ Goes(c, "reads")
  /\ UNCHANGED <<listed, created, writes, readers, listener, mapFault>>

\* The second field, the response, and the unlock.
WriteSecond(c) ==
  LET whole == record[request[c].id].first IN
  /\ IsAt(c, "writesOn")
  /\ record' = [record EXCEPT ![request[c].id].second = whole]
  /\ request' = [request EXCEPT ![c].first = whole, ![c].second = whole, ![c].at = "encodes"]
  /\ writer' = Nobody
  /\ UNCHANGED <<listed, created, writes, readers, listener, mapFault>>

\* respondJSON encodes the answer without the lock, and only now reads the Config,
EncodeConfig(c) ==
  /\ IsAt(c, "encodes")
  /\ request' = [request EXCEPT ![c].config = record[request[c].id].config, ![c].at = "sends"]
  /\ UNCHANGED <<restMap, writer, readers, listener, mapFault>>

\* and sends it.
Encode(c) ==
  /\ IsAt(c, "sends")
  /\ Answer(c)
  /\ UNCHANGED <<restMap, writer, readers, listener, mapFault>>

TakesLock(c) == \/ ListLocks(c) \/ GetLooksUp(c) \/ ChangeLocks(c) \/ DeleteRecord(c)
                \/ \E i \in RecordIds : CreateInserts(c, i)
GoesOn(c) == \/ ListAnswers(c) \/ ReadFirst(c) \/ ReadSecond(c)
             \/ WriteFirst(c) \/ WriteSecond(c) \/ EncodeConfig(c) \/ Encode(c)

RestNext ==
  /\ ~mapFault
  /\ \/ StartServer \/ Stop \/ ShutdownReturns \/ ShutdownTimesOut
     \/ \E c \in Clients : \/ TakesLock(c) \/ GoesOn(c)
                            \/ \E op \in Operations, i \in RecordIds \cup {Nobody} : Arrive(c, op, i)

\* Handlers are scheduled, sync.RWMutex lets nobody wait for ever while it is
\* released again and again, and the context of Shutdown ends.
RestFairness ==
  /\ \A c \in Clients : SF_restVars(~mapFault /\ (TakesLock(c) \/ GoesOn(c)))
  /\ WF_restVars(~mapFault /\ (ShutdownReturns \/ ShutdownTimesOut))

RestSpec == RestInit /\ [][RestNext]_restVars /\ RestFairness

-----------------------------------------------------------------------------
(* Properties.                                                             *)

IsWhole(c) == request[c].first = request[c].second
Answers(c, ops) == request[c].op \in ops /\ (IsAt(c, "encodes") \/ IsAt(c, "sends"))

\* The fields a handler that changes a record answers are those its change left,
\* never half of them and half of a later change's: the response is built before
\* the unlock in handleUpdate*, handleStart*, handleStopAgent and the others.  The
\* Config in it is the record's own, so a later merge may show in it.
ChangeAnswersAreWhole ==
  \A c \in Clients : Answers(c, Changes) => IsWhole(c)

\* A merge answers its own Config or a later one, never the one it replaced.
MergeShows ==
  \A c \in Clients : IsAt(c, "sends") /\ request[c].op = "merge" =>
    request[c].config >= request[c].first

\* A record that is halfway through a change is in the hands of the handler that has
\* the write lock; so a reader that has the lock, and whoever changes the record next,
\* finds it whole.
HalvesAreLocked ==
  \A i \in RecordIds : record[i].first # record[i].second =>
    writer \in Clients /\ IsAt(writer, "writesOn") /\ request[writer].id = i

\* What a change leaves is its own, and so is what it answers, but for a Config that
\* a later merge wrote into.
ChangesAreWhole == ChangeAnswersAreWhole /\ MergeShows /\ HalvesAreLocked

\* Every request that came in is answered, also when Stop comes while it waits
\* for the lock that Stop holds: the 30 s of Shutdown's context end the wait.
EveryRequestAnswered ==
  \A c \in Clients : ~IsAt(c, "idle") ~> IsAt(c, "idle") \/ mapFault
=============================================================================
