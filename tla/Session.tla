------------------------------ MODULE Session ------------------------------
(***************************************************************************)
(* One session: its manager, its conversation and the file it is kept in   *)
(* (internal/context/session: session.go and persistence.go, file backend).*)
(*                                                                         *)
(* Calls fetch the session first and lock it afterwards (session.mu, held  *)
(* by `locker').  store.Update writes the file under the store's lock.  A  *)
(* background save (the store's sync loop, the manager's autosave, or the  *)
(* update of any other session, which writes all of them) holds the        *)
(* store's lock but not the session's, and reads the status, the messages, *)
(* the summaries and the total in that order, that of the JSON text; each  *)
(* is read at one moment here.  (A compression while the encoder is inside *)
(* the list of messages makes it panic: that is a crash.)  A crash loses   *)
(* all but the file.                                                       *)
(*                                                                         *)
(* Messages are numbers in the order of AddMessage; a summary is the       *)
(* sequence of the messages it stands for.                                 *)
(***************************************************************************)
EXTENDS Integers, Sequences, FiniteSets, SequencesExt

CONSTANTS Callers,      \* goroutines that use the session manager
          Nobody,       \* holds no lock
          Threshold,    \* m.compressionThreshold (100 in the code)
          Keep,         \* messages that a compression leaves (20 in the code)
          MaxMessages, MaxCrashes, MaxFailures  \* bounds

ASSUME SessionAssumption ==
  /\ Nobody \notin Callers
  /\ Threshold \in Nat /\ Keep \in Nat /\ Keep < Threshold
  /\ MaxMessages \in Nat /\ MaxCrashes \in Nat /\ MaxFailures \in Nat

VARIABLES msgs,         \* Conversation.Messages
          summaries,    \* Conversation.CompressedSummaries
          total,        \* Conversation.TotalMessages
          status,       \* session.Status
          closedAt,     \* session.ClosedAt # nil
          stored,       \* the store has the session
          listed,       \* the manager has it in activeSessions
          file,         \* the session as the file has it
          locker,       \* the caller that holds session.mu
          saver,        \* the background save
          doing,        \* the call each caller is in, and how far it is
          given,        \* number of messages given to AddMessage
          acked,        \* messages for which AddMessage returned no error
          crashes, failures     \* how often these happened (bound the model)

convVars == <<msgs, summaries, total>>
sessVars == <<convVars, status, closedAt, stored, listed, file, locker, saver,
              doing, given, acked, crashes, failures>>

NoFile == [msgs |-> <<>>, summaries |-> <<>>, total |-> 0, status |-> "none",
           closedAt |-> FALSE]
Snapshot == [msgs |-> msgs, summaries |-> summaries, total |-> total,
             status |-> status, closedAt |-> closedAt]

NotCalled == [call |-> "none", at |-> "none", msg |-> 0]
NoSave == [at |-> "none", got |-> NoFile]

SessTypeOK ==
  /\ msgs \in Seq(1..given)
  /\ summaries \in Seq(Seq(1..given))
  /\ total \in 0..MaxMessages
  /\ status \in {"active", "suspended", "resumed", "closed"}
  /\ {closedAt, stored, listed} \subseteq BOOLEAN
  /\ DOMAIN file = DOMAIN NoFile
  /\ locker \in Callers \cup {Nobody}
  /\ saver.at \in {"none", "status", "msgs", "summaries"}
  /\ DOMAIN saver.got = DOMAIN NoFile
  /\ doing \in [Callers ->
       [call : {"none", "add", "compress", "suspend", "close", "resume", "delete"},
        at : {"none", "fetched", "locked", "updated"}, msg : 0..MaxMessages]]
  /\ given \in 0..MaxMessages
  /\ acked \subseteq 1..given
  /\ crashes \in 0..MaxCrashes /\ failures \in 0..MaxFailures

\* CreateSession has returned.
SessInit ==
  /\ msgs = <<>> /\ summaries = <<>> /\ total = 0
  /\ status = "active" /\ closedAt = FALSE
  /\ stored = TRUE /\ listed = TRUE
  /\ file = [NoFile EXCEPT !.status = "active"]
  /\ locker = Nobody
  /\ saver = NoSave
  /\ doing = [c \in Callers |-> NotCalled]
  /\ given = 0 /\ acked = {}
  /\ crashes = 0 /\ failures = 0

-----------------------------------------------------------------------------

\* GetSession finds the session in memory or in the store.
Known == listed \/ stored

Goto(c, call, at) == doing' = [doing EXCEPT ![c].call = call, ![c].at = at]

\* A call begins by fetching the session.
Fetch(c, call, known) ==
  /\ doing[c] = NotCalled
  /\ known
  /\ Goto(c, call, "fetched")
  /\ UNCHANGED <<convVars, status, closedAt, stored, listed, file, locker, saver,
                 given, acked, crashes, failures>>

\* store.Update of the session by caller c: not found, a file that cannot be
\* written, or done.
Update(result) ==
  /\ saver = NoSave
  /\ \/ /\ result = "not found"
        /\ ~stored
        /\ UNCHANGED <<file, failures>>
     \/ /\ result = "failed"
        /\ stored /\ failures < MaxFailures
        /\ failures' = failures + 1
        /\ UNCHANGED file
     \/ /\ result = "ok"
        /\ stored
        /\ file' = Snapshot
        /\ UNCHANGED failures

\* Mutant: one message too many is cut off.
CompressDropsOne ==
  LET cut == Len(msgs) - Keep
  IN  /\ summaries' = Append(summaries, SubSeq(msgs, 1, cut - 1))
      /\ msgs' = SubSeq(msgs, cut + 1, Len(msgs))
      /\ UNCHANGED total

\* The oldest messages become a summary.
Compress ==
  LET cut == Len(msgs) - Keep
  IN  /\ summaries' = Append(summaries, SubSeq(msgs, 1, cut))
      /\ msgs' = SubSeq(msgs, cut + 1, Len(msgs))
      /\ UNCHANGED total

-----------------------------------------------------------------------------
(* AddMessage and autoCompress.                                            *)

\* The append, under both locks.
AddAppend(c) ==
  /\ doing[c].call = "add" /\ doing[c].at = "fetched"
  /\ locker = Nobody
  /\ given < MaxMessages
  /\ given' = given + 1
  /\ msgs' = Append(msgs, given')
  /\ total' = total + 1
  /\ locker' = c
  /\ doing' = [doing EXCEPT ![c].at = "locked", ![c].msg = given']
  /\ UNCHANGED <<summaries, status, closedAt, stored, listed, file, saver, acked,
                 crashes, failures>>

\* Mutant: autoCompress is called before session.mu is given up.
AddSaveHoldingLock(c) ==
  /\ doing[c].call = "add" /\ doing[c].at = "locked"
  /\ \E result \in {"not found", "failed", "ok"} :
       /\ Update(result)
       /\ acked' = IF result = "ok" THEN acked \cup {doing[c].msg} ELSE acked
       /\ IF result = "ok" /\ Len(msgs) >= Threshold
          THEN /\ doing' = [doing EXCEPT ![c] =
                     [call |-> "compress", at |-> "fetched", msg |-> 0]]
               /\ UNCHANGED locker
          ELSE /\ doing' = [doing EXCEPT ![c] = NotCalled]
               /\ locker' = Nobody
  /\ UNCHANGED <<convVars, status, closedAt, stored, listed, saver, given, crashes>>

\* store.Update; then, without the lock, autoCompress fetches the session
\* again.  (When it is gone by then, autoCompress returns as it does when the
\* compressor fails.)
AddSave(c) ==
  /\ doing[c].call = "add" /\ doing[c].at = "locked"
  /\ \E result \in {"not found", "failed", "ok"} :
       /\ Update(result)
       /\ acked' = IF result = "ok" THEN acked \cup {doing[c].msg} ELSE acked
       /\ doing' = [doing EXCEPT ![c] =
            IF result = "ok" /\ Len(msgs) >= Threshold
            THEN [call |-> "compress", at |-> "fetched", msg |-> 0]
            ELSE NotCalled]
  /\ locker' = Nobody
  /\ UNCHANGED <<convVars, status, closedAt, stored, listed, saver, given, crashes>>

\* The messages may be few again by now, and the compressor may fail.
AutoCompress(c) ==
  /\ doing[c].call = "compress" /\ doing[c].at = "fetched"
  /\ locker = Nobody
  /\ \/ Len(msgs) >= Threshold /\ Compress /\ locker' = c /\ Goto(c, "compress", "locked")
     \/ doing' = [doing EXCEPT ![c] = NotCalled] /\ UNCHANGED <<convVars, locker>>
  /\ UNCHANGED <<status, closedAt, stored, listed, file, saver, given, acked,
                 crashes, failures>>

\* The error of this update is ignored.
AutoCompressSave(c) ==
  /\ doing[c].call = "compress" /\ doing[c].at = "locked"
  /\ \E result \in {"not found", "failed", "ok"} : Update(result)
  /\ doing' = [doing EXCEPT ![c] = NotCalled]
  /\ locker' = Nobody
  /\ UNCHANGED <<convVars, status, closedAt, stored, listed, saver, given, acked,
                 crashes>>

-----------------------------------------------------------------------------
(* Suspend, Close, Resume, DeleteSession, Cleanup.                         *)

\* A compressor that fails does not keep the session from being suspended.
SuspendLock(c) ==
  /\ doing[c].call = "suspend" /\ doing[c].at = "fetched"
  /\ locker = Nobody
  /\ \/ Len(msgs) > Threshold /\ Compress
     \/ UNCHANGED convVars
  /\ status' = "suspended"
  /\ locker' = c
  /\ Goto(c, "suspend", "locked")
  /\ UNCHANGED <<closedAt, stored, listed, file, saver, given, acked, crashes,
                 failures>>

CloseLock(c) ==
  /\ doing[c].call = "close" /\ doing[c].at = "fetched"
  /\ locker = Nobody
  /\ status' = "closed"
  /\ closedAt' = TRUE
  /\ locker' = c
  /\ Goto(c, "close", "locked")
  /\ UNCHANGED <<convVars, stored, listed, file, saver, given, acked, crashes,
                 failures>>

\* Suspend and Close end alike: the session leaves activeSessions when it was
\* saved, and only then.
Leave(c) ==
  /\ doing[c].call \in {"suspend", "close"} /\ doing[c].at = "locked"
  /\ \E result \in {"not found", "failed", "ok"} :
       /\ Update(result)
       /\ listed' = IF result = "ok" THEN FALSE ELSE listed
  /\ doing' = [doing EXCEPT ![c] = NotCalled]
  /\ locker' = Nobody
  /\ UNCHANGED <<convVars, status, closedAt, stored, saver, given, acked, crashes>>

ResumeLock(c) ==
  /\ doing[c].call = "resume" /\ doing[c].at = "fetched"
  /\ locker = Nobody
  /\ status' = "resumed"
  /\ locker' = c
  /\ Goto(c, "resume", "locked")
  /\ UNCHANGED <<convVars, closedAt, stored, listed, file, saver, given, acked,
                 crashes, failures>>

ResumeSave(c) ==
  /\ doing[c].call = "resume" /\ doing[c].at = "locked"
  /\ \E result \in {"not found", "failed", "ok"} :
       /\ Update(result)
       /\ IF result = "ok"
          THEN Goto(c, "resume", "updated") /\ UNCHANGED locker
          ELSE doing' = [doing EXCEPT ![c] = NotCalled] /\ locker' = Nobody
  /\ UNCHANGED <<convVars, status, closedAt, stored, listed, saver, given, acked,
                 crashes>>

\* DeleteSession may have come in between: then the manager lists a session
\* that the store does not have.
ResumeList(c) ==
  /\ doing[c].call = "resume" /\ doing[c].at = "updated"
  /\ listed' = TRUE
  /\ locker' = Nobody
  /\ doing' = [doing EXCEPT ![c] = NotCalled]
  /\ UNCHANGED <<convVars, status, closedAt, stored, file, saver, given, acked,
                 crashes, failures>>

\* store.Delete; when the file cannot be written, the session is gone from the
\* store and still in the file, and DeleteSession returns at once.
DeleteStored(c) ==
  /\ doing[c] = NotCalled
  /\ stored /\ saver = NoSave
  /\ stored' = FALSE
  /\ \/ /\ file' = NoFile
        /\ Goto(c, "delete", "updated")
        /\ UNCHANGED failures
     \/ /\ failures < MaxFailures
        /\ failures' = failures + 1
        /\ UNCHANGED <<file, doing>>
  /\ UNCHANGED <<convVars, status, closedAt, listed, locker, saver, given, acked,
                 crashes>>

DeleteListed(c) ==
  /\ doing[c].call = "delete"
  /\ listed' = FALSE
  /\ doing' = [doing EXCEPT ![c] = NotCalled]
  /\ UNCHANGED <<convVars, status, closedAt, stored, file, locker, saver, given,
                 acked, crashes, failures>>

\* Cleanup of the store: it asks for ClosedAt, which Resume leaves alone.
Cleanup ==
  /\ stored /\ closedAt /\ saver = NoSave
  /\ stored' = FALSE
  /\ \/ file' = NoFile /\ UNCHANGED failures
     \/ failures < MaxFailures /\ failures' = failures + 1 /\ UNCHANGED file
  /\ UNCHANGED <<convVars, status, closedAt, listed, locker, saver, doing, given,
                 acked, crashes>>

-----------------------------------------------------------------------------
(* The background save, and crashes.                                       *)

SaveStatus ==
  /\ saver = NoSave /\ stored
  /\ saver' = [at |-> "status",
               got |-> [NoFile EXCEPT !.status = status, !.closedAt = closedAt]]
  /\ UNCHANGED <<convVars, status, closedAt, stored, listed, file, locker, doing,
                 given, acked, crashes, failures>>

SaveMessages ==
  /\ saver.at = "status"
  /\ saver' = [at |-> "msgs", got |-> [saver.got EXCEPT !.msgs = msgs]]
  /\ UNCHANGED <<convVars, status, closedAt, stored, listed, file, locker, doing,
                 given, acked, crashes, failures>>

SaveSummaries ==
  /\ saver.at = "msgs"
  /\ saver' = [at |-> "summaries", got |-> [saver.got EXCEPT !.summaries = summaries]]
  /\ UNCHANGED <<convVars, status, closedAt, stored, listed, file, locker, doing,
                 given, acked, crashes, failures>>

\* Mutant: the messages are read after the summaries.
SaveMessagesLast ==
  /\ saver.at = "summaries"
  /\ file' = [saver.got EXCEPT !.msgs = msgs, !.total = total]
  /\ saver' = NoSave
  /\ UNCHANGED <<convVars, status, closedAt, stored, listed, locker, doing, given,
                 acked, crashes, failures>>

\* The total, and the rename of the temporary file.
SaveEnd ==
  /\ saver.at = "summaries"
  /\ file' = [saver.got EXCEPT !.total = total]
  /\ saver' = NoSave
  /\ UNCHANGED <<convVars, status, closedAt, stored, listed, locker, doing, given,
                 acked, crashes, failures>>

\* A background save of the other sessions.
SaveWithout ==
  /\ saver = NoSave /\ ~stored
  /\ file' = NoFile
  /\ UNCHANGED <<convVars, status, closedAt, stored, listed, locker, saver, doing,
                 given, acked, crashes, failures>>

\* The program stops and is started again; loadFromFile reads the file.
Crash ==
  /\ crashes < MaxCrashes
  /\ crashes' = crashes + 1
  /\ msgs' = file.msgs /\ summaries' = file.summaries /\ total' = file.total
  /\ stored' = (file # NoFile)
  /\ status' = IF stored' THEN file.status ELSE "closed"
  /\ closedAt' = file.closedAt
  /\ listed' = FALSE
  /\ locker' = Nobody
  /\ saver' = NoSave
  /\ doing' = [c \in Callers |-> NotCalled]
  /\ UNCHANGED <<file, given, acked, failures>>

-----------------------------------------------------------------------------

AddsUnderWay ==
  Cardinality({c \in Callers : doing[c].call = "add" /\ doing[c].at = "fetched"})

Begin(c) ==
  \/ Fetch(c, "add", Known /\ given + AddsUnderWay < MaxMessages)
  \/ \E call \in {"suspend", "close"} : Fetch(c, call, Known)
  \/ Fetch(c, "resume", stored)
  \/ DeleteStored(c)

\* Steps that wait for session.mu.
Acquire(c) ==
  \/ AddAppend(c) \/ AutoCompress(c)
  \/ SuspendLock(c) \/ CloseLock(c) \/ ResumeLock(c)

Proceed(c) ==
  \/ AddSave(c) \/ AutoCompressSave(c)
  \/ Leave(c)
  \/ ResumeSave(c) \/ ResumeList(c)
  \/ DeleteListed(c)

BackgroundSave == SaveStatus \/ SaveMessages \/ SaveSummaries \/ SaveEnd \/ SaveWithout

SessNext ==
  \/ \E c \in Callers : Begin(c) \/ Acquire(c) \/ Proceed(c)
  \/ BackgroundSave
  \/ Cleanup
  \/ Crash

SessSpec == SessInit /\ [][SessNext]_sessVars

\* Goroutines go on while they can, and whoever waits for a lock that is free
\* again and again gets it (Go's mutexes hand over to a waiter that has waited
\* for a millisecond).
SessFairness ==
  /\ WF_sessVars(SaveMessages \/ SaveSummaries \/ SaveEnd)
  /\ \A c \in Callers : SF_sessVars(Acquire(c)) /\ SF_sessVars(Proceed(c))

-----------------------------------------------------------------------------
(* Properties.                                                             *)

\* Before any crash, the summaries and then the messages are exactly what was
\* given to AddMessage, in order, whoever suspends, compresses and adds at the
\* same time; TotalMessages counts them (validateSession's test).
ConversationWhole ==
  (crashes = 0) => /\ FlattenSeq(summaries) \o msgs = [i \in 1..given |-> i]
                   /\ total = given

\* The messages a session has, as such or in a summary.
Kept(s) == ToSet(s.msgs) \cup UNION {ToSet(s.summaries[i]) : i \in DOMAIN s.summaries}

\* A message for which AddMessage returned no error is in the file, in the
\* messages or in a summary, as long as the session is kept at all; so it
\* survives a crash at any moment, also one after a background save that
\* overlapped a compression.
AckedDurable == file # NoFile => acked \subseteq Kept(file)

\* Every call returns: nobody waits for a lock that its holder does not give up
\* (the comment in AddMessage at lines 325 and 326).
CallsReturn == \A c \in Callers : doing[c] # NotCalled ~> doing[c] = NotCalled
=============================================================================
