---------------------------- MODULE StateManager ----------------------------
(***************************************************************************)
(* The orchestrator's state manager                                        *)
(* (internal/core/orchestrator/state.go): the live state, which others     *)
(* update part by part, Save and Load of it, and checkpoints.  Updates and *)
(* the copy for a checkpoint hold the lock; Save encodes the live state    *)
(* without it.                                                             *)
(*                                                                         *)
(* The state is an object on the heap; Load, RestoreCheckpoint and Clear   *)
(* put another in its place.  A part (agents, tasks, queue, metrics) is the*)
(* number of the update that wrote it.  Files are written to a temporary   *)
(* name and renamed.  One goroutine saves at a time; a second one would    *)
(* write the same temporary file.                                          *)
(***************************************************************************)
EXTENDS Integers, Sequences, FiniteSets

CONSTANTS Parts,        \* the parts of the state
          CheckpointIds,
          NoFile,       \* a file that is not there
          Partial,      \* a file that is being written
          MaxUpdates,   \* bound on the updates
          MaxObjects    \* bound on the states between two crashes

States == [Parts -> 0..MaxUpdates]

ASSUME StateAssumption ==
  /\ Parts # {} /\ NoFile # Partial
  /\ NoFile \notin States /\ Partial \notin States
  /\ MaxUpdates \in Nat /\ MaxObjects \in Nat \ {0}

NoParts == [p \in {} |-> 0]
Empty == [p \in Parts |-> 0]

VARIABLES heap,         \* the states there have been since the start
          current,      \* sm.currentState
          updates,      \* number of updates so far
          stateFile,    \* state.json
          stateTmp,     \* its temporary file
          files, tmps,  \* the checkpoints' files and temporary files
          dirThere,     \* the directory of the checkpoints exists
          saver,        \* Save: the object, and the parts encoded so far
          keeper,       \* CreateCheckpoint, and the parts copied so far
          reader,       \* Load or RestoreCheckpoint, and what it read
          moments       \* ghost: every state that was ever the live one

stateVars == <<heap, current, updates, stateFile, stateTmp, files, tmps, dirThere,
               saver, keeper, reader, moments>>

AtRest == [at |-> "idle"]

\* A part more of what Save encodes, or CreateCheckpoint copies.
With(parts, p, v) == [q \in DOMAIN parts \cup {p} |-> IF q = p THEN v ELSE parts[q]]

\* Mutant: CreateCheckpoint copies without the lock.
NeverLocked == TRUE

\* CreateCheckpoint is not copying: the lock is free to write.
LockFree == keeper.at # "copy"

StateTypeOK ==
  /\ heap \in Seq(States) /\ current \in 1..Len(heap)
  /\ updates \in 0..MaxUpdates
  /\ stateFile \in States \cup {NoFile, Partial}
  /\ stateTmp \in States \cup {NoFile, Partial}
  /\ files \in [CheckpointIds -> States \cup {NoFile, Partial}]
  /\ tmps \in [CheckpointIds -> States \cup {NoFile, Partial}]
  /\ dirThere \in BOOLEAN
  /\ moments \subseteq States

StateInit ==
  /\ heap = <<Empty>> /\ current = 1 /\ updates = 0
  /\ stateFile = NoFile /\ stateTmp = NoFile
  /\ files = [i \in CheckpointIds |-> NoFile] /\ tmps = files /\ dirThere = TRUE
  /\ saver = AtRest /\ keeper = AtRest /\ reader = AtRest
  /\ moments = {Empty}

memory == <<heap, current, updates, moments>>
disk == <<stateFile, stateTmp, files, tmps, dirThere>>
calls == <<saver, keeper, reader>>

-----------------------------------------------------------------------------
(* The live state.                                                         *)

\* UpdateAgentState, UpdateTaskState, UpdateQueueState, UpdateMetrics.
Update(p) ==
  /\ LockFree /\ updates < MaxUpdates
  /\ updates' = updates + 1
  /\ heap' = [heap EXCEPT ![current][p] = updates + 1]
  /\ moments' = moments \cup {heap'[current]}
  /\ UNCHANGED <<current, disk, calls>>

BecomesLive(s) ==
  /\ LockFree /\ Len(heap) < MaxObjects
  /\ heap' = Append(heap, s) /\ current' = Len(heap')
  /\ moments' = moments \cup {s}
  /\ UNCHANGED updates

\* Clear removes the directory, which nothing makes again.
Clear ==
  /\ BecomesLive(Empty)
  /\ files' = [i \in CheckpointIds |-> NoFile] /\ tmps' = [i \in CheckpointIds |-> NoFile]
  /\ dirThere' = FALSE
  /\ UNCHANGED <<stateFile, stateTmp, calls>>

\* The process dies and a new one starts: NewStateManager.
Crash ==
  /\ heap' = <<Empty>> /\ current' = 1 /\ moments' = moments \cup {Empty}
  /\ dirThere' = TRUE
  /\ saver' = AtRest /\ keeper' = AtRest /\ reader' = AtRest
  /\ UNCHANGED <<updates, stateFile, stateTmp, files, tmps>>

-----------------------------------------------------------------------------
(* Save: the pointer is read under the lock, the parts behind it are not.  *)

SaveBegin ==
  /\ saver = AtRest
  /\ saver' = [at |-> "encode", object |-> current, parts |-> NoParts]
  /\ UNCHANGED <<memory, disk, keeper, reader>>

SaveEncode(p) ==
  /\ saver.at = "encode" /\ p \notin DOMAIN saver.parts
  /\ saver' = [saver EXCEPT !.parts = With(@, p, heap[saver.object][p])]
  /\ UNCHANGED <<memory, disk, keeper, reader>>

SaveOpen ==
  /\ saver.at = "encode" /\ DOMAIN saver.parts = Parts
  /\ saver' = [saver EXCEPT !.at = "write"]
  /\ stateTmp' = Partial
  /\ UNCHANGED <<memory, stateFile, files, tmps, dirThere, keeper, reader>>

SaveWrite ==
  /\ saver.at = "write"
  /\ saver' = [saver EXCEPT !.at = "rename"]
  /\ stateTmp' = saver.parts
  /\ UNCHANGED <<memory, stateFile, files, tmps, dirThere, keeper, reader>>

SaveRename ==
  /\ saver.at = "rename"
  /\ saver' = AtRest
  /\ stateFile' = stateTmp /\ stateTmp' = NoFile
  /\ UNCHANGED <<memory, files, tmps, dirThere, keeper, reader>>

-----------------------------------------------------------------------------
(* CreateCheckpoint and DeleteCheckpoint.                                  *)

\* The id is a new one.
CheckpointBegin(i) ==
  /\ keeper = AtRest /\ files[i] = NoFile /\ tmps[i] = NoFile
  /\ keeper' = [at |-> "copy", id |-> i, parts |-> NoParts]
  /\ UNCHANGED <<memory, disk, saver, reader>>

\* deepCopyState; the lock is released with the last part.
CheckpointCopy(p) ==
  /\ keeper.at = "copy" /\ p \notin DOMAIN keeper.parts
  /\ LET parts == With(keeper.parts, p, heap[current][p])
     IN  keeper' = [keeper EXCEPT !.parts = parts,
                                  !.at = IF DOMAIN parts = Parts THEN "open" ELSE "copy"]
  /\ UNCHANGED <<memory, disk, saver, reader>>

\* Without the directory every step fails, and CreateCheckpoint returns.
CheckpointOpen ==
  /\ keeper.at = "open"
  /\ IF dirThere
     THEN /\ tmps' = [tmps EXCEPT ![keeper.id] = Partial]
          /\ keeper' = [keeper EXCEPT !.at = "write"]
     ELSE keeper' = AtRest /\ UNCHANGED tmps
  /\ UNCHANGED <<memory, stateFile, stateTmp, files, dirThere, saver, reader>>

\* A file that Clear removed meanwhile is written all the same, without a name.
CheckpointWrite ==
  /\ keeper.at = "write"
  /\ tmps' = [tmps EXCEPT ![keeper.id] = IF @ = NoFile THEN NoFile ELSE keeper.parts]
  /\ keeper' = [keeper EXCEPT !.at = "rename"]
  /\ UNCHANGED <<memory, stateFile, stateTmp, files, dirThere, saver, reader>>

CheckpointRename ==
  /\ keeper.at = "rename"
  /\ keeper' = AtRest
  /\ IF tmps[keeper.id] # NoFile
     THEN /\ files' = [files EXCEPT ![keeper.id] = tmps[keeper.id]]
          /\ tmps' = [tmps EXCEPT ![keeper.id] = NoFile]
     ELSE UNCHANGED <<files, tmps>>
  /\ UNCHANGED <<memory, stateFile, stateTmp, dirThere, saver, reader>>

DeleteCheckpoint(i) ==
  /\ files[i] # NoFile
  /\ files' = [files EXCEPT ![i] = NoFile]
  /\ UNCHANGED <<memory, stateFile, stateTmp, tmps, dirThere, calls>>

-----------------------------------------------------------------------------
(* Load and RestoreCheckpoint: the file is read and decoded, and what it   *)
(* holds becomes the live state in a second step.                          *)

LoadRead ==
  /\ reader = AtRest /\ stateFile \notin {NoFile, Partial}
  /\ reader' = [at |-> "swap", content |-> stateFile]
  /\ UNCHANGED <<memory, disk, saver, keeper>>

RestoreRead(i) ==
  /\ reader = AtRest /\ files[i] \notin {NoFile, Partial}
  /\ reader' = [at |-> "swap", content |-> files[i]]
  /\ UNCHANGED <<memory, disk, saver, keeper>>

Swap ==
  /\ reader.at = "swap"
  /\ BecomesLive(reader.content)
  /\ reader' = AtRest
  /\ UNCHANGED <<disk, saver, keeper>>

StateNext ==
  \/ \E p \in Parts : Update(p) \/ SaveEncode(p) \/ CheckpointCopy(p)
  \/ SaveBegin \/ SaveOpen \/ SaveWrite \/ SaveRename
  \/ \E i \in CheckpointIds : CheckpointBegin(i) \/ DeleteCheckpoint(i) \/ RestoreRead(i)
  \/ CheckpointOpen \/ CheckpointWrite \/ CheckpointRename
  \/ LoadRead \/ Swap \/ Clear \/ Crash

StateSpec == StateInit /\ [][StateNext]_stateVars

-----------------------------------------------------------------------------
(* Properties.                                                             *)

\* Updates, crashes, Clear and restores may come at any time: a checkpoint that
\* has its name holds, whole, a state that was once the live one, and state.json
\* is never half a file.  (It may mix two states: an update during Save.)
CheckpointsAreMoments ==
  /\ \A i \in CheckpointIds : files[i] \in moments \cup {NoFile}
  /\ stateFile # Partial
=============================================================================
