-------------------------- MODULE Services_proofs ---------------------------
(***************************************************************************)
(* Proofs about services of one part each: the state manager and the       *)
(* coordinator, the skill loader, the REST server, the rate limiter and    *)
(* the login sessions.                                                     *)
(***************************************************************************)
EXTENDS StateManager, CoordinatorLifecycle, SkillLoader, RestServer, RateLimiter, AuthSessions,
        DataLemmas

(***************************************************************************)
(* A checkpoint that has its name holds a state that was once the live one,*)
(* and state.json is never half a file (CheckpointsAreMoments), for any    *)
(* number of parts, checkpoints, updates and crashes.  The inductive       *)
(* invariant says what each of the three calls holds at each point: what   *)
(* CreateCheckpoint has copied agrees with the live state as long as it    *)
(* copies, because the lock keeps the updates away.                        *)
(*                                                                         *)
(* Stop, which saves that state, panics only after a Save that failed, for *)
(* any number of Starts.                                                   *)
(***************************************************************************)

Portions == UNION {[S -> 0..MaxUpdates] : S \in SUBSET Parts}

MemoryOK == /\ heap \in Seq(States) /\ current \in 1..Len(heap)
            /\ updates \in 0..MaxUpdates
            /\ moments \subseteq States /\ heap[current] \in moments

DiskOK == /\ stateFile \in States \cup {NoFile}
          /\ files \in [CheckpointIds -> moments \cup {NoFile}]
          /\ DOMAIN tmps = CheckpointIds /\ tmps = [i \in CheckpointIds |-> tmps[i]]

SaverOK ==
  \/ saver = AtRest
  \/ /\ saver \in [at : {"encode", "write", "rename"}, object : 1..Len(heap), parts : Portions]
     /\ saver.at # "encode" => saver.parts \in States
     /\ saver.at = "rename" => stateTmp \in States

KeeperOK ==
  \/ keeper = AtRest
  \/ /\ keeper \in [at : {"copy", "open", "write", "rename"}, id : CheckpointIds, parts : Portions]
     /\ keeper.at = "copy" => \A p \in DOMAIN keeper.parts : keeper.parts[p] = heap[current][p]
     /\ keeper.at # "copy" => keeper.parts \in moments
     /\ keeper.at = "rename" => tmps[keeper.id] \in moments \cup {NoFile}

ReaderOK ==
  \/ reader = AtRest
  \/ reader \in [at : {"swap"}, content : States]

StateInv == MemoryOK /\ DiskOK /\ SaverOK /\ KeeperOK /\ ReaderOK

-----------------------------------------------------------------------------
(* Portions of a state.                                                    *)

LEMMA EmptyIsState == Empty \in States /\ NoParts \in Portions
<1>1. NoParts \in [{} -> 0..MaxUpdates]
  BY DEF NoParts
<1> QED
  BY <1>1, StateAssumption DEF Empty, States, Portions

\* A portion and one part more is a portion.
LEMMA WithIsPortion ==
  ASSUME NEW parts \in Portions, NEW p \in Parts, NEW v \in 0..MaxUpdates
  PROVE  /\ With(parts, p, v) \in Portions
         /\ DOMAIN With(parts, p, v) = DOMAIN parts \cup {p}
         /\ With(parts, p, v)[p] = v
         /\ \A q \in DOMAIN parts : q # p => With(parts, p, v)[q] = parts[q]
<1>1. PICK S \in SUBSET Parts : parts \in [S -> 0..MaxUpdates]
  BY DEF Portions
<1>2. With(parts, p, v) \in [S \cup {p} -> 0..MaxUpdates]
  BY <1>1 DEF With
<1>3. S \cup {p} \in SUBSET Parts
  OBVIOUS
<1> QED
  BY <1>1, <1>2, <1>3 DEF With, Portions

\* A portion with all the parts is a state, and the one it agrees with.
LEMMA WholePortion ==
  ASSUME NEW parts \in Portions, DOMAIN parts = Parts
  PROVE  /\ parts \in States
         /\ \A s \in States : (\A p \in Parts : parts[p] = s[p]) => parts = s
BY DEF Portions, States

\* The object Save encodes holds states, whatever has happened since.
LEMMA PartIsNumber ==
  ASSUME MemoryOK, NEW k \in 1..Len(heap), NEW p \in Parts
  PROVE  heap[k] \in States /\ heap[k][p] \in 0..MaxUpdates
BY DEF MemoryOK, States

-----------------------------------------------------------------------------
(* The live state changes: the lock keeps CreateCheckpoint from copying.   *)

LEMMA UpdateInv ==
  ASSUME StateInv, NEW p \in Parts, Update(p)
  PROVE  StateInv'
<1> DEFINE s == [heap[current] EXCEPT ![p] = updates + 1]
<1>1. heap' = [heap EXCEPT ![current] = s] /\ current' = current
  BY DEF Update
<1>2. updates' = updates + 1 /\ updates' \in 0..MaxUpdates
  BY StateAssumption DEF Update, StateInv, MemoryOK
<1>3. heap[current] \in States /\ current \in 1..Len(heap) /\ heap \in Seq(States)
  BY DEF StateInv, MemoryOK, States
<1>4. s \in States
  BY <1>2, <1>3 DEF States
<1> HIDE DEF s
<1>5. heap' \in Seq(States) /\ Len(heap') = Len(heap) /\ heap'[current] = s
  BY <1>1, <1>3, <1>4
<1>6. moments' = moments \cup {s}
  BY <1>1, <1>5 DEF Update
<1>7. UNCHANGED <<disk, calls>> /\ keeper.at # "copy"
  BY DEF Update, LockFree
<1>8. MemoryOK'
  BY <1>1, <1>2, <1>3, <1>4, <1>5, <1>6 DEF StateInv, MemoryOK
<1>9. DiskOK' /\ SaverOK' /\ KeeperOK' /\ ReaderOK'
  BY <1>5, <1>6, <1>7 DEF StateInv, DiskOK, SaverOK, KeeperOK, ReaderOK, disk, calls
<1> QED
  BY <1>8, <1>9 DEF StateInv

\* A state that becomes the live one is a moment, and an object of its own.
LEMMA BecomesLiveMemory ==
  ASSUME StateInv, NEW s \in States, BecomesLive(s)
  PROVE  /\ MemoryOK' /\ moments \subseteq moments' /\ Len(heap) <= Len(heap')
         /\ keeper.at # "copy"
<1>1. heap \in Seq(States) /\ heap' = Append(heap, s) /\ current' = Len(heap')
  BY DEF StateInv, MemoryOK, BecomesLive
<1>2. /\ heap' \in Seq(States) /\ Len(heap') = Len(heap) + 1 /\ heap'[current'] = s
      /\ Len(heap) \in Nat
  BY <1>1
<1>3. current' \in 1..Len(heap')
  BY <1>1, <1>2
<1> QED
  BY <1>1, <1>2, <1>3 DEF StateInv, MemoryOK, BecomesLive, LockFree

LEMMA ClearInv ==
  ASSUME StateInv, Clear
  PROVE  StateInv'
<1>1. /\ MemoryOK' /\ moments \subseteq moments' /\ Len(heap) <= Len(heap')
      /\ keeper.at # "copy"
  BY EmptyIsState, BecomesLiveMemory DEF Clear
<1>2. DiskOK' /\ ReaderOK'
  BY <1>1 DEF StateInv, DiskOK, ReaderOK, Clear, calls
<1>3. SaverOK'
  BY <1>1 DEF StateInv, MemoryOK, SaverOK, Clear, calls
<1>4. KeeperOK'
  BY <1>1 DEF StateInv, KeeperOK, DiskOK, Clear, calls
<1> QED
  BY <1>1, <1>2, <1>3, <1>4 DEF StateInv

LEMMA SwapInv ==
  ASSUME StateInv, Swap
  PROVE  StateInv'
<1>1. reader.content \in States
  BY DEF StateInv, ReaderOK, Swap, AtRest
<1>2. /\ MemoryOK' /\ moments \subseteq moments' /\ Len(heap) <= Len(heap')
      /\ keeper.at # "copy"
  BY <1>1, BecomesLiveMemory DEF Swap
<1>3. DiskOK' /\ ReaderOK'
  BY <1>2 DEF StateInv, DiskOK, ReaderOK, Swap, disk
<1>4. SaverOK'
  BY <1>2 DEF StateInv, MemoryOK, SaverOK, Swap, disk
<1>5. KeeperOK'
  BY <1>2 DEF StateInv, KeeperOK, Swap, disk
<1> QED
  BY <1>2, <1>3, <1>4, <1>5 DEF StateInv

LEMMA CrashInv ==
  ASSUME StateInv, Crash
  PROVE  StateInv'
<1>1. MemoryOK'
  BY EmptyIsState DEF StateInv, MemoryOK, Crash
<1>2. DiskOK' /\ SaverOK' /\ KeeperOK' /\ ReaderOK'
  BY DEF StateInv, DiskOK, SaverOK, KeeperOK, ReaderOK, Crash
<1> QED
  BY <1>1, <1>2 DEF StateInv

-----------------------------------------------------------------------------
(* Save.                                                                   *)

LEMMA SaveInv ==
  ASSUME StateInv,
         SaveBegin \/ (\E p \in Parts : SaveEncode(p)) \/ SaveOpen \/ SaveWrite \/ SaveRename
  PROVE  StateInv'
<1>1. UNCHANGED <<memory, files, tmps, keeper, reader>>
  BY DEF SaveBegin, SaveEncode, SaveOpen, SaveWrite, SaveRename, disk
<1>2. MemoryOK' /\ KeeperOK' /\ ReaderOK'
  BY <1>1 DEF StateInv, MemoryOK, KeeperOK, ReaderOK, memory
<1>3. CASE SaveBegin
  <2>1. SaverOK'
    BY <1>3, <1>1, EmptyIsState DEF StateInv, MemoryOK, SaverOK, SaveBegin, memory
  <2> QED
    BY <2>1, <1>2, <1>3 DEF StateInv, DiskOK, SaveBegin, memory, disk
<1>4. ASSUME NEW p \in Parts, SaveEncode(p)
      PROVE  StateInv'
  <2>1. saver \in [at : {"encode", "write", "rename"}, object : 1..Len(heap), parts : Portions]
    BY <1>4 DEF StateInv, SaverOK, SaveEncode, AtRest
  <2>2. With(saver.parts, p, heap[saver.object][p]) \in Portions
    BY <2>1, PartIsNumber, WithIsPortion DEF StateInv
  <2>3. SaverOK'
    BY <1>4, <2>1, <2>2 DEF SaverOK, SaveEncode, memory
  <2> QED
    BY <2>3, <1>2, <1>4 DEF StateInv, DiskOK, SaveEncode, memory, disk
<1>5. CASE SaveOpen
  <2>1. /\ saver \in [at : {"encode", "write", "rename"}, object : 1..Len(heap), parts : Portions]
        /\ saver.parts \in States
    BY <1>5, WholePortion DEF StateInv, SaverOK, SaveOpen, AtRest
  <2>2. SaverOK'
    BY <1>5, <2>1 DEF SaverOK, SaveOpen, memory
  <2> QED
    BY <2>2, <1>2, <1>5 DEF StateInv, DiskOK, SaveOpen, memory
<1>6. CASE SaveWrite
  <2>1. SaverOK'
    BY <1>6 DEF StateInv, SaverOK, SaveWrite, AtRest, memory
  <2> QED
    BY <2>1, <1>2, <1>6 DEF StateInv, DiskOK, SaveWrite, memory
<1>7. CASE SaveRename
  <2>1. stateFile' \in States /\ SaverOK'
    BY <1>7 DEF StateInv, SaverOK, SaveRename, AtRest
  <2> QED
    BY <2>1, <1>2, <1>7 DEF StateInv, DiskOK, SaveRename, memory
<1> QED
  BY <1>3, <1>4, <1>5, <1>6, <1>7

-----------------------------------------------------------------------------
(* Checkpoints.                                                            *)

KeeperWorks == keeper \in [at : {"copy", "open", "write", "rename"},
                           id : CheckpointIds, parts : Portions]

LEMMA CheckpointBeginInv ==
  ASSUME StateInv, NEW i \in CheckpointIds, CheckpointBegin(i)
  PROVE  StateInv'
<1>1. UNCHANGED <<memory, disk, saver, reader>>
  BY DEF CheckpointBegin
<1>2. KeeperOK'
  BY <1>1, EmptyIsState DEF KeeperOK, CheckpointBegin, NoParts
<1> QED
  BY <1>1, <1>2 DEF StateInv, MemoryOK, DiskOK, SaverOK, ReaderOK, memory, disk

\* A part that is copied agrees with the live state; with the last one the copy
\* is the live state, which is a moment.
LEMMA CheckpointCopyInv ==
  ASSUME StateInv, NEW p \in Parts, CheckpointCopy(p)
  PROVE  StateInv'
<1> DEFINE parts == With(keeper.parts, p, heap[current][p])
<1>1. UNCHANGED <<memory, disk, saver, reader>>
  BY DEF CheckpointCopy
<1>2. KeeperWorks /\ keeper.at = "copy"
  BY DEF StateInv, KeeperOK, KeeperWorks, CheckpointCopy, AtRest
<1>3. heap[current][p] \in 0..MaxUpdates /\ heap[current] \in moments
  BY PartIsNumber DEF StateInv, MemoryOK
<1>4. /\ parts \in Portions /\ parts[p] = heap[current][p]
      /\ DOMAIN parts = DOMAIN keeper.parts \cup {p}
      /\ \A q \in DOMAIN keeper.parts : q # p => parts[q] = keeper.parts[q]
  BY <1>2, <1>3, WithIsPortion DEF KeeperWorks
<1>5. \A q \in DOMAIN parts : parts[q] = heap[current][q]
  BY <1>2, <1>4 DEF StateInv, KeeperOK, AtRest
<1>6. DOMAIN parts = Parts => parts \in moments
  BY <1>3, <1>4, <1>5, WholePortion DEF StateInv, MemoryOK
<1>7. keeper' = [keeper EXCEPT !.parts = parts,
                               !.at = IF DOMAIN parts = Parts THEN "open" ELSE "copy"]
  BY DEF CheckpointCopy
<1> HIDE DEF parts
<1>8. KeeperOK'
  BY <1>1, <1>2, <1>4, <1>5, <1>6, <1>7 DEF KeeperWorks, KeeperOK, memory
<1> QED
  BY <1>1, <1>8 DEF StateInv, MemoryOK, DiskOK, SaverOK, ReaderOK, memory, disk

LEMMA CheckpointFileInv ==
  ASSUME StateInv, CheckpointOpen \/ CheckpointWrite \/ CheckpointRename
  PROVE  StateInv'
<1>1. /\ UNCHANGED <<memory, stateFile, stateTmp, saver, reader>>
      /\ KeeperWorks /\ keeper.at # "copy" /\ keeper.parts \in moments
  BY DEF StateInv, KeeperOK, KeeperWorks, CheckpointOpen, CheckpointWrite, CheckpointRename,
         AtRest
<1>2. MemoryOK' /\ SaverOK' /\ ReaderOK'
  BY <1>1 DEF StateInv, MemoryOK, SaverOK, ReaderOK, memory
<1>3. DiskOK' /\ KeeperOK'
  <2>1. CASE CheckpointOpen
    <3>1. DiskOK'
      BY <1>1, <2>1 DEF StateInv, DiskOK, CheckpointOpen, memory
    <3>2. KeeperOK'
      BY <1>1, <2>1 DEF KeeperWorks, KeeperOK, CheckpointOpen, memory
    <3> QED
      BY <3>1, <3>2
  <2>2. CASE CheckpointWrite
    <3>1. DiskOK'
      BY <1>1, <2>2 DEF StateInv, DiskOK, CheckpointWrite, memory
    <3>2. tmps'[keeper.id] \in moments \cup {NoFile}
      BY <1>1, <2>2 DEF StateInv, DiskOK, KeeperWorks, CheckpointWrite
    <3>3. KeeperOK'
      BY <1>1, <2>2, <3>2 DEF KeeperWorks, KeeperOK, CheckpointWrite, memory
    <3> QED
      BY <3>1, <3>3
  <2>3. CASE CheckpointRename
    <3>1. KeeperOK'
      BY <2>3 DEF KeeperOK, CheckpointRename
    <3>2. tmps[keeper.id] \in moments \cup {NoFile}
      BY <2>3 DEF StateInv, KeeperOK, CheckpointRename, AtRest
    <3>3. DiskOK'
      BY <1>1, <2>3, <3>2 DEF StateInv, DiskOK, KeeperWorks, CheckpointRename, memory
    <3> QED
      BY <3>1, <3>3
  <2> QED
    BY <2>1, <2>2, <2>3
<1> QED
  BY <1>2, <1>3 DEF StateInv

LEMMA DeleteCheckpointInv ==
  ASSUME StateInv, NEW i \in CheckpointIds, DeleteCheckpoint(i)
  PROVE  StateInv'
<1>1. UNCHANGED <<memory, stateFile, stateTmp, tmps, calls>>
  BY DEF DeleteCheckpoint
<1>2. DiskOK'
  BY <1>1 DEF StateInv, DiskOK, DeleteCheckpoint, memory
<1> QED
  BY <1>1, <1>2 DEF StateInv, MemoryOK, SaverOK, KeeperOK, ReaderOK, memory, calls

\* What is read from a file is a state: the files hold nothing else.
LEMMA ReadInv ==
  ASSUME StateInv, LoadRead \/ \E i \in CheckpointIds : RestoreRead(i)
  PROVE  StateInv'
<1>1. UNCHANGED <<memory, disk, saver, keeper>>
  BY DEF LoadRead, RestoreRead
<1>2. ReaderOK'
  BY DEF StateInv, MemoryOK, DiskOK, ReaderOK, LoadRead, RestoreRead
<1> QED
  BY <1>1, <1>2 DEF StateInv, MemoryOK, DiskOK, SaverOK, KeeperOK, memory, disk

-----------------------------------------------------------------------------
\* Updates, saves, restores, Clear and crashes in whatever order: a checkpoint
\* that has its name is, whole, a state that was once the live one, and
\* state.json is never half a file.
THEOREM CheckpointsAlwaysMoments == StateSpec => []CheckpointsAreMoments
<1>1. StateInit => StateInv
  <2> SUFFICES ASSUME StateInit PROVE StateInv
    OBVIOUS
  <2>1. MemoryOK
    BY EmptyIsState, StateAssumption DEF StateInit, MemoryOK
  <2> QED
    BY <2>1 DEF StateInit, StateInv, DiskOK, SaverOK, KeeperOK, ReaderOK
<1>2. ASSUME StateInv, [StateNext]_stateVars
      PROVE  StateInv'
  <2>1. CASE UNCHANGED stateVars
    BY <1>2, <2>1 DEF stateVars, StateInv, MemoryOK, DiskOK, SaverOK, KeeperOK, ReaderOK
  <2>2. CASE StateNext
    BY <1>2, <2>2, UpdateInv, ClearInv, SwapInv, CrashInv, SaveInv, CheckpointBeginInv,
       CheckpointCopyInv, CheckpointFileInv, DeleteCheckpointInv, ReadInv DEF StateNext
  <2> QED
    BY <1>2, <2>1, <2>2
<1>3. StateInv => CheckpointsAreMoments
  BY StateAssumption DEF StateInv, DiskOK, CheckpointsAreMoments
<1> QED
  BY <1>1, <1>2, <1>3, PTL DEF StateSpec

-----------------------------------------------------------------------------
(* Start and Stop.  Channels are closed in the order of their numbers, and *)
(* the current one is closed while the orchestrator runs only if the Stop  *)
(* that closed it could not save.                                          *)

ChannelsInv ==
  /\ stopCh \in Nat /\ \A k \in closed : k <= stopCh
  /\ closed \subseteq Nat
  /\ (running /\ stopCh \in closed) => "save" \in failedCalls
  /\ PanicNeedsFailedSave

\* Whatever is started, stopped, cancelled and fails, in whatever order: closing a
\* channel twice takes a Stop that has returned an error.
THEOREM PanicsOnlyAfterFailedSave == LifecycleSpec => []PanicNeedsFailedSave
<1>1. LifecycleInit => ChannelsInv
  BY DEF LifecycleInit, ChannelsInv, PanicNeedsFailedSave
<1>2. ASSUME ChannelsInv, [LifecycleNext]_lifecycleVars
      PROVE  ChannelsInv'
  <2> USE <1>2 DEF ChannelsInv, PanicNeedsFailedSave
  <2>1. ASSUME NEW c \in Contexts, StartOrchestrator(c)
        PROVE  ChannelsInv'
    <3>1. /\ stopCh' = stopCh + 1 /\ UNCHANGED <<closed, stopPanicked>>
          /\ failedCalls \subseteq failedCalls'
      BY <2>1 DEF StartOrchestrator, NewChannel
    <3>2. stopCh' \notin closed'
      BY <3>1
    <3> QED
      BY <3>1, <3>2
  <2>2. CASE StopOrchestrator
    <3>1. closed' = closed \cup {stopCh} /\ UNCHANGED <<stopCh, stopPanicked>>
      BY <2>2 DEF StopOrchestrator
    <3>2. failedCalls \subseteq failedCalls' /\ (running' = FALSE \/ "save" \in failedCalls')
      BY <2>2 DEF StopOrchestrator
    <3> QED
      BY <3>1, <3>2
  <2>3. CASE StopPanics
    BY <2>3 DEF StopPanics
  <2>4. CASE \E c \in Contexts : Cancel(c)
    BY <2>4 DEF Cancel
  <2>5. CASE \E i \in Starts : SchedulerEnds(i) \/ MonitorTick(i) \/ MonitorAsks(i) \/ MonitorEnds(i)
    BY <2>5 DEF SchedulerEnds, MonitorTick, MonitorAsks, MonitorEnds, MonitorGoes
  <2>6. CASE UNCHANGED lifecycleVars
    BY <2>6 DEF lifecycleVars
  <2> QED
    BY <2>1, <2>2, <2>3, <2>4, <2>5, <2>6 DEF LifecycleNext
<1>3. ChannelsInv => PanicNeedsFailedSave
  BY DEF ChannelsInv
<1> QED
  BY <1>1, <1>2, <1>3, PTL DEF LifecycleSpec

-----------------------------------------------------------------------------
(***************************************************************************)
(* A running process can be stopped through its instance                   *)
(* (ProcessIsReachable), for any number of callers, instances and          *)
(* processes.  The inductive invariant adds the types, that who is in a    *)
(* call on an instance has one, and that a process that was started knows  *)
(* by which instance.  The locks are not needed: whoever replaces the      *)
(* process of an instance marks the instance, or told the process to end.  *)
(***************************************************************************)

InCall == {"starts", "runs", "stops"} \cup Awaits
Positions == [at : {"idle", "loads", "unloads"} \cup InCall,
              on : Instances \cup {NoOne}, has : Instances \cup {NoOne}]

DoingTyped ==
  /\ doing \in [Callers -> Positions]
  /\ \A c \in Callers : doing[c].at \in InCall => doing[c].on \in Instances

Records == [lock : Callers \cup {NoOne}, pipes : BOOLEAN, process : Processes \cup {NoOne}]

InstancesTyped ==
  /\ inLoader \in Instances \cup {NoOne}
  /\ instance \in [Instances -> Records]

ProcessesTyped ==
  /\ process \in [Processes -> {"unborn", "runs", "told", "dead"}]
  /\ startedBy \in [Processes -> Instances \cup {NoOne}]
  /\ \A p \in Processes : process[p] # "unborn" => startedBy[p] \in Instances

ReachInv == DoingTyped /\ InstancesTyped /\ ProcessesTyped /\ ProcessIsReachable

\* The step puts the caller c there, and leaves the others.
Places(c, at, on, has) ==
  /\ doing' \in [Callers -> {doing'[d] : d \in Callers}]
  /\ doing'[c] = [at |-> at, on |-> on, has |-> has]
  /\ \A d \in Callers : d # c => doing'[d] = doing[d]

LEMMA DoingMoves ==
  ASSUME DoingTyped, NEW c \in Callers, NEW at \in {"idle", "loads", "unloads"} \cup InCall,
         NEW on \in Instances \cup {NoOne}, NEW has \in Instances \cup {NoOne},
         at \in InCall => on \in Instances,
         Places(c, at, on, has)
  PROVE  DoingTyped'
BY DEF DoingTyped, Positions, Places

\* What the calls of a caller do to its position.
LEMMA CallerMoves ==
  ASSUME DoingTyped, InstancesTyped, NEW c \in Callers,
         \/ LoadCalled(c) \/ UnloadCalled(c) \/ TakesLoaderLock(c)
         \/ \E what \in {"starts", "runs", "stops"} : SkillCalled(c, what)
         \/ TakesSkillLock(c) \/ Answered(c)
  PROVE  DoingTyped'
<1>1. /\ doing[c] \in Positions
      /\ doing[c] = [at |-> doing[c].at, on |-> doing[c].on, has |-> doing[c].has]
      /\ doing[c].at \in InCall => doing[c].on \in Instances
  BY DEF DoingTyped, Positions
<1>2. ASSUME NEW at \in {"idle", "loads", "unloads"}, Turns(c, at)
      PROVE  DoingTyped'
  <2>1. Places(c, at, doing[c].on, doing[c].has)
    <3>1. doing \in [Callers -> Positions]
      BY DEF DoingTyped
    <3>. QED
      BY <1>1, <1>2, <3>1 DEF Turns, Places, Positions
  <2>. QED
    BY <1>1, <2>1, DoingMoves DEF Positions, InCall, Awaits
<1>3. ASSUME NEW at \in InCall, doing[c].at \in InCall, Turns(c, at)
      PROVE  DoingTyped'
  <2>1. Places(c, at, doing[c].on, doing[c].has)
    <3>1. doing \in [Callers -> Positions]
      BY DEF DoingTyped
    <3>. QED
      BY <1>1, <1>3, <3>1 DEF Turns, Places, Positions
  <2>. QED
    BY <1>1, <1>3, <2>1, DoingMoves DEF Positions
<1>4. ASSUME EndsCall(c)
      PROVE  DoingTyped'
  <2>1. Places(c, "idle", NoOne, doing[c].has)
    <3>1. doing \in [Callers -> Positions]
      BY DEF DoingTyped
    <3>. QED
      BY <1>1, <1>4, <3>1 DEF EndsCall, Places, Positions
  <2>. QED
    BY <1>1, <2>1, DoingMoves DEF Positions, InCall, Awaits
<1>5. ASSUME NEW i \in Instances, doing' = [doing EXCEPT ![c].at = "idle", ![c].has = i]
      PROVE  DoingTyped'
  <2>1. Places(c, "idle", doing[c].on, i)
    <3>1. doing \in [Callers -> Positions]
      BY DEF DoingTyped
    <3>. QED
      BY <1>1, <1>5, <3>1 DEF Places, Positions
  <2>. QED
    BY <1>1, <2>1, DoingMoves DEF Positions, InCall, Awaits
<1>6. ASSUME NEW at \in InCall, NEW i \in Instances,
             doing' = [doing EXCEPT ![c].at = at, ![c].on = i]
      PROVE  DoingTyped'
  <2>1. Places(c, at, i, doing[c].has)
    <3>1. doing \in [Callers -> Positions]
      BY DEF DoingTyped
    <3>. QED
      BY <1>1, <1>6, <3>1 DEF Places, Positions
  <2>. QED
    BY <1>1, <2>1, DoingMoves DEF Positions
<1>7. CASE LoadCalled(c) \/ UnloadCalled(c)
  BY <1>2, <1>7 DEF LoadCalled, UnloadCalled
<1>8. CASE TakesLoaderLock(c)
  <2>1. inLoader # NoOne => inLoader \in Instances
    BY DEF InstancesTyped
  <2>. QED
    BY <1>4, <1>5, <1>6, <1>8, <2>1 DEF TakesLoaderLock, Load, UnloadLocks, InCall
<1>9. CASE \E what \in {"starts", "runs", "stops"} : SkillCalled(c, what)
  <2>1. doing[c].has # NoOne => doing[c].has \in Instances
    BY <1>1 DEF Positions
  <2>. QED
    BY <1>6, <1>9, <2>1 DEF SkillCalled, InCall
<1>10. CASE TakesSkillLock(c)
  BY <1>3, <1>4, <1>10 DEF TakesSkillLock, InitializeStarts, InitializeCannotStart, ExecuteSends,
                          ShutdownSends, At, InCall, Awaits
<1>11. CASE Answered(c)
  BY <1>3, <1>4, <1>11 DEF Answered, Initialized, InitializeRefused, Executed, ShutdownEnds,
                          At, InCall, Awaits
<1>. QED
  BY <1>7, <1>8, <1>9, <1>10, <1>11

\* Steps that neither start nor end a process, nor change whose it is.
LEMMA ProcessesStay ==
  ASSUME ReachInv, NEW c \in Callers,
         \/ LoadCalled(c) \/ UnloadCalled(c) \/ TakesLoaderLock(c)
         \/ \E what \in {"starts", "runs", "stops"} : SkillCalled(c, what)
         \/ ExecuteSends(c) \/ ShutdownSends(c)
         \/ Initialized(c) \/ InitializeRefused(c) \/ Executed(c)
  PROVE  InstancesTyped' /\ ProcessesTyped' /\ ProcessIsReachable'
<1>1. UNCHANGED <<processes, again>>
  BY DEF LoadCalled, UnloadCalled, TakesLoaderLock, Load, UnloadLocks, SkillCalled, ExecuteSends,
         ShutdownSends, Initialized, InitializeRefused, Executed, ghosts
<1>2. inLoader' \in Instances \cup {NoOne}
  BY DEF LoadCalled, UnloadCalled, TakesLoaderLock, Load, UnloadLocks, SkillCalled, ExecuteSends,
         ShutdownSends, Initialized, InitializeRefused, Executed, loaderState,
         ReachInv, InstancesTyped
<1>3. instance' = instance \/ \E who \in Callers \cup {NoOne} :
                                doing[c].on \in Instances
                                /\ instance' = [instance EXCEPT ![doing[c].on].lock = who]
  BY DEF LoadCalled, UnloadCalled, TakesLoaderLock, Load, UnloadLocks, SkillCalled, ExecuteSends,
         ShutdownSends, Initialized, InitializeRefused, Executed, SkillLocked, SkillUnlocked,
         ReachInv, DoingTyped, At, InCall, Awaits
<1>4. instance \in [Instances -> Records]
  BY DEF ReachInv, InstancesTyped
<1>5. /\ instance' \in [Instances -> Records]
      /\ \A i \in Instances : instance'[i].process = instance[i].process
  <2>1. CASE instance' = instance
    BY <1>4, <2>1
  <2>2. ASSUME NEW who \in Callers \cup {NoOne}, doing[c].on \in Instances,
               instance' = [instance EXCEPT ![doing[c].on].lock = who]
        PROVE  /\ instance' \in [Instances -> Records]
               /\ \A i \in Instances : instance'[i].process = instance[i].process
    <3>1. PICK i \in Instances : i = doing[c].on
      BY <2>2
    <3>2. /\ instance' \in [Instances -> {instance'[j] : j \in Instances}]
          /\ instance'[i] = [instance[i] EXCEPT !.lock = who]
          /\ \A j \in Instances : j # i => instance'[j] = instance[j]
      BY <1>4, <2>2, <3>1
    <3>3. /\ instance'[i] \in Records
          /\ instance'[i].process = instance[i].process
      BY <1>4, <3>2 DEF Records
    <3>. QED
      BY <1>4, <3>2, <3>3
  <2>. QED
    BY <1>3, <2>1, <2>2
<1>. QED
  BY <1>1, <1>2, <1>5 DEF ReachInv, InstancesTyped, ProcessesTyped, ProcessIsReachable, processes

LEMMA StartStep ==
  ASSUME ReachInv, NEW c \in Callers, NEW p \in Processes, InitializeStarts(c, p)
  PROVE  InstancesTyped' /\ ProcessesTyped' /\ ProcessIsReachable'
<1>. DEFINE i == doing[c].on
<1>1. i \in Instances
  BY DEF InitializeStarts, At, InCall, ReachInv, DoingTyped
<1>2. /\ process' = [process EXCEPT ![p] = "runs"]
      /\ startedBy' = [startedBy EXCEPT ![p] = i]
      /\ instance' = [instance EXCEPT ![i] = [lock |-> c, pipes |-> TRUE, process |-> p]]
      /\ inLoader' = inLoader
      /\ again \subseteq again'
      /\ instance[i].process # NoOne => i \in again'
  BY DEF InitializeStarts, MarkAgain, On, loaderState
<1>. HIDE DEF i
<1>3. InstancesTyped' /\ ProcessesTyped'
  BY <1>1, <1>2 DEF ReachInv, InstancesTyped, Records, ProcessesTyped
<1>4. ASSUME NEW q \in Processes, process'[q] = "runs", startedBy'[q] \notin again'
      PROVE  instance'[startedBy'[q]].process = q
  <2>1. CASE q = p
    BY <1>1, <1>2, <2>1 DEF ReachInv, InstancesTyped, Records, ProcessesTyped
  <2>2. CASE q # p
    <3>1. process[q] = "runs" /\ startedBy'[q] = startedBy[q] /\ startedBy[q] \in Instances
      BY <1>2, <1>4, <2>2 DEF ReachInv, ProcessesTyped
    <3>2. instance[startedBy[q]].process = q
      BY <1>2, <1>4, <3>1 DEF ReachInv, ProcessIsReachable
    <3>3. startedBy[q] # i
      BY <1>2, <1>4, <3>1, <3>2, LoaderAssumption
    <3>. QED
      BY <1>1, <1>2, <3>1, <3>2, <3>3 DEF ReachInv, InstancesTyped
  <2>. QED
    BY <2>1, <2>2
<1>. QED
  BY <1>3, <1>4 DEF ProcessIsReachable

LEMMA NoStartStep ==
  ASSUME ReachInv, NEW c \in Callers, InitializeCannotStart(c)
  PROVE  InstancesTyped' /\ ProcessesTyped' /\ ProcessIsReachable'
<1>. DEFINE i == doing[c].on
<1>1. i \in Instances
  BY DEF InitializeCannotStart, At, InCall, ReachInv, DoingTyped
<1>2. /\ UNCHANGED processes
      /\ instance' = [instance EXCEPT ![i].pipes = FALSE, ![i].process = NoOne]
      /\ inLoader' = inLoader
      /\ again \subseteq again'
      /\ instance[i].process # NoOne => i \in again'
  BY DEF InitializeCannotStart, MarkAgain, On, loaderState
<1>. HIDE DEF i
<1>3. InstancesTyped' /\ ProcessesTyped'
  BY <1>1, <1>2 DEF ReachInv, InstancesTyped, Records, ProcessesTyped, processes
<1>4. ASSUME NEW q \in Processes, process'[q] = "runs", startedBy'[q] \notin again'
      PROVE  instance'[startedBy'[q]].process = q
  <2>1. process[q] = "runs" /\ startedBy'[q] = startedBy[q] /\ startedBy[q] \in Instances
    BY <1>2, <1>4 DEF ReachInv, ProcessesTyped, processes
  <2>2. instance[startedBy[q]].process = q
    BY <1>2, <1>4, <2>1 DEF ReachInv, ProcessIsReachable
  <2>3. startedBy[q] # i
    BY <1>2, <1>4, <2>1, <2>2, LoaderAssumption
  <2>. QED
    BY <1>1, <1>2, <2>1, <2>2, <2>3 DEF ReachInv, InstancesTyped, Records
<1>. QED
  BY <1>3, <1>4 DEF ProcessIsReachable

LEMMA StopStep ==
  ASSUME ReachInv, NEW c \in Callers, ShutdownEnds(c)
  PROVE  InstancesTyped' /\ ProcessesTyped' /\ ProcessIsReachable'
<1>. DEFINE i == doing[c].on
<1>1. i \in Instances
  BY DEF ShutdownEnds, At, InCall, Awaits, ReachInv, DoingTyped
<1>2. /\ process' = [p \in Processes |-> IF p = instance[i].process THEN Told[p] ELSE process[p]]
      /\ instance' = [instance EXCEPT ![i] = Fresh]
      /\ startedBy' = startedBy /\ again' = again
      /\ inLoader' \in {inLoader, NoOne}
  BY DEF ShutdownEnds, On, ghosts
<1>. HIDE DEF i
<1>3. Fresh \in Records
  BY DEF Fresh, Records
<1>4. \A q \in Processes : /\ process'[q] \in {process[q], "told"}
                           /\ process[q] = "unborn" => process'[q] = "unborn"
                           /\ q = instance[i].process => process'[q] # "runs"
  BY <1>2 DEF Told
<1>5. process' \in [Processes -> {"unborn", "runs", "told", "dead"}]
  BY <1>2, <1>4 DEF ReachInv, ProcessesTyped
<1>6. InstancesTyped' /\ ProcessesTyped'
  BY <1>1, <1>2, <1>3, <1>4, <1>5 DEF ReachInv, InstancesTyped, ProcessesTyped
<1>7. ASSUME NEW q \in Processes, process'[q] = "runs", startedBy'[q] \notin again'
      PROVE  instance'[startedBy'[q]].process = q
  <2>1. process[q] = "runs" /\ q # instance[i].process /\ startedBy[q] \in Instances
    BY <1>4, <1>7 DEF ReachInv, ProcessesTyped
  <2>2. instance[startedBy[q]].process = q
    BY <1>2, <1>7, <2>1 DEF ReachInv, ProcessIsReachable
  <2>. QED
    BY <1>1, <1>2, <2>1, <2>2 DEF ReachInv, InstancesTyped, Records
<1>. QED
  BY <1>6, <1>7 DEF ProcessIsReachable

LEMMA ReachInit == LoaderInit => ReachInv
BY DEF LoaderInit, ReachInv, DoingTyped, Positions, InstancesTyped, Fresh, Records, ProcessesTyped,
       ProcessIsReachable, InCall, Awaits

LEMMA ReachNext == ReachInv /\ [LoaderNext]_loaderVars => ReachInv'
<1>. SUFFICES ASSUME ReachInv, [LoaderNext]_loaderVars PROVE ReachInv'
  OBVIOUS
<1>1. ASSUME NEW c \in Callers,
             \/ LoadCalled(c) \/ UnloadCalled(c)
             \/ \E what \in {"starts", "runs", "stops"} : SkillCalled(c, what)
             \/ TakesLoaderLock(c) \/ TakesSkillLock(c) \/ Answered(c)
      PROVE  ReachInv'
  <2>1. DoingTyped'
    BY <1>1, CallerMoves DEF ReachInv
  <2>2. InstancesTyped' /\ ProcessesTyped' /\ ProcessIsReachable'
    BY <1>1, ProcessesStay, StartStep, NoStartStep, StopStep DEF TakesSkillLock, Answered
  <2>. QED
    BY <2>1, <2>2 DEF ReachInv
<1>2. ASSUME NEW p \in Processes, Dies(p)
      PROVE  ReachInv'
  BY <1>2 DEF Dies, ReachInv, DoingTyped, InstancesTyped, ProcessesTyped, ProcessIsReachable,
              loaderState, ghosts
<1>3. CASE UNCHANGED loaderVars
  BY <1>3 DEF loaderVars, ReachInv, DoingTyped, InstancesTyped, ProcessesTyped, ProcessIsReachable
<1>. QED
  BY <1>1, <1>2, <1>3 DEF LoaderNext

\* A process that runs is the process of the instance that started it, unless
\* somebody initialized an instance that had one (property ProcessIsReachable
\* of the loader; process.go Initialize and Shutdown), for any number of
\* callers, instances and processes.
THEOREM ProcessAlwaysReachable == LoaderSpec => []ProcessIsReachable
<1>1. ReachInv => ProcessIsReachable
  BY DEF ReachInv
<1>. QED
  BY ReachInit, ReachNext, <1>1, PTL DEF LoaderSpec

-----------------------------------------------------------------------------
(***************************************************************************)
(* A handler that changes a record answers what it wrote                   *)
(* (ChangesAreWhole). The invariant says where a request may be and that   *)
(* the one that writes has the lock; and that a Config only gets later, so *)
(* that a merge has its own or a later one to answer.                      *)
(***************************************************************************)

Stages == {"idle", "waits", "lists", "reads", "readsOn", "writes", "writesOn", "encodes",
           "sends"}

AnyRequest == [op : Operations \cup {"none"}, at : Stages, id : RecordIds \cup {Nobody},
               first : Int, second : Int, config : Int]

RequestsTyped == request \in [Clients -> AnyRequest]

RestTyped ==
  /\ record \in [RecordIds -> [first : Int, second : Int, config : Int]] /\ writes \in Int
  /\ writer \in Clients \cup {"Stop", Nobody}
  /\ listed \subseteq RecordIds /\ created \subseteq RecordIds

\* Where a request may be, by what it asks for; the writer is the one that writes.
RestPlaces ==
  \A c \in Clients :
    /\ IsAt(c, "writes") \/ IsAt(c, "writesOn") =>
         writer = c /\ request[c].op \in Changes /\ request[c].id \in RecordIds
    /\ IsAt(c, "reads") \/ IsAt(c, "readsOn") =>
         request[c].op \notin Changes /\ request[c].id \in RecordIds
    /\ IsAt(c, "encodes") \/ IsAt(c, "sends") => request[c].id \in RecordIds
    /\ IsAt(c, "waits") /\ request[c].op \in OnRecord => request[c].id \in RecordIds

Whole == ChangeAnswersAreWhole /\ HalvesAreLocked

WholeInv == RequestsTyped /\ RestTyped /\ RestPlaces /\ Whole

\* What a merge wrote is in the Config, or something later, until it is answered.
MergesInv ==
  /\ \A i \in RecordIds : record[i].config <= writes
  /\ \A c \in Clients : request[c].op = "merge" =>
       /\ IsAt(c, "writesOn") =>
            record[request[c].id].config >= record[request[c].id].first
       /\ IsAt(c, "encodes") => record[request[c].id].config >= request[c].first
  /\ MergeShows

\* Requests of others stay where they are.
LEMMA OthersStay ==
  ASSUME RequestsTyped, NEW c \in Clients, NEW r,
         request' = [request EXCEPT ![c] = r]
  PROVE  request'[c] = r /\ \A d \in Clients \ {c} : request'[d] = request[d]
BY DEF RequestsTyped

\* Nothing is being changed yet.
LEMMA WholeInit == RestInit => WholeInv
BY RestAssumption DEF RestInit, WholeInv, RequestsTyped, RestTyped, RestPlaces,
   Whole, ChangeAnswersAreWhole, Answers, HalvesAreLocked, IsAt, Idle, Stages, Operations,
   AnyRequest

\* Only the handler that holds the write lock is between the two halves of a change.
LEMMA WholeNext == WholeInv /\ [RestNext]_restVars => WholeInv'
<1> SUFFICES ASSUME WholeInv, [RestNext]_restVars PROVE WholeInv'
  OBVIOUS
<1> USE RestAssumption
<1> USE DEF WholeInv, RequestsTyped, RestTyped, RestPlaces, Whole, AnyRequest,
            ChangeAnswersAreWhole, Answers, HalvesAreLocked, IsAt, IsWhole, Stages, restMap,
            Changes
<1>1. CASE StartServer
  BY <1>1 DEF StartServer
<1>2. CASE Stop
  BY <1>2 DEF Stop, Free
<1>3. CASE ShutdownReturns
  BY <1>3 DEF ShutdownReturns
<1>4. CASE ShutdownTimesOut
  BY <1>4 DEF ShutdownTimesOut
<1>5. ASSUME NEW c \in Clients, NEW op \in Operations, NEW i \in RecordIds \cup {Nobody}, Arrive(c, op, i)
      PROVE  WholeInv'
  <2> DEFINE r == [op |-> op, at |-> "waits", id |-> i, first |-> 0, second |-> 0, config |-> 0]
  <2>1. r.op = op /\ r.at = "waits" /\ r.id = i /\ r.first = 0 /\ r.second = 0 /\ r.config = 0
    OBVIOUS
  <2>2. r \in AnyRequest
    OBVIOUS
  <2>3. /\ request' = [request EXCEPT ![c] = r] /\ request[c].at = "idle"
        /\ op \in OnRecord => i \in RecordIds
    BY <1>5 DEF Arrive
  <2>4. UNCHANGED <<restMap, writer, readers, listener, mapFault>>
    BY <1>5 DEF Arrive
  <2> HIDE DEF r
  <2>5. request'[c] = r /\ \A d \in Clients \ {c} : request'[d] = request[d]
    BY <2>3
  <2>6. RequestsTyped' /\ RestTyped'
    BY <2>2, <2>3, <2>4
  <2>7. RestPlaces'
    BY <2>1, <2>3, <2>4, <2>5
  <2>8. Whole'
    BY <2>1, <2>3, <2>4, <2>5
  <2> QED
    BY <2>6, <2>7, <2>8
<1>6. ASSUME NEW c \in Clients, ListLocks(c)
      PROVE  WholeInv'
  BY <1>6 DEF ListLocks, Does, Goes
<1>7. ASSUME NEW c \in Clients, GetLooksUp(c)
      PROVE  WholeInv'
  <2>1. CASE Goes(c, "reads")
    BY <1>7, <2>1 DEF GetLooksUp, Does, Goes, OnRecord
  <2>2. CASE Answer(c)
    BY <1>7, <2>2 DEF GetLooksUp, Does, Answer, Idle
  <2> QED
    BY <1>7, <2>1, <2>2 DEF GetLooksUp
<1>8. ASSUME NEW c \in Clients, ChangeLocks(c)
      PROVE  WholeInv'
  <2>1. CASE writer' = c /\ Goes(c, "writes")
    <3>1. ASSUME NEW d \in Clients
          PROVE  request[d].at # "writes" /\ request[d].at # "writesOn"
      BY <1>8 DEF ChangeLocks, Free
    <3>2. request[c].id \in RecordIds
      BY <1>8 DEF ChangeLocks, Does, OnRecord
    <3>3. \A i \in RecordIds : record[i].first = record[i].second
      BY <1>8 DEF ChangeLocks, Free
    <3> QED
      BY <1>8, <2>1, <3>1, <3>2, <3>3 DEF ChangeLocks, Does, Goes
  <2>2. CASE Answer(c) /\ UNCHANGED writer
    BY <1>8, <2>2 DEF ChangeLocks, Does, Answer, Idle, Free
  <2> QED
    BY <1>8, <2>1, <2>2 DEF ChangeLocks
<1>9. ASSUME NEW c \in Clients, DeleteRecord(c)
      PROVE  WholeInv'
  BY <1>9 DEF DeleteRecord, Does, Goes, Answer, Idle, Free
<1>10. ASSUME NEW c \in Clients, NEW i \in RecordIds, CreateInserts(c, i)
      PROVE  WholeInv'
  BY <1>10 DEF CreateInserts, Does, Free
<1>11. ASSUME NEW c \in Clients, ListAnswers(c)
      PROVE  WholeInv'
  BY <1>11 DEF ListAnswers, Answer, Idle
<1>12. ASSUME NEW c \in Clients, ReadFirst(c)
      PROVE  WholeInv'
  <2> DEFINE n == record[request[c].id].first
             r == [request[c] EXCEPT !.first = n, !.at = "readsOn"]
  <2>1. /\ request[c].id \in RecordIds /\ request[c].op \notin Changes
        /\ request[c].at # "writes" /\ request[c].at # "writesOn"
    BY <1>12 DEF ReadFirst
  <2>2. n \in Int
    BY <2>1
  <2>3. request' = [request EXCEPT ![c] = r]
    BY <1>12 DEF ReadFirst
  <2>4. UNCHANGED <<record, writes, writer, listed, created>>
    BY <1>12 DEF ReadFirst
  <2>0. request[c] \in AnyRequest
    OBVIOUS
  <2> HIDE DEF n, WholeInv, RequestsTyped, RestTyped, RestPlaces, Whole
  <2>5. /\ r \in AnyRequest
        /\ r.op = request[c].op /\ r.id = request[c].id /\ r.at = "readsOn"
    BY <2>0, <2>2
  <2> USE DEF WholeInv, RequestsTyped, RestTyped, RestPlaces, Whole
  <2> HIDE DEF r
  <2>6. request'[c] = r /\ \A d \in Clients \ {c} : request'[d] = request[d]
    BY <2>3
  <2>7. RequestsTyped' /\ RestTyped'
    BY <2>3, <2>4, <2>5
  <2>8. RestPlaces'
    BY <2>1, <2>4, <2>5, <2>6
  <2>9. Whole'
    BY <2>1, <2>4, <2>5, <2>6
  <2> QED
    BY <2>7, <2>8, <2>9
<1>13. ASSUME NEW c \in Clients, ReadSecond(c)
      PROVE  WholeInv'
  <2> DEFINE n == record[request[c].id].second
             r == [request[c] EXCEPT !.second = n, !.at = "encodes"]
  <2>1. /\ request[c].id \in RecordIds /\ request[c].op \notin Changes
        /\ request[c].at # "writes" /\ request[c].at # "writesOn"
    BY <1>13 DEF ReadSecond
  <2>2. n \in Int
    BY <2>1
  <2>3. request' = [request EXCEPT ![c] = r]
    BY <1>13 DEF ReadSecond
  <2>4. UNCHANGED <<record, writes, writer, listed, created>>
    BY <1>13 DEF ReadSecond
  <2>0. request[c] \in AnyRequest
    OBVIOUS
  <2> HIDE DEF n, WholeInv, RequestsTyped, RestTyped, RestPlaces, Whole
  <2>5. /\ r \in AnyRequest
        /\ r.op = request[c].op /\ r.id = request[c].id /\ r.at = "encodes"
    BY <2>0, <2>2
  <2> USE DEF WholeInv, RequestsTyped, RestTyped, RestPlaces, Whole
  <2> HIDE DEF r
  <2>6. request'[c] = r /\ \A d \in Clients \ {c} : request'[d] = request[d]
    BY <2>3
  <2>7. RequestsTyped' /\ RestTyped'
    BY <2>3, <2>4, <2>5
  <2>8. RestPlaces'
    BY <2>1, <2>4, <2>5, <2>6
  <2>9. Whole'
    BY <2>1, <2>4, <2>5, <2>6
  <2> QED
    BY <2>7, <2>8, <2>9
<1>14. ASSUME NEW c \in Clients, WriteFirst(c)
      PROVE  WholeInv'
  BY <1>14 DEF WriteFirst, Goes
<1>15. ASSUME NEW c \in Clients, WriteSecond(c)
      PROVE  WholeInv'
  <2> DEFINE i == request[c].id
             whole == record[i].first
  <2>1. writer = c /\ i \in RecordIds /\ request[c].op \in Changes /\ whole \in Int
    BY <1>15 DEF WriteSecond
  <2>2. /\ request' = [request EXCEPT ![c].first = whole, ![c].second = whole, ![c].at = "encodes"]
        /\ record' = [record EXCEPT ![i].second = whole]
    BY <1>15 DEF WriteSecond
  <2>3. \A j \in RecordIds : record'[j].first = record'[j].second
    BY <2>1, <2>2, <1>15 DEF WriteSecond
  <2>4. \A d \in Clients \ {c} : request'[d] = request[d]
                              /\ request[d].at # "writes" /\ request[d].at # "writesOn"
    BY <2>1, <2>2
  <2>5. /\ request'[c].op = request[c].op /\ request'[c].id = i /\ request'[c].at = "encodes"
        /\ request'[c].first = whole /\ request'[c].second = whole
    BY <2>2
  <2>6. RequestsTyped' /\ RestTyped'
    BY <2>1, <2>2, <1>15 DEF WriteSecond
  <2>7. RestPlaces'
    BY <2>4, <2>5, <2>1
  <2>8. Whole'
    BY <2>3, <2>4, <2>5
  <2> QED
    BY <2>6, <2>7, <2>8
<1>16. ASSUME NEW c \in Clients, EncodeConfig(c)
      PROVE  WholeInv'
  <2> DEFINE n == record[request[c].id].config
  <2>1. n \in Int
    BY <1>16 DEF EncodeConfig
  <2>2. /\ request' = [request EXCEPT ![c].config = n, ![c].at = "sends"]
        /\ request[c].at = "encodes"
        /\ UNCHANGED <<restMap, writer, readers, listener, mapFault>>
    BY <1>16 DEF EncodeConfig
  <2> HIDE DEF n
  <2>3. RequestsTyped' /\ RestTyped'
    BY <2>1, <2>2
  <2>4. RestPlaces'
    BY <2>2
  <2>5. Whole'
    BY <2>2
  <2> QED
    BY <2>3, <2>4, <2>5
<1>17. ASSUME NEW c \in Clients, Encode(c)
      PROVE  WholeInv'
  BY <1>17 DEF Encode, Answer, Idle
<1>18. CASE UNCHANGED restVars
  BY <1>18 DEF restVars
<1> QED
  BY <1>1, <1>2, <1>3, <1>4, <1>5, <1>6, <1>7, <1>8, <1>9, <1>10, <1>11, <1>12, <1>13,
     <1>14, <1>15, <1>16, <1>17, <1>18 DEF RestNext, TakesLock, GoesOn

\* A step that writes no record and answers nobody's merge leaves the merges be.
LEMMA MergesStay ==
  ASSUME MergesInv, UNCHANGED <<record, writes>>,
         \A c \in Clients : \/ request'[c] = request[c]
                            \/ request'[c].op # "merge"
                            \/ request'[c].at \notin {"writesOn", "encodes", "sends"}
  PROVE  MergesInv'
BY DEF MergesInv, MergeShows, IsAt

\* Configs get later only, and a merge shows what it finds when it is encoded.
LEMMA MergesNext == WholeInv /\ MergesInv /\ [RestNext]_restVars => MergesInv'
<1> SUFFICES ASSUME WholeInv, MergesInv, [RestNext]_restVars PROVE MergesInv'
  OBVIOUS
<1> USE DEF WholeInv, RequestsTyped, AnyRequest
<1>1. ASSUME UNCHANGED <<record, writes>>,
             NEW c \in Clients, NEW r, request' = [request EXCEPT ![c] = r],
             r.op # "merge" \/ r.at \notin {"writesOn", "encodes", "sends"}
      PROVE  MergesInv'
  <2>1. request'[c] = r /\ \A d \in Clients \ {c} : request'[d] = request[d]
    BY <1>1
  <2> HIDE DEF WholeInv
  <2> QED
    BY <1>1, <2>1, MergesStay
<1>2. CASE StartServer \/ Stop \/ ShutdownReturns \/ ShutdownTimesOut
  BY <1>2, MergesStay DEF StartServer, Stop, ShutdownReturns, ShutdownTimesOut, restMap
<1>3. ASSUME NEW c \in Clients, NEW op \in Operations, NEW i \in RecordIds \cup {Nobody}, Arrive(c, op, i)
      PROVE  MergesInv'
  BY <1>1, <1>3 DEF Arrive, restMap
<1>4. ASSUME NEW c \in Clients, UNCHANGED <<record, writes>>,
             Answer(c) \/ Goes(c, "lists") \/ Goes(c, "reads") \/ Goes(c, "writes")
      PROVE  MergesInv'
  <2> DEFINE G(at) == [request[c] EXCEPT !.at = at]
  <2>1. CASE Answer(c)
    BY <1>1, <1>4, <2>1 DEF Answer, Idle
  <2>2. ASSUME NEW at \in {"lists", "reads", "writes"}, Goes(c, at)
        PROVE  MergesInv'
    <3>1. G(at).at = at /\ request' = [request EXCEPT ![c] = G(at)]
      BY <2>2 DEF Goes
    <3> QED
      BY <1>1, <1>4, <3>1
  <2> QED
    BY <1>4, <2>1, <2>2
<1>5. ASSUME NEW c \in Clients,
             ListLocks(c) \/ GetLooksUp(c) \/ ChangeLocks(c) \/ DeleteRecord(c)
               \/ ListAnswers(c) \/ Encode(c)
      PROVE  MergesInv'
  BY <1>4, <1>5 DEF ListLocks, GetLooksUp, ChangeLocks, DeleteRecord, ListAnswers, Encode, restMap
<1>6. ASSUME NEW c \in Clients, NEW i \in RecordIds, CreateInserts(c, i)
      PROVE  MergesInv'
  <2> DEFINE r == [request[c] EXCEPT !.id = i, !.at = "reads"]
  <2>1. r.at = "reads" /\ request' = [request EXCEPT ![c] = r]
    BY <1>6 DEF CreateInserts
  <2> QED
    BY <1>1, <1>6, <2>1 DEF CreateInserts
<1>7. ASSUME NEW c \in Clients, ReadFirst(c)
      PROVE  MergesInv'
  <2> DEFINE n == record[request[c].id].first
             r == [request[c] EXCEPT !.first = n, !.at = "readsOn"]
  <2>1. r.at = "readsOn" /\ request' = [request EXCEPT ![c] = r]
    BY <1>7 DEF ReadFirst
  <2> QED
    BY <1>1, <1>7, <2>1 DEF ReadFirst, restMap
<1>8. ASSUME NEW c \in Clients, ReadSecond(c)
      PROVE  MergesInv'
  <2> DEFINE n == record[request[c].id].second
             r == [request[c] EXCEPT !.second = n, !.at = "encodes"]
  <2>1. r.op # "merge" /\ request' = [request EXCEPT ![c] = r]
    BY <1>8 DEF ReadSecond, RestPlaces, IsAt, Changes
  <2> QED
    BY <1>1, <1>8, <2>1 DEF ReadSecond, restMap
<1>9. ASSUME NEW c \in Clients, WriteFirst(c)
      PROVE  MergesInv'
  <2> DEFINE i == request[c].id
  <2>1. /\ i \in RecordIds /\ writer = c
        /\ \A d \in Clients \ {c} : request[d].at # "writesOn"
    BY <1>9 DEF WriteFirst, RestPlaces, IsAt
  <2>2. /\ writes' = writes + 1 /\ writes \in Int
        /\ request' = [request EXCEPT ![c].at = "writesOn"]
        /\ \A j \in RecordIds \ {i} : record'[j] = record[j]
        /\ record'[i].first = writes + 1
        /\ record'[i].config = IF request[c].op = "merge" THEN writes + 1 ELSE record[i].config
    BY <1>9, <2>1 DEF WriteFirst, Goes, RestTyped
  <2>3. \A d \in Clients \ {c} : request'[d] = request[d]
    BY <2>2
  <2>4. request'[c].op = request[c].op /\ request'[c].id = i /\ request'[c].at = "writesOn"
    BY <2>2
  <2> HIDE DEF i, WholeInv
  <2>5. \A j \in RecordIds : /\ record[j].config \in Int /\ record[j].config <= writes
                             /\ record'[j].config >= record[j].config
                             /\ record'[j].config <= writes + 1
    BY <2>1, <2>2 DEF WholeInv, RestTyped, MergesInv
  <2>6. ASSUME NEW d \in Clients \ {c}, request[d].op = "merge", IsAt(d, "encodes")
        PROVE  record'[request[d].id].config >= request[d].first
    <3>1. /\ request[d].id \in RecordIds /\ request[d].first \in Int
          /\ record[request[d].id].config >= request[d].first
      BY <2>6 DEF WholeInv, RestPlaces, MergesInv
    <3>2. record'[request[d].id].config \in Int
      BY <2>2, <2>5, <3>1
    <3> QED
      BY <2>5, <3>1, <3>2
  <2> QED
    BY <2>1, <2>2, <2>3, <2>4, <2>5, <2>6 DEF MergesInv, MergeShows, IsAt
<1>10. ASSUME NEW c \in Clients, WriteSecond(c)
      PROVE  MergesInv'
  <2> DEFINE i == request[c].id
             whole == record[i].first
  <2>1. i \in RecordIds /\ whole \in Int
    BY <1>10 DEF WriteSecond, RestPlaces, IsAt, RestTyped
  <2>2. /\ request' = [request EXCEPT ![c].first = whole, ![c].second = whole, ![c].at = "encodes"]
        /\ record' = [record EXCEPT ![i].second = whole] /\ writes' = writes
        /\ request[c].at = "writesOn"
    BY <1>10 DEF WriteSecond, IsAt
  <2>3. \A j \in RecordIds : record'[j].config = record[j].config
                           /\ record'[j].first = record[j].first
    BY <2>1, <2>2 DEF RestTyped
  <2>4. \A d \in Clients \ {c} : request'[d] = request[d]
    BY <2>2
  <2>5. /\ request'[c].op = request[c].op /\ request'[c].id = i /\ request'[c].at = "encodes"
        /\ request'[c].first = whole
    BY <2>2
  <2>6. \A d \in Clients : IsAt(d, "writesOn") \/ IsAt(d, "encodes") => request[d].id \in RecordIds
    BY DEF RestPlaces
  <2>7. request[c].op = "merge" => record[i].config >= whole
    BY <2>2 DEF MergesInv, IsAt
  <2> HIDE DEF i, whole, WholeInv
  <2>8. \A j \in RecordIds : record'[j].config <= writes'
    BY <2>2, <2>3 DEF MergesInv
  <2>9. request'[c].op = "merge" => record'[request'[c].id].config >= request'[c].first
    BY <2>1, <2>3, <2>5, <2>7
  <2>10. ASSUME NEW d \in Clients \ {c}, request[d].op = "merge"
         PROVE  /\ request[d].at = "writesOn" =>
                     record'[request[d].id].config >= record'[request[d].id].first
                /\ request[d].at = "encodes" =>
                     record'[request[d].id].config >= request[d].first
                /\ request[d].at = "sends" => request[d].config >= request[d].first
    <3>1. request[d].at \in {"writesOn", "encodes"} =>
            /\ record'[request[d].id].config = record[request[d].id].config
            /\ record'[request[d].id].first = record[request[d].id].first
      BY <2>3, <2>6 DEF IsAt
    <3> QED
      BY <2>10, <3>1 DEF MergesInv, MergeShows, IsAt
  <2>11. MergeShows'
    BY <2>4, <2>5, <2>10 DEF MergeShows, IsAt
  <2>12. \A d \in Clients : request'[d].op = "merge" =>
           /\ request'[d].at = "writesOn" =>
                record'[request'[d].id].config >= record'[request'[d].id].first
           /\ request'[d].at = "encodes" => record'[request'[d].id].config >= request'[d].first
    BY <2>4, <2>5, <2>9, <2>10
  <2> QED
    BY <2>8, <2>11, <2>12 DEF MergesInv, IsAt
<1>11. ASSUME NEW c \in Clients, EncodeConfig(c)
      PROVE  MergesInv'
  <2> DEFINE n == record[request[c].id].config
  <2>1. /\ request' = [request EXCEPT ![c].config = n, ![c].at = "sends"]
        /\ request[c].at = "encodes" /\ UNCHANGED <<record, writes>>
    BY <1>11 DEF EncodeConfig, IsAt, restMap
  <2>2. request[c].op = "merge" => n >= request[c].first
    BY <2>1 DEF MergesInv, IsAt
  <2>3. \A d \in Clients \ {c} : request'[d] = request[d]
    BY <2>1
  <2>4. /\ request'[c].op = request[c].op /\ request'[c].at = "sends"
        /\ request'[c].config = n /\ request'[c].first = request[c].first
    BY <2>1
  <2> HIDE DEF n, WholeInv
  <2> QED
    BY <2>1, <2>2, <2>3, <2>4 DEF MergesInv, MergeShows, IsAt
<1>12. CASE UNCHANGED restVars
  BY <1>12, MergesStay DEF restVars
<1> QED
  BY <1>2, <1>3, <1>5, <1>6, <1>7, <1>8, <1>9, <1>10, <1>11, <1>12 DEF RestNext, TakesLock, GoesOn

\* The fields that a handler which changes a record answers are those it wrote, not a
\* mix with the change of another, and the Config it answers is its own or a later one
\* (property ChangesAreWhole; handlers.go handleUpdate*, respondJSON), for any number
\* of clients, records and writes.
THEOREM ChangesAlwaysWhole == RestSpec => []ChangesAreWhole
<1>1. RestInit => WholeInv /\ MergesInv
  <2>1. RestInit => MergesInv
    BY DEF RestInit, MergesInv, MergeShows, IsAt, Idle
  <2> QED
    BY <2>1, WholeInit
<1>2. WholeInv /\ MergesInv => ChangesAreWhole
  BY DEF WholeInv, Whole, MergesInv, ChangesAreWhole
<1> QED
  BY <1>1, WholeNext, MergesNext, <1>2, PTL DEF RestSpec

-----------------------------------------------------------------------------
(***************************************************************************)
(* An address has a burst and no more (BurstUntilCleanup). The invariant:  *)
(* a limiter hands out as many tokens as it lacks, and the map has the one *)
(* limiter of the address as long as Cleanup has not removed it.           *)
(***************************************************************************)

LimitersTyped ==
  /\ clients \in [Addresses -> Limiters \cup {NoLimiter}]
  /\ made \in [Limiters -> Addresses \cup {NoLimiter}]
  /\ tokens \in [Limiters -> Int] /\ out \in [Limiters -> Int]
  /\ cleaned \subseteq Addresses

\* A request that has missed knows its address, and one that has a limiter has one.
LookupsHold ==
  /\ req \in [HttpRequests -> [at : {"none", "found", "missed", "has"},
                               from : Addresses \cup {NoLimiter},
                               with : Limiters \cup {NoLimiter}]]
  /\ \A r \in HttpRequests : /\ req[r].at = "missed" => req[r].from \in Addresses
                             /\ req[r].at \in {"found", "has"} => req[r].with \in Limiters

\* No token is made up: those in the channel and those out are a burst together.
TokensHold ==
  \A l \in Limiters : /\ tokens[l] >= 0 /\ out[l] >= 0 /\ tokens[l] + out[l] <= BurstSize
                      /\ made[l] = NoLimiter => tokens[l] = 0 /\ out[l] = 0

\* The map has the limiters of an address under that address, and all of them as
\* long as Cleanup has not removed one.
MapHasMade ==
  \A a \in Addresses :
    /\ clients[a] # NoLimiter => made[clients[a]] = a
    /\ a \notin cleaned => \A l \in Limiters : made[l] = a => clients[a] = l

LimitInv == LimitersTyped /\ LookupsHold /\ TokensHold /\ MapHasMade

\* No limiter is made yet.
LEMMA LimitInit == LimiterInit => LimitInv
BY BurstAssumption DEF LimiterInit, LimitInv, LimitersTyped, LookupsHold, TokensHold, MapHasMade,
   NoRequest

\* Every step of a request, of a refill and of Cleanup keeps the invariant.
LEMMA LimitNext == LimitInv /\ [LimiterNext]_limiterVars => LimitInv'
<1> SUFFICES ASSUME LimitInv, [LimiterNext]_limiterVars PROVE LimitInv'
  OBVIOUS
<1> USE BurstAssumption
<1> USE DEF LimitInv, LimitersTyped, LookupsHold, TokensHold, MapHasMade, channels
<1>1. CASE CleanupTick
  <2> DEFINE gone == {a \in Addresses : clients[a] \in stale}
  <2>1. /\ clients' = [a \in Addresses |-> IF a \in gone THEN NoLimiter ELSE clients[a]]
        /\ cleaned' = cleaned \cup gone
        /\ UNCHANGED <<made, tokens, out, req>>
    BY <1>1 DEF CleanupTick
  <2> QED
    BY <2>1
<1>2. ASSUME NEW l \in Limiters, GiveBack(l)
      PROVE  LimitInv'
  BY <1>2 DEF GiveBack
<1>3. ASSUME NEW l \in Limiters, GrowStale(l)
      PROVE  LimitInv'
  BY <1>3 DEF GrowStale
<1>4. ASSUME NEW r \in HttpRequests, TouchLimiter(r)
      PROVE  LimitInv'
  BY <1>4 DEF TouchLimiter
<1>5. ASSUME NEW r \in HttpRequests, FindAfterAll(r)
      PROVE  LimitInv'
  BY <1>5 DEF FindAfterAll, Has
<1>6. ASSUME NEW r \in HttpRequests, LetInOrRefuse(r)
      PROVE  LimitInv'
  <2> DEFINE l == req[r].with
  <2>1. l \in Limiters
    BY <1>6 DEF LetInOrRefuse
  <2>2. LookupsHold'
    BY <1>6 DEF LetInOrRefuse, NoRequest
  <2>3. CASE tokens[l] > 0
    BY <1>6, <2>1, <2>2, <2>3 DEF LetInOrRefuse
  <2>4. CASE ~(tokens[l] > 0)
    BY <1>6, <2>1, <2>2, <2>4 DEF LetInOrRefuse
  <2> QED
    BY <2>3, <2>4
<1>7. ASSUME NEW r \in HttpRequests, NEW a \in Addresses, Lookup(r, a)
      PROVE  LimitInv'
  BY <1>7 DEF Lookup
<1>8. ASSUME NEW r \in HttpRequests, NEW l \in Limiters, Make(r, l)
      PROVE  LimitInv'
  <2> DEFINE a == req[r].from
  <2>1. a \in Addresses /\ made[l] = NoLimiter /\ clients[a] = NoLimiter
    BY <1>8 DEF Make, Unmade
  <2>2. /\ made' = [made EXCEPT ![l] = a] /\ tokens' = [tokens EXCEPT ![l] = BurstSize]
        /\ clients' = [clients EXCEPT ![a] = l] /\ UNCHANGED <<out, cleaned>>
    BY <1>8 DEF Make, MakeFor
  <2>3. LookupsHold'
    BY <1>8 DEF Make, MakeFor, Has
  <2>4. LimitersTyped' /\ TokensHold'
    BY <2>1, <2>2
  <2>5. MapHasMade'
    BY <2>1, <2>2
  <2> QED
    BY <2>3, <2>4, <2>5
<1>9. CASE UNCHANGED limiterVars
  BY <1>9 DEF limiterVars
<1> QED
  BY <1>1, <1>2, <1>3, <1>4, <1>5, <1>6, <1>7, <1>8, <1>9 DEF LimiterNext

\* The one limiter of an address has all its tokens: the sum has one term that counts.
LEMMA LimitHolds == LimitInv => BurstUntilCleanup
<1> SUFFICES ASSUME LimitInv, NEW a \in Addresses \ cleaned
             PROVE  LetIn(a) <= BurstSize
  BY DEF BurstUntilCleanup
<1> DEFINE its == {l \in Limiters : made[l] = a}
<1>1. CASE its = {}
  <2>1. SumFunctionOnSet(out, {}) = 0
    BY SumProperties, FS_EmptySet DEF IntsOn
  <2> QED
    BY <1>1, <2>1, BurstAssumption DEF LetIn
<1>2. CASE its # {}
  <2>1. PICK l \in Limiters : its = {l}
    BY <1>2 DEF LimitInv, MapHasMade
  <2>2. out[l] \in Int /\ out[l] <= BurstSize
    BY BurstAssumption DEF LimitInv, LimitersTyped, TokensHold
  <2>3. SumFunctionOnSet(out, {l}) = out[l]
    BY SumProperties, FS_Singleton, <2>2 DEF IntsOn
  <2> QED
    BY <2>1, <2>2, <2>3 DEF LetIn
<1> QED
  BY <1>1, <1>2

\* Until Cleanup removes its limiter, an address has no more requests let in than a
\* burst (property BurstUntilCleanup; ratelimit.go Allow, getLimiter and Cleanup), for any
\* number of requests, addresses and limiters and any burst.
THEOREM BurstAlwaysLimited == LimiterSpec => []BurstUntilCleanup
BY LimitInit, LimitNext, LimitHolds, PTL DEF LimiterSpec

-----------------------------------------------------------------------------
(***************************************************************************)
(* The index of the login sessions by user agrees with the sessions, and   *)
(* nobody has too many (UserSessionsHold). The order of use is total, so   *)
(* of the sessions of a user one is the least recently used: one is        *)
(* evicted when he has as many as he may have.                             *)
(***************************************************************************)

SessionsTyped ==
  /\ sessions \subseteq DOMAIN ownerOf /\ DOMAIN ownerOf \subseteq SessionIds
  /\ ownerOf = [s \in DOMAIN ownerOf |-> ownerOf[s]]
  /\ userSessions \in [Users -> SUBSET SessionIds]

\* The sessions are in the order in which they were used.
SessionsOrdered ==
  /\ older \subseteq sessions \X sessions
  /\ \A s, t \in sessions : s # t => <<s, t>> \in older \/ <<t, s>> \in older
  /\ \A s \in sessions : <<s, s>> \notin older
  /\ \A r, s, t \in sessions : <<r, s>> \in older /\ <<s, t>> \in older => <<r, t>> \in older

\* Of finitely many sessions one was used before the others.
OldestExists ==
  \A T \in SUBSET sessions :
    IsFiniteSet(T) /\ T # {} => \E s \in T : \A t \in T \ {s} : <<s, t>> \in older

IndexIsSmall ==
  \A u \in Users : IsFiniteSet(userSessions[u])
                   /\ Cardinality(userSessions[u]) <= MaxSessionsPerUser

IndexInv == SessionsTyped /\ SessionsOrdered /\ UserIndexAgrees /\ IndexIsSmall

\* No user has a session yet.
LEMMA IndexInit == AuthInit => IndexInv
<1> SUFFICES ASSUME AuthInit PROVE IndexInv
  OBVIOUS
<1>1. SessionsTyped /\ SessionsOrdered /\ UserIndexAgrees
  BY DEF AuthInit, SessionsTyped, SessionsOrdered, UserIndexAgrees, SessionsOf
<1>2. IndexIsSmall
  BY FS_EmptySet, SessionsAssumption DEF AuthInit, IndexIsSmall
<1> QED
  BY <1>1, <1>2 DEF IndexInv

\* Whoever is evicted exists: by induction over the sessions.
LEMMA FirstUsed == SessionsOrdered => OldestExists
<1> SUFFICES ASSUME SessionsOrdered, NEW S \in SUBSET sessions, IsFiniteSet(S), S # {}
             PROVE  \E s \in S : \A t \in S \ {s} : <<s, t>> \in older
  BY DEF OldestExists
<1> DEFINE First(T) == \E s \in T : \A t \in T \ {s} : <<s, t>> \in older
           F == {T \in SUBSET S : T = {} \/ First(T)}
<1>1. ASSUME NEW T \in SUBSET S, NEW x \in S, T \in F
      PROVE  T \cup {x} \in F
  <2>1. CASE T = {}
    BY <2>1
  <2>2. CASE First(T)
    <3>1. PICK s \in T : \A t \in T \ {s} : <<s, t>> \in older
      BY <2>2
    <3>2. CASE x \in T
      BY <3>2, <2>2
    <3>3. CASE x \notin T /\ <<s, x>> \in older
      <4>1. \A t \in (T \cup {x}) \ {s} : <<s, t>> \in older
        BY <3>1, <3>3
      <4> QED
        BY <4>1
    <3>4. CASE x \notin T /\ <<x, s>> \in older
      <4>1. \A t \in (T \cup {x}) \ {x} : <<x, t>> \in older
        BY <3>1, <3>4 DEF SessionsOrdered
      <4> QED
        BY <4>1
    <3> QED
      BY <3>2, <3>3, <3>4 DEF SessionsOrdered
  <2> QED
    BY <2>1, <2>2, <1>1
<1>2. {} \in F
  OBVIOUS
<1>3. \A T \in SUBSET S : T \in F
  <2> HIDE DEF F
  <2> QED
    BY <1>1, <1>2, FiniteSetInduction
<1> QED
  BY <1>3

\* Every operation keeps the invariant; a limit of one is excluded because then
\* CreateSession puts the id into a set that the map has lost.
LEMMA IndexNext ==
  ASSUME MaxSessionsPerUser > 1
  PROVE  IndexInv /\ [AuthNext]_authVars => IndexInv'
<1> SUFFICES ASSUME IndexInv, [AuthNext]_authVars PROVE IndexInv'
  OBVIOUS
<1> USE SessionsAssumption DEF IndexInv
\* What is left in order when sessions go, and when one is used.
<1>1. ASSUME NEW left \in SUBSET sessions, sessions' = left, older' = Among(left)
      PROVE  SessionsOrdered'
  BY <1>1 DEF Among, SessionsOrdered
<1>2. ASSUME NEW left \in SUBSET sessions, NEW s, s \notin left,
             sessions' = left \cup {s}, older' = UsedNow(s, left)
      PROVE  SessionsOrdered'
  BY <1>2 DEF Among, UsedNow, SessionsOrdered
<1>3. ASSUME NEW ids, DeleteSessions(ids)
      PROVE  IndexInv'
  <2>1. SessionsOrdered'
    BY <1>1, <1>3 DEF DeleteSessions, Drop
  <2>2. SessionsTyped' /\ UserIndexAgrees'
    BY <1>3 DEF DeleteSessions, Drop, SessionsTyped, UserIndexAgrees, SessionsOf
  <2>3. IndexIsSmall'
    <3>1. ASSUME NEW u \in Users
          PROVE  /\ IsFiniteSet(userSessions'[u])
                 /\ Cardinality(userSessions'[u]) <= MaxSessionsPerUser
      <4>1. userSessions'[u] \subseteq userSessions[u]
        BY <1>3 DEF DeleteSessions
      <4>2. /\ IsFiniteSet(userSessions[u])
            /\ Cardinality(userSessions[u]) <= MaxSessionsPerUser
        BY DEF IndexIsSmall
      <4> QED
        BY <4>1, <4>2, FS_Subset, FS_CardinalityType
    <3> QED
      BY <3>1 DEF IndexIsSmall
  <2> QED
    BY <2>1, <2>2, <2>3
<1>4. ASSUME NEW u \in Users, DeleteUserSessions(u)
      PROVE  IndexInv'
  <2>1. SessionsOrdered'
    BY <1>1, <1>4 DEF DeleteUserSessions, Drop
  <2>2. SessionsTyped' /\ UserIndexAgrees'
    BY <1>4 DEF DeleteUserSessions, Drop, SessionsTyped, UserIndexAgrees, SessionsOf
  <2>3. IndexIsSmall'
    BY <1>4, FS_EmptySet DEF DeleteUserSessions, IndexIsSmall, SessionsTyped
  <2> QED
    BY <2>1, <2>2, <2>3
<1>5. ASSUME NEW u \in Users, NEW s \in SessionIds, CreateSession(u, s)
      PROVE  IndexInv'
  <2> DEFINE gone == Evicted(u)
             rest == userSessions[u] \ gone
  <2>1. s \notin DOMAIN ownerOf /\ s \notin sessions
    BY <1>5 DEF CreateSession, SessionsTyped
  <2>2. userSessions[u] = SessionsOf(u) /\ userSessions[u] \subseteq sessions
    BY DEF UserIndexAgrees, SessionsOf
  <2>3. gone \subseteq userSessions[u]
    BY DEF Evicted, Oldest
  <2>4. /\ IsFiniteSet(userSessions[u]) /\ Cardinality(userSessions[u]) \in Nat
        /\ Cardinality(userSessions[u]) <= MaxSessionsPerUser
    BY FS_CardinalityType DEF IndexIsSmall
  <2>5. /\ IsFiniteSet(rest) /\ Cardinality(rest) \in Nat
        /\ Cardinality(rest) < MaxSessionsPerUser
        /\ gone # {} => rest # {}
    <3>1. CASE Cardinality(userSessions[u]) >= MaxSessionsPerUser
      <4>1. userSessions[u] # {}
        <5>1. Cardinality({}) = 0
          BY FS_EmptySet
        <5> QED
          BY <5>1, <3>1
      <4>2. PICK o \in userSessions[u] :
              \A t \in userSessions[u] \ {o} : <<o, t>> \in older
        BY <4>1, <2>2, <2>4, FirstUsed DEF OldestExists
      <4>3. gone = {o}
        BY <3>1, <4>2, <2>2 DEF Evicted, Oldest, SessionsOrdered
      <4>4. Cardinality(rest) = Cardinality(userSessions[u]) - 1 /\ IsFiniteSet(rest)
        BY <4>3, <2>4, FS_RemoveElement
      <4>5. Cardinality(rest) > 0
        BY <4>4, <3>1, <2>4, MaxSessionsPerUser > 1
      <4>6. rest # {}
        BY <4>5, FS_EmptySet
      <4> QED
        BY <4>4, <4>5, <4>6, <2>4
    <3>2. CASE ~(Cardinality(userSessions[u]) >= MaxSessionsPerUser)
      <4>1. gone = {} /\ rest = userSessions[u]
        BY <3>2 DEF Evicted
      <4> QED
        BY <4>1, <3>2, <2>4
    <3> QED
      BY <3>1, <3>2
  <2>6. /\ userSessions' = [userSessions EXCEPT ![u] = rest \cup {s}]
        /\ sessions' = (sessions \ gone) \cup {s}
        /\ older' = UsedNow(s, sessions \ gone)
        /\ ownerOf' = [i \in DOMAIN ownerOf \cup {s} |-> IF i = s THEN u ELSE ownerOf[i]]
    BY <1>5, <2>5 DEF CreateSession
  <2> HIDE DEF gone
  <2>7. SessionsOrdered'
    BY <1>2, <2>1, <2>6
  <2>8. SessionsTyped'
    BY <2>6 DEF SessionsTyped
  <2>9. UserIndexAgrees'
    BY <2>1, <2>2, <2>3, <2>6 DEF UserIndexAgrees, SessionsOf, SessionsTyped
  <2>10. IndexIsSmall'
    <3>1. IsFiniteSet(rest \cup {s}) /\ Cardinality(rest \cup {s}) <= MaxSessionsPerUser
      <4> HIDE DEF rest
      <4>1. s \in rest => rest \cup {s} = rest
        OBVIOUS
      <4>2. /\ IsFiniteSet(rest \cup {s})
            /\ \/ Cardinality(rest \cup {s}) = Cardinality(rest)
               \/ Cardinality(rest \cup {s}) = Cardinality(rest) + 1
        BY <4>1, <2>5, FS_AddElement
      <4> QED
        BY <4>2, <2>5
    <3>2. \A v \in Users \ {u} : userSessions'[v] = userSessions[v]
      BY <2>6 DEF SessionsTyped
    <3>3. userSessions'[u] = rest \cup {s}
      BY <2>6 DEF SessionsTyped
    <3> HIDE DEF rest
    <3> QED
      BY <3>1, <3>2, <3>3 DEF IndexIsSmall
  <2> QED
    BY <2>7, <2>8, <2>9, <2>10
<1>6. ASSUME NEW s \in SessionIds, GetSession(s)
      PROVE  IndexInv'
  <2>1. SessionsOrdered'
    <3>1. sessions' = (sessions \ {s}) \cup {s} /\ older' = UsedNow(s, sessions \ {s})
      BY <1>6 DEF GetSession
    <3> QED
      BY <3>1, <1>2
  <2> QED
    BY <2>1, <1>6 DEF GetSession, SessionsTyped, UserIndexAgrees, SessionsOf, IndexIsSmall
<1>7. ASSUME NEW s \in SessionIds, PassExpiry(s)
      PROVE  IndexInv'
  BY <1>7 DEF PassExpiry, SessionsTyped, SessionsOrdered, UserIndexAgrees, SessionsOf,
     IndexIsSmall
<1>8. CASE UNCHANGED authVars
  BY <1>8 DEF authVars, SessionsTyped, SessionsOrdered, UserIndexAgrees, SessionsOf,
     IndexIsSmall
<1> QED
  BY <1>3, <1>4, <1>5, <1>6, <1>7, <1>8 DEF AuthNext, Cleanup, DeleteSession

\* The set of a user names exactly the sessions he has, and they are no more than the
\* limit (property UserSessionsHold; session.go CreateSession and deleteSessionLocked),
\* for any number of users and sessions and any limit above one.
THEOREM UserSessionsAlwaysHold ==
  ASSUME MaxSessionsPerUser > 1
  PROVE  AuthSpec => []UserSessionsHold
<1>1. IndexInv => UserSessionsHold
  BY DEF IndexInv, IndexIsSmall, UserIndexAgrees, WithinTheLimit, UserSessionsHold
<1> QED
  BY IndexInit, IndexNext, <1>1, PTL DEF AuthSpec
=============================================================================
