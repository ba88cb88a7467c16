--------------------------- MODULE ConfigManager ---------------------------
(***************************************************************************)
(* The configuration manager (internal/config/manager.go): a configuration *)
(* under a lock, the file it came from, and a goroutine that looks at the  *)
(* file's time every second and loads it again when it is newer.           *)
(*                                                                         *)
(* A content of the file is the number of the change that made it, and     *)
(* those in Broken cannot be loaded.  Every write of the file gives it a   *)
(* later time than it had.  Errors go to a channel nobody has to read.     *)
(***************************************************************************)
EXTENDS Integers, Sequences

CONSTANTS Broken,       \* contents that Load rejects
          MaxChanges    \* bound on the changes made to the file and by Update

ASSUME ConfigAssumption == MaxChanges \in Nat /\ Broken \subseteq 1..MaxChanges

VARIABLES content,      \* what the file holds
          mtime,        \* its modification time
          changes,      \* number of changes so far
          config,       \* m.config
          modTime,      \* m.watcher.modTime
          holder,       \* who is in Reload, with the lock
          reloads,      \* m.reloadChan, of capacity 1
          closed,       \* Close was called
          loop,         \* the goroutine, and the time it saw
          loopPanicked,     \* it has crashed the program
          loaded,       \* ghost: the content of the last successful load
          missed        \* ghost: the last write came between a load and the Stat that follows

configVars == <<content, mtime, changes, config, modTime, holder, reloads, closed,
                loop, loopPanicked, loaded, missed>>
configFile == <<content, mtime, changes>>
manager == <<config, modTime, holder, reloads, closed>>

ConfigTypeOK ==
  /\ content \in 0..MaxChanges /\ config \in 0..MaxChanges /\ loaded \in 0..MaxChanges
  /\ mtime \in Nat /\ modTime \in Nat
  /\ changes \in 0..MaxChanges
  /\ holder \in {"nobody", "loop", "caller"}
  /\ reloads \in Seq(0..MaxChanges)
  /\ loop \in [at : {"none", "made", "starts", "waits", "looks", "compares", "reloads", "gone"},
               saw : Nat]
  /\ closed \in BOOLEAN /\ loopPanicked \in BOOLEAN /\ missed \in BOOLEAN

ConfigInit ==
  /\ content = 0 /\ mtime = 1 /\ changes = 0
  /\ config = 0 /\ loaded = 0 /\ modTime = 0
  /\ holder = "nobody" /\ reloads = <<>> /\ closed = FALSE
  /\ loop = [at |-> "none", saw |-> 0]
  /\ loopPanicked = FALSE /\ missed = FALSE

LoopGoes(at) == loop' = [loop EXCEPT !.at = at]
Unlocked == holder = "nobody"
\* NewManager has returned: others have the manager.
Shared == loop.at \notin {"none", "made"}

-----------------------------------------------------------------------------
(* The file, and the callers of the manager.                               *)

WriteFile(c) ==
  /\ content' = c /\ mtime' = mtime + 1
  /\ missed' = (holder # "nobody" \/ loop.at = "made")

EditFile ==
  /\ changes < MaxChanges
  /\ changes' = changes + 1
  /\ WriteFile(changes')
  /\ UNCHANGED <<manager, loop, loopPanicked, loaded>>

\* NewManager, whose first Load has to succeed.
NewManager ==
  /\ loop.at = "none"
  /\ content \notin Broken
  /\ config' = content /\ loaded' = content
  /\ LoopGoes("made")
  /\ UNCHANGED <<configFile, modTime, holder, reloads, closed, loopPanicked, missed>>

\* startWatcher, with AutoReload: the file's time is read after the load, and the
\* goroutine is started.
StartWatcher ==
  /\ loop.at = "made"
  /\ modTime' = mtime
  /\ LoopGoes("starts")
  /\ UNCHANGED <<configFile, config, holder, reloads, closed, loopPanicked, loaded, missed>>

\* Update works on a copy, checks it, and neither saves nor announces it.
UpdateConfig ==
  /\ Shared /\ Unlocked /\ changes < MaxChanges
  /\ changes' = changes + 1
  /\ changes' \notin Broken /\ config' = changes'
  /\ UNCHANGED <<content, mtime, modTime, holder, reloads, closed, loop, loopPanicked,
                 loaded, missed>>

\* To save what the file holds already is left out: a bound on the writes.
SaveConfig ==
  /\ Shared /\ Unlocked /\ config # content
  /\ WriteFile(config)
  /\ UNCHANGED <<changes, manager, loop, loopPanicked, loaded>>

\* A caller takes a configuration from the channel of Watch.
Receive ==
  /\ reloads # <<>>
  /\ reloads' = Tail(reloads)
  /\ UNCHANGED <<configFile, config, modTime, holder, closed, loop, loopPanicked, loaded, missed>>

\* Close closes the channels and forgets the watcher; what the channel still
\* holds can be received.
CloseManager ==
  /\ Shared /\ Unlocked /\ ~closed
  /\ closed' = TRUE
  /\ UNCHANGED <<configFile, config, modTime, holder, reloads, loop, loopPanicked, loaded, missed>>

-----------------------------------------------------------------------------
(* Reload: the file is loaded, and then its time is read.                  *)

LoadFile(who) ==
  /\ Unlocked /\ content \notin Broken
  /\ config' = content /\ loaded' = content /\ holder' = who
  /\ UNCHANGED <<configFile, modTime, reloads, closed, loopPanicked, missed>>

\* A configuration is not announced when the one before was not received yet.
StatAndAnnounce ==
  /\ modTime' = IF closed THEN modTime ELSE mtime
  /\ reloads' = IF closed \/ reloads # <<>> THEN reloads ELSE <<config>>
  /\ holder' = "nobody"
  /\ UNCHANGED <<configFile, config, closed, loopPanicked, loaded, missed>>

CallerReloads ==
  /\ Shared
  /\ LoadFile("caller")
  /\ UNCHANGED loop

CallerStats ==
  /\ holder = "caller"
  /\ StatAndAnnounce
  /\ UNCHANGED loop

-----------------------------------------------------------------------------
(* watchLoop and checkConfigChange.                                        *)

\* The goroutine reads m.watcher, which Close may have set to nil.
LoopStarts ==
  /\ loop.at = "starts" /\ Unlocked
  /\ IF closed THEN loopPanicked' = TRUE /\ LoopGoes("gone")
               ELSE LoopGoes("waits") /\ UNCHANGED loopPanicked
  /\ UNCHANGED <<configFile, manager, loaded, missed>>

LoopTicks ==
  /\ loop.at = "waits"
  /\ loop' = [at |-> "looks", saw |-> mtime]
  /\ UNCHANGED <<configFile, manager, loopPanicked, loaded, missed>>

LoopLooks ==
  /\ loop.at = "looks" /\ Unlocked
  /\ LoopGoes(IF closed THEN "waits" ELSE "compares")
  /\ UNCHANGED <<configFile, manager, loopPanicked, loaded, missed>>

\* The watcher's time is read without the lock: while a Reload may write it the
\* comparison comes out either way.
LoopCompares ==
  /\ loop.at = "compares"
  /\ \/ (loop.saw > modTime \/ holder # "nobody") /\ LoopGoes("reloads")
     \/ (loop.saw <= modTime \/ holder # "nobody") /\ LoopGoes("waits")
  /\ UNCHANGED <<configFile, manager, loopPanicked, loaded, missed>>

LoopLoads ==
  /\ loop.at = "reloads" /\ holder # "loop"
  /\ LoadFile("loop")
  /\ UNCHANGED loop

\* Mutant: the first error ends the loop.
LoopGivesUp ==
  /\ loop.at = "reloads" /\ Unlocked /\ content \in Broken
  /\ LoopGoes("gone")
  /\ UNCHANGED <<configFile, manager, loopPanicked, loaded, missed>>

\* Load returns an error; the watcher's time stays, so the next tick tries again.
LoopFails ==
  /\ loop.at = "reloads" /\ Unlocked /\ content \in Broken
  /\ LoopGoes("waits")
  /\ UNCHANGED <<configFile, manager, loopPanicked, loaded, missed>>

LoopStats ==
  /\ holder = "loop"
  /\ StatAndAnnounce
  /\ LoopGoes("waits")

LoopEnds ==
  /\ loop.at = "waits" /\ closed
  /\ LoopGoes("gone")
  /\ UNCHANGED <<configFile, manager, loopPanicked, loaded, missed>>

LoopStep == \/ LoopStarts \/ LoopTicks \/ LoopLooks \/ LoopCompares
            \/ LoopLoads \/ LoopFails \/ LoopStats \/ LoopEnds

ConfigNext ==
  /\ ~loopPanicked
  /\ \/ NewManager \/ StartWatcher \/ EditFile \/ UpdateConfig \/ SaveConfig \/ Receive
     \/ CloseManager \/ CallerReloads \/ CallerStats \/ LoopStep

\* The goroutine is scheduled, and gets the lock in the end (sync.RWMutex lets
\* nobody wait for ever); NewManager, and a Reload that has the lock, go on.
ConfigFairness == /\ WF_configVars(~loopPanicked /\ StartWatcher)
                  /\ WF_configVars(~loopPanicked /\ CallerStats)
                  /\ WF_configVars(~loopPanicked /\ (LoopStarts \/ LoopTicks \/ LoopCompares
                                                 \/ LoopStats))
                  /\ SF_configVars(~loopPanicked /\ LoopLooks)
                  /\ SF_configVars(~loopPanicked /\ (LoopLoads \/ LoopFails))

ConfigSpec == ConfigInit /\ [][ConfigNext]_configVars /\ ConfigFairness

-----------------------------------------------------------------------------
(* Properties.                                                             *)

\* What was written to the file and can be loaded is loaded in the end, after
\* whatever broken contents and reloads of others, unless the write came between
\* a load and the Stat that follows it, in NewManager or in Reload: that one stays
\* unseen until the next write or the next call of Reload.
EditsAreLoaded ==
  (loop.at # "none" /\ loaded # content)
    ~> (loaded = content \/ content \in Broken \/ missed \/ closed)
=============================================================================
