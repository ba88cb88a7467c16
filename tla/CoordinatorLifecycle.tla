------------------------ MODULE CoordinatorLifecycle ------------------------
(***************************************************************************)
(* Start and Stop of the orchestrator                                      *)
(* (internal/core/orchestrator/coordinator.go) and the two loops Start     *)
(* begins: the scheduler's (scheduler.go), which knows its context only,   *)
(* and the monitor's, which asks o.stopCh anew, without the lock, each time*)
(* it waits.  What a pass of the scheduler does is in Orchestrator.        *)
(*                                                                         *)
(* A channel is its number; Start makes a new one.                         *)
(***************************************************************************)
EXTENDS Naturals, FiniteSets

CONSTANTS Contexts,     \* what Start is called with
          MaxStarts     \* bound on the calls of Start that get as far as Load

ASSUME LifecycleAssumption == MaxStarts \in Nat /\ Contexts # {}

VARIABLES running,      \* o.running
          stopCh,       \* o.stopCh
          closed,       \* channels that are closed
          done,         \* contexts that are cancelled
          loops,        \* of each Start that succeeded: its context, and where
                        \* its scheduler and its monitor are
          stopPanicked,     \* the program has ended by a panic
          failedCalls      \* ghost: which of "load" and "save" have failed

lifecycleVars == <<running, stopCh, closed, done, loops, stopPanicked, failedCalls>>

Starts == 1..MaxStarts
NoLoops == [ctx |-> "none", scheduler |-> "ended", monitor |-> "ended", asked |-> 0]

LifecycleTypeOK ==
  /\ running \in BOOLEAN /\ stopPanicked \in BOOLEAN
  /\ stopCh \in 0..MaxStarts /\ closed \subseteq 0..MaxStarts
  /\ done \subseteq Contexts /\ failedCalls \subseteq {"load", "save"}
  /\ loops \in [Starts -> [ctx : Contexts \cup {"none"},
                           scheduler : {"waiting", "ended"},
                           monitor : {"busy", "waiting", "ended"},
                           asked : 0..MaxStarts]]

LifecycleInit ==
  /\ running = FALSE /\ stopPanicked = FALSE
  /\ stopCh = 0 /\ closed = {}
  /\ done = {} /\ failedCalls = {}
  /\ loops = [i \in Starts |-> NoLoops]

-----------------------------------------------------------------------------
(* Start and Stop hold the lock throughout.                                *)

\* Mutant: the channel of the last Start is kept.
OldChannel == IF stopCh = 0 THEN 1 ELSE stopCh
NewChannel == stopCh + 1

StartedWith(c, i) ==
  loops' = [loops EXCEPT ![i] =
    [ctx |-> c, scheduler |-> "waiting", monitor |-> "busy", asked |-> 0]]

\* A call that finds the orchestrator running returns an error and changes nothing.
StartOrchestrator(c) ==
  /\ ~stopPanicked /\ ~running
  /\ stopCh < MaxStarts
  /\ stopCh' = NewChannel
  /\ \/ /\ running' = TRUE
        /\ \E i \in Starts : /\ loops[i].ctx = "none"
                             /\ \A j \in 1..(i - 1) : loops[j].ctx # "none"
                             /\ StartedWith(c, i)
        /\ UNCHANGED failedCalls
     \/ /\ failedCalls' = failedCalls \cup {"load"}
        /\ UNCHANGED <<running, loops>>
  /\ UNCHANGED <<closed, done, stopPanicked>>

\* When Save fails the channel is closed and the orchestrator is still running.
StopOrchestrator ==
  /\ ~stopPanicked /\ running
  /\ stopCh \notin closed
  /\ closed' = closed \cup {stopCh}
  /\ \/ running' = FALSE /\ UNCHANGED failedCalls
     \/ failedCalls' = failedCalls \cup {"save"} /\ UNCHANGED running
  /\ UNCHANGED <<stopCh, done, loops, stopPanicked>>

\* Closing a channel twice.
StopPanics ==
  /\ ~stopPanicked /\ running
  /\ stopCh \in closed
  /\ stopPanicked' = TRUE
  /\ UNCHANGED <<running, stopCh, closed, done, loops, failedCalls>>

Cancel(c) ==
  /\ ~stopPanicked /\ c \notin done
  /\ done' = done \cup {c}
  /\ UNCHANGED <<running, stopCh, closed, loops, stopPanicked, failedCalls>>

-----------------------------------------------------------------------------
(* The loops.  When the ticker and an end are both ready, select takes     *)
(* either.                                                                 *)

\* The pass that follows a tick changes nothing here.
SchedulerEnds(i) ==
  /\ ~stopPanicked /\ loops[i].scheduler = "waiting"
  /\ loops[i].ctx \in done
  /\ loops' = [loops EXCEPT ![i].scheduler = "ended"]
  /\ UNCHANGED <<running, stopCh, closed, done, stopPanicked, failedCalls>>

MonitorGoes(i, from, to) ==
  /\ ~stopPanicked /\ loops[i].monitor = from
  /\ loops' = [loops EXCEPT ![i].monitor = to,
                            ![i].asked = IF from = "busy" THEN stopCh ELSE @]
  /\ UNCHANGED <<running, stopCh, closed, done, stopPanicked, failedCalls>>

\* The monitor is busy from a tick on, with syncState, until select evaluates
\* o.stopCh, and so it is when it begins.
MonitorTick(i) == MonitorGoes(i, "waiting", "busy")
MonitorAsks(i) == MonitorGoes(i, "busy", "waiting")

\* Mutant: the monitor does not look at its context.
MonitorDeaf(i) == loops[i].asked \in closed /\ MonitorGoes(i, "waiting", "ended")

MonitorEnds(i) ==
  /\ loops[i].asked \in closed \/ loops[i].ctx \in done
  /\ MonitorGoes(i, "waiting", "ended")

LifecycleNext ==
  \/ \E c \in Contexts : StartOrchestrator(c) \/ Cancel(c)
  \/ StopOrchestrator \/ StopPanics
  \/ \E i \in Starts :
       SchedulerEnds(i) \/ MonitorTick(i) \/ MonitorAsks(i) \/ MonitorEnds(i)

\* The goroutines go on, and select, which chooses at random, does not ignore an
\* end for ever that is ready each time.  No loop ends twice, so it is enough that
\* ends are not ignored.  Nobody must call anything.
LifecycleFairness ==
  /\ \A i \in Starts : WF_lifecycleVars(MonitorAsks(i))
  /\ SF_lifecycleVars(\E i \in Starts : SchedulerEnds(i) \/ MonitorEnds(i))

LifecycleSpec ==
  LifecycleInit /\ [][LifecycleNext]_lifecycleVars /\ LifecycleFairness

-----------------------------------------------------------------------------
(* Properties.                                                             *)

\* Stop panics only when an earlier Stop could not save.
PanicNeedsFailedSave == stopPanicked => "save" \in failedCalls

MonitorLives(i) == loops[i].monitor # "ended"
Cancelled(i) == loops[i].ctx \in done
BothEnded(i) == loops[i].scheduler = "ended" /\ ~MonitorLives(i)

\* As long as no Load or Save has failed, Stop can be called at any time, any
\* number of times, between any calls of Start, and ends the monitor, unless a Start
\* comes first.  The end of a context ends both loops that have it, whatever failed.
StopsCleanly ==
  /\ []PanicNeedsFailedSave
  /\ \A i \in Starts :
       /\ (MonitorLives(i) /\ ~running)
            ~> (~MonitorLives(i) \/ running \/ failedCalls # {})
       /\ Cancelled(i) ~> (BothEnded(i) \/ stopPanicked)
=============================================================================
