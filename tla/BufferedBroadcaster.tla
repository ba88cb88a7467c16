------------------------ MODULE BufferedBroadcaster ------------------------
(***************************************************************************)
(* The buffered broadcaster (internal/server/ws/broadcast.go): messages    *)
(* are collected and broadcast when there are enough of them, when a timer *)
(* fires, when a caller asks for it, and when it stops.  A goroutine waits *)
(* for the timer; every flush is under the lock.                           *)
(*                                                                         *)
(* A message is the number of its Add.  Resetting a timer discards a firing*)
(* that was not received yet (Go 1.23 and later).                          *)
(***************************************************************************)
EXTENDS Integers, Sequences

CONSTANTS BufferSize,   \* maxSize
          MaxAdded      \* bound on the messages added

ASSUME BufferAssumption == BufferSize \in Nat \ {0} /\ MaxAdded \in Nat

VARIABLES buffer,       \* messages waiting
          out,          \* messages broadcast so far
          added,        \* number of messages added
          timer,        \* "off", "armed", or "fired" and not received yet
          runner,       \* the goroutine: not started, waiting, about to flush, ...
          stopped       \* bb.ctx is done

bufferVars == <<buffer, out, added, timer, runner, stopped>>

BufferTypeOK ==
  /\ buffer \in Seq(1..MaxAdded) /\ out \in Seq(1..MaxAdded)
  /\ added \in 0..MaxAdded
  /\ timer \in {"off", "armed", "fired"}
  /\ runner \in {"none", "waits", "flushes", "quits", "gone"}
  /\ stopped \in BOOLEAN

BufferInit ==
  /\ buffer = <<>> /\ out = <<>> /\ added = 0
  /\ timer = "off" /\ runner = "none" /\ stopped = FALSE

NewBuffered ==
  /\ runner = "none"
  /\ runner' = "waits" /\ timer' = "armed"
  /\ UNCHANGED <<buffer, out, added, stopped>>

\* flush: with nothing to send it returns before it sets the timer.
FlushAll(waiting) ==
  /\ out' = out \o waiting
  /\ buffer' = <<>>
  /\ timer' = IF waiting = <<>> THEN timer ELSE "armed"

AddBuffered ==
  /\ runner # "none" /\ added < MaxAdded
  /\ added' = added + 1
  /\ LET waiting == Append(buffer, added + 1)
     IN  IF Len(waiting) >= BufferSize THEN FlushAll(waiting)
         ELSE buffer' = waiting /\ UNCHANGED <<out, timer>>
  /\ UNCHANGED <<runner, stopped>>

FlushByCaller ==
  /\ runner # "none"
  /\ FlushAll(buffer)
  /\ UNCHANGED <<added, runner, stopped>>

StopBuffered ==
  /\ runner # "none"
  /\ stopped' = TRUE
  /\ UNCHANGED <<buffer, out, added, timer, runner>>

TimerFires ==
  /\ timer = "armed"
  /\ timer' = "fired"
  /\ UNCHANGED <<buffer, out, added, runner, stopped>>

\* run: the timer's channel is read, and then Flush called.
TakeFiring ==
  /\ runner = "waits" /\ timer = "fired"
  /\ runner' = "flushes" /\ timer' = "off"
  /\ UNCHANGED <<buffer, out, added, stopped>>

\* Mutant: the timer, too, only sends a buffer that is full.
FlushByTimerIfFull ==
  /\ runner = "flushes"
  /\ IF Len(buffer) >= BufferSize THEN FlushAll(buffer)
     ELSE timer' = "armed" /\ UNCHANGED <<buffer, out>>
  /\ runner' = "waits"
  /\ UNCHANGED <<added, stopped>>

FlushByTimer ==
  /\ runner = "flushes"
  /\ FlushAll(buffer)
  /\ runner' = "waits"
  /\ UNCHANGED <<added, stopped>>

LastFlush ==
  /\ runner = "waits" /\ stopped
  /\ FlushAll(buffer)
  /\ runner' = "quits"
  /\ UNCHANGED <<added, stopped>>

Quit ==
  /\ runner = "quits"
  /\ timer' = "off" /\ runner' = "gone"
  /\ UNCHANGED <<buffer, out, added, stopped>>

RunnerStep == TakeFiring \/ FlushByTimer \/ LastFlush \/ Quit

BufferNext == \/ NewBuffered \/ AddBuffered \/ FlushByCaller \/ StopBuffered
              \/ TimerFires \/ RunnerStep

\* Time passes, and the goroutine is scheduled.
BufferFairness == WF_bufferVars(TimerFires) /\ WF_bufferVars(RunnerStep)

BufferSpec == BufferInit /\ [][BufferNext]_bufferVars /\ BufferFairness

-----------------------------------------------------------------------------
(* Properties.                                                             *)

\* What TestNewBufferedBroadcaster says: a message that was added is broadcast
\* once the interval is over.  It is not: a firing that finds the buffer empty
\* leaves the timer off, and nothing but more messages sets it again.
AddedGoesOut == (buffer # <<>> /\ ~stopped) ~> (buffer = <<>> \/ stopped)

\* What does hold, as long as the timer is set or the goroutine is on its way.
AddedGoesOutWhileArmed ==
  (buffer # <<>> /\ ~stopped /\ (timer # "off" \/ runner = "flushes"))
    ~> (buffer = <<>> \/ stopped)
=============================================================================
