--------------------------- MODULE TaskLifecycle ---------------------------
(***************************************************************************)
(* What the orchestrator promises about a task, seen from outside: an      *)
(* accepted task waits until the tasks it needs are completed, is then     *)
(* ready, is handed to one executor at a time, and ends once, completed or *)
(* failed.  The module Orchestrator is shown to implement this.            *)
(***************************************************************************)
EXTENDS Naturals

CONSTANT Tasks

VARIABLES phase,   \* task -> where it is in its life
          needs    \* task -> the tasks it depends on, once it is accepted

vars == <<phase, needs>>

Phases == {"unknown", "waiting", "ready", "active", "completed", "failed"}

Init ==
  /\ phase = [t \in Tasks |-> "unknown"]
  /\ needs = [t \in Tasks |-> {}]

Done(S) == \A d \in S : phase[d] = "completed"

Becomes(T, p) == phase' = [t \in Tasks |-> IF t \in T THEN p ELSE phase[t]]

\* A new task with the dependencies N.
Accept(t, N) ==
  /\ phase[t] = "unknown"
  /\ needs' = [needs EXCEPT ![t] = N]
  /\ Becomes({t}, IF Done(N) THEN "ready" ELSE "waiting")

Dispatch(t) ==
  /\ phase[t] = "ready"
  /\ Becomes({t}, "active")
  /\ UNCHANGED needs

\* The result was refused and the task goes back.
Retry(t) ==
  /\ phase[t] = "active"
  /\ Becomes({t}, "ready")
  /\ UNCHANGED needs

\* The tasks R need nothing else any more.
Finish(t, R) ==
  /\ phase[t] = "active"
  /\ \A r \in R : phase[r] = "waiting" /\ Done(needs[r] \ {t})
  /\ phase' = [u \in Tasks |-> IF u = t THEN "completed"
                               ELSE IF u \in R THEN "ready" ELSE phase[u]]
  /\ UNCHANGED needs

Fail(t) ==
  /\ phase[t] = "active"
  /\ Becomes({t}, "failed")
  /\ UNCHANGED needs

\* Tasks that were not started fail with one they need; a task may be caught
\* by this before its submission is over.
Doom(D) ==
  /\ D # {}
  /\ \A t \in D : phase[t] \in {"unknown", "waiting"}
  /\ Becomes(D, "failed")
  /\ needs' \in [Tasks -> SUBSET Tasks]
  /\ \A t \in Tasks : t \notin D \/ phase[t] = "waiting" => needs'[t] = needs[t]
  /\ \A t \in D : \E d \in needs'[t] : phase[d] = "failed"

Next ==
  \/ \E t \in Tasks :
       \/ \E N \in SUBSET Tasks : Accept(t, N)
       \/ Dispatch(t)
       \/ Retry(t)
       \/ \E R \in SUBSET Tasks : Finish(t, R)
       \/ Fail(t)
  \/ \E D \in SUBSET Tasks : Doom(D)

Spec == Init /\ [][Next]_vars

=============================================================================
