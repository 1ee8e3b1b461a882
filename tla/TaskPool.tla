------------------------------- MODULE TaskPool -------------------------------
(***************************************************************************)
(* What carquet's worker pool promises its one client, with no queue, no   *)
(* mutex and no condition variables: tasks are taken in the order they     *)
(* were submitted, each is run once, wait returns when nothing is pending  *)
(* or running, and the pool is gone only after everything has run.         *)
(* WorkerPool is shown to implement this specification.                    *)
(***************************************************************************)
EXTENDS Naturals

CONSTANT MaxTasks   \* bound on the tasks submitted over the pool's life

VARIABLES
  submitted,        \* tasks are 1..submitted, in submission order
  taken,            \* tasks 1..taken have left the queue
  finished,         \* the tasks that have run to completion
  phase             \* the client: "open", "waiting", "closing" or "closed"

vars == <<submitted, taken, finished, phase>>

Init ==
  /\ submitted = 0
  /\ taken = 0
  /\ finished = {}
  /\ phase = "open"

\* A call may add several tasks in one critical section (submit_batch).
Submit ==
  /\ phase = "open"
  /\ submitted' \in submitted..MaxTasks
  /\ UNCHANGED <<taken, finished, phase>>

Take ==
  /\ taken < submitted
  /\ taken' = taken + 1
  /\ UNCHANGED <<submitted, finished, phase>>

Finish ==
  /\ \E t \in (1..taken) \ finished : finished' = finished \union {t}
  /\ UNCHANGED <<submitted, taken, phase>>

BeginWait ==
  /\ phase = "open"
  /\ phase' = "waiting"
  /\ UNCHANGED <<submitted, taken, finished>>

\* parallel_for adds its last task and starts to wait in the same section.
SubmitAndWait ==
  /\ phase = "open"
  /\ submitted' \in submitted..MaxTasks
  /\ phase' = "waiting"
  /\ UNCHANGED <<taken, finished>>

EndWait ==
  /\ phase = "waiting"
  /\ finished = 1..submitted
  /\ phase' = "open"
  /\ UNCHANGED <<submitted, taken, finished>>

Close ==
  /\ phase = "open"
  /\ phase' = "closing"
  /\ UNCHANGED <<submitted, taken, finished>>

Closed ==
  /\ phase = "closing"
  /\ finished = 1..submitted
  /\ phase' = "closed"
  /\ UNCHANGED <<submitted, taken, finished>>

Next ==
  \/ Submit \/ Take \/ Finish \/ BeginWait
  \/ SubmitAndWait \/ EndWait \/ Close \/ Closed

Spec == Init /\ [][Next]_vars

===============================================================================
