--------------------------- MODULE JournalRecord ---------------------------
(***************************************************************************)
(* The value a safety.Journal holds and the pure part of its operations    *)
(* (safety/journal.go).  A journal is the session's pause flag and the     *)
(* sequence of steps; time stamps, error texts and the transaction id do   *)
(* not influence any decision of the code and are left out.                *)
(*                                                                         *)
(* The operators take any record with the fields "paused" and "steps", and *)
(* any step with a field "status", so that Journal.tla and Provision.tla   *)
(* share them although the latter's steps also carry rollback data.        *)
(***************************************************************************)
EXTENDS Naturals, Sequences

\* The declared values of StepStatus ("pending" is never assigned by the code).
Status == {"pending", "running", "paused", "committed", "failed", "rolled_back"}

\* Statuses that hasIncompleteStepsLocked counts as an operation in flight.
InFlight == {"pending", "running", "paused"}

\* Statuses that RollbackAll does not skip.
Undoable == {"committed", "failed", "paused", "running"}

\* A journal created by NewJournal.
Fresh == [paused |-> FALSE, steps |-> << >>]

\* An in-flight test that overlooks running steps.
HasIncompleteStepsNotRunning(j) ==
  \/ j.paused
  \/ \E i \in DOMAIN j.steps : j.steps[i].status \in {"pending", "paused"}

\* hasIncompleteStepsLocked: a paused session or a step in flight.
HasIncompleteSteps(j) ==
  \/ j.paused
  \/ \E i \in DOMAIN j.steps : j.steps[i].status \in InFlight

\* Begin appends the step to the in-memory list.
WithStep(j, step) == [j EXCEPT !.steps = Append(@, step)]

\* Commit, Fail and the rollback loop overwrite one step's status.
WithStatus(j, i, status) == [j EXCEPT !.steps[i].status = status]

\* A Pause with a status the rest of the code does not know.
WithSuspension(j, i) ==
  [WithStatus(j, i, "suspended") EXCEPT !.paused = TRUE]

\* Pause marks the step and raises the session's flag.
WithPause(j, i) == [WithStatus(j, i, "paused") EXCEPT !.paused = TRUE]

=============================================================================
