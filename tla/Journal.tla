------------------------------ MODULE Journal ------------------------------
(***************************************************************************)
(* safety.Journal as its clients use it: one in-memory object at a time    *)
(* over one file, any legal sequence of calls, file-system errors at every *)
(* write, and the process dying between any two steps - also between two   *)
(* handlers of RollbackAll, which writes the file only once, at its end.   *)
(*                                                                         *)
(* The client is RunProvision (engine/orchestrator.go) and, before it, the *)
(* wizard's startProvisioning: it begins steps, works under them, reports  *)
(* each outcome, and at the end finalizes or rolls everything back.        *)
(***************************************************************************)
EXTENDS JournalRecord

CONSTANTS
  Names,       \* step names
  Handled,     \* names with an entry in the handler map given to RollbackAll
  MaxSteps,    \* bound: steps one journal may hold
  MaxPurges    \* bound: purge orders of the user

ASSUME HandledAssumption == Handled \subseteq Names
ASSUME MaxStepsAssumption == MaxSteps \in Nat \ {0}
ASSUME MaxPurgesAssumption == MaxPurges \in Nat

VARIABLES
  loaded,   \* a Journal object exists in memory
  mem,      \* its value
  onDisk,   \* the journal file exists
  disk,     \* its content
  held,     \* positions of the running steps this process holds a *Step of
  pos,      \* RollbackAll's loop index; Idle when it is not running
  tried,    \* positions RollbackAll has looked at in this call
  open,     \* ghost: steps handed out whose outcome was never reported
  owed,     \* ghost: steps whose work is in force on the machine
  purges    \* ghost: purge orders so far

vars == <<loaded, mem, onDisk, disk, held, pos, tried, open, owed, purges>>

Positions == 1 .. MaxSteps
Idle == MaxSteps + 1

StepType == [name : Names, status : Status]
JournalType == [paused : BOOLEAN, steps : Seq(StepType)]

TypeOK ==
  /\ loaded \in BOOLEAN /\ onDisk \in BOOLEAN
  /\ mem \in JournalType /\ Len(mem.steps) <= MaxSteps
  /\ disk \in JournalType /\ Len(disk.steps) <= MaxSteps
  /\ held \subseteq Positions /\ tried \subseteq Positions
  /\ pos \in 0 .. Idle
  /\ open \subseteq Positions /\ owed \subseteq Positions
  /\ purges \in 0 .. MaxPurges

Init ==
  /\ loaded = FALSE /\ mem = Fresh
  /\ onDisk = FALSE /\ disk = Fresh
  /\ held = {} /\ pos = Idle /\ tried = {}
  /\ open = {} /\ owed = {} /\ purges = 0

-----------------------------------------------------------------------------
(* flushLocked: a synced temporary file renamed over the journal.  It       *)
(* either takes effect as a whole or leaves the old file in place.          *)

Flush(ok) ==
  IF ok THEN onDisk' = TRUE /\ disk' = mem' ELSE UNCHANGED <<onDisk, disk>>

\* os.Remove of the journal file, whose error the callers ignore.
Remove(ok) ==
  IF ok THEN onDisk' = FALSE /\ disk' = Fresh ELSE UNCHANGED <<onDisk, disk>>

Ready == loaded /\ pos = Idle

-----------------------------------------------------------------------------
(* Opening and closing the object.                                          *)

\* NewJournal refuses an existing file; without its first flush there is none.
NewJournal ==
  /\ ~loaded /\ ~onDisk
  /\ loaded' = TRUE /\ mem' = Fresh
  /\ Flush(TRUE)
  /\ UNCHANGED <<held, pos, tried, open, owed, purges>>

LoadJournal ==
  /\ ~loaded /\ onDisk
  /\ loaded' = TRUE /\ mem' = disk
  /\ UNCHANGED <<onDisk, disk, held, pos, tried, open, owed, purges>>

\* The process dies, or the function that owns the object returns.
Crash ==
  /\ loaded
  /\ loaded' = FALSE /\ mem' = Fresh
  /\ held' = {} /\ pos' = Idle /\ tried' = {}
  /\ UNCHANGED <<onDisk, disk, open, owed, purges>>

-----------------------------------------------------------------------------
(* The client's calls.                                                      *)

\* SetSessionState, always called with IsPaused false; its error is ignored.
SetSessionState ==
  /\ Ready
  /\ mem' = [mem EXCEPT !.paused = FALSE]
  /\ \E ok \in BOOLEAN : Flush(ok)
  /\ UNCHANGED <<loaded, held, pos, tried, open, owed, purges>>

\* A Begin that hands the step out before it is durable.
BeginBeforeFlush(name) ==
  /\ Ready /\ Len(mem.steps) < MaxSteps
  /\ mem' = WithStep(mem, [name |-> name, status |-> "running"])
  /\ \E ok \in BOOLEAN : Flush(ok)
  /\ held' = held \cup {Len(mem.steps) + 1}
  /\ open' = open \cup {Len(mem.steps) + 1}
  /\ UNCHANGED <<loaded, pos, tried, owed, purges>>

\* Begin: if the flush fails the step stays in memory but is not handed out.
Begin(name) ==
  /\ Ready /\ Len(mem.steps) < MaxSteps
  /\ mem' = WithStep(mem, [name |-> name, status |-> "running"])
  /\ LET i == Len(mem.steps) + 1 IN
       \/ Flush(TRUE) /\ held' = held \cup {i} /\ open' = open \cup {i}
       \/ Flush(FALSE) /\ UNCHANGED <<held, open>>
  /\ UNCHANGED <<loaded, pos, tried, owed, purges>>

\* The client mutates the machine under a step it holds.
Work(i) ==
  /\ Ready /\ i \in held
  /\ owed' = owed \cup {i}
  /\ UNCHANGED <<loaded, mem, onDisk, disk, held, pos, tried, open, purges>>

\* Pause: the step is paused, still unfinished, and no longer worked on.
Pause(i) ==
  /\ Ready /\ i \in held
  /\ mem' = WithPause(mem, i)
  /\ \E ok \in BOOLEAN : Flush(ok)
  /\ held' = held \ {i}
  /\ UNCHANGED <<loaded, pos, tried, open, owed, purges>>

Commit(i) ==
  /\ Ready /\ i \in held
  /\ mem' = WithStatus(mem, i, "committed")
  /\ \E ok \in BOOLEAN : Flush(ok)
  /\ held' = held \ {i} /\ open' = open \ {i}
  /\ UNCHANGED <<loaded, pos, tried, owed, purges>>

Fail(i) ==
  /\ Ready /\ i \in held
  /\ mem' = WithStatus(mem, i, "failed")
  /\ \E ok \in BOOLEAN : Flush(ok)
  /\ held' = held \ {i} /\ open' = open \ {i}
  /\ UNCHANGED <<loaded, pos, tried, owed, purges>>

-----------------------------------------------------------------------------
(* RollbackAll, one handler per step.                                       *)

\* Its callers make no further call on any step they hold.
RollbackStart ==
  /\ Ready
  /\ pos' = Len(mem.steps) /\ tried' = {} /\ held' = {}
  /\ UNCHANGED <<loaded, mem, onDisk, disk, open, owed, purges>>

\* A loop that visits the steps oldest first.
NextForward == CHOOSE i \in Positions \ tried :
                 \A k \in Positions \ tried : i <= k

\* The step the loop looks at: the newest one not yet visited.
NextBackward == pos

Rolling == loaded /\ pos \in 1 .. MaxSteps

Visit(i) ==
  /\ Rolling
  /\ pos' = pos - 1 /\ tried' = tried \cup {i}
  /\ UNCHANGED <<loaded, onDisk, disk, held, purges>>

\* Not undoable, or no handler registered for the name: the status stays.
RollbackSkip ==
  LET i == NextBackward IN
  /\ Visit(i)
  /\ mem.steps[i].status \notin Undoable \/ mem.steps[i].name \notin Handled
  /\ UNCHANGED <<mem, open, owed>>

\* A rollback loop that marks the step although its handler failed.
RollbackMarksAnyway ==
  LET i == NextBackward IN
  /\ Visit(i)
  /\ mem.steps[i].status \in Undoable /\ mem.steps[i].name \in Handled
  /\ mem' = WithStatus(mem, i, "rolled_back")
  /\ UNCHANGED <<open, owed>>

\* The handler reports an error: the status stays, the loop goes on.
RollbackHandlerFails ==
  LET i == NextBackward IN
  /\ Visit(i)
  /\ mem.steps[i].status \in Undoable /\ mem.steps[i].name \in Handled
  /\ UNCHANGED <<mem, open, owed>>

\* A rollback loop that runs the handlers in the order of the steps.
RollbackOldestFirst ==
  LET i == NextForward IN
  /\ Visit(i)
  /\ i \in DOMAIN mem.steps
  /\ mem.steps[i].status \in Undoable /\ mem.steps[i].name \in Handled
  /\ mem' = WithStatus(mem, i, "rolled_back")
  /\ owed' = owed \ {i} /\ open' = open \ {i}

\* The handler undoes the step's work.
RollbackUndo ==
  LET i == NextBackward IN
  /\ Visit(i)
  /\ mem.steps[i].status \in Undoable /\ mem.steps[i].name \in Handled
  /\ mem' = WithStatus(mem, i, "rolled_back")
  /\ owed' = owed \ {i} /\ open' = open \ {i}

\* One flush after the loop; RollbackAll's callers then drop the object.
RollbackEnd ==
  /\ loaded /\ pos = 0
  /\ \E ok \in BOOLEAN :
       IF ok THEN onDisk' = TRUE /\ disk' = mem ELSE UNCHANGED <<onDisk, disk>>
  /\ loaded' = FALSE /\ mem' = Fresh
  /\ held' = {} /\ pos' = Idle /\ tried' = {}
  /\ UNCHANGED <<open, owed, purges>>

-----------------------------------------------------------------------------
(* The end of a transaction.                                                *)

\* A Finalize without its refusal.
FinalizeAlways ==
  /\ Ready
  /\ loaded' = FALSE /\ mem' = Fresh /\ held' = {}
  /\ Remove(TRUE) /\ owed' = {}
  /\ UNCHANGED <<pos, tried, open, purges>>

\* Finalize refuses while anything is in flight; its callers drop the object.
\* If the file cannot be removed the record, and what it answers for, remain.
Finalize ==
  /\ Ready /\ ~HasIncompleteSteps(mem)
  /\ loaded' = FALSE /\ mem' = Fresh /\ held' = {}
  /\ \/ Remove(TRUE) /\ owed' = {}
     \/ Remove(FALSE) /\ UNCHANGED owed
  /\ UNCHANGED <<pos, tried, open, purges>>

\* PurgeForce, on the user's order: the emptied object stays in use.
PurgeForce ==
  /\ Ready /\ purges < MaxPurges
  /\ mem' = Fresh /\ held' = {}
  /\ \E ok \in BOOLEAN : Remove(ok)
  /\ open' = {} /\ owed' = {} /\ purges' = purges + 1
  /\ UNCHANGED <<loaded, pos, tried>>

-----------------------------------------------------------------------------
Rollback ==
  \/ RollbackStart \/ RollbackSkip \/ RollbackHandlerFails
  \/ RollbackUndo \/ RollbackEnd

Next ==
  \/ NewJournal \/ LoadJournal \/ Crash
  \/ SetSessionState
  \/ \E name \in Names : Begin(name)
  \/ \E i \in Positions : Work(i) \/ Pause(i) \/ Commit(i) \/ Fail(i)
  \/ Rollback
  \/ Finalize \/ PurgeForce

Spec == Init /\ [][Next]_vars

-----------------------------------------------------------------------------
(* Properties.                                                              *)

\* Whatever was done to the machine and neither undone nor settled stands
\* under a step that a new process finds in the file: Begin's "persists
\* immediately" (journal.go:133) survives failing writes and crashes.
WorkIsRecorded ==
  \A i \in owed : onDisk /\ i \in DOMAIN disk.steps

\* A step handed out whose outcome was never reported is found as running or
\* paused by whoever loads the file next, so the wizard offers to resume it.
InterruptedWorkIsFound ==
  \A i \in open :
    /\ onDisk /\ i \in DOMAIN disk.steps
    /\ disk.steps[i].status \in {"running", "paused"}

\* "rolled_back" is the truth, in memory and in the file, also when the
\* process died inside RollbackAll and another one loaded the older file.
RolledBackIsUndone ==
  \A i \in owed :
    /\ i \in DOMAIN mem.steps => mem.steps[i].status # "rolled_back"
    /\ i \in DOMAIN disk.steps => disk.steps[i].status # "rolled_back"

\* RollbackAll undoes a step only when the handler of every later step whose
\* work is still in force has had its turn in the same call (journal.go:194).
UndoneInTurn ==
  pos # Idle =>
    \A i \in owed \ owed' : \A k \in owed : k > i => k \in tried

NewestFirst == [][UndoneInTurn]_vars

\* The journal keeps the promise of StepLog.
Log == INSTANCE StepLog WITH
         recorded <- IF onDisk THEN DOMAIN disk.steps ELSE {},
         orders   <- purges

KeepsTheLog == Log!Spec

=============================================================================
