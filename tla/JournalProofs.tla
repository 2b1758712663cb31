--------------------------- MODULE JournalProofs ---------------------------
(***************************************************************************)
(* Machine-checked proofs about Journal, for every set of step names, every*)
(* handler map and every bound: type correctness, the three safety         *)
(* invariants, the order of RollbackAll, and that Journal implements       *)
(* StepLog step by step.                                                   *)
(***************************************************************************)
EXTENDS Journal, TLAPS

(***************************************************************************)
(* Lemmas about the operators of JournalRecord.                            *)
(***************************************************************************)

\* What updating one field of a two-field record yields.
LEMMA FieldUpdate ==
  ASSUME NEW P, NEW S, NEW r \in [paused : P, steps : S], NEW p, NEW s
  PROVE  /\ [r EXCEPT !.paused = p] = [paused |-> p, steps |-> r.steps]
         /\ [r EXCEPT !.steps = s] = [paused |-> r.paused, steps |-> s]
OBVIOUS

\* The journal NewJournal creates is well typed and empty.
LEMMA FreshType == Fresh \in JournalType /\ Len(Fresh.steps) = 0 /\ DOMAIN Fresh.steps = {}
BY DEF Fresh, JournalType, StepType

\* The domain of a journal's steps is 1..Len, and each element is a step.
LEMMA StepsOf ==
  ASSUME NEW j \in JournalType
  PROVE  /\ j.steps \in Seq(StepType) /\ j.paused \in BOOLEAN
         /\ Len(j.steps) \in Nat
         /\ DOMAIN j.steps = 1 .. Len(j.steps)
         /\ \A i \in DOMAIN j.steps : j.steps[i] \in StepType
BY DEF JournalType

\* Begin's append adds one running step and leaves the others alone.
LEMMA WithStepProperties ==
  ASSUME NEW j \in JournalType, NEW name \in Names
  PROVE  LET r == WithStep(j, [name |-> name, status |-> "running"]) IN
         /\ r \in JournalType
         /\ Len(r.steps) = Len(j.steps) + 1
         /\ \A i \in DOMAIN j.steps : i \in DOMAIN r.steps /\ r.steps[i] = j.steps[i]
         /\ Len(j.steps) + 1 \in DOMAIN r.steps
         /\ r.steps[Len(j.steps) + 1].status = "running"
<1> DEFINE s == [name |-> name, status |-> "running"]
<1>1. s \in StepType
  BY DEF StepType, Status
<1>2. WithStep(j, s) = [paused |-> j.paused, steps |-> Append(j.steps, s)]
  BY DEF WithStep, JournalType
<1>3. /\ Append(j.steps, s) \in Seq(StepType)
      /\ Len(Append(j.steps, s)) = Len(j.steps) + 1
      /\ \A i \in 1 .. Len(j.steps) : Append(j.steps, s)[i] = j.steps[i]
      /\ Append(j.steps, s)[Len(j.steps) + 1] = s
  BY <1>1, StepsOf
<1>4. s.status = "running"
  OBVIOUS
<1> HIDE DEF s
<1>5. WithStep(j, s) \in JournalType
  BY <1>2, <1>3, StepsOf DEF JournalType
<1>6. DOMAIN Append(j.steps, s) = 1 .. Len(j.steps) + 1
  BY <1>3
<1>7. QED
  BY <1>2, <1>3, <1>4, <1>5, <1>6, StepsOf DEF s

\* Overwriting one status keeps everything else of the journal.
LEMMA WithStatusProperties ==
  ASSUME NEW j \in JournalType, NEW i \in DOMAIN j.steps, NEW st \in Status
  PROVE  LET r == WithStatus(j, i, st) IN
         /\ r \in JournalType
         /\ r.paused = j.paused
         /\ Len(r.steps) = Len(j.steps) /\ DOMAIN r.steps = DOMAIN j.steps
         /\ r.steps[i].status = st
         /\ \A k \in DOMAIN j.steps : k # i => r.steps[k] = j.steps[k]
<1> DEFINE s == [j.steps EXCEPT ![i] = [name |-> j.steps[i].name, status |-> st]]
<1>1. j.steps[i] \in StepType
  BY StepsOf
<1>2. [j.steps[i] EXCEPT !.status = st] = [name |-> j.steps[i].name, status |-> st]
  BY <1>1 DEF StepType
<1>3. [name |-> j.steps[i].name, status |-> st] \in StepType
  BY <1>1 DEF StepType
<1>4. WithStatus(j, i, st) = [paused |-> j.paused, steps |-> s]
  <2>1. WithStatus(j, i, st)
          = [j EXCEPT !.steps =
               [j.steps EXCEPT ![i] = [j.steps[i] EXCEPT !.status = st]]]
    BY DEF WithStatus
  <2>2. [j.steps EXCEPT ![i] = [j.steps[i] EXCEPT !.status = st]] = s
    BY <1>2
  <2> HIDE DEF s
  <2>3. WithStatus(j, i, st) = [j EXCEPT !.steps = s]
    BY ONLY <2>1, <2>2
  <2>4. QED
    BY ONLY <2>3, j \in JournalType DEF JournalType
<1>5. /\ s \in Seq(StepType) /\ Len(s) = Len(j.steps) /\ DOMAIN s = DOMAIN j.steps
      /\ s[i] = [name |-> j.steps[i].name, status |-> st]
      /\ \A k \in DOMAIN j.steps : k # i => s[k] = j.steps[k]
  BY <1>3, StepsOf
<1> HIDE DEF s
<1>6. WithStatus(j, i, st) \in JournalType
  BY <1>4, <1>5, StepsOf DEF JournalType
<1>7. QED
  BY <1>4, <1>5, <1>6

\* Changing the session's flag keeps a journal a journal, with its steps.
LEMMA FlagUpdate ==
  ASSUME NEW j \in JournalType, NEW p \in BOOLEAN
  PROVE  [j EXCEPT !.paused = p] \in JournalType /\ [j EXCEPT !.paused = p].steps = j.steps
BY FieldUpdate DEF JournalType

\* Pause is a status change that also raises the flag.
LEMMA WithPauseProperties ==
  ASSUME NEW j \in JournalType, NEW i \in DOMAIN j.steps
  PROVE  LET r == WithPause(j, i) IN
         /\ r \in JournalType
         /\ r.steps = WithStatus(j, i, "paused").steps
<1>1. WithStatus(j, i, "paused") \in JournalType
  BY WithStatusProperties DEF Status
<1>2. QED
  BY <1>1, FlagUpdate DEF WithPause

-----------------------------------------------------------------------------
(***************************************************************************)
(* The inductive invariant.  The three safety invariants speak about the   *)
(* file only; to be preserved by the flushes they need the same facts      *)
(* about the object in memory, and the link between RollbackAll's index    *)
(* and the steps it has visited.                                           *)
(***************************************************************************)

\* Without an object nothing is held and no rollback runs.
Closed == ~loaded => held = {} /\ pos = Idle /\ mem = Fresh

\* Open and owed steps exist in the file and in the object.
Present ==
  \A i \in open \cup owed :
    /\ onDisk /\ i \in DOMAIN disk.steps
    /\ loaded => i \in DOMAIN mem.steps

\* Open steps are unfinished in the file and in the object.
Unfinished ==
  \A i \in open :
    /\ disk.steps[i].status \in {"running", "paused"}
    /\ loaded => mem.steps[i].status \in {"running", "paused"}

\* Owed steps are rolled back neither in the file nor in the object.
NotUndone ==
  \A i \in owed :
    /\ disk.steps[i].status # "rolled_back"
    /\ loaded => mem.steps[i].status # "rolled_back"

\* A rollback that has come down to pos has visited everything above it, and
\* its caller holds no step any more.
VisitedAbove ==
  pos # Idle => loaded /\ held = {} /\ pos <= Len(mem.steps) /\ tried = pos + 1 .. Len(mem.steps)

IInv ==
  /\ TypeOK /\ Closed /\ held \subseteq open
  /\ Present /\ Unfinished /\ NotUndone /\ VisitedAbove

-----------------------------------------------------------------------------
(* One lemma per group of actions: the step preserves IInv.                 *)

\* The idle value of the rollback index is a legal index value.
LEMMA IdleType == Idle \in 0 .. Idle /\ 0 <= MaxSteps /\ Idle # 0
BY MaxStepsAssumption DEF Idle

LEMMA InitEstablishes == Init => IInv
<1> SUFFICES ASSUME Init PROVE IInv
  OBVIOUS
<1>1. mem \in JournalType /\ disk \in JournalType
      /\ Len(mem.steps) <= MaxSteps /\ Len(disk.steps) <= MaxSteps
  BY FreshType, IdleType DEF Init
<1>2. 0 \in 0 .. MaxPurges
  BY MaxPurgesAssumption
<1>3. TypeOK
  BY <1>1, <1>2, IdleType DEF Init, TypeOK
<1>4. QED
  BY <1>3 DEF Init, IInv, Closed, Present, Unfinished, NotUndone, VisitedAbove

\* Opening an object: what is in the file is now also in memory.
LEMMA OpenPreserves == IInv /\ (NewJournal \/ LoadJournal) => IInv'
<1>1. ASSUME IInv, NewJournal PROVE IInv'
  <2>1. open = {} /\ owed = {}
    BY <1>1 DEF IInv, Present, NewJournal
  <2>2. TypeOK'
    BY <1>1, FreshType, MaxStepsAssumption DEF IInv, TypeOK, NewJournal, Flush
  <2>3. QED
    BY <1>1, <2>1, <2>2
       DEF IInv, NewJournal, Flush, Closed, Present, Unfinished, NotUndone,
           VisitedAbove
<1>2. ASSUME IInv, LoadJournal PROVE IInv'
  BY <1>2 DEF IInv, TypeOK, LoadJournal, Closed, Present, Unfinished, NotUndone,
              VisitedAbove
<1>3. QED
  BY <1>1, <1>2

\* Closing it: only the file remains, and it is untouched.
LEMMA CrashPreserves == IInv /\ Crash => IInv'
<1> SUFFICES ASSUME IInv, Crash PROVE IInv'
  OBVIOUS
<1>1. TypeOK'
  BY FreshType, IdleType DEF IInv, TypeOK, Crash
<1>2. QED
  BY <1>1 DEF IInv, Crash, Closed, Present, Unfinished, NotUndone, VisitedAbove

\* The session's flag plays no part in the invariant.
LEMMA SessionPreserves == IInv /\ SetSessionState => IInv'
<1> SUFFICES ASSUME IInv, SetSessionState PROVE IInv'
  OBVIOUS
<1>1. mem' \in JournalType /\ mem'.steps = mem.steps
  BY FlagUpdate DEF IInv, TypeOK, SetSessionState
<1>2. \/ onDisk' = TRUE /\ disk' = mem'
      \/ onDisk' = onDisk /\ disk' = disk
  BY DEF SetSessionState, Flush
<1>3. TypeOK'
  BY <1>1, <1>2 DEF IInv, TypeOK, SetSessionState
<1>4. /\ loaded' = loaded /\ pos' = pos /\ held' = held /\ loaded /\ pos = Idle
      /\ open' = open /\ owed' = owed /\ tried' = tried
  BY DEF SetSessionState, Ready
<1>5. Present' /\ Unfinished' /\ NotUndone'
  BY <1>1, <1>2, <1>4 DEF IInv, Present, Unfinished, NotUndone
<1>6. QED
  BY <1>3, <1>4, <1>5 DEF IInv, Closed, VisitedAbove

\* Begin adds a position that was neither open nor owed.
LEMMA BeginPreserves == ASSUME IInv, NEW name \in Names, Begin(name) PROVE IInv'
<1> DEFINE n == Len(mem.steps) + 1
<1>1. /\ mem' \in JournalType /\ Len(mem'.steps) = n
      /\ \A i \in DOMAIN mem.steps :
           i \in DOMAIN mem'.steps /\ mem'.steps[i] = mem.steps[i]
      /\ n \in DOMAIN mem'.steps /\ mem'.steps[n].status = "running"
  BY WithStepProperties DEF IInv, TypeOK, Begin
<1>2. n \in Positions /\ n <= MaxSteps /\ n \notin DOMAIN mem.steps
  BY StepsOf, MaxStepsAssumption DEF IInv, TypeOK, Begin, Positions
<1>3. loaded /\ n \notin open /\ n \notin owed
  BY <1>2 DEF IInv, Present, Begin, Ready
<1>4. \/ onDisk' = TRUE /\ disk' = mem' /\ held' = held \cup {n} /\ open' = open \cup {n}
      \/ onDisk' = onDisk /\ disk' = disk /\ held' = held /\ open' = open
  BY DEF Begin, Flush
<1>5. /\ loaded' /\ pos' = Idle /\ tried' = tried /\ owed' = owed /\ purges' = purges
      /\ pos = Idle
  BY DEF Begin, Ready
<1> HIDE DEF n
<1>6. TypeOK'
  BY <1>1, <1>2, <1>3, <1>4, <1>5 DEF IInv, TypeOK
<1>7. Present'
  BY <1>1, <1>3, <1>4, <1>5 DEF IInv, Present
<1>8. Unfinished'
  BY <1>1, <1>3, <1>4, <1>5 DEF IInv, Present, Unfinished
<1>9. NotUndone'
  BY <1>1, <1>3, <1>4, <1>5 DEF IInv, Present, NotUndone
<1>10. QED
  BY <1>4, <1>5, <1>6, <1>7, <1>8, <1>9 DEF IInv, Closed, VisitedAbove

\* Work is done under a step that is open, hence present and unfinished.
LEMMA WorkPreserves == ASSUME IInv, NEW i \in Positions, Work(i) PROVE IInv'
BY DEF IInv, TypeOK, Work, Ready, Closed, Present, Unfinished, NotUndone,
       VisitedAbove

\* Any report on a held step: one status changes, to something not rolled back.
LEMMA ReportPreserves ==
  ASSUME IInv, NEW i \in held, loaded, pos = Idle, NEW st \in {"paused", "committed", "failed"},
         mem' \in JournalType, mem'.steps = WithStatus(mem, i, st).steps,
         \E ok \in BOOLEAN : Flush(ok),
         held' = held \ {i},
         open' = (IF st = "paused" THEN open ELSE open \ {i}),
         UNCHANGED <<loaded, pos, tried, owed, purges>>
  PROVE  IInv'
<1>1. i \in open /\ i \in DOMAIN mem.steps
  BY DEF IInv, Present
<1>2. /\ Len(mem'.steps) = Len(mem.steps) /\ DOMAIN mem'.steps = DOMAIN mem.steps
      /\ mem'.steps[i].status = st
      /\ \A k \in DOMAIN mem.steps : k # i => mem'.steps[k] = mem.steps[k]
  BY <1>1, WithStatusProperties DEF IInv, TypeOK, Status
<1>3. \/ onDisk' = TRUE /\ disk' = mem'
      \/ onDisk' = onDisk /\ disk' = disk
  BY DEF Flush
<1>4. TypeOK'
  BY <1>2, <1>3 DEF IInv, TypeOK
<1>5. Present'
  BY <1>2, <1>3 DEF IInv, Present
<1>6. Unfinished'
  BY <1>1, <1>2, <1>3 DEF IInv, Present, Unfinished
<1>7. NotUndone'
  BY <1>1, <1>2, <1>3 DEF IInv, Present, NotUndone
<1>8. QED
  BY <1>4, <1>5, <1>6, <1>7 DEF IInv, Closed, VisitedAbove

LEMMA PausePreserves == ASSUME IInv, NEW i \in Positions, Pause(i) PROVE IInv'
<1>1. i \in held /\ i \in DOMAIN mem.steps
  BY DEF IInv, Present, Pause, Ready
<1>2. mem' \in JournalType /\ mem'.steps = WithStatus(mem, i, "paused").steps
  BY <1>1, WithPauseProperties DEF IInv, TypeOK, Pause
<1>3. QED
  BY <1>1, <1>2, ReportPreserves DEF Pause, Ready

LEMMA CommitPreserves == ASSUME IInv, NEW i \in Positions, Commit(i) PROVE IInv'
<1>1. i \in held /\ i \in DOMAIN mem.steps
  BY DEF IInv, Present, Commit, Ready
<1>2. mem' \in JournalType /\ mem'.steps = WithStatus(mem, i, "committed").steps
  BY <1>1, WithStatusProperties DEF IInv, TypeOK, Commit, Status
<1>3. QED
  BY <1>1, <1>2, ReportPreserves DEF Commit, Ready

LEMMA FailPreserves == ASSUME IInv, NEW i \in Positions, Fail(i) PROVE IInv'
<1>1. i \in held /\ i \in DOMAIN mem.steps
  BY DEF IInv, Present, Fail, Ready
<1>2. mem' \in JournalType /\ mem'.steps = WithStatus(mem, i, "failed").steps
  BY <1>1, WithStatusProperties DEF IInv, TypeOK, Fail, Status
<1>3. QED
  BY <1>1, <1>2, ReportPreserves DEF Fail, Ready

\* Entering RollbackAll: nothing visited, nothing above the last step.
LEMMA RollbackStartPreserves == IInv /\ RollbackStart => IInv'
<1> SUFFICES ASSUME IInv, RollbackStart PROVE IInv'
  OBVIOUS
<1>1. Len(mem.steps) \in 0 .. Idle
  BY StepsOf, MaxStepsAssumption DEF IInv, TypeOK, Idle
<1>2. TypeOK'
  BY <1>1 DEF IInv, TypeOK, RollbackStart
<1>3. VisitedAbove'
  BY <1>1 DEF VisitedAbove, RollbackStart, Ready
<1>4. QED
  BY <1>2, <1>3
     DEF IInv, RollbackStart, Ready, Closed, Present, Unfinished, NotUndone

\* One visit moves the index down by one and marks the position it leaves.
LEMMA VisitProperties ==
  ASSUME IInv, Visit(pos), mem' \in JournalType, Len(mem'.steps) = Len(mem.steps)
  PROVE  /\ pos \in DOMAIN mem.steps /\ pos \in Positions
         /\ pos' \in 0 .. Idle /\ tried' \subseteq Positions
         /\ VisitedAbove' /\ Closed'
<1>1. pos \in 1 .. MaxSteps /\ pos # Idle /\ loaded
  BY MaxStepsAssumption DEF Visit, Rolling, Idle
<1>2. pos <= Len(mem.steps) /\ tried = pos + 1 .. Len(mem.steps)
  BY <1>1 DEF IInv, VisitedAbove
<1>3. pos \in DOMAIN mem.steps /\ pos \in Positions
  BY <1>1, <1>2, StepsOf DEF IInv, TypeOK, Positions
<1>4. pos' \in 0 .. Idle /\ tried' \subseteq Positions
  BY <1>1, <1>3, MaxStepsAssumption DEF IInv, TypeOK, Visit, Idle
<1>5. tried' = pos' + 1 .. Len(mem'.steps)
  BY <1>1, <1>2, StepsOf, MaxStepsAssumption DEF IInv, TypeOK, Visit
<1>6. QED
  BY <1>1, <1>2, <1>3, <1>4, <1>5, StepsOf DEF IInv, TypeOK, VisitedAbove, Closed, Visit

\* A visit that undoes nothing.
LEMMA RollbackKeepPreserves == IInv /\ (RollbackSkip \/ RollbackHandlerFails) => IInv'
<1> SUFFICES ASSUME IInv, RollbackSkip \/ RollbackHandlerFails PROVE IInv'
  OBVIOUS
<1>1. Visit(pos) /\ mem' = mem /\ open' = open /\ owed' = owed
  BY DEF RollbackSkip, RollbackHandlerFails, NextBackward
<1>2. /\ pos' \in 0 .. Idle /\ tried' \subseteq Positions
      /\ VisitedAbove' /\ Closed'
  BY <1>1, VisitProperties DEF IInv, TypeOK
<1>3. TypeOK'
  BY <1>1, <1>2 DEF IInv, TypeOK, Visit
<1>4. QED
  BY <1>1, <1>2, <1>3 DEF IInv, Visit, Present, Unfinished, NotUndone

\* A visit that undoes the step: it is neither open nor owed afterwards.
LEMMA RollbackUndoPreserves == IInv /\ RollbackUndo => IInv'
<1> SUFFICES ASSUME IInv, RollbackUndo PROVE IInv'
  OBVIOUS
<1>1. /\ Visit(pos) /\ mem' = WithStatus(mem, pos, "rolled_back")
      /\ owed' = owed \ {pos} /\ open' = open \ {pos}
  BY DEF RollbackUndo, NextBackward
<1>2. pos \in DOMAIN mem.steps /\ held = {}
  <2>1. pos \in 1 .. MaxSteps /\ pos # Idle
    BY <1>1, MaxStepsAssumption DEF Visit, Rolling, Idle
  <2>2. QED
    BY <2>1, StepsOf DEF IInv, TypeOK, VisitedAbove
<1>3. /\ mem' \in JournalType
      /\ Len(mem'.steps) = Len(mem.steps) /\ DOMAIN mem'.steps = DOMAIN mem.steps
      /\ \A k \in DOMAIN mem.steps : k # pos => mem'.steps[k] = mem.steps[k]
  BY <1>1, <1>2, WithStatusProperties DEF IInv, TypeOK, Status
<1>4. /\ pos' \in 0 .. Idle /\ tried' \subseteq Positions
      /\ VisitedAbove' /\ Closed'
  BY <1>1, <1>3, VisitProperties
<1>5. TypeOK'
  BY <1>1, <1>3, <1>4 DEF IInv, TypeOK, Visit
<1>6. QED
  BY <1>1, <1>2, <1>3, <1>4, <1>5 DEF IInv, Visit, Present, Unfinished, NotUndone

\* The flush at the end makes the file equal to the object, or leaves it.
LEMMA RollbackEndPreserves == IInv /\ RollbackEnd => IInv'
<1> SUFFICES ASSUME IInv, RollbackEnd PROVE IInv'
  OBVIOUS
<1>1. \/ onDisk' = TRUE /\ disk' = mem
      \/ onDisk' = onDisk /\ disk' = disk
  BY DEF RollbackEnd
<1>2. TypeOK'
  BY <1>1, FreshType, IdleType DEF IInv, TypeOK, RollbackEnd
<1>3. QED
  BY <1>1, <1>2
     DEF IInv, RollbackEnd, Closed, Present, Unfinished, NotUndone, VisitedAbove

\* Finalize goes through only when nothing is open.
LEMMA FinalizeNeedsQuiet == IInv /\ Finalize => open = {}
BY DEF IInv, Present, Unfinished, Finalize, Ready, HasIncompleteSteps, InFlight

LEMMA FinalizePreserves == IInv /\ Finalize => IInv'
<1> SUFFICES ASSUME IInv, Finalize PROVE IInv'
  OBVIOUS
<1>1. open = {} /\ open' = open
  BY FinalizeNeedsQuiet DEF Finalize
<1>2. \/ onDisk' = FALSE /\ disk' = Fresh /\ owed' = {}
      \/ onDisk' = onDisk /\ disk' = disk /\ owed' = owed
  BY DEF Finalize, Remove
<1>3. TypeOK'
  BY <1>1, <1>2, FreshType, IdleType DEF IInv, TypeOK, Finalize
<1>4. QED
  BY <1>1, <1>2, <1>3
     DEF IInv, Finalize, Ready, Closed, Present, Unfinished, NotUndone, VisitedAbove

LEMMA PurgePreserves == IInv /\ PurgeForce => IInv'
<1> SUFFICES ASSUME IInv, PurgeForce PROVE IInv'
  OBVIOUS
<1>1. \/ onDisk' = FALSE /\ disk' = Fresh
      \/ onDisk' = onDisk /\ disk' = disk
  BY DEF PurgeForce, Remove
<1>2. purges + 1 \in 0 .. MaxPurges
  BY MaxPurgesAssumption DEF IInv, TypeOK, PurgeForce
<1>3. TypeOK'
  BY <1>1, <1>2, FreshType, IdleType DEF IInv, TypeOK, PurgeForce
<1>4. QED
  BY <1>1, <1>3
     DEF IInv, PurgeForce, Ready, Closed, Present, Unfinished, NotUndone, VisitedAbove

-----------------------------------------------------------------------------
\* The invariant holds in every reachable state.
LEMMA NextPreserves == IInv /\ [Next]_vars => IInv'
<1> SUFFICES ASSUME IInv, [Next]_vars PROVE IInv'
  OBVIOUS
<1>1. CASE NewJournal \/ LoadJournal
  BY <1>1, OpenPreserves
<1>2. CASE Crash
  BY <1>2, CrashPreserves
<1>3. CASE SetSessionState
  BY <1>3, SessionPreserves
<1>4. CASE \E name \in Names : Begin(name)
  BY <1>4, BeginPreserves
<1>5. CASE \E i \in Positions : Work(i) \/ Pause(i) \/ Commit(i) \/ Fail(i)
  BY <1>5, WorkPreserves, PausePreserves, CommitPreserves, FailPreserves
<1>6. CASE Rollback
  BY <1>6, RollbackStartPreserves, RollbackKeepPreserves, RollbackUndoPreserves,
     RollbackEndPreserves DEF Rollback
<1>7. CASE Finalize \/ PurgeForce
  BY <1>7, FinalizePreserves, PurgePreserves
<1>8. CASE UNCHANGED vars
  BY <1>8 DEF vars, IInv, TypeOK, Closed, Present, Unfinished, NotUndone, VisitedAbove
<1>9. QED
  BY <1>1, <1>2, <1>3, <1>4, <1>5, <1>6, <1>7, <1>8 DEF Next

LEMMA Invariance == Spec => []IInv
BY InitEstablishes, NextPreserves, PTL DEF Spec

\* Every variable keeps its type: in particular no journal outgrows MaxSteps.
THEOREM TypeCorrect == Spec => []TypeOK
BY Invariance, PTL DEF IInv

\* Work in force is always recorded in the file.
THEOREM WorkStaysRecorded == Spec => []WorkIsRecorded
<1>1. IInv => WorkIsRecorded
  BY DEF IInv, Present, WorkIsRecorded
<1>2. QED
  BY <1>1, Invariance, PTL

\* Interrupted work is always found again by the next process.
THEOREM InterruptedWorkStaysFound == Spec => []InterruptedWorkIsFound
<1>1. IInv => InterruptedWorkIsFound
  BY DEF IInv, Present, Unfinished, InterruptedWorkIsFound
<1>2. QED
  BY <1>1, Invariance, PTL

\* "rolled_back" is never claimed of work that is in force.
THEOREM RolledBackStaysTrue == Spec => []RolledBackIsUndone
<1>1. IInv => RolledBackIsUndone
  <2> SUFFICES ASSUME IInv, NEW i \in owed
               PROVE  /\ i \in DOMAIN mem.steps => mem.steps[i].status # "rolled_back"
                      /\ i \in DOMAIN disk.steps => disk.steps[i].status # "rolled_back"
    BY DEF RolledBackIsUndone
  <2>1. CASE loaded
    BY <2>1 DEF IInv, NotUndone
  <2>2. CASE ~loaded
    BY <2>2, FreshType DEF IInv, NotUndone, Closed
  <2>3. QED
    BY <2>1, <2>2 DEF IInv, TypeOK
<1>2. QED
  BY <1>1, Invariance, PTL

-----------------------------------------------------------------------------
\* RollbackAll undoes in reverse order of the steps, whatever handlers fail.
THEOREM UndoIsNewestFirst == Spec => NewestFirst
<1>1. ASSUME IInv, [Next]_vars PROVE [UndoneInTurn]_vars
  <2> SUFFICES ASSUME pos # Idle, Next,
                      NEW i \in owed \ owed', NEW k \in owed, k > i
               PROVE  k \in tried
    BY <1>1 DEF UndoneInTurn
  <2>1. loaded /\ ~Ready
    BY <1>1 DEF IInv, VisitedAbove, Ready
  <2>2. RollbackUndo
    BY <2>1
       DEF Next, Rollback, NewJournal, LoadJournal, Crash, SetSessionState, Begin,
           Work, Pause, Commit, Fail, RollbackStart, RollbackSkip,
           RollbackHandlerFails, RollbackEnd, Finalize, PurgeForce
  <2>3. i = pos
    BY <2>2 DEF RollbackUndo, NextBackward
  <2>4. k \in 1 .. Len(mem.steps) /\ tried = pos + 1 .. Len(mem.steps)
    BY <1>1, <2>1, StepsOf DEF IInv, TypeOK, Present, VisitedAbove
  <2>5. QED
    BY <2>3, <2>4, <1>1 DEF IInv, TypeOK
<1>2. QED
  BY <1>1, Invariance, PTL DEF Spec, NewestFirst

-----------------------------------------------------------------------------
(* Journal implements StepLog.                                              *)

\* The refinement mapping of the record.
LogRecorded == IF onDisk THEN DOMAIN disk.steps ELSE {}

\* The steps of a journal that respects the bound occupy positions.
LEMMA StepsArePositions ==
  ASSUME NEW j \in JournalType, Len(j.steps) <= MaxSteps
  PROVE  DOMAIN j.steps \subseteq Positions
BY StepsOf, MaxStepsAssumption DEF Positions

\* Every step of Journal is a step of StepLog, or leaves its variables alone.
LEMMA StepSimulation == IInv /\ IInv' /\ [Next]_vars => [Log!Next]_(Log!logVars)
<1> SUFFICES ASSUME IInv, IInv', [Next]_vars PROVE [Log!Next]_(Log!logVars)
  OBVIOUS
<1>1. Log!Positions = Positions /\ 1 \in Positions
  BY MaxStepsAssumption DEF Log!Positions, Positions
<1>2. /\ open' \cup owed' \subseteq LogRecorded' /\ LogRecorded' \subseteq Positions
  <2>1. LogRecorded' = IF onDisk' THEN DOMAIN disk'.steps ELSE {}
    BY DEF LogRecorded
  <2>2. open' \cup owed' \subseteq LogRecorded'
    BY <2>1 DEF IInv, Present
  <2>3. DOMAIN disk'.steps \subseteq Positions
    <3>1. disk' \in JournalType /\ Len(disk'.steps) <= MaxSteps
      BY DEF IInv, TypeOK
    <3>2. QED
      BY <3>1, StepsArePositions
  <2>4. QED
    BY <2>1, <2>2, <2>3
<1>3. Log!Rewrite
  BY <1>1, <1>2 DEF Log!Rewrite, LogRecorded
<1>4. ASSUME UNCHANGED <<onDisk, disk, open, owed, purges>> PROVE UNCHANGED Log!logVars
  BY <1>4 DEF Log!logVars
<1>5. ASSUME UNCHANGED <<open, owed, purges>> PROVE Log!Next
  BY <1>1, <1>3, <1>5 DEF Log!Next, Log!Record
<1>6. CASE NewJournal
  BY <1>6, FreshType DEF NewJournal, Flush, Log!logVars
<1>7. CASE LoadJournal \/ Crash
  BY <1>4, <1>7 DEF LoadJournal, Crash
<1>8. CASE SetSessionState
  BY <1>5, <1>8 DEF SetSessionState
<1>9. ASSUME NEW name \in Names, Begin(name) PROVE Log!Next
  <2> DEFINE n == Len(mem.steps) + 1
  <2>1. n \in Positions
    BY <1>9, StepsOf, MaxStepsAssumption DEF IInv, TypeOK, Begin, Positions
  <2>2. open' \in {open, open \cup {n}} /\ UNCHANGED <<owed, purges>>
    BY <1>9 DEF Begin
  <2>3. QED
    BY <1>1, <1>3, <2>1, <2>2 DEF Log!Next, Log!Record
<1>10. ASSUME NEW i \in Positions, Work(i) PROVE Log!Next
  <2>1. Log!Perform(i)
    BY <1>10 DEF IInv, Work, Log!Perform
  <2>2. QED
    BY <1>1, <2>1 DEF Log!Next
<1>11. ASSUME NEW i \in Positions, Pause(i) PROVE Log!Next
  BY <1>5, <1>11 DEF Pause
<1>12. ASSUME NEW i \in Positions, Commit(i) \/ Fail(i) PROVE Log!Next
  <2>1. Log!Report(i)
    BY <1>3, <1>12 DEF Commit, Fail, Log!Report
  <2>2. QED
    BY <1>1, <2>1 DEF Log!Next
<1>13. CASE RollbackStart \/ RollbackSkip \/ RollbackHandlerFails
  BY <1>4, <1>13 DEF RollbackStart, RollbackSkip, RollbackHandlerFails, Visit
<1>14. CASE RollbackUndo
  <2>1. pos \in Positions
    BY <1>14 DEF RollbackUndo, NextBackward, Visit, Rolling, Positions
  <2>2. Log!Undo(pos)
    BY <1>14 DEF RollbackUndo, NextBackward, Visit, Log!Undo
  <2>3. QED
    BY <1>1, <2>1, <2>2 DEF Log!Next
<1>15. CASE RollbackEnd
  BY <1>5, <1>15 DEF RollbackEnd
<1>16. CASE Finalize
  <2>1. open = {} /\ open' = open /\ purges' = purges
    BY <1>16, FinalizeNeedsQuiet DEF Finalize
  <2>2. CASE Remove(TRUE) /\ owed' = {}
    BY <2>1, <2>2 DEF Remove, Log!Next, Log!Settle
  <2>3. CASE Remove(FALSE) /\ owed' = owed
    BY <1>4, <2>1, <2>3 DEF Remove
  <2>4. QED
    BY <1>16, <2>2, <2>3 DEF Finalize
<1>17. CASE PurgeForce
  BY <1>17 DEF PurgeForce, Remove, Log!Next, Log!Abandon
<1>18. CASE UNCHANGED vars
  BY <1>4, <1>18 DEF vars
<1>19. QED
  BY <1>6, <1>7, <1>8, <1>9, <1>10, <1>11, <1>12, <1>13, <1>14, <1>15, <1>16,
     <1>17, <1>18 DEF Next, Rollback

\* The journal is a step log: the abstract promise holds of every behaviour.
THEOREM ImplementsStepLog == Spec => KeepsTheLog
<1>1. Init => Log!Init
  BY FreshType DEF Init, Log!Init
<1>2. QED
  BY <1>1, StepSimulation, Invariance, PTL DEF Spec, KeepsTheLog, Log!Spec

=============================================================================
