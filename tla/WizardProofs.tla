---------------------------- MODULE WizardProofs ----------------------------
(***************************************************************************)
(* Machine-checked proofs about Wizard, for any number of commands and any *)
(* capacity of their channels: what the progress screen and the            *)
(* confirmation rest on, who listens where, and what leaves a working      *)
(* command.                                                                *)
(***************************************************************************)
EXTENDS Wizard, FiniteSetTheorems, TLAPS

(***************************************************************************)
(* The inductive invariant.                                                *)
(***************************************************************************)

Statuses == Unfinished \cup Ended \cup {"seen"}

\* A command, with any number of listeners.
JobShape == [kind : Kinds, status : Statuses, todo : 0 .. Cap + 2, sent : 0 .. Cap, ears : Nat]

Shape ==
  /\ screen \in Screens /\ fatal \in BOOLEAN
  /\ mode \in Modes /\ chosen \in BOOLEAN /\ offered \in Modes \cup {"none"}
  /\ advanced \in BOOLEAN /\ override \in BOOLEAN
  /\ jobs \in Seq(JobShape) /\ shown \in 0 .. Len(jobs)

\* Where a system has been selected: on the screens between the selection and
\* the confirmation, and as long as there are commands that lead to them.
Ahead == {"custom", "target", "backup", "format", "storage", "confirm"}
Leading == {"backup", "format", "stage"}

Known ==
  /\ screen \in Ahead => chosen
  /\ \A i \in DOMAIN jobs : jobs[i].kind \in Leading => chosen

WizardInv == Shape /\ Known /\ ProgressIsBacked /\ NewestIsHeard

LEMMA WizardInit == Init => WizardInv
<1> SUFFICES ASSUME Init PROVE WizardInv
  OBVIOUS
<1>1. Shape
  <2>1. << >> \in Seq(JobShape) /\ Len(<< >>) = 0
    OBVIOUS
  <2>2. /\ fatal \in BOOLEAN /\ chosen \in BOOLEAN
        /\ advanced \in BOOLEAN /\ override \in BOOLEAN
    BY DEF Init
  <2>3. jobs \in Seq(JobShape) /\ shown \in 0 .. Len(jobs)
    BY <2>1 DEF Init
  <2>4. QED
    BY <2>2, <2>3, SessionsAssumption DEF Init, Shape, Screens, Modes
<1>2. Known /\ ProgressIsBacked /\ NewestIsHeard
  BY DEF Init, Known, ProgressIsBacked, NewestIsHeard, Ahead
<1>3. QED
  BY <1>1, <1>2 DEF WizardInv

-----------------------------------------------------------------------------
(***************************************************************************)
(* What steps do to the commands.                                          *)
(***************************************************************************)

\* A new command is a command, with a listener where it has a channel.
LEMMA JobHasShape ==
  ASSUME NEW kind \in Kinds
  PROVE  /\ Job(kind) \in JobShape /\ Job(kind).kind = kind
         /\ Job(kind).status \in Unfinished
         /\ kind # "restore" => Job(kind).ears > 0
<1>1. Updates(kind) \in 0 .. Cap + 2
  BY BoundsAssumption DEF Updates
<1>2. QED
  BY <1>1, BoundsAssumption DEF Job, JobShape, Statuses, Unfinished

\* What a command that is started keeps, whoever starts it.
LEMMA LaunchKeeps ==
  ASSUME WizardInv, NEW before \in Seq(JobShape), NEW kind \in Kinds, Launch(before, kind),
         Len(before) = Len(jobs),
         \A i \in DOMAIN jobs : before[i].kind = jobs[i].kind,
         \A i \in DOMAIN jobs : before[i].status \in Unfinished =>
           jobs[i].status \in Unfinished /\ before[i].ears = jobs[i].ears,
         kind \in Leading => chosen,
         UNCHANGED <<fatal, selection>>, offered' \in Modes \cup {"none"}
  PROVE  WizardInv'
<1> DEFINE n == Len(before) + 1
<1>1. /\ jobs' = Append(before, Job(kind)) /\ screen' = "progress"
      /\ shown' = (IF kind = "restore" THEN shown ELSE n)
  BY DEF Launch
<1>2. /\ jobs' \in Seq(JobShape) /\ Len(jobs') = n /\ jobs'[n] = Job(kind)
      /\ \A i \in DOMAIN jobs : i \in DOMAIN jobs' /\ jobs'[i] = before[i]
      /\ \A i \in DOMAIN jobs' : i \in DOMAIN jobs \/ i = n
  BY <1>1, JobHasShape DEF WizardInv, Shape
<1>3. Shape'
  BY <1>1, <1>2 DEF WizardInv, Shape, Screens, selection, level
<1>4. Known'
  BY <1>1, <1>2, JobHasShape DEF WizardInv, Known, Ahead, selection, level
<1>5. ProgressIsBacked'
  <2>1. n \in DOMAIN jobs' /\ jobs'[n].status # "seen"
    BY <1>2, JobHasShape DEF Unfinished
  <2>2. QED
    BY <2>1 DEF ProgressIsBacked, Active
<1>6. NewestIsHeard'
  <2>1. CASE kind = "restore"
    BY <1>1, <1>2, <2>1 DEF WizardInv, Shape, NewestIsHeard, At
  <2>2. CASE kind # "restore"
    BY <1>1, <1>2, <2>2, JobHasShape DEF NewestIsHeard, At
  <2>3. QED
    BY <2>1, <2>2
<1>7. QED
  BY <1>3, <1>4, <1>5, <1>6 DEF WizardInv

\* What a step keeps that changes commands and neither starts nor ends one.
LEMMA CommandsKeep ==
  ASSUME WizardInv, jobs' \in Seq(JobShape), Len(jobs') = Len(jobs), shown' = shown,
         \A i \in DOMAIN jobs : jobs'[i].kind = jobs[i].kind,
         \A i \in DOMAIN jobs : jobs'[i].status \in Unfinished =>
           /\ jobs[i].status \in Unfinished
           /\ i = shown /\ jobs[i].ears > 0 => jobs'[i].ears > 0,
         screen' \in Screens, screen' \in Ahead => chosen,
         UNCHANGED <<mode, chosen, advanced, offered>>, override' \in BOOLEAN, fatal' \in BOOLEAN,
         \/ screen' # "progress"
         \/ screen' = screen /\ \A i \in DOMAIN jobs : jobs[i].status # "seen" => jobs'[i].status # "seen"
  PROVE  WizardInv'
<1>1. Shape'
  BY DEF WizardInv, Shape, selection, level
<1>2. Known'
  BY DEF WizardInv, Shape, Known, selection, level
<1>3. ProgressIsBacked'
  BY DEF WizardInv, Shape, ProgressIsBacked, Active
<1>4. NewestIsHeard'
  BY DEF WizardInv, Shape, NewestIsHeard, At
<1>5. QED
  BY <1>1, <1>2, <1>3, <1>4 DEF WizardInv
-----------------------------------------------------------------------------
(***************************************************************************)
(* Keys.                                                                   *)
(***************************************************************************)

\* Keys that start nothing: they lead to no progress screen, and past the
\* selection of a system only when one is selected.
Choosing ==
  \/ Dismiss \/ Move \/ ChooseLevel \/ ChooseMode \/ PickPayload \/ PickSystem
  \/ Retreat \/ SkipBackup \/ PickStick \/ LookForSession \/ NothingToResume \/ Discard

LEMMA ChoosingKeeps ==
  ASSUME WizardInv, Choosing
  PROVE  WizardInv'
<1>1. UNCHANGED background
  BY DEF Choosing, Dismiss, Move, ChooseLevel, ChooseMode, PickPayload, PickSystem, Retreat,
         SkipBackup, PickStick, LookForSession, NothingToResume, Discard
<1>2. screen' \in Screens /\ screen' # "progress"
  BY DEF Choosing, Dismiss, Move, Moves, ChooseLevel, ChooseMode, PickPayload, PickSystem, Retreat,
         SkipBackup, PickStick, LookForSession, NothingToResume, Discard, ToConfirmation,
         On, Screens
<1>3. fatal' \in BOOLEAN
  BY Zenon DEF Choosing, Dismiss, Move, ChooseLevel, ChooseMode, PickPayload, PickSystem, Retreat,
         SkipBackup, PickStick, LookForSession, NothingToResume, Discard, WizardInv, Shape
<1>4. mode' \in Modes /\ offered' \in Modes \cup {"none"}
  BY DEF Choosing, Dismiss, Move, ChooseLevel, ChooseMode, PickPayload, PickSystem, Retreat,
         SkipBackup, PickStick, LookForSession, NothingToResume, Discard, WizardInv, Shape,
         selection, level
<1>5. chosen' \in BOOLEAN
  BY Zenon DEF Choosing, Dismiss, Move, ChooseLevel, ChooseMode, PickPayload, PickSystem, Retreat,
         SkipBackup, PickStick, LookForSession, NothingToResume, Discard, WizardInv, Shape,
         selection, level
<1>6. chosen => chosen'
  BY DEF Choosing, Dismiss, Move, ChooseLevel, ChooseMode, PickPayload, PickSystem, Retreat,
         SkipBackup, PickStick, LookForSession, NothingToResume, Discard, selection, level
<1>7. screen' \in Ahead => chosen'
  <2>1. CASE Dismiss \/ ChooseLevel \/ LookForSession \/ NothingToResume \/ Discard
    BY <2>1 DEF Dismiss, ChooseLevel, LookForSession, NothingToResume, Discard, Ahead
  <2>2. CASE Move
    BY <2>2 DEF Move, Moves, WizardInv, Known, Ahead, selection, level
  <2>3. CASE PickPayload \/ PickSystem
    BY <2>3 DEF PickPayload, PickSystem
  <2>4. CASE ChooseMode
    BY <2>4 DEF ChooseMode, On, WizardInv, Known, Ahead
  <2>5. CASE Retreat \/ SkipBackup \/ PickStick
    BY <2>5 DEF Retreat, SkipBackup, PickStick, On, WizardInv, Known, Ahead, selection, level
  <2>6. QED
    BY <2>1, <2>2, <2>3, <2>4, <2>5 DEF Choosing
<1>8. advanced' \in BOOLEAN /\ override' \in BOOLEAN
  BY Zenon DEF Choosing, Dismiss, Move, ChooseLevel, ChooseMode, PickPayload, PickSystem, Retreat,
         SkipBackup, PickStick, LookForSession, NothingToResume, Discard, WizardInv, Shape,
         selection, level
<1>9. QED
  BY <1>1, <1>2, <1>3, <1>4, <1>5, <1>6, <1>7, <1>8
  DEF WizardInv, Shape, Known, ProgressIsBacked, NewestIsHeard, At, background

\* Keys that start a command.
LEMMA StartingKeeps ==
  ASSUME WizardInv, UseVault \/ Prepare \/ Restore \/ Revert \/ Confirm \/ Resume
  PROVE  WizardInv'
<1>1. PICK kind \in Kinds : Launch(jobs, kind) /\ (kind \in Leading => chosen)
  <2>1. CASE UseVault
    <3>1. Vaulted \in Kinds
      BY DEF Vaulted, Kinds
    <3>2. QED
      BY <2>1, <3>1 DEF UseVault, On, WizardInv, Known, Ahead
  <2>2. CASE Prepare
    BY <2>2 DEF Prepare, On, WizardInv, Known, Ahead, Kinds
  <2>3. CASE Restore \/ Revert \/ Confirm \/ Resume
    BY <2>3 DEF Restore, Revert, Confirm, Resume, StartProvisioning, Leading, Kinds
  <2>4. QED
    BY <2>1, <2>2, <2>3
<1>2. UNCHANGED <<fatal, selection>> /\ offered' \in Modes \cup {"none"}
  BY DEF UseVault, Prepare, Restore, Revert, Confirm, Resume, StartProvisioning, WizardInv, Shape
<1>3. jobs \in Seq(JobShape)
  BY DEF WizardInv, Shape
<1>4. QED
  BY <1>1, <1>2, <1>3, LaunchKeeps

\* "p" and "s" change no more than the status of a download.
LEMMA CancelKeeps ==
  ASSUME WizardInv, Pause \/ Stop
  PROVE  WizardInv'
<1>1. Cancel /\ UNCHANGED <<fatal, selection, offered, shown>> /\ screen' \in {screen, "hub"}
  BY DEF Pause, Stop
<1>2. ASSUME NEW i \in DOMAIN jobs
      PROVE  /\ jobs'[i] \in JobShape /\ jobs'[i].kind = jobs[i].kind
             /\ jobs'[i].ears = jobs[i].ears
             /\ jobs[i].status # "seen" => jobs'[i].status # "seen"
             /\ jobs'[i].status \in Unfinished => jobs[i].status \in Unfinished
  <2>1. jobs[i] \in JobShape
    BY DEF WizardInv, Shape
  <2>2. CASE Cancelled(i)
    BY <1>1, <2>1, <2>2 DEF Cancel, Cancelled, At, JobShape, Statuses, Unfinished
  <2>3. CASE ~Cancelled(i)
    BY <1>1, <2>1, <2>3 DEF Cancel
  <2>4. QED
    BY <2>2, <2>3
<1>3. jobs' \in Seq(JobShape) /\ Len(jobs') = Len(jobs)
  <2>1. jobs \in Seq(JobShape)
    BY DEF WizardInv, Shape
  <2>2. jobs' \in [1 .. Len(jobs) -> JobShape]
    BY <1>1, <1>2, <2>1 DEF Cancel
  <2>3. QED
    BY <2>1, <2>2
<1>4. screen' \in Screens /\ (screen' \in Ahead => chosen)
  BY <1>1 DEF WizardInv, Shape, Known, Screens, Ahead
<1>5. fatal' \in BOOLEAN /\ UNCHANGED <<mode, chosen, advanced, offered>> /\ override' \in BOOLEAN
  BY <1>1 DEF WizardInv, Shape, selection, level
<1>6. QED
  BY <1>1, <1>2, <1>3, <1>4, <1>5, CommandsKeep

\* Nothing is left of the commands.
LEMMA QuitKeeps ==
  ASSUME WizardInv, Quit
  PROVE  WizardInv'
<1>1. << >> \in Seq(JobShape) /\ Len(<< >>) = 0
  OBVIOUS
<1>2. Shape'
  BY <1>1 DEF Quit, WizardInv, Shape, Screens, selection, level
<1>3. QED
  BY <1>2 DEF Quit, WizardInv, Known, ProgressIsBacked, NewestIsHeard, Ahead
-----------------------------------------------------------------------------
(***************************************************************************)
(* What the commands do.                                                   *)
(***************************************************************************)

\* A step of one command that does not touch the screen.
LEMMA WorkKeeps ==
  ASSUME WizardInv, NEW i \in DOMAIN jobs, NEW job \in JobShape,
         jobs' = [jobs EXCEPT ![i] = job], UNCHANGED foreground,
         job.kind = jobs[i].kind, job.status # "seen",
         job.status \in Unfinished => jobs[i].status \in Unfinished,
         job.ears = jobs[i].ears
  PROVE  WizardInv'
<1>1. jobs' \in Seq(JobShape) /\ Len(jobs') = Len(jobs)
  BY DEF WizardInv, Shape
<1>2. \A k \in DOMAIN jobs : jobs'[k] = IF k = i THEN job ELSE jobs[k]
  BY DEF WizardInv, Shape
<1>3. screen' \in Screens /\ (screen' \in Ahead => chosen) /\ fatal' \in BOOLEAN
  BY DEF WizardInv, Shape, Known, foreground
<1>4. UNCHANGED <<screen, mode, chosen, advanced, offered, shown>> /\ override' \in BOOLEAN
  BY DEF foreground, selection, level, WizardInv, Shape
<1>5. QED
  BY <1>1, <1>2, <1>3, <1>4, CommandsKeep

LEMMA BecomesKeeps ==
  ASSUME WizardInv, NEW i \in DOMAIN jobs, NEW status \in {"run", "ok", "failed", "paused"},
         jobs[i].status \in Unfinished, Becomes(i, status), UNCHANGED foreground
  PROVE  WizardInv'
<1> DEFINE todo == IF status \in Ended THEN 0 ELSE jobs[i].todo
           job == [jobs[i] EXCEPT !.status = status, !.todo = todo]
<1>1. jobs[i] \in JobShape
  BY DEF WizardInv, Shape
<1>2. jobs' = [jobs EXCEPT ![i] = job]
  BY <1>1 DEF Becomes, JobShape, WizardInv, Shape
<1>3. /\ job \in JobShape /\ job.kind = jobs[i].kind /\ job.ears = jobs[i].ears
      /\ job.status = status
  <2>1. status \in Statuses
    BY DEF Statuses, Unfinished, Ended
  <2>2. todo \in 0 .. Cap + 2
    BY <1>1, BoundsAssumption DEF JobShape
  <2> HIDE DEF todo
  <2>3. QED
    BY <1>1, <2>1, <2>2 DEF JobShape
<1>4. QED
  BY <1>2, <1>3, WorkKeeps

LEMMA ReportKeeps ==
  ASSUME WizardInv, NEW i, Report(i)
  PROVE  WizardInv'
<1> DEFINE todo == jobs[i].todo - 1
           sent == IF jobs[i].sent < Cap THEN jobs[i].sent + 1 ELSE jobs[i].sent
           job == [jobs[i] EXCEPT !.todo = todo, !.sent = sent]
<1>1. i \in DOMAIN jobs /\ jobs[i].status = "run" /\ jobs[i].todo > 0 /\ UNCHANGED foreground
  BY DEF Report, At
<1>2. jobs[i] \in JobShape
  BY <1>1 DEF WizardInv, Shape
<1>3. jobs' = [jobs EXCEPT ![i] = job]
  BY <1>1, <1>2 DEF Report, JobShape, WizardInv, Shape
<1>4. /\ job \in JobShape /\ job.kind = jobs[i].kind /\ job.ears = jobs[i].ears
      /\ job.status = jobs[i].status
  <2>1. todo \in 0 .. Cap + 2
    BY <1>1, <1>2, BoundsAssumption DEF JobShape
  <2>2. sent \in 0 .. Cap
    BY <1>2, BoundsAssumption DEF JobShape
  <2> HIDE DEF todo, sent
  <2>3. QED
    BY <1>2, <2>1, <2>2 DEF JobShape
<1>5. QED
  BY <1>1, <1>3, <1>4, WorkKeeps

LEMMA CommandKeeps ==
  ASSUME WizardInv, NEW i, Fetched(i) \/ FetchPaused(i) \/ Report(i) \/ Succeed(i) \/ Fail(i)
  PROVE  WizardInv'
<1>1. CASE Report(i)
  BY <1>1, ReportKeeps
<1>2. CASE Fetched(i) \/ FetchPaused(i) \/ Succeed(i) \/ Fail(i)
  <2>1. i \in DOMAIN jobs /\ jobs[i].status \in Unfinished /\ UNCHANGED foreground
    BY <1>2 DEF Fetched, FetchPaused, Succeed, Fail, At, Unfinished
  <2>2. \E status \in {"run", "ok", "failed", "paused"} : Becomes(i, status)
    BY <1>2 DEF Fetched, FetchPaused, Succeed, Fail
  <2>3. QED
    BY <2>1, <2>2, BecomesKeeps
<1>3. QED
  BY <1>1, <1>2

-----------------------------------------------------------------------------
(***************************************************************************)
(* Messages.                                                               *)
(***************************************************************************)

\* Whoever heard an update listens again: on the channel of the newest.
LEMMA HearKeeps ==
  ASSUME WizardInv, NEW i, Hear(i)
  PROVE  WizardInv'
<1> DEFINE sent == jobs[i].sent - 1
           ears == jobs[i].ears - 1
           one == [jobs[i] EXCEPT !.sent = sent, !.ears = ears]
           heard == [jobs EXCEPT ![i] = one]
<1>1. /\ i \in DOMAIN jobs /\ jobs[i].sent > 0 /\ jobs[i].ears > 0 /\ UNCHANGED foreground
  BY DEF Hear
<1>2. /\ jobs \in Seq(JobShape)
      /\ \A k \in DOMAIN jobs : jobs[k] \in JobShape
  BY DEF WizardInv, Shape
<1>3. jobs' = [heard EXCEPT ![shown].ears = @ + 1]
  BY <1>1, <1>2 DEF Hear
<1>4. one \in JobShape /\ one.kind = jobs[i].kind /\ one.status = jobs[i].status
  <2>1. jobs[i] \in JobShape
    BY <1>1, <1>2
  <2>2. sent \in 0 .. Cap /\ ears \in Nat
    BY <1>1, <2>1, BoundsAssumption DEF JobShape
  <2> HIDE DEF sent, ears
  <2>3. QED
    BY <2>1, <2>2 DEF JobShape
<1> HIDE DEF one
<1>5. /\ \A k \in DOMAIN jobs : heard[k] = IF k = i THEN one ELSE jobs[k]
      /\ heard \in [DOMAIN jobs -> JobShape]
  BY <1>1, <1>2, <1>4
<1> HIDE DEF heard
<1>6. ASSUME NEW k \in DOMAIN jobs
      PROVE  /\ jobs'[k] \in JobShape
             /\ jobs'[k].kind = jobs[k].kind /\ jobs'[k].status = jobs[k].status
             /\ k = shown => jobs'[k].ears > 0
  <2> DEFINE old == heard[k]
  <2>1. old \in JobShape /\ old.kind = jobs[k].kind /\ old.status = jobs[k].status
    BY <1>2, <1>4, <1>5
  <2>2. CASE k = shown
    <3>1. jobs'[k] = [old EXCEPT !.ears = old.ears + 1]
      BY <1>2, <1>3, <1>5, <2>2
    <3>2. old.ears + 1 \in Nat /\ old.ears + 1 > 0
      BY <2>1 DEF JobShape
    <3> HIDE DEF old
    <3>3. QED
      BY <2>1, <3>1, <3>2 DEF JobShape
  <2>3. CASE k # shown
    BY <1>2, <1>3, <1>5, <2>1, <2>3
  <2>4. QED
    BY <2>2, <2>3
<1>7. jobs' \in Seq(JobShape) /\ Len(jobs') = Len(jobs)
  <2> DEFINE more == [heard[shown] EXCEPT !.ears = @ + 1]
  <2>1. jobs' = [heard EXCEPT ![shown] = more]
    BY <1>3
  <2> HIDE DEF more
  <2>2. shown \in DOMAIN jobs => jobs'[shown] = more
    BY <1>5, <2>1
  <2>3. jobs' \in [DOMAIN jobs -> JobShape]
    BY <1>5, <1>6, <2>1, <2>2
  <2>4. QED
    BY <1>2, <2>3
<1>8. screen' \in Screens /\ (screen' \in Ahead => chosen) /\ fatal' \in BOOLEAN
  BY <1>1 DEF WizardInv, Shape, Known, foreground
<1>9. UNCHANGED <<screen, mode, chosen, advanced, offered, shown>> /\ override' \in BOOLEAN
  BY <1>1 DEF foreground, selection, level, WizardInv, Shape
<1>10. QED
  BY <1>6, <1>7, <1>8, <1>9, CommandsKeep

LEMMA HangUpKeeps ==
  ASSUME WizardInv, NEW i, HangUp(i)
  PROVE  WizardInv'
<1>1. /\ i \in DOMAIN jobs /\ jobs[i].status \notin Unfinished
      /\ jobs' = [jobs EXCEPT ![i].ears = 0] /\ UNCHANGED foreground
  BY DEF HangUp
<1>2. jobs \in Seq(JobShape)
  BY DEF WizardInv, Shape
<1>3. ASSUME NEW k \in DOMAIN jobs
      PROVE  /\ jobs'[k] \in JobShape
             /\ jobs'[k].kind = jobs[k].kind /\ jobs'[k].status = jobs[k].status
             /\ k # i => jobs'[k] = jobs[k]
  <2>1. jobs[k] \in JobShape
    BY <1>2
  <2>2. jobs'[k] = IF k = i THEN [jobs[k] EXCEPT !.ears = 0] ELSE jobs[k]
    BY <1>1, <1>2
  <2>3. QED
    BY <2>1, <2>2 DEF JobShape
<1>4. jobs' \in Seq(JobShape) /\ Len(jobs') = Len(jobs)
  <2>1. jobs' \in [1 .. Len(jobs) -> JobShape]
    BY <1>1, <1>2, <1>3
  <2>2. QED
    BY <1>2, <2>1
<1>5. screen' \in Screens /\ (screen' \in Ahead => chosen) /\ fatal' \in BOOLEAN
  BY <1>1 DEF WizardInv, Shape, Known, foreground
<1>6. UNCHANGED <<screen, mode, chosen, advanced, offered, shown>> /\ override' \in BOOLEAN
  BY <1>1 DEF foreground, selection, level, WizardInv, Shape
<1>7. QED
  BY <1>1, <1>3, <1>4, <1>5, <1>6, CommandsKeep
\* A result that has been handled.
LEMMA SeenProperties ==
  ASSUME WizardInv, NEW i \in DOMAIN jobs, jobs[i].status \in Ended
  PROVE  /\ Seen(i) \in Seq(JobShape) /\ Len(Seen(i)) = Len(jobs)
         /\ \A k \in DOMAIN jobs :
              /\ Seen(i)[k].kind = jobs[k].kind
              /\ k # i => Seen(i)[k] = jobs[k]
         /\ Seen(i)[i].status = "seen"
         /\ \A k \in DOMAIN jobs : Seen(i)[k].status \in Unfinished =>
              jobs[k].status \in Unfinished /\ Seen(i)[k].ears = jobs[k].ears
<1> DEFINE one == [jobs[i] EXCEPT !.status = "seen"]
<1>1. jobs \in Seq(JobShape) /\ jobs[i] \in JobShape
  BY DEF WizardInv, Shape
<1>2. Seen(i) = [jobs EXCEPT ![i] = one]
  BY DEF Seen
<1>3. one \in JobShape /\ one.kind = jobs[i].kind /\ one.status = "seen"
  BY <1>1 DEF JobShape, Statuses
<1> HIDE DEF one
<1>4. /\ Seen(i) \in Seq(JobShape) /\ Len(Seen(i)) = Len(jobs)
      /\ \A k \in DOMAIN jobs : Seen(i)[k] = IF k = i THEN one ELSE jobs[k]
  BY <1>1, <1>2, <1>3
<1>5. QED
  BY <1>3, <1>4 DEF Unfinished

\* Results that lead to a screen and start nothing.
LEMMA HandledKeeps ==
  ASSUME WizardInv, NEW i \in DOMAIN jobs, jobs[i].status \in Ended, jobs' = Seen(i),
         screen' \in Screens \ {"progress"}, screen' \in Ahead => chosen,
         UNCHANGED <<mode, chosen, advanced, offered, shown>>, override' \in BOOLEAN, fatal' \in BOOLEAN
  PROVE  WizardInv'
<1>1. /\ jobs' \in Seq(JobShape) /\ Len(jobs') = Len(jobs)
      /\ \A k \in DOMAIN jobs : jobs'[k].kind = jobs[k].kind
      /\ \A k \in DOMAIN jobs : jobs'[k].status \in Unfinished =>
           jobs[k].status \in Unfinished /\ jobs'[k].ears = jobs[k].ears
  BY SeenProperties
<1>2. QED
  BY <1>1, CommandsKeep

LEMMA HandleKeeps ==
  ASSUME WizardInv, NEW i,
         \/ HandleFailure(i) \/ HandlePause(i) \/ HandleSuccess(i)
         \/ HandleBackup(i) \/ HandleStage(i) \/ HandleFormat(i)
  PROVE  WizardInv'
<1>1. i \in DOMAIN jobs /\ jobs[i].status \in Ended
  BY DEF HandleFailure, HandlePause, HandleSuccess, HandleBackup, HandleStage, HandleFormat,
         Succeeded, At, Ended
<1>2. fatal \in BOOLEAN /\ override \in BOOLEAN
  BY DEF WizardInv, Shape
<1>3. CASE HandleFailure(i)
  <2>1. fatal' \in BOOLEAN
    BY <1>3 DEF HandleFailure
  <2>2. /\ jobs' = Seen(i) /\ screen' = "error"
        /\ UNCHANGED <<mode, chosen, advanced, offered, shown>> /\ override' \in BOOLEAN
    BY <1>2, <1>3 DEF HandleFailure, selection, level
  <2>3. QED
    BY <1>1, <2>1, <2>2, HandledKeeps DEF Screens, Ahead
<1>4. CASE HandlePause(i) \/ HandleSuccess(i)
  <2>1. /\ jobs' = Seen(i) /\ screen' \in {"hub", "done"}
        /\ UNCHANGED <<fatal, mode, chosen, advanced, offered, shown>> /\ override' \in BOOLEAN
    BY <1>2, <1>4 DEF HandlePause, HandleSuccess, selection, level
  <2>2. QED
    BY <1>1, <1>2, <2>1, HandledKeeps DEF Screens, Ahead
<1>5. CASE HandleBackup(i) \/ HandleStage(i)
  <2>1. /\ jobs' = Seen(i) /\ screen' \in {"storage", "confirm"}
        /\ UNCHANGED <<fatal, mode, chosen, advanced, offered, shown>> /\ override' \in BOOLEAN
        /\ jobs[i].kind \in Leading
    BY <1>2, <1>5 DEF HandleBackup, HandleStage, Succeeded, ToConfirmation, Leading, selection, level
  <2>2. chosen
    BY <1>1, <2>1 DEF WizardInv, Known
  <2>3. QED
    BY <1>1, <1>2, <2>1, <2>2, HandledKeeps DEF Screens, Ahead
<1>6. CASE HandleFormat(i)
  <2>1. chosen
    BY <1>1, <1>6 DEF HandleFormat, Succeeded, WizardInv, Known, Leading
  <2>2. CASE Launch(Seen(i), Vaulted) /\ UNCHANGED <<fatal, selection, offered>>
    <3>1. Vaulted \in Kinds
      BY DEF Vaulted, Kinds
    <3>2. offered' \in Modes \cup {"none"}
      BY <2>2 DEF WizardInv, Shape
    <3>3. QED
      BY <1>1, <2>1, <2>2, <3>1, <3>2, SeenProperties, LaunchKeeps
  <2>3. CASE /\ screen' = "storage" /\ jobs' = Seen(i)
             /\ UNCHANGED <<fatal, selection, offered, shown>>
    <3>1. UNCHANGED <<mode, chosen, advanced>> /\ override' \in BOOLEAN
      BY <1>2, <2>3 DEF selection, level
    <3>2. QED
      BY <1>1, <1>2, <2>1, <2>3, <3>1, HandledKeeps DEF Screens
  <2>4. QED
    BY <1>6, <2>2, <2>3 DEF HandleFormat
<1>7. QED
  BY <1>3, <1>4, <1>5, <1>6

-----------------------------------------------------------------------------

LEMMA WizardStep == WizardInv /\ [Next]_vars => WizardInv'
<1> SUFFICES ASSUME WizardInv, [Next]_vars
             PROVE  WizardInv'
  OBVIOUS
<1>1. CASE Keys
  BY <1>1, ChoosingKeeps, StartingKeeps, CancelKeeps, QuitKeeps DEF Keys, Choosing
<1>2. CASE Work
  BY <1>2, CommandKeeps DEF Work
<1>3. CASE Messages
  BY <1>3, HearKeeps, HangUpKeeps, HandleKeeps DEF Messages
<1>4. CASE \E i \in 1 .. MaxJobs : Fetched(i) \/ Fail(i)
  BY <1>4, CommandKeeps
<1>5. CASE UNCHANGED vars
  BY <1>5 DEF vars, WizardInv, Shape, Known, ProgressIsBacked, Active, NewestIsHeard, At
<1>6. QED
  BY <1>1, <1>2, <1>3, <1>4, <1>5 DEF Next

LEMMA WizardInvariant == Spec => []WizardInv
<1>1. QED
  BY WizardInit, WizardStep, PTL DEF Spec

\* The progress screen is never without a command whose result leaves it.
THEOREM ProgressStaysBacked == Spec => []ProgressIsBacked
BY WizardInvariant, PTL DEF WizardInv

\* No way, by keys or by late results, leads to the confirmation without a
\* selected system.
THEOREM SelectionStaysKnown == Spec => []SelectionKnown
<1>1. WizardInv => SelectionKnown
  BY DEF WizardInv, Known, SelectionKnown, Ahead
<1>2. QED
  BY <1>1, WizardInvariant, PTL

\* The command started last has a listener for as long as it works.
THEOREM NewestStaysHeard == Spec => []NewestIsHeard
BY WizardInvariant, PTL DEF WizardInv
\* Where one command is left to be handled, handling a result leaves none.
LEMMA LastIsHandled ==
  ASSUME WizardInv, NEW i \in DOMAIN jobs, jobs[i].status \in Ended, jobs' = Seen(i),
         Cardinality(Active) = 1
  PROVE  Active' = {}
<1>1. jobs \in Seq(JobShape)
  BY DEF WizardInv, Shape
<1>2. i \in Active
  BY DEF Active, Ended
<1>3. IsFiniteSet(Active)
  <2>1. IsFiniteSet(1 .. Len(jobs))
    BY <1>1, FS_Interval
  <2>2. Active \subseteq 1 .. Len(jobs)
    BY <1>1 DEF Active
  <2>3. QED
    BY <2>1, <2>2, FS_Subset
<1>4. Active = {i}
  BY <1>2, <1>3, FS_Singleton
<1>5. /\ DOMAIN jobs' = DOMAIN jobs /\ jobs'[i].status = "seen"
      /\ \A k \in DOMAIN jobs : k # i => jobs'[k] = jobs[k]
  BY <1>1, SeenProperties
<1>6. QED
  BY <1>4, <1>5 DEF Active

\* Only "s" and the end of the program take the user away from the progress
\* screen of a command that still works.
THEOREM StopAloneLeaves == Spec => OnlyStopLeaves
<1> DEFINE Left ==
      screen = "progress" /\ ~fatal /\ Cardinality(Active) = 1 /\ screen' # "progress"
        => Active' = {} \/ Stop
<1>1. WizardInv /\ [Next]_vars => [Left]_vars
  <2> SUFFICES ASSUME WizardInv, Next, screen = "progress", ~fatal, Cardinality(Active) = 1,
                      screen' # "progress", ~Stop
               PROVE  Active' = {}
    OBVIOUS
  <2>1. CASE Keys
    <3>1. Quit
      BY <2>1 DEF Keys, Dismiss, Move, Moves, ChooseLevel, ChooseMode, PickPayload, PickSystem,
                  Retreat, SkipBackup, PickStick, UseVault, Prepare, Restore, Revert, Confirm,
                  Resume, LookForSession, NothingToResume, Discard, Pause, On
    <3>2. QED
      BY <3>1 DEF Quit, Active
  <2>2. ASSUME NEW i, Fetched(i) \/ FetchPaused(i) \/ Report(i) \/ Succeed(i) \/ Fail(i)
                      \/ Hear(i) \/ HangUp(i)
        PROVE  FALSE
    BY <2>2 DEF Fetched, FetchPaused, Report, Succeed, Fail, Hear, HangUp, foreground
  <2>3. ASSUME NEW i, HandleFailure(i) \/ HandlePause(i) \/ HandleSuccess(i)
                      \/ HandleBackup(i) \/ HandleStage(i) \/ HandleFormat(i)
        PROVE  Active' = {}
    <3>1. i \in DOMAIN jobs /\ jobs[i].status \in Ended
      BY <2>3 DEF HandleFailure, HandlePause, HandleSuccess, HandleBackup, HandleStage,
                  HandleFormat, Succeeded, At, Ended
    <3>2. jobs' = Seen(i)
      BY <2>3 DEF HandleFailure, HandlePause, HandleSuccess, HandleBackup, HandleStage,
                  HandleFormat, Launch
    <3>3. QED
      BY <3>1, <3>2, LastIsHandled
  <2>4. QED
    BY <2>1, <2>2, <2>3 DEF Next, Work, Messages
<1>2. QED
  BY <1>1, WizardInvariant, PTL DEF Spec, OnlyStopLeaves
-----------------------------------------------------------------------------
(***************************************************************************)
(* Types.  The commands, counting those that follow a preparation, stay    *)
(* within their bound; and a channel has no more listeners than there are  *)
(* commands, as each command brought at most one, who listens somewhere.   *)
(***************************************************************************)

\* The preparations that may still be followed by a command.
Preparing == {i \in DOMAIN jobs : jobs[i].kind = "format" /\ At(i, {"run", "ok"})}

\* Only a provisioning run downloads.
Downloading == \A i \in DOMAIN jobs : jobs[i].status \in {"fetch", "cancelled"} => jobs[i].kind = "provision"

Roomy == Len(jobs) + Cardinality(Preparing) <= MaxJobs /\ Downloading

Places == 1 .. Len(jobs)

\* Where the listener that came with each command is now; 0 is nowhere.
Tuned(ear) ==
  /\ ear \in [Places -> 0 .. Len(jobs)]
  /\ \A i \in Places : jobs[i].ears = Cardinality({k \in Places : ear[k] = i})

Listening == \E ear : Tuned(ear)

TypesInv == WizardInv /\ Roomy /\ Listening

LEMMA PlacesAreFinite ==
  ASSUME NEW n \in Nat, NEW S \in SUBSET (1 .. n)
  PROVE  IsFiniteSet(S) /\ Cardinality(S) \in 0 .. n
<1>1. IsFiniteSet(1 .. n) /\ Cardinality(1 .. n) = n
  BY FS_Interval
<1>2. IsFiniteSet(S) /\ Cardinality(S) <= n
  BY <1>1, FS_Subset
<1>3. QED
  BY <1>2, FS_CardinalityType

LEMMA TypesFollow == TypesInv => TypeOK
<1> SUFFICES ASSUME TypesInv PROVE TypeOK
  OBVIOUS
<1>1. jobs \in Seq(JobShape) /\ Len(jobs) \in Nat /\ DOMAIN jobs = Places
  BY DEF TypesInv, WizardInv, Shape, Places
<1>2. Len(jobs) <= MaxJobs
  <2>1. Preparing \in SUBSET (1 .. Len(jobs))
    BY <1>1 DEF Preparing, Places
  <2>2. Cardinality(Preparing) \in Nat
    BY <1>1, <2>1, PlacesAreFinite
  <2>3. QED
    BY <1>1, <2>2, BoundsAssumption DEF TypesInv, Roomy
<1>3. \A i \in DOMAIN jobs : jobs[i] \in JobType
  <2> SUFFICES ASSUME NEW i \in DOMAIN jobs PROVE jobs[i] \in JobType
    OBVIOUS
  <2>1. PICK ear : Tuned(ear)
    BY DEF TypesInv, Listening
  <2> DEFINE L == {k \in Places : ear[k] = i}
  <2>2. jobs[i].ears = Cardinality(L) /\ L \in SUBSET (1 .. Len(jobs))
    BY <1>1, <2>1 DEF Tuned, Places
  <2> HIDE DEF L
  <2>3. jobs[i].ears \in 0 .. MaxJobs
    BY <1>1, <1>2, <2>2, PlacesAreFinite, BoundsAssumption
  <2>4. jobs[i] \in JobShape
    BY <1>1
  <2>5. QED
    BY <2>3, <2>4 DEF JobShape, JobType, Statuses
<1>4. jobs \in Seq(JobType)
  BY <1>1, <1>3
<1>5. QED
  BY <1>2, <1>4 DEF TypesInv, WizardInv, Shape, TypeOK

LEMMA TypesInit == Init => TypesInv
<1> SUFFICES ASSUME Init PROVE TypesInv
  OBVIOUS
<1>1. jobs = << >> /\ DOMAIN jobs = {} /\ Len(jobs) = 0 /\ Places = {}
  BY DEF Init, Places
<1>2. Roomy
  <2>1. Preparing = {}
    BY <1>1 DEF Preparing
  <2>2. QED
    BY <1>1, <2>1, FS_EmptySet, BoundsAssumption DEF Roomy, Downloading
<1>3. Tuned([k \in Places |-> 0])
  BY <1>1 DEF Tuned
<1>4. QED
  BY <1>2, <1>3, WizardInit DEF TypesInv, Listening

\* Most steps start nothing, leave no preparation to come back and no
\* listener anywhere else.
Steady ==
  /\ jobs' \in Seq(JobShape) /\ Len(jobs') = Len(jobs)
  /\ \A i \in DOMAIN jobs :
       /\ jobs'[i].kind = jobs[i].kind
       /\ jobs[i].kind = "format" /\ jobs'[i].status \in {"run", "ok"} =>
            jobs[i].status \in {"run", "ok"}
       /\ jobs'[i].status \in {"fetch", "cancelled"} => jobs[i].kind = "provision"

LEMMA SteadyIsRoomy ==
  ASSUME TypesInv, Steady
  PROVE  Roomy'
<1>1. jobs \in Seq(JobShape) /\ Len(jobs) \in Nat /\ DOMAIN jobs = 1 .. Len(jobs)
  BY DEF TypesInv, WizardInv, Shape
<1>2. DOMAIN jobs' = DOMAIN jobs /\ Len(jobs') = Len(jobs)
  BY <1>1 DEF Steady
<1>3. Preparing' \subseteq Preparing
  BY <1>2 DEF Preparing, At, Steady
<1>4. Preparing \in SUBSET (1 .. Len(jobs)) /\ Preparing' \in SUBSET (1 .. Len(jobs))
  BY <1>1, <1>3 DEF Preparing
<1>5. Cardinality(Preparing') <= Cardinality(Preparing)
  BY <1>1, <1>3, <1>4, PlacesAreFinite, FS_Subset
<1>6. Cardinality(Preparing) \in Nat /\ Cardinality(Preparing') \in Nat
  BY <1>1, <1>4, PlacesAreFinite
<1>7. Downloading'
  BY <1>2 DEF Downloading, Steady
<1>8. QED
  BY <1>1, <1>2, <1>5, <1>6, <1>7, BoundsAssumption DEF TypesInv, Roomy

LEMMA SteadyListeners ==
  ASSUME TypesInv, Len(jobs') = Len(jobs), \A i \in DOMAIN jobs : jobs'[i].ears = jobs[i].ears
  PROVE  Listening'
<1>1. PICK ear : Tuned(ear)
  BY DEF TypesInv, Listening
<1>2. DOMAIN jobs = Places /\ Places' = Places
  BY DEF TypesInv, WizardInv, Shape, Places
<1>3. Tuned(ear)'
  BY <1>1, <1>2 DEF Tuned
<1>4. QED
  BY <1>3 DEF Listening

\* A command that is started, by a key or by the one it follows.
LEMMA LaunchTypes ==
  ASSUME TypesInv, NEW before \in Seq(JobShape), NEW kind \in Kinds, Launch(before, kind),
         Len(before) = Len(jobs),
         \A i \in DOMAIN jobs : /\ before[i].kind = jobs[i].kind
                                /\ before[i].ears = jobs[i].ears
                                /\ before[i].status \in {jobs[i].status, "seen"},
         NEW P, IsFiniteSet(P), Len(jobs) + 1 + Cardinality(P) <= MaxJobs,
         \A i \in Preparing : before[i].status # "seen" => i \in P,
         kind = "format" => Len(jobs) + 1 \in P
  PROVE  Roomy' /\ Listening'
<1> DEFINE n == Len(jobs) + 1
<1>1. jobs \in Seq(JobShape) /\ Len(jobs) \in Nat /\ DOMAIN jobs = Places /\ n \in Nat
  BY DEF TypesInv, WizardInv, Shape, Places
<1>2. jobs' = Append(before, Job(kind)) /\ Job(kind) \in JobShape
  BY JobHasShape DEF Launch
<1>3. /\ Len(jobs') = n /\ DOMAIN jobs' = 1 .. n /\ Places' = 1 .. n /\ jobs'[n] = Job(kind)
      /\ \A i \in DOMAIN jobs : jobs'[i] = before[i]
      /\ \A i \in 1 .. n : i \in DOMAIN jobs \/ i = n
      /\ n \notin DOMAIN jobs
  BY <1>1, <1>2 DEF Places
<1> HIDE DEF n
<1>4. Job(kind).kind = kind /\ Job(kind).status = (IF kind = "provision" THEN "fetch" ELSE "run")
      /\ Job(kind).ears = (IF kind = "restore" THEN 0 ELSE 1)
  BY DEF Job
<1>5. Roomy'
  <2>1. \A i \in Preparing' : i \in P
    <3> TAKE i \in Preparing'
    <3>1. i \in 1 .. n /\ jobs'[i].kind = "format" /\ jobs'[i].status \in {"run", "ok"}
      BY <1>3 DEF Preparing, At
    <3>2. CASE i = n
      BY <1>3, <1>4, <3>1, <3>2 DEF n
    <3>3. CASE i # n
      <4>1. i \in DOMAIN jobs /\ jobs'[i] = before[i]
        BY <1>3, <3>1, <3>3
      <4>2. i \in Preparing
        BY <3>1, <4>1 DEF Preparing, At
      <4>3. QED
        BY <3>1, <4>1, <4>2
    <3>4. QED
      BY <3>2, <3>3
  <2>2. Cardinality(Preparing') <= Cardinality(P) /\ Cardinality(P) \in Nat
    BY <2>1, FS_Subset, FS_CardinalityType
  <2>3. Preparing' \in SUBSET (1 .. n)
    BY <1>3 DEF Preparing
  <2>4. Cardinality(Preparing') \in Nat
    <3>1. Cardinality(Preparing') \in 0 .. n
      BY <1>1, <2>3, PlacesAreFinite DEF n
    <3>2. QED
      BY <3>1
  <2>5. Downloading'
    <3>1. ASSUME NEW i \in DOMAIN jobs, jobs'[i].status \in {"fetch", "cancelled"}
          PROVE  jobs'[i].kind = "provision"
      BY <1>3, <3>1 DEF TypesInv, Roomy, Downloading
    <3>2. QED
      BY <1>3, <1>4, <3>1 DEF Downloading
  <2>6. QED
    BY <1>1, <1>3, <2>2, <2>4, <2>5, BoundsAssumption DEF Roomy, n
<1>6. Listening'
  <2>1. PICK ear : Tuned(ear)
    BY DEF TypesInv, Listening
  <2> DEFINE own == IF kind = "restore" THEN 0 ELSE n
             now == [k \in 1 .. n |-> IF k = n THEN own ELSE ear[k]]
  <2>2. own \in 0 .. n /\ \A k \in Places : ear[k] \in 0 .. n /\ ear[k] # n /\ k # n
    BY <1>1, <1>3, <2>1 DEF Tuned, n, Places
  <2>3. now \in [1 .. n -> 0 .. n]
    BY <1>1, <1>3, <2>2
  <2>4. \A i \in Places : {k \in 1 .. n : now[k] = i} = {k \in Places : ear[k] = i}
    <3> TAKE i \in Places
    <3>1. own # i /\ Places \subseteq 1 .. n
      BY <1>1, <1>3, <2>2 DEF Places
    <3>2. QED
      BY <1>1, <1>3, <3>1
  <2>5. {k \in 1 .. n : now[k] = n} = IF kind = "restore" THEN {} ELSE {n}
    <3>1. CASE kind = "restore"
      <4>1. own # n /\ n \in 1 .. n
        BY <1>1, <3>1 DEF n
      <4>2. \A k \in 1 .. n : now[k] # n
        BY <1>1, <1>3, <2>2, <4>1
      <4> HIDE DEF now
      <4>3. QED
        BY <3>1, <4>2
    <3>2. CASE kind # "restore"
      <4>1. own = n /\ n \in 1 .. n
        BY <1>1, <3>2 DEF n
      <4>2. \A k \in 1 .. n : now[k] = n <=> k = n
        BY <1>1, <1>3, <2>2, <4>1
      <4> HIDE DEF now, own
      <4>3. QED
        BY <3>2, <4>1, <4>2
    <3>3. QED
      BY <3>1, <3>2
  <2> HIDE DEF now, own
  <2>6. ASSUME NEW i \in 1 .. n
        PROVE  jobs'[i].ears = Cardinality({k \in 1 .. n : now[k] = i})
    <3>1. CASE i = n
      <4>1. CASE kind = "restore"
        BY <1>3, <1>4, <2>5, <3>1, <4>1, FS_EmptySet
      <4>2. CASE kind # "restore"
        <5>1. {k \in 1 .. n : now[k] = i} = {n}
          BY <2>5, <3>1, <4>2
        <5>2. Cardinality({n}) = 1
          BY FS_Singleton
        <5>3. jobs'[i].ears = 1
          BY <1>3, <1>4, <3>1, <4>2
        <5>4. QED
          BY <5>1, <5>2, <5>3
      <4>3. QED
        BY <4>1, <4>2
    <3>2. CASE i # n
      <4>1. i \in DOMAIN jobs /\ jobs'[i].ears = jobs[i].ears
        BY <1>3, <3>2
      <4>2. QED
        BY <1>1, <2>1, <2>4, <4>1 DEF Tuned
    <3>3. QED
      BY <3>1, <3>2
  <2>7. PICK f : f = now
    OBVIOUS
  <2>8. Tuned(f)'
    BY <1>3, <2>3, <2>6, <2>7 DEF Tuned
  <2>9. QED
    BY <2>8 DEF Listening
<1>7. QED
  BY <1>5, <1>6

\* Whoever heard an update has gone to the channel of the newest.
LEMMA HearTypes ==
  ASSUME TypesInv, NEW i, Hear(i)
  PROVE  Steady /\ Listening'
<1> DEFINE sent == jobs[i].sent - 1
           ears == jobs[i].ears - 1
           one == [jobs[i] EXCEPT !.sent = sent, !.ears = ears]
           heard == [jobs EXCEPT ![i] = one]
<1>1. /\ i \in DOMAIN jobs /\ jobs[i].sent > 0 /\ jobs[i].ears > 0
  BY DEF Hear
<1>2. /\ jobs \in Seq(JobShape) /\ DOMAIN jobs = Places /\ shown \in 0 .. Len(jobs)
      /\ \A k \in DOMAIN jobs : jobs[k] \in JobShape
  BY DEF TypesInv, WizardInv, Shape, Places
<1>3. jobs' = [heard EXCEPT ![shown].ears = @ + 1]
  BY <1>1, <1>2 DEF Hear
<1>4. /\ one.kind = jobs[i].kind /\ one.status = jobs[i].status /\ one.ears = jobs[i].ears - 1
      /\ one \in JobShape
  <2>1. jobs[i] \in JobShape
    BY <1>1, <1>2
  <2>2. sent \in 0 .. Cap /\ ears \in Nat
    BY <1>1, <2>1, BoundsAssumption DEF JobShape
  <2>3. ears = jobs[i].ears - 1
    OBVIOUS
  <2> HIDE DEF sent, ears
  <2>4. QED
    BY <2>1, <2>2, <2>3 DEF JobShape
<1> HIDE DEF one
<1>5. /\ \A k \in DOMAIN jobs : heard[k] = IF k = i THEN one ELSE jobs[k]
      /\ heard \in [DOMAIN jobs -> JobShape]
  BY <1>1, <1>2, <1>4
<1> HIDE DEF heard
<1> DEFINE gone(k) == IF k = i THEN jobs[k].ears - 1 ELSE jobs[k].ears
<1>6. ASSUME NEW k \in DOMAIN jobs
      PROVE  /\ jobs'[k].kind = jobs[k].kind /\ jobs'[k].status = jobs[k].status
             /\ jobs'[k].ears = IF k = shown THEN gone(k) + 1 ELSE gone(k)
  <2> DEFINE old == heard[k]
  <2>1. old \in JobShape /\ old.kind = jobs[k].kind /\ old.status = jobs[k].status
        /\ old.ears = gone(k)
    BY <1>2, <1>4, <1>5
  <2>2. CASE k = shown
    <3>1. jobs'[k] = [old EXCEPT !.ears = old.ears + 1]
      BY <1>2, <1>3, <1>5, <2>2
    <3> HIDE DEF old
    <3>2. QED
      BY <2>1, <2>2, <3>1 DEF JobShape
  <2>3. CASE k # shown
    BY <1>2, <1>3, <1>5, <2>1, <2>3
  <2>4. QED
    BY <2>2, <2>3
<1>7. WizardInv'
  BY HearKeeps DEF TypesInv
<1>8. DOMAIN jobs' = DOMAIN jobs
  <2> DEFINE more == [heard[shown] EXCEPT !.ears = @ + 1]
  <2>1. jobs' = [heard EXCEPT ![shown] = more]
    BY <1>3
  <2> HIDE DEF more
  <2>2. QED
    BY <1>5, <2>1
<1>9. jobs' \in Seq(JobShape) /\ Len(jobs') = Len(jobs)
  BY <1>2, <1>7, <1>8 DEF WizardInv, Shape
<1>10. Steady
  BY <1>6, <1>9 DEF Steady, TypesInv, Roomy, Downloading
<1>11. PICK ear : Tuned(ear)
  BY DEF TypesInv, Listening
<1> DEFINE L(j) == {k \in Places : ear[k] = j}
<1>12. \A j \in Places : IsFiniteSet(L(j)) /\ Cardinality(L(j)) = jobs[j].ears
                         /\ Cardinality(L(j)) \in Nat
  BY <1>2, <1>11, PlacesAreFinite DEF Tuned, Places
<1>13. PICK ear0 \in Places : ear[ear0] = i
  <2>1. L(i) # {}
    <3> HIDE DEF L
    <3>1. Cardinality(L(i)) # 0
      BY <1>1, <1>2, <1>12
    <3>2. QED
      BY <3>1, FS_EmptySet
  <2>2. QED
    BY <2>1
<1> DEFINE now == [k \in Places |-> IF k = ear0 THEN shown ELSE ear[k]]
           N(j) == {k \in Places : now[k] = j}
<1>14. now \in [Places -> 0 .. Len(jobs)]
  BY <1>2, <1>11 DEF Tuned
<1>15. \A j \in Places : jobs'[j].ears = Cardinality(N(j))
  <2> TAKE j \in Places
  <2>0. IsFiniteSet(L(j)) /\ Cardinality(L(j)) = jobs[j].ears /\ jobs[j].ears \in Nat
    BY <1>12
  <2>1. jobs'[j].ears = IF j = shown THEN gone(j) + 1 ELSE gone(j)
    BY <1>2, <1>6
  <2>2. CASE j = i /\ j = shown
    <3>1. N(j) = L(j)
      BY <1>13, <2>2
    <3> HIDE DEF N, L
    <3>2. QED
      BY <2>0, <2>1, <2>2, <3>1
  <2>3. CASE j = i /\ j # shown
    <3>1. N(j) = L(j) \ {ear0} /\ ear0 \in L(j)
      BY <1>13, <2>3
    <3> HIDE DEF N, L
    <3>2. Cardinality(N(j)) = Cardinality(L(j)) - 1
      BY <2>0, <3>1, FS_RemoveElement
    <3>3. QED
      BY <2>0, <2>1, <2>3, <3>2
  <2>4. CASE j # i /\ j = shown
    <3>1. N(j) = L(j) \union {ear0} /\ ear0 \notin L(j)
      BY <1>13, <2>4
    <3> HIDE DEF N, L
    <3>2. Cardinality(N(j)) = Cardinality(L(j)) + 1
      BY <2>0, <3>1, FS_AddElement
    <3>3. QED
      BY <2>0, <2>1, <2>4, <3>2
  <2>5. CASE j # i /\ j # shown
    <3>1. N(j) = L(j)
      BY <1>13, <2>5
    <3> HIDE DEF N, L
    <3>2. QED
      BY <2>0, <2>1, <2>5, <3>1
  <2>6. QED
    BY <2>2, <2>3, <2>4, <2>5
<1> HIDE DEF now
<1>16. PICK f : f = now
  OBVIOUS
<1>17. Tuned(f)'
  BY <1>9, <1>14, <1>15, <1>16 DEF Tuned, Places
<1>18. QED
  BY <1>10, <1>17 DEF Listening

\* Whoever listens on the channel of a command that has ended is gone.
LEMMA HangUpTypes ==
  ASSUME TypesInv, NEW i, HangUp(i)
  PROVE  Steady /\ Listening'
<1>1. i \in DOMAIN jobs /\ jobs' = [jobs EXCEPT ![i].ears = 0]
  BY DEF HangUp
<1>2. jobs \in Seq(JobShape) /\ DOMAIN jobs = Places /\ Len(jobs) \in Nat
  BY DEF TypesInv, WizardInv, Shape, Places
<1>3. ASSUME NEW k \in DOMAIN jobs
      PROVE  /\ jobs'[k].kind = jobs[k].kind /\ jobs'[k].status = jobs[k].status
             /\ jobs'[k].ears = IF k = i THEN 0 ELSE jobs[k].ears
  <2>1. jobs[k] \in JobShape
    BY <1>2
  <2>2. jobs'[k] = IF k = i THEN [jobs[k] EXCEPT !.ears = 0] ELSE jobs[k]
    BY <1>1, <1>2
  <2>3. QED
    BY <2>1, <2>2 DEF JobShape
<1>4. WizardInv' /\ DOMAIN jobs' = DOMAIN jobs
  BY <1>1, HangUpKeeps DEF TypesInv
<1>5. jobs' \in Seq(JobShape) /\ Len(jobs') = Len(jobs)
  BY <1>2, <1>4 DEF WizardInv, Shape
<1>6. Steady
  BY <1>3, <1>5 DEF Steady, TypesInv, Roomy, Downloading
<1>7. PICK ear : Tuned(ear)
  BY DEF TypesInv, Listening
<1> DEFINE now == [k \in Places |-> IF ear[k] = i THEN 0 ELSE ear[k]]
<1>8. now \in [Places -> 0 .. Len(jobs)]
  BY <1>2, <1>7 DEF Tuned
<1>9. \A j \in Places : {k \in Places : now[k] = j} = IF j = i THEN {} ELSE {k \in Places : ear[k] = j}
  BY <1>2 DEF Places
<1> HIDE DEF now
<1>10. \A j \in Places : jobs'[j].ears = Cardinality({k \in Places : now[k] = j})
  BY <1>2, <1>3, <1>7, <1>9, FS_EmptySet DEF Tuned
<1>11. PICK f : f = now
  OBVIOUS
<1>12. Tuned(f)'
  BY <1>5, <1>8, <1>10, <1>11 DEF Tuned, Places
<1>13. QED
  BY <1>6, <1>12 DEF Listening

\* Keys that start a command leave room for what follows a preparation.
LEMMA StartingTypes ==
  ASSUME TypesInv, UseVault \/ Prepare \/ Restore \/ Revert \/ Confirm \/ Resume
  PROVE  Roomy' /\ Listening'
<1>1. jobs \in Seq(JobShape) /\ Len(jobs) \in Nat /\ DOMAIN jobs = 1 .. Len(jobs)
  BY DEF TypesInv, WizardInv, Shape
<1>2. Preparing \in SUBSET (1 .. Len(jobs)) /\ Len(jobs) + 1 \notin Preparing
  BY <1>1 DEF Preparing
<1>3. IsFiniteSet(Preparing) /\ Cardinality(Preparing) \in Nat
  BY <1>1, <1>2, PlacesAreFinite
<1>4. ASSUME NEW kind \in Kinds, Launch(jobs, kind), Room(1), kind # "format"
      PROVE  Roomy' /\ Listening'
  <2>1. Len(jobs) + 1 + Cardinality(Preparing) <= MaxJobs
    BY <1>4 DEF Room, Preparing
  <2>2. QED
    BY <1>1, <1>3, <1>4, <2>1, LaunchTypes
<1>5. ASSUME Launch(jobs, "format"), Room(2)
      PROVE  Roomy' /\ Listening'
  <2> DEFINE P == Preparing \union {Len(jobs) + 1}
  <2>1. IsFiniteSet(P) /\ Cardinality(P) = Cardinality(Preparing) + 1
    BY <1>2, <1>3, FS_AddElement
  <2>2. Len(jobs) + 2 + Cardinality(Preparing) <= MaxJobs
    BY <1>5 DEF Room, Preparing
  <2>3. /\ \A i \in Preparing : i \in P
        /\ Len(jobs) + 1 \in P
    OBVIOUS
  <2> HIDE DEF P
  <2>4. Len(jobs) + 1 + Cardinality(P) <= MaxJobs
    BY <1>1, <1>3, <2>1, <2>2, BoundsAssumption
  <2>5. "format" \in Kinds
    BY DEF Kinds
  <2>6. QED
    BY <1>1, <1>5, <2>1, <2>3, <2>4, <2>5, LaunchTypes
<1>6. CASE UseVault
  <2>1. Vaulted \in Kinds /\ Vaulted # "format"
    BY DEF Vaulted, Kinds
  <2>2. QED
    BY <1>4, <1>6, <2>1 DEF UseVault
<1>7. CASE Prepare
  BY <1>5, <1>7 DEF Prepare
<1>8. CASE Restore \/ Revert
  BY <1>4, <1>8 DEF Restore, Revert, Kinds
<1>9. CASE Confirm \/ Resume
  BY <1>4, <1>9 DEF Confirm, Resume, StartProvisioning, Kinds
<1>10. QED
  BY <1>6, <1>7, <1>8, <1>9

\* A result that is handled ends its command, and the preparation's hands its
\* place on to the command that follows.
LEMMA HandleTypes ==
  ASSUME TypesInv, NEW i,
         \/ HandleFailure(i) \/ HandlePause(i) \/ HandleSuccess(i)
         \/ HandleBackup(i) \/ HandleStage(i) \/ HandleFormat(i)
  PROVE  Roomy' /\ Listening'
<1>1. i \in DOMAIN jobs /\ jobs[i].status \in Ended
  BY DEF HandleFailure, HandlePause, HandleSuccess, HandleBackup, HandleStage, HandleFormat,
         Succeeded, At, Ended
<1>2. jobs \in Seq(JobShape) /\ Len(jobs) \in Nat /\ DOMAIN jobs = 1 .. Len(jobs)
  BY DEF TypesInv, WizardInv, Shape
<1>3. /\ Seen(i) \in Seq(JobShape) /\ Len(Seen(i)) = Len(jobs)
      /\ \A k \in DOMAIN jobs : Seen(i)[k].kind = jobs[k].kind
      /\ Seen(i)[i].status = "seen"
  BY <1>1, SeenProperties DEF TypesInv
<1>4. \A k \in DOMAIN jobs : /\ Seen(i)[k].ears = jobs[k].ears
                             /\ Seen(i)[k].status \in {jobs[k].status, "seen"}
  <2> TAKE k \in DOMAIN jobs
  <2>1. jobs[k] \in JobShape
    BY <1>2
  <2>2. Seen(i)[k] = IF k = i THEN [jobs[k] EXCEPT !.status = "seen"] ELSE jobs[k]
    BY <1>2 DEF Seen
  <2>3. QED
    BY <2>1, <2>2 DEF JobShape
<1>5. CASE jobs' = Seen(i)
  <2>1. Steady
    BY <1>3, <1>4, <1>5 DEF Steady, TypesInv, Roomy, Downloading
  <2>2. Listening'
    BY <1>3, <1>4, <1>5, SteadyListeners
  <2>3. QED
    BY <2>1, <2>2, SteadyIsRoomy
<1>6. CASE HandleFormat(i) /\ Launch(Seen(i), Vaulted)
  <2> DEFINE P == Preparing \ {i}
  <2>1. i \in Preparing
    BY <1>1, <1>6 DEF HandleFormat, Succeeded, Preparing, At
  <2>2. Preparing \in SUBSET (1 .. Len(jobs))
    BY <1>2 DEF Preparing
  <2>3. IsFiniteSet(Preparing) /\ Cardinality(Preparing) \in Nat
    BY <1>2, <2>2, PlacesAreFinite
  <2>4. IsFiniteSet(P) /\ Cardinality(P) = Cardinality(Preparing) - 1
    BY <2>1, <2>3, FS_RemoveElement
  <2>5. \A k \in Preparing : Seen(i)[k].status # "seen" => k \in P
    BY <1>3
  <2> HIDE DEF P
  <2>6. Len(jobs) + 1 + Cardinality(P) <= MaxJobs
    BY <1>2, <2>3, <2>4, BoundsAssumption DEF TypesInv, Roomy
  <2>7. Vaulted \in Kinds /\ Vaulted # "format"
    BY DEF Vaulted, Kinds
  <2>8. QED
    BY <1>3, <1>4, <1>6, <2>4, <2>5, <2>6, <2>7, LaunchTypes
<1>7. QED
  BY <1>5, <1>6 DEF HandleFailure, HandlePause, HandleSuccess, HandleBackup, HandleStage, HandleFormat

\* What the commands do, and "p" and "s".
LEMMA CommandTypes ==
  ASSUME TypesInv,
         \/ \E i \in 1 .. MaxJobs :
              Fetched(i) \/ FetchPaused(i) \/ Report(i) \/ Succeed(i) \/ Fail(i)
         \/ Pause \/ Stop
  PROVE  Steady /\ Listening'
<1>1. jobs \in Seq(JobShape) /\ DOMAIN jobs = 1 .. Len(jobs)
      /\ \A k \in DOMAIN jobs : jobs[k] \in JobShape
  BY DEF TypesInv, WizardInv, Shape
<1>2. WizardInv' /\ DOMAIN jobs' = DOMAIN jobs
  BY CommandKeeps, CancelKeeps DEF TypesInv, Fetched, FetchPaused, Report, Succeed, Fail, Becomes,
     Pause, Stop, Cancel
<1>3. jobs' \in Seq(JobShape) /\ Len(jobs') = Len(jobs)
  BY <1>1, <1>2 DEF WizardInv, Shape
<1>4. ASSUME NEW k \in DOMAIN jobs
      PROVE  /\ jobs'[k].kind = jobs[k].kind /\ jobs'[k].ears = jobs[k].ears
             /\ jobs[k].kind = "format" /\ jobs'[k].status \in {"run", "ok"} =>
                  jobs[k].status \in {"run", "ok"}
             /\ jobs'[k].status \in {"fetch", "cancelled"} => jobs[k].kind = "provision"
  <2>1. jobs[k] \in JobShape /\ (jobs[k].status \in {"fetch", "cancelled"} => jobs[k].kind = "provision")
    BY <1>1 DEF TypesInv, Roomy, Downloading
  <2>2. CASE Pause \/ Stop
    <3>1. jobs'[k] = IF Cancelled(k) THEN [jobs[k] EXCEPT !.status = "cancelled"] ELSE jobs[k]
      BY <2>2 DEF Pause, Stop, Cancel
    <3>2. Cancelled(k) => jobs[k].status = "fetch"
      BY DEF Cancelled, At
    <3>3. QED
      BY <2>1, <3>1, <3>2 DEF JobShape
  <2>3. ASSUME NEW i \in 1 .. MaxJobs, Report(i)
        PROVE  /\ jobs'[k].kind = jobs[k].kind /\ jobs'[k].ears = jobs[k].ears
               /\ jobs'[k].status = jobs[k].status
    <3>1. k # i => jobs'[k] = jobs[k]
      BY <1>1, <2>3 DEF Report
    <3> DEFINE sent == IF jobs[k].sent < Cap THEN jobs[k].sent + 1 ELSE jobs[k].sent
               todo == jobs[k].todo - 1
    <3>2. k = i => jobs'[k] = [jobs[k] EXCEPT !.todo = todo, !.sent = sent]
      BY <1>1, <2>1, <2>3 DEF Report, JobShape
    <3> HIDE DEF sent, todo
    <3>3. QED
      BY <2>1, <3>1, <3>2 DEF JobShape
  <2>4. ASSUME NEW i \in 1 .. MaxJobs, NEW status, Becomes(i, status)
        PROVE  /\ jobs'[k].kind = jobs[k].kind /\ jobs'[k].ears = jobs[k].ears
               /\ jobs'[k].status = IF k = i THEN status ELSE jobs[k].status
    <3>1. k # i => jobs'[k] = jobs[k]
      BY <1>1, <2>4 DEF Becomes
    <3> DEFINE todo == IF status \in Ended THEN 0 ELSE jobs[k].todo
    <3>2. k = i => jobs'[k] = [jobs[k] EXCEPT !.status = status, !.todo = todo]
      BY <1>1, <2>1, <2>4 DEF Becomes, JobShape
    <3> HIDE DEF todo
    <3>3. QED
      BY <2>1, <3>1, <3>2 DEF JobShape
  <2>5. ASSUME NEW i \in 1 .. MaxJobs, Fetched(i) \/ FetchPaused(i)
        PROVE  jobs[i].kind = "provision" /\ \E status \in {"run", "paused"} : Becomes(i, status)
    BY <2>5 DEF Fetched, FetchPaused, At, TypesInv, Roomy, Downloading
  <2>6. ASSUME NEW i \in 1 .. MaxJobs, Succeed(i)
        PROVE  jobs[i].status = "run" /\ Becomes(i, "ok")
    BY <2>6 DEF Succeed, At
  <2>7. ASSUME NEW i \in 1 .. MaxJobs, Fail(i)
        PROVE  Becomes(i, "failed")
    BY <2>7 DEF Fail
  <2>8. CASE \E i \in 1 .. MaxJobs : Report(i)
    BY <2>1, <2>3, <2>8
  <2>9. CASE \E i \in 1 .. MaxJobs : Fetched(i) \/ FetchPaused(i)
    BY <2>1, <2>4, <2>5, <2>9
  <2>10. CASE \E i \in 1 .. MaxJobs : Succeed(i) \/ Fail(i)
    BY <2>1, <2>4, <2>6, <2>7, <2>10
  <2>11. QED
    BY <2>2, <2>8, <2>9, <2>10
<1>5. Steady
  BY <1>3, <1>4 DEF Steady
<1>6. Listening'
  BY <1>3, <1>4, SteadyListeners
<1>7. QED
  BY <1>5, <1>6

LEMMA TypesStep == TypesInv /\ [Next]_vars => TypesInv'
<1> SUFFICES ASSUME TypesInv, [Next]_vars
             PROVE  TypesInv'
  OBVIOUS
<1>0. WizardInv'
  BY WizardStep DEF TypesInv
<1>1. CASE UNCHANGED jobs
  BY <1>0, <1>1 DEF TypesInv, Roomy, Preparing, At, Downloading, Listening, Tuned, Places
<1>2. CASE Choosing \/ UNCHANGED vars
  BY <1>1, <1>2 DEF Choosing, Dismiss, Move, ChooseLevel, ChooseMode, PickPayload, PickSystem, Retreat,
     SkipBackup, PickStick, LookForSession, NothingToResume, Discard, background, vars
<1>3. CASE UseVault \/ Prepare \/ Restore \/ Revert \/ Confirm \/ Resume
  BY <1>0, <1>3, StartingTypes DEF TypesInv
<1>4. CASE Pause \/ Stop \/ Work \/ \E i \in 1 .. MaxJobs : Fetched(i) \/ Fail(i)
  BY <1>0, <1>4, CommandTypes, SteadyIsRoomy DEF Work, TypesInv
<1>5. CASE Quit
  <2>1. jobs' = << >> /\ DOMAIN jobs' = {} /\ Len(jobs') = 0 /\ Places' = {}
    BY <1>5 DEF Quit, Places
  <2>2. Preparing' = {}
    BY <2>1 DEF Preparing
  <2>3. Roomy'
    BY <2>1, <2>2, FS_EmptySet, BoundsAssumption DEF Roomy, Downloading
  <2>4. PICK f : f = [k \in {} |-> 0]
    OBVIOUS
  <2>5. Tuned(f)'
    BY <2>1, <2>4 DEF Tuned
  <2>6. QED
    BY <1>0, <2>3, <2>5 DEF TypesInv, Listening
<1>6. CASE Messages
  <2>1. ASSUME NEW i, Hear(i) \/ HangUp(i)
        PROVE  Roomy' /\ Listening'
    BY <2>1, HearTypes, HangUpTypes, SteadyIsRoomy
  <2>2. QED
    BY <1>0, <1>6, <2>1, HandleTypes DEF Messages, TypesInv
<1>7. QED
  BY <1>2, <1>3, <1>4, <1>5, <1>6 DEF Next, Keys, Choosing

\* Every part of the wizard's state keeps its type: in particular a channel
\* never has more listeners than commands were started, however updates and
\* results of commands the user has left are passed on.
THEOREM WizardTypes == Spec => []TypeOK
BY TypesInit, TypesStep, TypesFollow, PTL DEF Spec

=============================================================================
