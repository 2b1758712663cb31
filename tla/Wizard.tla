------------------------------- MODULE Wizard -------------------------------
(***************************************************************************)
(* The wizard (ui/model.go, ui/provision.go): a Bubble Tea program whose   *)
(* Update function handles one key or message at a time, and the commands  *)
(* it leaves running in the background - a provisioning run, a host backup,*)
(* the preparation of a USB stick, the staging of a payload on it, a       *)
(* restoration, a reversion - which report on channels and finally send    *)
(* one result, whatever screen the user has gone to meanwhile.             *)
(*                                                                         *)
(* Left out: what the lists hold (a selection may always succeed), the     *)
(* seeder, the push over SSH and the clean-up of the stick on the last     *)
(* screen, whose results change nothing of this state, and the catalog's   *)
(* failure to load.  The journal appears as the wizard has it in memory,   *)
(* loaded once; Provision.tla models the engine's own copy and the file.   *)
(***************************************************************************)
EXTENDS Naturals, Sequences, FiniteSets

CONSTANTS
  MaxJobs,     \* bound: background commands
  Cap,         \* capacity of an update channel (64 or 32 in the code)
  Sessions     \* modes of the sessions earlier processes may have left

Modes == {"dual", "single"}

ASSUME BoundsAssumption == MaxJobs \in Nat \ {0} /\ Cap \in Nat \ {0}
ASSUME SessionsAssumption == Sessions \subseteq Modes

VARIABLES
  screen,      \* m.screen; "off" when the program has ended
  fatal,       \* m.fatalErr is set
  mode,        \* m.provisionMode
  chosen,      \* m.selectedOS is set
  advanced,    \* m.isAdvancedMode
  override,    \* m.overridePayloadURL is set, as it stays from then on
  offered,     \* ProvisionMode of m.unfinishedState, "none" when that is nil
  jobs,        \* the commands, in the order they were started
  shown        \* the one whose channel is m.stepUpdates, or 0

vars == <<screen, fatal, mode, chosen, advanced, override, offered, jobs, shown>>

level == <<advanced, override>>
selection == <<mode, chosen, level>>
background == <<jobs, shown>>

Kinds == {"provision", "backup", "format", "stage", "restore", "revert"}

\* Commands that wait for room in their channel; the others drop an update.
Blocking == {"backup", "stage", "revert"}

\* Updates a command sends; bound: as many as can fill a channel nobody reads.
Updates(kind) ==
  CASE kind \in {"backup", "stage"} -> Cap + 2
    [] kind = "restore" -> 0
    [] OTHER -> 1

\* "fetch" and "cancelled" are the download of a provisioning run, without
\* and with a cancelled context; after it nothing looks at the context.
Unfinished == {"fetch", "cancelled", "run"}
Ended == {"ok", "failed", "paused"}      \* the result waits to be handled

JobType == [kind : Kinds, status : Unfinished \cup Ended \cup {"seen"},
            todo : 0 .. Cap + 2, sent : 0 .. Cap, ears : 0 .. MaxJobs]

Screens ==
  {"off", "mode", "role", "custom", "hub", "resume", "os", "target", "backup",
   "format", "storage", "confirm", "progress", "done", "error"}

TypeOK ==
  /\ screen \in Screens /\ fatal \in BOOLEAN
  /\ mode \in Modes /\ chosen \in BOOLEAN
  /\ advanced \in BOOLEAN /\ override \in BOOLEAN
  /\ offered \in Modes \cup {"none"}
  /\ jobs \in Seq(JobType) /\ Len(jobs) <= MaxJobs
  /\ shown \in 0 .. Len(jobs)

\* NewModel, on whatever journal earlier processes have left.
Init ==
  /\ screen = "mode" /\ fatal = FALSE /\ mode = "dual"
  /\ chosen = FALSE /\ advanced = FALSE /\ override = FALSE
  /\ offered \in Sessions \cup {"none"}
  /\ jobs = << >> /\ shown = 0

-----------------------------------------------------------------------------
(* Starting commands.                                                       *)

Job(kind) ==
  [kind |-> kind, status |-> IF kind = "provision" THEN "fetch" ELSE "run",
   todo |-> Updates(kind), sent |-> 0, ears |-> IF kind = "restore" THEN 0 ELSE 1]

At(i, statuses) == i \in DOMAIN jobs /\ jobs[i].status \in statuses

\* Room for the command itself and for those that follow a preparation.
Room(n) ==
  Len(jobs) + n
    + Cardinality({i \in DOMAIN jobs :
                     jobs[i].kind = "format" /\ At(i, {"run", "ok"})}) <= MaxJobs

\* The command runs, and someone listens on its channel if it has one.
Launch(before, kind) ==
  /\ jobs' = Append(before, Job(kind))
  /\ shown' = IF kind = "restore" THEN shown ELSE Len(before) + 1
  /\ screen' = "progress"

-----------------------------------------------------------------------------
(* Keys.  While an error is shown, only the keys that dismiss it work.      *)

On(screens) == screen \in screens /\ ~fatal

Dismiss ==
  /\ fatal /\ screen # "off"
  /\ fatal' = FALSE /\ screen' = "hub"
  /\ UNCHANGED <<selection, offered, background>>

\* Keys that do no more than change the screen.  Screens that are left only
\* for the one they are entered from, or for where that leads, are one with
\* it: "role" is also the panels of the advanced user with the seeder, the
\* push, the file picker and the lists of peers and sticks, "hub" the
\* diagnostics, the disaster recovery and the two confirmations that start a
\* restoration and a reversion, "os" the list of categories.
Moves ==
  {<<"role", "mode">>, <<"role", "hub">>, <<"custom", "role">>,
   <<"hub", "mode">>, <<"os", "hub">>, <<"target", "os">>,
   <<"target", "backup">>, <<"target", "format">>, <<"done", "hub">>,
   <<"storage", "confirm">>}

Move ==
  \E step \in Moves :
    /\ screen = step[1] /\ ~fatal
    /\ screen' = step[2]
    /\ UNCHANGED <<fatal, selection, offered, background>>

\* The first screen: an unfinished session is offered to normal users only.
ChooseLevel ==
  /\ On({"mode"})
  /\ \/ advanced' = TRUE /\ screen' = "role"
     \/ advanced' = FALSE /\ screen' = IF offered # "none" THEN "resume" ELSE "hub"
  /\ UNCHANGED <<fatal, mode, chosen, override, offered, background>>

\* Hub entries 1 and 2, and the choice for a payload picked before.
ChooseMode ==
  /\ On({"hub", "custom"})
  /\ mode' \in Modes
  /\ screen' = IF screen = "hub" THEN "os" ELSE "backup"
  /\ UNCHANGED <<fatal, chosen, level, offered, background>>

\* A payload that is picked without becoming the selected system.
PickPayloadOnly ==
  /\ On({"role"})
  /\ override' = TRUE /\ screen' = "custom"
  /\ UNCHANGED <<fatal, mode, chosen, advanced, offered, background>>

\* A payload staged before, on another machine or on a stick.
PickPayload ==
  /\ On({"role"})
  /\ chosen' = TRUE /\ override' = TRUE /\ screen' = "custom"
  /\ UNCHANGED <<fatal, mode, advanced, offered, background>>

PickSystem ==
  /\ On({"os"})
  /\ chosen' = TRUE /\ screen' = IF advanced THEN "target" ELSE "backup"
  /\ UNCHANGED <<fatal, mode, level, offered, background>>

\* Esc from the screens that precede a run: to the choice for a payload if
\* there is one or the user is an advanced one, whichever way they came.
Retreat ==
  /\ On({"backup", "format", "storage", "confirm"})
  /\ screen' = IF screen = "confirm" /\ mode = "dual" THEN "storage"
               ELSE IF advanced \/ override THEN "custom"
               ELSE IF screen = "storage" THEN "os" ELSE "hub"
  /\ UNCHANGED <<fatal, selection, offered, background>>

\* To the allocation of space, or to the confirmation of a disk wipe.
ToConfirmation == screen' = IF mode = "dual" THEN "storage" ELSE "confirm"

\* The user goes on without a backup, or there is nothing to stage.
SkipBackup ==
  /\ On({"backup"}) /\ ToConfirmation
  /\ UNCHANGED <<fatal, selection, offered, background>>

\* A whole disk is to be prepared first.
PickStick ==
  /\ On({"backup"}) /\ screen' = "format"
  /\ UNCHANGED <<fatal, selection, offered, background>>

\* A mounted volume is used as it is: for the payload, or for a backup.
Vaulted == IF mode = "dual" THEN "stage" ELSE "backup"

UseVault ==
  /\ On({"backup"}) /\ Room(1)
  /\ Launch(jobs, Vaulted)
  /\ UNCHANGED <<fatal, selection, offered>>

Prepare ==
  /\ On({"format"}) /\ Room(2)
  /\ Launch(jobs, "format")
  /\ UNCHANGED <<fatal, selection, offered>>

Restore ==
  /\ On({"hub"}) /\ Room(1)
  /\ Launch(jobs, "restore")
  /\ UNCHANGED <<fatal, selection, offered>>

Revert ==
  /\ On({"hub"}) /\ Room(1)
  /\ Launch(jobs, "revert")
  /\ UNCHANGED <<fatal, selection, offered>>

-----------------------------------------------------------------------------
(* Provisioning runs.                                                       *)

\* startProvisioning: m.unfinishedState points at the journal's session,
\* which becomes that of this run.
StartProvisioning ==
  /\ Room(1)
  /\ Launch(jobs, "provision")
  /\ offered' = IF offered = "none" THEN "none" ELSE mode
  /\ UNCHANGED <<fatal, selection>>

\* In single-boot mode ENTER counts only over the word ERASE, typed here: what
\* an earlier confirmation may have left in the input is not modelled.
Confirm == On({"confirm"}) /\ StartProvisioning

\* The run has the mode chosen last in this process, not the session's.
Resume == On({"resume"}) /\ offered # "none" /\ StartProvisioning

\* Hub entry 4: the journal in memory has not changed since it was loaded.
LookForSession ==
  /\ On({"hub"})
  /\ screen' = "resume"
  /\ UNCHANGED <<fatal, selection, offered, background>>

NothingToResume ==
  /\ On({"resume"}) /\ offered = "none"
  /\ screen' = "hub"
  /\ UNCHANGED <<fatal, selection, offered, background>>

\* The journal is purged, also in memory.
Discard ==
  /\ On({"resume"})
  /\ screen' = "hub" /\ offered' = "none"
  /\ UNCHANGED <<fatal, selection, background>>

-----------------------------------------------------------------------------
(* The progress screen, and the end of the program.                         *)

Runs == {i \in DOMAIN jobs : jobs[i].kind = "provision"}

\* m.cancelProvision cancels the newest run, which looks at it in its
\* download; no other command can be cancelled.
Cancelled(i) == At(i, {"fetch"}) /\ \A k \in Runs : k <= i

Cancel ==
  jobs' = [i \in DOMAIN jobs |->
             IF Cancelled(i) THEN [jobs[i] EXCEPT !.status = "cancelled"]
                             ELSE jobs[i]]

\* "p": the screen stays until the result of the run is there.
Pause ==
  /\ On({"progress"}) /\ Cancel
  /\ UNCHANGED <<screen, fatal, selection, offered, shown>>

\* "s": the user is back at the Hub at once, whatever is still running.
Stop ==
  /\ On({"progress"}) /\ Cancel
  /\ screen' = "hub"
  /\ UNCHANGED <<fatal, selection, offered, shown>>

\* Ctrl+C anywhere, "q" on many screens, or the reboot: every goroutine ends
\* with the process.  Nothing of the state matters any more.
Quit ==
  /\ screen # "off" /\ screen' = "off"
  /\ jobs' = << >> /\ shown' = 0
  /\ UNCHANGED <<fatal, selection, offered>>

-----------------------------------------------------------------------------
(* What the commands do.                                                    *)

Becomes(i, status) ==
  jobs' = [jobs EXCEPT ![i].status = status,
                       ![i].todo = IF status \in Ended THEN 0 ELSE @]

foreground == <<screen, fatal, selection, offered, shown>>

\* The download ends; a cancellation may come too late for it.
Fetched(i) ==
  /\ At(i, {"fetch", "cancelled"})
  /\ Becomes(i, "run") /\ UNCHANGED foreground

FetchPaused(i) ==
  /\ At(i, {"cancelled"})
  /\ Becomes(i, "paused") /\ UNCHANGED foreground

\* A send that does not look at the channel's capacity.
ReportUnbounded(i) ==
  /\ At(i, {"run"}) /\ jobs[i].todo > 0
  /\ jobs' = [jobs EXCEPT ![i].todo = @ - 1, ![i].sent = @ + 1]
  /\ UNCHANGED foreground

\* One update is sent: into a full channel it waits or is dropped.
Report(i) ==
  /\ At(i, {"run"}) /\ jobs[i].todo > 0
  /\ jobs[i].kind \in Blocking => jobs[i].sent < Cap
  /\ jobs' = [jobs EXCEPT ![i].todo = @ - 1,
                          ![i].sent = IF @ < Cap THEN @ + 1 ELSE @]
  /\ UNCHANGED foreground

Succeed(i) ==
  /\ At(i, {"run"}) /\ jobs[i].todo = 0
  /\ Becomes(i, "ok") /\ UNCHANGED foreground

\* Only the reversion reports no failure, whatever its tools have said.
Fail(i) ==
  /\ At(i, Unfinished) /\ jobs[i].kind # "revert"
  /\ Becomes(i, "failed") /\ UNCHANGED foreground

-----------------------------------------------------------------------------
(* Messages.                                                                *)

\* An update is handled and nobody listens for the next one.
HearOnce(i) ==
  /\ screen # "off" /\ i \in DOMAIN jobs
  /\ jobs[i].sent > 0 /\ jobs[i].ears > 0
  /\ jobs' = [jobs EXCEPT ![i].sent = @ - 1, ![i].ears = @ - 1]
  /\ UNCHANGED foreground

\* handleProvisionStep: whichever channel the update came from, the next one
\* is awaited on the channel of the command started last.
Hear(i) ==
  /\ screen # "off" /\ i \in DOMAIN jobs
  /\ jobs[i].sent > 0 /\ jobs[i].ears > 0
  /\ LET heard == [jobs EXCEPT ![i].sent = @ - 1, ![i].ears = @ - 1] IN
       jobs' = [heard EXCEPT ![shown].ears = @ + 1]
  /\ UNCHANGED foreground

\* A run closes its channel.  The others leave theirs open, and whoever
\* listens there is never heard of again.
HangUp(i) ==
  /\ i \in DOMAIN jobs /\ jobs[i].status \notin Unfinished
  /\ jobs[i].sent = 0 /\ jobs[i].ears > 0
  /\ jobs' = [jobs EXCEPT ![i].ears = 0]
  /\ UNCHANGED foreground

Seen(i) == [jobs EXCEPT ![i].status = "seen"]

HandleFailure(i) ==
  /\ At(i, {"failed"}) /\ jobs' = Seen(i)
  /\ fatal' = TRUE /\ screen' = "error"
  /\ UNCHANGED <<selection, offered, shown>>

\* A paused run that leaves the screen as it is.
HandlePauseQuietly(i) ==
  /\ At(i, {"paused"}) /\ jobs' = Seen(i)
  /\ UNCHANGED foreground

HandlePause(i) ==
  /\ At(i, {"paused"}) /\ jobs' = Seen(i)
  /\ screen' = "hub"
  /\ UNCHANGED <<fatal, selection, offered, shown>>

Succeeded(i, kinds) == At(i, {"ok"}) /\ jobs[i].kind \in kinds

\* The last screen: of the installation, or of the restored host.
HandleSuccess(i) ==
  /\ Succeeded(i, {"provision", "restore", "revert"}) /\ jobs' = Seen(i)
  /\ screen' = "done"
  /\ UNCHANGED <<fatal, selection, offered, shown>>

\* The next screen depends on the mode of now, not on that of the backup.
HandleBackup(i) ==
  /\ Succeeded(i, {"backup"}) /\ jobs' = Seen(i) /\ ToConfirmation
  /\ UNCHANGED <<fatal, selection, offered, shown>>

\* The staged copy is the payload from now on.
HandleStage(i) ==
  /\ Succeeded(i, {"stage"}) /\ jobs' = Seen(i)
  /\ override' = TRUE /\ screen' = "storage"
  /\ UNCHANGED <<fatal, mode, chosen, advanced, offered, shown>>

\* The allocation of space is shown while the staging has only begun.
HandleFormatAhead(i) ==
  /\ Succeeded(i, {"format"}) /\ screen' = "storage"
  /\ \/ jobs' = Append(Seen(i), Job(Vaulted)) /\ shown' = Len(jobs) + 1
     \/ jobs' = Seen(i) /\ UNCHANGED shown
  /\ UNCHANGED <<fatal, selection, offered>>

\* A prepared stick is put to use, unless there is no payload to stage.
HandleFormat(i) ==
  /\ Succeeded(i, {"format"})
  /\ \/ Launch(Seen(i), Vaulted)
     \/ mode = "dual" /\ screen' = "storage" /\ jobs' = Seen(i) /\ UNCHANGED shown
  /\ UNCHANGED <<fatal, selection, offered>>

-----------------------------------------------------------------------------
Keys ==
  \/ Dismiss \/ Move \/ ChooseLevel \/ ChooseMode \/ PickPayload \/ PickSystem
  \/ Retreat \/ SkipBackup \/ PickStick \/ UseVault \/ Prepare \/ Restore
  \/ Revert \/ Confirm \/ Resume \/ LookForSession
  \/ NothingToResume \/ Discard \/ Pause \/ Stop \/ Quit

\* Fetched and Fail are up to the mirrors and the tools.
Work == \E i \in 1 .. MaxJobs : FetchPaused(i) \/ Report(i) \/ Succeed(i)

Messages ==
  \E i \in 1 .. MaxJobs :
    \/ Hear(i) \/ HangUp(i) \/ HandleFailure(i) \/ HandlePause(i)
    \/ HandleSuccess(i) \/ HandleBackup(i) \/ HandleStage(i) \/ HandleFormat(i)

Next ==
  \/ Keys \/ Work \/ Messages
  \/ \E i \in 1 .. MaxJobs : Fetched(i) \/ Fail(i)

\* While the process lives goroutines go on and Update is called for every
\* message: some of these steps is taken as long as one can be.  Each uses up
\* work that only a key can add to.  Downloads have no time-out, and nothing
\* is asked of the user.
Spec == Init /\ [][Next]_vars /\ WF_vars(Work \/ Messages)

-----------------------------------------------------------------------------
(* Properties.                                                              *)

Active == {i \in DOMAIN jobs : jobs[i].status # "seen"}

\* The progress screen never outlives what it is shown for: some command is
\* still to deliver the result that leaves it, whichever results came late
\* from commands the user had left (model.go:790-943).
ProgressIsBacked == screen = "progress" => Active # {}

\* Only "s" and the end of the program take the user away from a command
\* that still works on the disks: no other key, no result, no pause
\* (model.go:2086-2100).  What is behind an error that has not been dismissed
\* is not on the screen: dismissing it leaves that too (model.go:948-952).
OnlyStopLeaves ==
  [][screen = "progress" /\ ~fatal /\ Cardinality(Active) = 1 /\ screen' # "progress"
       => Active' = {} \/ Stop]_vars

\* The confirmation screen, which reads the selected system when it starts
\* the run (model.go:2051, 2065), is not reached without one, neither by keys
\* nor by a late result.
SelectionKnown == screen = "confirm" => chosen

\* Somebody listens to the command started last for as long as it works:
\* updates of older commands do not use up its listener (provision.go:65).
NewestIsHeard ==
  shown # 0 /\ At(shown, Unfinished) => jobs[shown].ears > 0

\* A command that works comes to its end and its result to the screen -
\* unless it waits for room in a channel that another command's channel has
\* replaced, or the program ends.
Deaf(i) == jobs[i].kind \in Blocking /\ shown # i

ResultsArrive ==
  \A i \in 1 .. MaxJobs :
    At(i, {"run"}) ~> (~At(i, {"run", "ok", "failed"}) \/ Deaf(i))

\* "Replaces host OS completely; triggers live host backup & explicit ERASE."
\* (ui/view.go:837): a run in single-boot mode starts where ERASE has been
\* typed, or continues a session that was started so.
WipeIsConfirmed ==
  [][Len(jobs') > Len(jobs) /\ jobs'[Len(jobs')].kind = "provision"
          /\ mode = "single"
       => \/ screen = "confirm"
          \/ screen = "resume" /\ offered = "single"]_vars

=============================================================================
