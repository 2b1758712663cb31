----------------------------- MODULE Provision -----------------------------
(***************************************************************************)
(* engine.RunProvision (engine/orchestrator.go) on a Linux host, one run   *)
(* after the other, each ordered by the wizard (ui/model.go) and each on   *)
(* top of whatever journal the earlier ones left.  Two Journal objects     *)
(* share one file: the wizard's, loaded when the process starts and kept   *)
(* until it ends, and the engine's, loaded anew by every run.              *)
(*                                                                         *)
(* Every call that touches the journal or the machine is a step of its     *)
(* own, and the process may die between any two.  Tools (parted, dd,       *)
(* update-grub, ...) may fail wherever the code looks at their result.     *)
(*                                                                         *)
(* Abstractions: a partition table is the number of the write that made    *)
(* it (0: the host's own), the GRUB_DEFAULT line the number of the run     *)
(* that set it, and an image either the one that was asked for or not.     *)
(***************************************************************************)
EXTENDS JournalRecord, FiniteSets

CONSTANTS
  Requests,       \* what the user may order: records of RequestType
  Firmwares,      \* the machines looked at: subset of {"uefi", "bios"}
  MaxRuns,        \* bound: provisioning runs
  MaxFaults,      \* bound: failing writes and removals of the journal file
  UsbFallback,    \* the offline resizer may be staged when carving fails
  Deaths          \* the process may die at any point

RequestType == [mode : {"dual", "single"}, windows : BOOLEAN, sha : BOOLEAN]

ASSUME RequestsAssumption == Requests \subseteq RequestType
ASSUME FirmwaresAssumption == Firmwares \subseteq {"uefi", "bios"}
ASSUME BoundsAssumption ==
  /\ MaxRuns \in Nat \ {0}
  /\ MaxFaults \in Nat
  /\ UsbFallback \in BOOLEAN /\ Deaths \in BOOLEAN

VARIABLES
  firmware,    \* what FirmwareModeCheck finds
  pc,          \* where the wizard process and its engine are
  req,         \* the current, or last, request
  uiLoaded,    \* the wizard holds a Journal object ...
  ui,          \* ... with this value
  onDisk,      \* the journal file exists
  disk,        \* its content
  faults,      \* ghost: writes and removals of it that failed
  mem,         \* the engine's Journal object
  pos,         \* RollbackAll's loop index
  host,        \* the machine
  payload,     \* the image at DownloadDestPath, as far as this run knows
  result,      \* the last run's ProvisionResult
  runs,        \* runs so far
  undone,      \* ghost: steps this RollbackAll has marked rolled_back
  base,        \* ghost: steps the run found in the journal
  before,      \* ghost: the machine when the run began
  delivered    \* ghost: table of the last success, if that found no journal

vars == <<firmware, pc, req, uiLoaded, ui, onDisk, disk, faults, mem, pos, host,
          payload, result, runs, undone, base, before, delivered>>

file == <<onDisk, disk, faults>>
wizard == <<uiLoaded, ui>>
run == <<firmware, req, wizard, runs, base, before>>   \* fixed while the engine works
outcome == <<result, delivered>>

-----------------------------------------------------------------------------
(* Steps and their rollback data.                                           *)

Data(kind, was) == [kind |-> kind, was |-> was]
Null == Data("null", 0)         \* what Begin(name, nil) stores
Absent == Data("absent", 0)     \* a nil RawMessage: no JSON at all
Saved(v) == Data("saved", v)    \* a snapshot of what the step overwrites

Begun(name) == [name |-> name, status |-> "running", data |-> Null]

\* The step a phase holds: the last one of its name.
Held(name) ==
  CHOOSE i \in DOMAIN mem.steps :
    /\ mem.steps[i].name = name
    /\ \A k \in DOMAIN mem.steps : mem.steps[k].name = name => k <= i

\* step.RollbackData = d: in memory, until the next flush.
WithData(j, i, d) == [j EXCEPT !.steps[i].data = d]

Handled == {"partition-shrink", "revert-engine", "uefi-set-boot-order",
            "grub-set-default"}

\* The line RollbackSetGrubDefaultEntry writes when it has no original.
Blank == MaxRuns + 1
Tables == 0 .. 2 * MaxRuns

\* writes: the tables written so far, the newest of which has that number.
\* esp: the EFI directory with the name of the boot label is there.
Host == [table : Tables, writes : Tables, esp : BOOLEAN,
         line : 0 .. Blank, dropins : SUBSET {"menu", "prober"},
         image : {"none", "asked", "other"}, onto : Tables]

Original == [table |-> 0, writes |-> 0, esp |-> TRUE,
             line |-> 0, dropins |-> {}, image |-> "none", onto |-> 0]

\* A new partition table is written.
Repartitioned(h) == [h EXCEPT !.table = h.writes + 1, !.writes = h.writes + 1]

Phases ==
  {"off", "hub", "open", "download", "fetch", "verify", "wipe", "wiping",
   "wiped", "shrink", "backup", "carve", "carved", "fallback", "deploy",
   "deploying", "deployed", "boot", "configure", "unrecorded_boot",
   "configured", "revert", "guard", "entry", "order", "grub",
   "unrecorded_grub", "relined", "close", "finalize", "rollback"}

Results == {"none", "paused", "failed", "success", "handed_off"}

StepType ==
  [name : {"image-download", "single-boot-wipe", "partition-shrink",
           "image-deploy", "bootloader-configure", "revert-engine",
           "uefi-set-boot-order", "grub-set-default"},
   status : Status,
   data : [kind : {"null", "absent", "saved"}, was : Nat]]

JournalType == [paused : BOOLEAN, steps : Seq(StepType)]

TypeOK ==
  /\ firmware \in Firmwares /\ pc \in Phases /\ req \in Requests
  /\ uiLoaded \in BOOLEAN /\ ui \in JournalType
  /\ onDisk \in BOOLEAN /\ disk \in JournalType /\ faults \in 0 .. MaxFaults
  /\ mem \in JournalType /\ pos \in 0 .. Len(mem.steps)
  /\ host \in Host /\ before \in Host
  /\ payload \in {"none", "asked", "other"} /\ result \in Results
  /\ undone \subseteq DOMAIN mem.steps
  /\ runs \in 0 .. MaxRuns /\ base \in Nat /\ delivered \in Tables

Init ==
  /\ firmware \in Firmwares /\ pc = "off" /\ req \in Requests
  /\ uiLoaded = FALSE /\ ui = Fresh
  /\ onDisk = FALSE /\ disk = Fresh /\ faults = 0 /\ mem = Fresh /\ pos = 0
  /\ host = Original /\ payload = "none" /\ result = "none"
  /\ runs = 0 /\ undone = {} /\ base = 0 /\ before = Original /\ delivered = 0

-----------------------------------------------------------------------------
(* The journal file.                                                        *)

Fault == faults < MaxFaults /\ faults' = faults + 1 /\ UNCHANGED <<onDisk, disk>>

Flush(ok, j) ==
  IF ok THEN onDisk' = TRUE /\ disk' = j /\ UNCHANGED faults ELSE Fault

\* A flush whose error the caller ignores.
FlushMaybe(j) == \E ok \in BOOLEAN : Flush(ok, j)

RemoveMaybe ==
  \/ onDisk' = FALSE /\ disk' = Fresh /\ UNCHANGED faults
  \/ Fault

-----------------------------------------------------------------------------
(* The wizard process.                                                      *)

\* NewModel: the journal is loaded once, when the process starts.
Launch ==
  /\ pc = "off" /\ pc' = "hub"
  /\ uiLoaded' = onDisk /\ ui' = disk
  /\ UNCHANGED <<firmware, req, file, mem, pos, undone, host, payload, outcome,
                 runs, base, before>>

\* The user quits, the process is killed, the machine loses power.
Die ==
  /\ pc # "off" /\ pc' = "off"
  /\ Deaths \/ pc = "hub"
  /\ uiLoaded' = FALSE /\ ui' = Fresh /\ mem' = Fresh /\ pos' = 0 /\ undone' = {}
  /\ result' = "none"
  /\ UNCHANGED <<firmware, req, file, host, payload, delivered, runs, base, before>>

\* A nil *Step is dereferenced: the engine's panic ends the process.
Panic ==
  /\ pc' = "off"
  /\ uiLoaded' = FALSE /\ ui' = Fresh /\ mem' = Fresh /\ pos' = 0 /\ undone' = {}
  /\ result' = "none"
  /\ UNCHANGED <<firmware, req, delivered, runs, base, before>>

\* "n" at the resume alert, which Hub entry 4 always opens: PurgeForce.
Discard ==
  /\ pc = "hub" /\ uiLoaded
  /\ ui' = Fresh /\ RemoveMaybe
  /\ result' = "none"
  /\ UNCHANGED <<firmware, pc, req, uiLoaded, mem, pos, undone, host, payload,
                 delivered, runs, base, before>>

Ordered(r) ==
  /\ pc = "hub" /\ runs < MaxRuns
  /\ req' = r /\ runs' = runs + 1 /\ before' = host
  /\ UNCHANGED <<firmware, mem, pos, undone, host, payload, delivered, base>>

\* A startProvisioning that leaves the session's flag as it finds it.
StartWithFlag(r) ==
  /\ Ordered(r) /\ uiLoaded
  /\ UNCHANGED <<wizard, result>>
  /\ FlushMaybe(ui) /\ pc' = "open"

\* startProvisioning on a loaded journal: SetSessionState clears the flag and
\* writes the wizard's steps, whatever the engine has recorded meanwhile.
StartAgain(r) ==
  /\ Ordered(r) /\ uiLoaded
  /\ ui' = [ui EXCEPT !.paused = FALSE]
  /\ FlushMaybe(ui') /\ pc' = "open"
  /\ UNCHANGED <<uiLoaded, result>>

\* startProvisioning without one: NewJournal's error leaves a nil object,
\* and SetSessionState dereferences it.
StartFirst(r) ==
  /\ Ordered(r) /\ ~uiLoaded
  /\ ui' = Fresh
  /\ \/ Flush(TRUE, Fresh) /\ uiLoaded' = TRUE /\ pc' = "open" /\ UNCHANGED result
     \/ Flush(FALSE, Fresh) /\ uiLoaded' = FALSE /\ pc' = "off" /\ result' = "none"

-----------------------------------------------------------------------------
(* The engine's calls on its journal.                                       *)

\* The engine moves on; a run never touches the wizard's object.
Go(from, to) == pc = from /\ pc' = to /\ UNCHANGED <<run, outcome>>

\* Begin hands out a step, or its flush fails and the run goes elsewhere.
BeginAt(from, name, to) ==
  /\ Go(from, to)
  /\ mem' = WithStep(mem, Begun(name)) /\ Flush(TRUE, mem')
  /\ UNCHANGED <<pos, undone, host, payload>>

\* The fail closure after a flushing call: RollbackAll begins.
RollBack(from, j) ==
  /\ Go(from, "rollback")
  /\ mem' = j /\ pos' = Len(j.steps) /\ undone' = {}

\* Begin's error is returned through fail.
BeginFailsAt(from, name) ==
  /\ RollBack(from, WithStep(mem, Begun(name))) /\ Flush(FALSE, mem')
  /\ UNCHANGED <<host, payload>>

\* Begin's error is ignored; the step is not in hand and never will be.
BeginIgnoredAt(from, name, to) ==
  /\ Go(from, to)
  /\ mem' = WithStep(mem, Begun(name)) /\ Flush(FALSE, mem')
  /\ UNCHANGED <<pos, undone, host, payload>>

CommitAt(from, name, to) ==
  /\ Go(from, to)
  /\ mem' = WithStatus(mem, Held(name), "committed") /\ FlushMaybe(mem')
  /\ UNCHANGED <<pos, undone, host, payload>>

\* journal.Fail followed by the fail closure; j has the failed step's data.
FailAt(from, name, j) ==
  /\ RollBack(from, WithStatus(j, Held(name), "failed")) /\ FlushMaybe(mem')
  /\ UNCHANGED payload

-----------------------------------------------------------------------------
(* Opening the journal and acquiring the payload.                           *)

\* RunProvision starts: LoadJournal, or NewJournal if there is no file.
OpenJournal ==
  /\ pc = "open"
  /\ \/ /\ onDisk /\ mem' = disk /\ pc' = "download" /\ UNCHANGED <<file, result>>
     \/ /\ ~onDisk /\ Flush(TRUE, Fresh)
        /\ mem' = Fresh /\ pc' = "download" /\ UNCHANGED result
     \/ /\ ~onDisk /\ Flush(FALSE, Fresh)
        /\ mem' = Fresh /\ pc' = "hub" /\ result' = "failed"
  /\ base' = Len(mem'.steps) /\ payload' = "none"
  /\ UNCHANGED <<firmware, req, wizard, pos, undone, host, delivered, runs, before>>

BeginDownload ==
  \/ BeginAt("download", "image-download", "fetch")
  \/ BeginFailsAt("download", "image-download")

\* StreamDownloadWithFailover delivers some image.
Fetch ==
  /\ Go("fetch", "verify")
  /\ payload' \in {"asked", "other"}
  /\ UNCHANGED <<file, mem, pos, undone, host>>

\* A pause that records the interrupted download as done.
PauseAsCommit ==
  /\ pc = "fetch" /\ pc' = "hub" /\ result' = "paused"
  /\ FlushMaybe(WithStatus(mem, Held("image-download"), "committed"))
  /\ mem' = Fresh
  /\ UNCHANGED <<run, pos, undone, host, payload, delivered>>

\* The context is cancelled ("p" or "s"): Pause, and fail without rollback.
FetchPaused ==
  /\ pc = "fetch" /\ pc' = "hub" /\ result' = "paused"
  /\ FlushMaybe(WithPause(mem, Held("image-download")))
  /\ mem' = Fresh
  /\ UNCHANGED <<run, pos, undone, host, payload, delivered>>

FetchFails == FailAt("fetch", "image-download", mem) /\ UNCHANGED host

\* Where the pipeline goes once the image is committed.
Pipeline ==
  CASE req.mode = "single" -> "wipe"
    [] req.mode = "dual" /\ ~mem.paused -> "shrink"
    [] OTHER -> "deploy"

\* A pipeline that trusts the stream's own check.
VerifyNothing == CommitAt("verify", "image-download", Pipeline)

\* verifyFileSHA256 when a checksum is known; then Commit.
Verify ==
  \/ /\ ~req.sha \/ payload = "asked"
     /\ CommitAt("verify", "image-download", Pipeline)
  \/ /\ req.sha /\ payload = "other"
     /\ FailAt("verify", "image-download", mem) /\ UNCHANGED host

-----------------------------------------------------------------------------
(* Single boot: wiping the disk.                                            *)

BeginWipe ==
  \/ BeginAt("wipe", "single-boot-wipe", "wiping")
  \/ BeginFailsAt("wipe", "single-boot-wipe")

\* No result of parted and mkfs is looked at.
Wipe ==
  /\ Go("wiping", "wiped")
  /\ host' \in {host, Repartitioned(host)}
  /\ UNCHANGED <<file, mem, pos, undone, payload>>

CommitWipe == CommitAt("wiped", "single-boot-wipe", "deploy")

-----------------------------------------------------------------------------
(* Dual boot: carving a partition.                                          *)

BeginShrink ==
  \/ BeginAt("shrink", "partition-shrink", "backup")
  \/ BeginFailsAt("shrink", "partition-shrink")

\* A carve that begins before the table is backed up.
BackupNothing ==
  /\ Go("backup", "carve")
  /\ UNCHANGED <<file, mem, pos, undone, host, payload>>

\* BackupPartitionTable; the bytes stay in memory until the next flush.
Backup ==
  \/ /\ Go("backup", "carve")
     /\ mem' = WithData(mem, Held("partition-shrink"), Saved(host.table))
     /\ UNCHANGED <<file, pos, undone, host, payload>>
  \/ FailAt("backup", "partition-shrink", mem) /\ UNCHANGED host

\* CarveHardwarePartitionAtBoundary succeeds, or fails anywhere inside.
Carve ==
  \/ /\ Go("carve", "carved")
     /\ host' = Repartitioned(host)
     /\ UNCHANGED <<file, mem, pos, undone, payload>>
  \/ /\ Go("carve", "fallback")
     /\ host' \in {host, Repartitioned(host)}
     /\ UNCHANGED <<file, mem, pos, undone, payload>>

CommitCarve == CommitAt("carved", "partition-shrink", "deploy")

\* No directory for the offline resizer, or the USB boot loader is not armed.
FallbackFails ==
  FailAt("fallback", "partition-shrink", mem) /\ UNCHANGED host

\* The offline resizer is staged and the machine reboots into it: the run
\* reports a success, and its partition-shrink step stays "running".
HandOff ==
  /\ UsbFallback
  /\ pc = "fallback" /\ pc' = "hub" /\ result' = "handed_off"
  /\ mem' = Fresh
  /\ UNCHANGED <<run, file, pos, undone, host, payload, delivered>>

-----------------------------------------------------------------------------
(* Writing the image and configuring the boot menu.                         *)

BeginDeploy ==
  \/ BeginAt("deploy", "image-deploy", "deploying")
  \/ BeginFailsAt("deploy", "image-deploy")

\* PlanDeploy and ApplyDeploy: the image goes where the table now says.
Written == [host EXCEPT !.image = payload, !.onto = host.table]

\* ApplyDeploy or ApplyWim; a failing one may have written part of the image.
Deploy ==
  \/ /\ Go("deploying", "deployed")
     /\ host' = Written
     /\ UNCHANGED <<file, mem, pos, undone, payload>>
  \/ /\ FailAt("deploying", "image-deploy", mem)
     /\ host' \in {host, Written}

CommitDeploy ==
  CommitAt("deployed", "image-deploy",
           IF req.mode = "dual" /\ req.windows THEN "revert" ELSE "boot")

\* Dual boot skips the configuration if its step cannot be recorded; single
\* boot configures all the same.
BeginBoot ==
  \/ BeginAt("boot", "bootloader-configure", "configure")
  \/ BeginIgnoredAt("boot", "bootloader-configure",
                    IF req.mode = "dual" THEN "revert" ELSE "unrecorded_boot")

\* AutoConfigureDualBoot writes two drop-ins, then works on the new system.
Configured == [host EXCEPT !.dropins = {"menu", "prober"}]

Configure ==
  \/ /\ Go("configure", "configured")
     /\ host' = Configured
     /\ UNCHANGED <<file, mem, pos, undone, payload>>
  \/ /\ req.mode = "dual"
     /\ FailAt("configure", "bootloader-configure", mem)
     /\ host' = Configured

\* Commit of a nil step.
ConfigureUnrecorded ==
  /\ pc = "unrecorded_boot" /\ Panic
  /\ host' = Configured
  /\ UNCHANGED <<file, payload>>

CommitBoot ==
  CommitAt("configured", "bootloader-configure",
           IF req.mode = "dual" THEN "revert" ELSE "finalize")

-----------------------------------------------------------------------------
(* Dual boot: the revert guard and the firmware's boot entry.               *)

\* A step that cannot be recorded is nil, and is dereferenced next.
BeginRevert ==
  \/ BeginAt("revert", "revert-engine", "guard")
  \/ /\ pc = "revert" /\ Flush(FALSE, mem) /\ Panic
     /\ UNCHANGED <<host, payload>>

\* The parameters of ExecuteRealReversion; the step stays open to the end.
Guard ==
  /\ Go("guard", "entry")
  /\ mem' = WithData(mem, Held("revert-engine"), Saved(0))
  /\ UNCHANGED <<file, pos, undone, host, payload>>

\* AddWindowsBootEntry: a host with parted and blockdev has no bcdedit.
WindowsEntryFails ==
  /\ req.windows
  /\ RollBack("entry", mem)
  /\ UNCHANGED <<file, host, payload>>

\* ReadNVRAMState fails: the entry is skipped.  (Or the step is recorded.)
BeginOrder ==
  /\ ~req.windows /\ firmware = "uefi"
  /\ \/ Go("entry", "close") /\ UNCHANGED <<file, mem, pos, undone, host, payload>>
     \/ BeginAt("entry", "uefi-set-boot-order", "order")
     \/ /\ pc = "entry" /\ Flush(FALSE, mem) /\ Panic
        /\ UNCHANGED <<host, payload>>

\* SetBootOrder writes the order it has just read; a failure is no reason to
\* stop.  Its own ReadNVRAMState may fail, which leaves no rollback data.
SetOrder ==
  \E d \in {Saved(0), Absent}, status \in {"committed", "failed"} :
    /\ status = "committed" => d = Saved(0)
    /\ Go("order", "close")
    /\ LET i == Held("uefi-set-boot-order") IN
         mem' = WithStatus(WithData(mem, i, d), i, status)
    /\ FlushMaybe(mem')
    /\ UNCHANGED <<pos, undone, host, payload>>

BeginGrub ==
  /\ ~req.windows /\ firmware = "bios"
  /\ \/ BeginAt("entry", "grub-set-default", "grub")
     \/ BeginIgnoredAt("entry", "grub-set-default", "unrecorded_grub")

\* The line is replaced.
Relined == [host EXCEPT !.line = runs]

\* SetGrubDefaultEntry; it may fail to read the file, to write
\* it, or - the line replaced - to regenerate the menu.
SetGrub ==
  LET i == Held("grub-set-default")
      saved == WithData(mem, i, Saved(host.line)) IN
  \/ /\ Go("grub", "relined")
     /\ host' = Relined /\ mem' = saved
     /\ UNCHANGED <<file, pos, undone, payload>>
  \/ /\ FailAt("grub", "grub-set-default", WithData(mem, i, Absent))
     /\ UNCHANGED host
  \/ /\ FailAt("grub", "grub-set-default", saved)
     /\ host' \in {host, Relined}

CommitGrub == CommitAt("relined", "grub-set-default", "close")

\* The line is set although no step was handed out.
SetGrubUnrecorded ==
  /\ pc = "unrecorded_grub" /\ Panic
  /\ host' \in {host, Relined}
  /\ UNCHANGED <<file, payload>>

-----------------------------------------------------------------------------
(* The end of a run.                                                        *)

\* A run that leaves its guard step open.
CloseNothing ==
  Go("close", "finalize") /\ UNCHANGED <<file, mem, pos, undone, host, payload>>

Close == CommitAt("close", "revert-engine", "finalize")

\* Finalize, whose refusal is only displayed; the run succeeds either way.
Finalize ==
  /\ pc = "finalize" /\ pc' = "hub" /\ result' = "success"
  /\ IF HasIncompleteSteps(mem) THEN UNCHANGED file ELSE RemoveMaybe
  /\ mem' = Fresh /\ delivered' = IF base = 0 THEN host.table ELSE 0
  /\ UNCHANGED <<run, pos, undone, host, payload>>

-----------------------------------------------------------------------------
(* RollbackAll with the handlers of rollbackHandlers.                       *)

\* ExecuteRealReversion, whose partition number is a device path no line of
\* parted's begins with: no partition is deleted.  With parameters it purges
\* the label's EFI directory and has growpart, or parted, grow the host's
\* partition into what lies behind it, which may fail unseen; bound: once per
\* run on average.  The file system in that partition is not looked at: whether
\* resize2fs could grow it too is only logged.
Reverted(step) ==
  LET cleaned == [host EXCEPT !.dropins = @ \ {"prober"}]
      purged == [cleaned EXCEPT !.esp = @ /\ firmware = "bios"]
      room == host.writes < MaxRuns + runs IN
  IF step.data = Null THEN {cleaned}
  ELSE {purged} \cup {Repartitioned(h) : h \in {g \in {purged} : room}}

\* What the handler of a step may make of the machine when it succeeds.
Undone(step) ==
  CASE step.name = "partition-shrink" -> {[host EXCEPT !.table = step.data.was]}
    [] step.name = "revert-engine" -> Reverted(step)
    [] step.name = "uefi-set-boot-order" -> {host}
    [] step.name = "grub-set-default" ->
         {[host EXCEPT !.line = IF step.data = Null THEN Blank ELSE step.data.was]}

\* "null" decodes to an empty record: dd refuses an empty device name, the
\* other handlers carry on.  No data at all does not decode.
CanUndo(step) ==
  /\ step.data # Absent
  /\ step.name = "partition-shrink" => step.data # Null

\* The steps in the order they were begun.
OldestFirst == Len(mem.steps) + 1 - pos

\* The loop's step: pos counts down.
Current == pos

Rolling == pc = "rollback" /\ pos > 0

Undoing ==
  mem.steps[Current].status \in Undoable /\ mem.steps[Current].name \in Handled

RollbackSkip ==
  /\ Rolling /\ ~Undoing
  /\ pos' = pos - 1
  /\ UNCHANGED <<run, pc, outcome, file, mem, undone, host, payload>>

\* A handler that fails may have changed the machine or not; the reversion
\* only fails before it begins.
HandlerFails ==
  /\ Rolling /\ Undoing
  /\ \/ UNCHANGED host
     \/ /\ mem.steps[Current].name # "revert-engine"
        /\ CanUndo(mem.steps[Current])
        /\ host' \in Undone(mem.steps[Current])
  /\ UNCHANGED <<run, pc, outcome, file, mem, undone, payload>>

\* A rollback loop that does not get past a failing handler.
RollbackRetries == HandlerFails /\ UNCHANGED pos

\* The handler reports an error: the loop goes on.
RollbackFails == HandlerFails /\ pos' = pos - 1

RollbackUndoes ==
  /\ Rolling /\ Undoing /\ CanUndo(mem.steps[Current])
  /\ pos' = pos - 1
  /\ host' \in Undone(mem.steps[Current])
  /\ mem' = WithStatus(mem, Current, "rolled_back")
  /\ undone' = undone \cup {Current}
  /\ UNCHANGED <<run, pc, outcome, file, payload>>

RollbackEnd ==
  /\ pc = "rollback" /\ pos = 0
  /\ FlushMaybe(mem)
  /\ mem' = Fresh /\ undone' = {} /\ pc' = "hub" /\ result' = "failed"
  /\ UNCHANGED <<run, pos, host, payload, delivered>>

-----------------------------------------------------------------------------
Engine ==
  \/ OpenJournal
  \/ BeginDownload \/ Fetch \/ FetchPaused \/ FetchFails \/ Verify
  \/ BeginWipe \/ Wipe \/ CommitWipe
  \/ BeginShrink \/ Backup \/ Carve \/ CommitCarve \/ FallbackFails \/ HandOff
  \/ BeginDeploy \/ Deploy \/ CommitDeploy
  \/ BeginBoot \/ Configure \/ ConfigureUnrecorded \/ CommitBoot
  \/ BeginRevert \/ Guard \/ WindowsEntryFails
  \/ BeginOrder \/ SetOrder \/ BeginGrub \/ SetGrub \/ CommitGrub
  \/ SetGrubUnrecorded
  \/ Close \/ Finalize
  \/ RollbackSkip \/ RollbackFails \/ RollbackUndoes \/ RollbackEnd

Wizard ==
  \/ Launch \/ Die \/ Discard
  \/ \E r \in Requests : StartAgain(r) \/ StartFirst(r)

Next == Engine \/ Wizard

\* The engine's goroutine runs as long as the process lives, and the tools it
\* starts come to an end; a download need not, as it has no time-out, and
\* nothing obliges the user to do anything.
Spec == Init /\ [][Next]_vars /\ WF_vars(pc # "fetch" /\ Engine)

-----------------------------------------------------------------------------
(* Properties.                                                              *)

Shrinks(j) == {i \in DOMAIN j.steps : j.steps[i].name = "partition-shrink"}

\* Where a checksum is known, no byte of the disk is repartitioned, wiped or
\* written before the image at hand is the one asked for (orchestrator.go:205).
ChecksumGuardsTheDisk ==
  pc \in {"wiping", "carve", "deploying"} /\ req.sha => payload = "asked"

\* While a run works below a table of its own making, its journal can still
\* bring the former one back: the backup precedes the carve, and no later
\* step drops it (orchestrator.go:282-289).
CarveIsUndoable ==
  /\ req.mode = "dual" /\ host.table # before.table
  /\ pc \notin {"off", "hub", "open"} /\ (pc = "rollback" => pos = Len(mem.steps))
  => \E i \in Shrinks(mem) :
       /\ i > base /\ mem.steps[i].status \in Undoable
       /\ mem.steps[i].data = Saved(before.table)

\* A rollback that failed on no backed-up table leaves the oldest table it
\* restored, although the journal may hold carves of several runs, and undoes
\* the reversions of the same runs in between; only a reversion still older,
\* left over by a former rollback, may have grown the host's partition after
\* that, and then the table is the one it wrote, the newest there is.
OldestTableWins ==
  LET restored == undone \cap Shrinks(mem) IN
  /\ pc = "rollback" /\ pos = 0 /\ restored # {}
  /\ \A i \in Shrinks(mem) :
       mem.steps[i].status \in Undoable => mem.steps[i].data = Null
  => \E i \in restored :
       /\ \A k \in restored : i <= k
       /\ \/ host.table = mem.steps[i].data.was
          \/ /\ host.table = host.writes
             /\ \E k \in undone : k < i /\ mem.steps[k].name = "revert-engine"

\* A paused run has touched nothing but the journal, and leaves there what a
\* new wizard process needs to offer the session again, even if the write of
\* the pause itself was lost.
PauseIsHarmless ==
  [][pc = "fetch" /\ pc' = "hub" =>
       host' = before /\ onDisk' /\ HasIncompleteSteps(disk')]_vars

\* A success of a run that found an empty journal is over: nothing of it is
\* left for the rollback of a later run, which never brings back a table from
\* before it, as long as no write of the journal has failed (journal.go:219,
\* orchestrator.go:529).
SuccessIsNotUndone ==
  [][pc = "rollback" /\ delivered > 0 /\ faults = 0 =>
       host'.table >= delivered]_vars

\* Beside the host system an image is only written to a partition of a table
\* this very run has made - unless the wizard failed to write the journal, in
\* which case a resumed run takes its guess at the partition for granted.
DeploysOnOwnPartition ==
  pc = "deploying" /\ req.mode = "dual" =>
    \/ host.table > before.writes
    \/ faults > 0 /\ mem.paused

\* Every run comes to its download, and from there back to the user, whatever
\* fails, also from RollbackAll.
RunReturns ==
  pc \notin {"off", "hub", "fetch"} ~> pc \in {"off", "hub", "fetch"}

=============================================================================
