# Boot Orchestrator Wizard: specification, model checking and proofs

Boot Orchestrator Wizard is a terminal program (Go, Bubble Tea) that installs a
second operating system beside the host, or in its place: it downloads an
image, makes room on the disk, writes the image, sets up the boot menu, and is
supposed to undo all of it when something fails. This directory holds TLA+
modules of its core, the TLC configurations that check them, and TLAPS proofs.

File names below are relative to `src/`. To repeat a run:
`tlc -config MCJournal.cfg MCJournal.tla`; to repeat the proofs:
`tlapm JournalProofs.tla`. `PROJECT.json` maps every definition to the lines of
code it stands for, lists the runs, the mutations each property was shown to
detect, the hazards and the findings.

Contents: 1 the system, 2 the modules, 3 the runs, 4 the proofs, 5 where the
code departs from its own documentation, 6 what is not modelled, 7 the plan.

## 1. The system

### Components, their state and operations

| component (sources) | state | operations | what makes it correct |
|---|---|---|---|
| Transactional journal (`safety/journal.go`) | the session (pause flag, URL, path), the list of steps with status and rollback data; one JSON file | NewJournal, LoadJournal, SetSessionState, GetUnfinishedSession, Begin, Commit, Fail, Pause, RollbackAll, Finalize, PurgeForce | work done to the machine is always found under a recorded step; what is marked rolled back is undone; the newest step is undone first; no settlement while a step is in flight |
| Provisioning engine (`engine/orchestrator.go`) | its Journal object, the machine, the phase it is in | RunProvision: download, verification, wipe or carve, deployment, boot menu, revert guard, boot entry, Finalize or rollback | no unverified image reaches the disk; a carve can be undone; a pause changes nothing; every run returns |
| Payload streamer (`engine/streamer.go`) | `dest`, `dest.part`, list of mirrors | StreamDownloadWithFailover, local copy, Range resumption, decompression, checksum | what is delivered is what was ordered; a pause is the user's; every call returns |
| Wizard (`ui/`) | screen, selections, Journal object, cancel function of the newest run, channel that is listened to, speed tracker | key handling, start of six kinds of background command, pause, stop, resume alert, outcome screens | nothing works unseen unless the user has left it; updates are heard and results arrive; no wipe without confirmation; outcome screens tell the truth |
| Rollback handlers, boot configuration (`engine/uefi.go`, `bootloader.go`, `revert_*.go`) | NVRAM order, /etc/default/grub, drop-ins, ESP | SetBootOrder, SetGrubDefaultEntry, AutoConfigureDualBoot, ExecuteRealReversion | each handler restores what its step changed |
| Partition carving (`engine/partition.go`) | partition table, file systems | BackupPartitionTable, CarveHardwarePartitionAtBoundary, CarvePartitionInFreeSpace, ShrinkAndAllocate, RollbackPartitionShrink | no neighbour is touched; the region handed over is new and its own |
| Image deployment (`engine/rootfs.go`, `wim_deployer.go`) | target partition, temporary directories, mounts | PlanDeploy, ApplyDeploy, ApplyWim | nothing mounted is removed, nothing stays mounted, a success is a whole image |
| Staged payload over SSH (`engine/scp_streamer.go`, `peer_relay.go`) | the part file, the payload and a link on the target | PushPayloadOverSSH, PurgeStagedPayload | a success left the image pushed; a payload in place is not written |
| USB staging, backup and restore (`engine/usb_manager.go`, `backup.go`) | file systems, mounts, archives with manifests, staged payloads | preparation, reset, backup, staging, purge, search, restoration | files end up on the drive that was chosen; a manifest vouches for a whole archive; no wipe for an archive that has not been looked at |
| Isolation, slipstream, catalog, guards, platform probes | mostly none: sequences of tool calls | | see section 6 |

### Interactions

* The **wizard** calls `startProvisioning`, which clears the session's pause
  flag through its own Journal object and starts **RunProvision** in a
  goroutine. Progress and outcome come back as messages on a channel.
* Backups, USB preparation, staging, restorations and reversions are **commands**
  like a run: a goroutine that may send updates on a channel and ends with one
  result message. Only a run can be cancelled, and only while it downloads. The
  wizard remembers one channel, that of the command started last.
* The **engine** opens the same journal *file* through a *second* object. The
  two objects are never synchronised: the wizard's is loaded once, when the
  program starts.
* The engine calls the **streamer** under a context that the wizard cancels on
  "p" (pause) and "s" (stop). A cancelled download returns an error wrapping
  `context.Canceled`, and the step is paused in the journal.
* Any later error goes through the `fail` closure, which runs **RollbackAll**
  with the handlers of `rollbackHandlers()`.
* `.part` and the destination file have fixed names. They outlive runs and are
  shared by all orders, images and mirrors.

### What is hard to test

1. *Death between two steps.* Every call on the journal and every tool is
   followed by a point where power may be lost; RollbackAll writes the file
   only at its end.
2. *Failing writes of the journal.* Memory moves on, the file does not, and a
   later write repairs it. Some callers ignore the error of Begin.
3. *Two objects, one file.* Steps may be lost or looked at too late.
4. *Journals that carry several runs.* A paused or handed-over run leaves
   steps to the next one; a later failure rolls back both.
5. *Partial failure of a rollback*: handlers that fail, or work on each other's
   results.
6. *Remains of other downloads*, continued at an offset taken from decoded
   bytes, against mirrors with and without ranges, lengths and compression.
7. *Cancellation racing with transport errors.*
8. *Commands left behind*: "s" shows the Hub while the command goes on; its
   updates and its result come when another one is shown.
9. *Commands that meet on a drive, a disk or a target*: all sticks share one mount
   point, all pushes one part file, all restorations one disk.
10. *Clean-up on failure*: deferred unmounts and removals, in the right order,
   whatever failed between them.
11. *Selections that outlive their menu*: a mode or a payload chosen on a path
   that was given up is used by the next run.

`PROJECT.json` lists each of these at the line where it bites.

## 2. The modules

```
JournalRecord           values and pure operations of a journal
  |-- Journal           safety.Journal, its clients, failures, crashes
  |     |-- StepLog     (INSTANCE) what a journal promises; Journal implements it
  |     |-- MCJournal   TLC instance
  |     `-- JournalProofs   TLAPS
  `-- Provision         RunProvision, rollback handlers, the wizard's two journals
        |-- MCProvision TLC instances
        `-- ProvisionProofs   TLAPS
Streamer                StreamDownloadWithFailover and its callers' clean-up
  |-- MCStreamer        TLC instances
  `-- StreamerProofs    TLAPS
Wizard                  ui.Model: screens, background commands, channels, results
  |-- MCWizard          TLC instances
  `-- WizardProofs      TLAPS
Carve                   partition.go: choice of the region, carve, shrink, restoration
  |-- MCCarve           TLC instances
  `-- CarveProofs       TLAPS
Install                 rootfs.go, wim_deployer.go, bootloader.go: deployment and boot menu
  |-- MCInstall         TLC instance
  `-- InstallProofs     TLAPS
Push                    scp_streamer.go: the call and its command on the target
  |-- MCPush            TLC instance
  `-- PushProofs        TLAPS
Vault                   backup.go, usb_manager.go and the wizard's commands on them
  |-- MCVault           TLC instances
  `-- VaultProofs       TLAPS
```

Carve, Install, Vault and Push are below the level of Provision and Wizard: what is
one step of a run or one background command there is taken apart here.

A few definitions of these modules are not part of `Next`. They are plausible
bugs, named for what they do (`BeginBeforeFlush`, `VerifyNothing`,
`DropAndRetry`, ...), and stand directly before the definition they are a
variation of. Put in that definition's place each makes the property named in
`PROJECT.json` ("mutants") fail; that is how we know the properties look at
something.

### JournalRecord, Journal, StepLog

A journal is a pause flag and a sequence of steps with a name and a status. Time
stamps, error texts and the transaction id decide nothing and are left out.

| Journal.tla | `safety/journal.go` |
|---|---|
| `NewJournal`, `LoadJournal` | the constructors; `Crash` is the process ending, or the function that owns the object returning |
| `Begin`, `Commit`, `Fail`, `Pause`, `SetSessionState` | the methods, each with its flush, which may fail: memory has changed, the file has not |
| `Work(i)` | external: the client changes the machine under a step it holds |
| `RollbackStart`, `RollbackSkip`, `RollbackHandlerFails`, `RollbackUndo`, `RollbackEnd` | RollbackAll, one handler per step, one flush at its end |
| `Finalize`, `PurgeForce` | the end of a transaction |

`open` (handed out, no outcome reported) and `owed` (work in force on the
machine) are ghost variables. They describe the world outside the process, so
`Crash` leaves them alone. The client keeps the rules the code's clients keep: no
call on a step that is no longer held, none while RollbackAll runs, and the
object is dropped after RollbackAll or Finalize.

`StepLog` states the promise without any object, status or flush: work only
under a recorded step, a step stays recorded while it is open or owed, nobody
settles while a step is open except on the user's order. `Journal!KeepsTheLog`
is the refinement, with `recorded` mapped to the steps in the file.

### Provision

One action per call of RunProvision that touches the journal or the machine;
`pc` names the place. `Begin...` actions have the outcomes the code gives a
failing Begin at that very line: return through `fail`, carry on without the
step, or dereference nil and die (`Panic`). The machine is a record: number
of the current partition table (0 is the host's), how many tables have been written,
the GRUB_DEFAULT line, the drop-ins, the
EFI directory, and which image lies on which table's partition. Rollback data is
`Null` (Begin's nil, stored as JSON `null`), `Absent` (no JSON) or the snapshot.

The wizard's part is `Launch`, `Die`, `Discard` ("n" at the resume alert), `StartFirst` and
`StartAgain` (startProvisioning without and with a journal object). `mem` is
the engine's object and `ui` the wizard's; only `disk` connects them.

Points of translation a reader may stumble on:

* `Reverted`: the handler of revert-engine is given a device path as partition
  number. No line of `parted`'s output begins with it, so no partition is
  deleted; it does grow the host's partition into free space behind it.
* `WindowsEntryFails` is the only outcome of AddWindowsBootEntry: a machine with
  `parted` and `blockdev` has no `bcdedit`.
* `SetOrder` writes the boot order it has just read, so the machine stays as
  it is.
* `HandOff`: the offline resizer's work after the reboot is external; its step stays
  "running".
* `CanUndo`: "null" decodes to an empty record, with which `dd` refuses to
  work but the other handlers carry on.

### Streamer

A file is a sequence of blocks, each named after the image it belongs to; `junk` is
compressed data stored as if it were plain. A mirror is described by what it
serves: image, compressed or not, honours ranges or not, body delimited or
not, local or remote. `Call`, `Consume`, `CleanUp` and `Leave` are the caller
(RunProvision, handleProvisionDone, the return to the Hub); `Cancel` and
`Crash` may come at any point. SHA-256 is assumed to tell any two contents
apart.

### Wizard

Bubble Tea calls `Update` for one key or message at a time, so an action is
one such call (`Keys`, `Messages`) or one step of a background command (`Work`,
`Fetched`, `Fail`).

| Wizard.tla | `ui/model.go`, `ui/provision.go` |
|---|---|
| `screen`, `fatal`, `mode`, `chosen` | `m.screen`, `m.fatalErr # nil`, `m.provisionMode`, `m.selectedOS # nil` |
| `advanced`, `override` | `m.isAdvancedMode`; `m.overridePayloadURL` is set, by a picked payload or a staged one, and stays so |
| `offered` | the mode of the session `m.unfinishedState` points to. It points *into* the journal in memory, so `StartProvisioning` changes it with SetSessionState |
| `jobs` | the commands so far: kind, status, updates still to send, updates in the channel, listeners on it |
| `shown` | the command whose channel is `m.stepUpdates` |
| `Move`, `ChooseLevel`, ..., `Retreat` | keys that choose screens; screens that lead only back, or on to where their parent leads, are one with the parent (listed at `Moves`) |
| `Launch` | a command is started: new channel, new listener, progress screen |
| `Pause`, `Stop`, `Quit` | "p", "s", the end of the process |
| `Report` | a send: backup, staging and reversion wait for room, the others drop the update |
| `Hear` | handleProvisionStep, which listens next on the channel of *now*, not on the one the update came from |
| `Handle...` | the results, handled on whatever screen the user is |

The level of the user and the origin of the payload decide which menu follows
(`PickSystem`, `Retreat`): an advanced user, and anyone who has a payload, is led back to the
choice for that payload and not to the Hub. The journal in memory is loaded once and its steps are changed by
none of the wizard's own calls but the purge, so Hub entry 4 finds what the
start of the program found.

### Carve

The disk is a row of units, the table a function from partition numbers to
regions, `data` says what each unit was written by. `Init` is every disk of that
size. `parted` and `mkfs` are external (`Makes`, `Formats`): they refuse
what they refuse (an occupied region, a mounted partition), may fail on anything
else, and mkpart takes the lowest free number, which need not be the one the code
formats. `+<n>GB` is a distance or a place, as parted's version has it.

| Carve.tla | `engine/partition.go` |
|---|---|
| `Call` | BackupPartitionTable, then CarveHardwarePartitionAtBoundary (`CallCarve`) or ShrinkAndAllocate (`CallShrink`) |
| `Shrink` | PlanShrink and ApplyShrink: the file system ends earlier, the partition does not |
| `Look` | headroom anywhere, else the partition that is last on the disk, else free space behind it |
| `Remove`, `Remake` | the trailing partition is taken out, unchecked, and its region used |
| `Free`, `Format` | CarvePartitionInFreeSpace |
| `Rollback` | RollbackPartitionShrink: the table comes back, the data does not |

### Install

Each function is a *script*, a sequence of instructions of the code that can
fail, with what happens then: `Must` returns the error, `Try` goes on. The
interpreter has one action per instruction (`Mount`, `Bind`, `Mkfs`, ...) and keeps on each
frame what the function has deferred; `Unwind` runs it newest first. A
new function of the code is a new script. `umount -l` takes what is mounted below
along, the plain one refuses; `RemoveAll` goes into anything mounted. `Die` is the
end of the process: temporary directories are abandoned and the partition stays mounted
(`stale`).

| Install.tla | code |
|---|---|
| `Start`, `Planned` | PlanDeploy, with isWindowsISO run first for an ISO |
| `ApplyDeploy`, `Squashfs`, `SquashfsCopied`, `Windows`, `Tarball` | ApplyDeploy and the functions it dispatches to (`engine/rootfs.go`) |
| `ApplyWim` | what RunProvision calls in ApplyDeploy's place for a Windows entry in dual boot (`engine/orchestrator.go:434-442`); no boot menu follows |
| `AutoConfigureDualBoot`, `ConfigureLinux`, `NeutralizeLiveBootHooks`, `AssertBootableKernelAndPackages` | `engine/bootloader.go` |
| `Deployed`, `Configured` | what RunProvision makes of their errors in each `pipeline`: dual boot fails the run, single boot drops the error of AutoConfigureDualBoot (`orchestrator.go:267`) |

`menu` says that grub.cfg was generated in this run and 40_custom has not been written since;
whether the write of 40_custom succeeded is not part of it, since for a Linux system the code ignores
its result (`bootloader.go:249`).

### Push

`pc` and `result` are the call of PushPayloadOverSSH, `cmd` the shell it started
on the target, which goes on when the connection is cut. Files are inodes, so a
push that writes to a part file another one has renamed writes to the payload. A
block carries the name of its image; a write behind the end leaves a `Hole`.
`sole` collects the commands that never ran beside another.

### Vault

A path is a directory, and `Shows` says which file system it leads to now: the
topmost mount, the host's own when the directory exists with nothing mounted on it, or none.
A file system is a drive and the job that formatted it, so formatting a stick
leaves nothing of what was there. `jobs` are the background commands ordered from the
menus, each with its own `pc`; any may be ordered while others run, as "s" lets the user.
`calm` is a ghost: no command that moves mounts or files ran beside this one. The
archive of job 0 is one from an earlier session, whole or on a medium that has rotted.
`host` is the root file system of the disk that restorations write: which of them have it mounted, and
which snapshots were unpacked whole onto it. Formatting makes a new one; what was mounted before is then
another file system, although a restoration goes on unpacking there.

| Vault.tla | code |
|---|---|
| `ConfirmFormat` ... `MountVault`, `OrderReset` | PrepareAutonomousUSBDisk, FactoryResetUSB |
| `HearPrepared` | usbFormatDoneMsg: the backup or staging that follows |
| `ListTargets`, `OrderBackup`, `MakeDir` ... `WriteManifest` | DetectBackupTargets, AutoMountDrive, CreateHostBackupWithProgress |
| `OrderStage`, `OpenPayload`, `CopyPayload`, `Purge` | triggerUSBStagePayloadCmd, PurgeIntermediatePayloads |
| `OrderScan`, `ReadDir`, `ScanFails` | FindBackupArchives, one partition of the list |
| `OrderRestore`, `CheckManifest`, `WipeHost`, `MountRoot`, `Extract` | RestoreHostFromBackup |
| `Die`, `OrphanEnds` | the end of the wizard; tar goes on alone |

## 3. The runs

### Passing runs

| run | instance | properties |
|---|---|---|
| `journal` | 2 names (one with a handler), 3 steps, 1 purge | `TypeOK`, `WorkIsRecorded`, `InterruptedWorkIsFound`, `RolledBackIsUndone`, `NewestFirst`, `KeepsTheLog` |
| `provision` | 3 kinds of order, UEFI and BIOS, 2 runs, deaths, USB fall-back, no failing journal write; 629,206 states | `TypeOK`, `ChecksumGuardsTheDisk`, `DeploysOnOwnPartition`, `RunReturns` |
| `provision_faulty` | the same with one failing journal write or removal, anywhere; 2.6 million states | `CarveIsUndoable`, `OldestTableWins`, `PauseIsHarmless`, `SuccessIsNotUndone` |
| `streamer` | 2 images of 3 blocks, 6 kinds of mirror, 8 orders; 295,781 states | `TypeOK`, `VerifiedDelivery`, `WholeUnlessResumed`, `PauseIsTheUsers`, `CallReturns` |
| `wizard` | 2 background commands per process, channels of capacity 1, no journal or one of a dual-boot session at the start; 1.2 million states | `TypeOK`, `ProgressIsBacked`, `SelectionKnown`, `NewestIsHeard`, `ResultsArrive`, `OnlyStopLeaves` |
| `push` | 2 pushes, an image of 1 block and one of 2; 123,000 states | `SoleSuccessIsWhole`, `PlacedIsNotWritten`, `PushReturns` |
| `carve` | every disk of 5 units and 4 numbers, targets "all" and 2 units; 3.6 million states | `TypeOK`, `NeighboursSurvive`, `ResultIsItsOwn` |
| `install` | 3 deployments of 6 kinds of image, in dual and single boot; 35,400 states | `TypeOK`, `RemovesNothingMounted`, `NothingIsLeft`, `SuccessIsWhole`, `WritesBlocksUnmounted` |
| `vault` | 2 sticks (symmetric), 1 fixed partition; 3 commands, or 2 and a death; 850,800 states | `ManifestMeansWhole`, `SnapshotIsOnItsDrive`, `StagedOnItsDrive`, `RestoredIsWhole` |

What they show, in words:

* **Journal.** Whatever writes fail and whenever the process dies, work in force
  stands under a step of the file; unreported work is found as running or
  paused; "rolled_back" is never a lie; RollbackAll gives every younger step
  its turn first. The proofs of section 4 say this for all bounds.
* **Provision.** With a known checksum nothing touches the disk before the
  right image is at hand. The table to go back to is in the engine's memory from before the
  carve until the run ends. A rollback over the carves of several runs ends
  with the oldest table it restored (the exception, the newest table where a reversion still older than that
  carve has grown the host's partition, is part of the property). A pause leaves the machine alone and the
  journal resumable *for a new process*. The success of a run that found no journal is
  not rolled back by a later one as long as every write of the journal goes through.
  In dual boot the image is only written to a partition of this run's table,
  unless a lost journal write left the session's pause flag up.
* **Streamer.** With a checksum, nothing earlier calls left behind can get into
  the delivered image. Without one, the same holds for whole, delimited
  responses. Only the user's own cancellation is reported as a pause.

* **Wizard.** Whatever came late, the progress screen is never shown without a
  command whose result will replace it, and a system is selected whenever the
  confirmation is shown, which dereferences it. Only "s", the end of the program and a
  dismissed error leave a working command. The command shown is always listened to, so its
  result arrives; one that was left may wait for ever in a full channel
  (`Deaf`), and that is the only reason for a result not to arrive.

* **Push.** Whatever earlier pushes left on the target, the image of a push that succeeds
  without another one beside it is whole, and a payload in place is not written by a push
  that was alone. Every push returns, also the one whose part file the other has renamed.
* **Carve.** Only the partition that is last on the disk can be lost, and only if it is not mounted
  and is swap or has the number 3. What is handed to the deployment was made by the
  call, carries only its new file system and overlaps nothing, although the code formats a
  node whose name it has guessed.
* **Install.** The order of deferred calls, `umount -l` and the early return inside the
  bind loop fit together: no directory is removed with a mount in it, and a run that
  ends by itself leaves none. `dd` never runs while the failed extraction before it has
  the target mounted. A success means a whole image (raw ones apart, section 5). Only in dual boot
  does it also mean that the menu was generated behind the last write of 40_custom; single boot
  promises nothing about the menu.
* **Vault.** A manifest that matches never stands for a partial archive. A backup or a staging
  that nobody disturbed is whole and on its drive. A restoration that reports success has its
  snapshot, whole, on the file system the disk has then: another restoration cannot format the disk
  while the first has its root mounted. Two may still mount the *same* new file system, when the second formats
  before the first mounts; both then unpack over each other, and both report success. The property allows that, since
  it asks only that each snapshot was unpacked whole onto what is there.

### Bounds, and why they are enough

* `MaxSteps = 3`: an older undone step, a step in force and a younger one that
  fails to be undone are the most that `NewestFirst` and a second process
  over an older file tell apart.
* `MaxRuns = 2`: all interaction between runs goes through the file, the two
  objects and the machine, and shows with one earlier and one later run.
* `MaxFaults = 1`: any one write or removal of either run. Every write is of
  the whole of memory, so a lost one shows only until the next, and what a fault can do
  is decided by where it falls between two writes that succeed.
* Growth by reversions is bounded by `MaxRuns + runs` tables (`Reverted`).
* `Size = 3`, `PackedSize = 2`: an interruption before, inside and after the
  middle block, and an archive shorter than its content.

* `MaxJobs = 2`: one command left behind and one started after it; a
  preparation and the command that follows it. A third adds no new pair, since
  a command meets others only through the screen and `shown`. After two, the menus go on
  without further commands.
* `Sessions = {"dual"}` in `wizard`: the mode of a session found at the start is looked at by
  `WipeIsConfirmed` alone, and `wizard_wipe` starts with either.
* `Cap = 1` for channels of 64 and 32: `Updates` is `Cap + 2` for the commands
  that send many, one update more than a channel holds after its listener has gone to
  another. The reversion sends 4 into 32 and never waits; one stands for them.

* `MaxPushes = 2`: pushes meet only in the part file and the payload, in pairs; a
  third finds what two have left, which `Init` of the part file and the purge cover.
  Images of 1 and 2 blocks: a truncated image may or may not have the length of the other.
* `DiskEnd = 5`, four numbers: gaps before, between and behind, numbers out of order and
  missing; `MaxCarves = 1`, since a second call meets one more disk `Init` has.
  `FallbackEnd = 4` is an assumed size smaller than the real one. The proofs need no bound.
* Install's `MaxRuns = 3`: a run that died, one on what it left mounted, and one after that.
* Vault's `MaxJobs = 3`, `MaxEvents = 3` (commands and deaths together): a preparation, what
  follows it, and a command that disturbs both; a scan and two restorations; or two commands of
  which a death cuts off one or both, and tar goes on alone. `vault_restore` has
  `MaxEvents = 4`. Two sticks are interchangeable (`Alike`); one fixed
  partition, mounted by the user or not, has all paths a command may be given.

### Fairness

Provision has `WF_vars(pc # "fetch" /\ Engine)`: the engine is one goroutine that
waits for no other, and each of its steps is a file operation or a tool that comes to an end
(a tool that hangs for ever is outside the model). Nothing is assumed of
the download (see below) nor of the user, and `Die` may end the process at any
time. `RunReturns` therefore speaks of the way to the download and of the way from it
to the Hub, which includes RollbackAll over handlers that all fail.

Streamer has `WF_vars(~Stalled /\ Step)`: connecting and waiting for headers are
bounded by the time-outs of the transport (`streamer.go:105-111`), probing by
the sentinel's. The body of a response is not (`Timeout: 0`), so nothing is
assumed while the call waits for one that nobody cancels; `CallReturns` says
that this is the only way for a call not to return. The context is part of the request, so that
a cancellation also ends a read that waits. `Cancel` and `Crash` are
never obliged to happen.

Wizard has `WF_vars(Work \/ Messages)`: as long as the process lives, some
goroutine goes on or some message is handled while one can. One condition for all
of them is enough, because each such step uses up an update, a listener or a
status that only a key can bring back, and weaker than one for each. `Fetched` is not
in it (downloads have no time-out), `Fail` is not (nothing need fail), nor is any key. No module
uses strong fairness.

Push has `WF_vars(Caller(p) \/ Shell(p))` for every push: the call and the shell go on
while they can. `Fail`, `Abort` and `Launch` are never obliged to happen, and `PushReturns` holds
without them. A target that accepts the connection and never answers is outside it: `config.Timeout`
is read by `ssh.Dial` only, which `scp_streamer.go:113` does not call, so nothing bounds the key
exchange. Carve, Install and Vault state no fairness: their properties are safety.

Deadlock checking is on in `journal`, `provision`, `provision_faulty` and `streamer`,
where there is always a process that can be launched or an order that can be given or refused. It is off
where the system may stop: `Quit` ends Wizard's program, and Push, Carve, Install and Vault
end when their bounded number of calls has been made and the user asks for no other.

## 4. The proofs

`JournalProofs.tla`, for every set `Names`, every `Handled` with
`HandledAssumption` (handlers only for step names), `MaxStepsAssumption` (a
positive bound) and `MaxPurgesAssumption`:

| theorem | statement |
|---|---|
| `TypeCorrect` | `Spec => []TypeOK` |
| `WorkStaysRecorded` | `Spec => []WorkIsRecorded` |
| `InterruptedWorkStaysFound` | `Spec => []InterruptedWorkIsFound` |
| `RolledBackStaysTrue` | `Spec => []RolledBackIsUndone` |
| `UndoIsNewestFirst` | `Spec => NewestFirst` |
| `ImplementsStepLog` | `Spec => KeepsTheLog` |

*Argument.* The three invariants speak mainly about the file, but a flush copies
memory over it, so they are not inductive: a step that is missing in
memory, or has another status there, would be lost by the next flush. `IInv`
therefore states the same facts of the object in memory (`Present`,
`Unfinished`, `NotUndone`), says that without an object nothing is held
(`Closed`), that a held step is open, and how RollbackAll's index and the
steps it has visited belong together (`VisitedAbove`, which `NewestFirst`
needs). One lemma per group of actions shows `IInv` preserved, on top of lemmas
about the pure operators (`WithStepProperties`, `WithStatusProperties`, ...).
`Invariance` collects them; the theorems follow. For the refinement, every
action maps to an action of StepLog or to a stutter.

`CarveProofs.tla`, for every size of the disk, every finite set of numbers, every
target size and number of calls (`DiskAssumption`, `NumbersAssumption`, `TargetsAssumption`,
`MaxCarvesAssumption`):

| theorem | statement |
|---|---|
| `CarveTypes` | `Spec => []TypeOK` |
| `NeighboursAreSafe` | `Spec => []NeighboursSurvive` |
| `ResultIsOwn` | `Spec => []ResultIsItsOwn` |

*Argument.* Neither property is inductive: what keeps a call off its neighbours is what
it knew when it chose. `CarveInv` adds that until the call changes the table, table and data are
those that were saved (`Untouched`), that what it takes out is the trailing partition of that
table (`TakesTrailing`), and that what it formats is a partition it may take unless it is in use,
when mkfs refuses (`FormatsNoSafe`). `MakesProperties` and `WithoutProperties` are the lemmas
about tables everything rests on: mkpart adds one region, disjoint from the others, and taking
one out leaves the others alone. One lemma per action shows `CarveInv` preserved.

`PushProofs.tla`, for every set of images of any sizes and every number of pushes
(`SizeAssumption`, `MaxPushesAssumption`, and `HoleAssumption`: a hole is no image's block):

| theorem | statement |
|---|---|
| `SuccessLeavesTheImage` | `Spec => []SoleSuccessIsWhole` |
| `PlacedStays` | `Spec => PlacedIsNotWritten` |

*Argument.* Both properties speak of moments when the work is over. `PushInv` follows the
work itself: the file a command writes holds the first `off` blocks of its image (`Copied`,
with `WrittenNext` for the step of `cat`), it is the part file until it is renamed and never
again afterwards (`Writes`, `Placed`), and while the connection stands a command that has seen
the end of its input has copied all of it (`Wired`), so "ok" means a whole file (`Reported`).
That others leave the file alone rests on three facts: no other command runs beside one that is alone
(`Alone`), a file that a redirection creates was nobody's (`Fresh`), and the part file is never the
payload (`Apart`). One lemma per action shows `PushInv` preserved; the steps of the call share
`TargetKept`.

`StreamerProofs.tla`, for every set of images and mirrors, every behaviour of the mirrors and every
list of orders (`SizesAssumption`: an image has at least one block and an archive at most as
many; `ServesAssumption`; `OrdersAssumption`):

| theorem | statement |
|---|---|
| `DeliveryIsVerified` | `Spec => []VerifiedDelivery` |
| `DeliveryIsWhole` | `Spec => []WholeUnlessResumed` |
| `PauseIsAsked` | `Spec => []PauseIsTheUsers` |
| `StreamerTypes` | `Spec => []TypeOK` |

*Argument.* With a checksum the properties follow from the last comparison; without one they follow
from how the part file came about. `StreamerInv` says that a body that began the file is all of
one image, written and to come (`Divided`), so that it is whole when a delimited body ends
(`Ends`), and that a pause is remembered only of a cancelled context (`Remembered`): an earlier
mirror's error does not outlive its own cancellation. Blocks of one image are a function
(`Run(k, image)`), not a recursion, and the lemmas on `Run` are all that is needed about sequences.
For `TypeOK` that is not enough: the list of mirrors is filtered (`Only`), and that the filter keeps
a list of mirrors is an induction over the list. It is proved as an argument about the least place where
the claim fails (`Least`, from the library's well-foundedness of the naturals), since the theorems that state
induction outright cannot be cited here.

`WizardProofs.tla`, for any number of commands and any capacity of the channels
(`BoundsAssumption`: both positive; `SessionsAssumption`: a session found at the start has one of the
two modes):

| theorem | statement |
|---|---|
| `ProgressStaysBacked` | `Spec => []ProgressIsBacked` |
| `SelectionStaysKnown` | `Spec => []SelectionKnown` |
| `NewestStaysHeard` | `Spec => []NewestIsHeard` |
| `StopAloneLeaves` | `Spec => OnlyStopLeaves` |
| `WizardTypes` | `Spec => []TypeOK` |

*Argument.* `SelectionKnown` looks at one screen, but a late result leads from any screen to
the confirmation. `Known` therefore asks for a selected system on every screen
between the menus and the confirmation, and for as long as a command that leads there (a
backup, a preparation, a staging) is remembered. `ProgressIsBacked` and `NewestIsHeard` are inductive beside
it and the shape of the commands; a result that is handled leaves `progress` only when no
command remains (`LastIsHandled`).

`TypeOK` bounds two counts. A preparation is followed by a command of its own, so the number of
commands stays below its bound only if that place was kept for it (`Roomy`). That a command has at most as
many listeners as there are commands is no fact about one channel: an update or a result makes the handler listen on the
channel started *last*, so listeners move from old commands to new ones. `Tuned` keeps track of where the
listener that came with each command is now; there are as many as commands, and a channel's are among them.

`VaultProofs.tla`, for any sticks and partitions, any number of commands at once and of deaths
(`BoundsAssumption`, and `DrivesAssumption`: a stick is no partition of a disk):

| theorem | statement |
|---|---|
| `ManifestVouches` | `Spec => []ManifestMeansWhole` |
| `SuccessIsRestored` | `Spec => RestoredIsWhole` |
| `SnapshotsStay` | `Spec => []SnapshotIsOnItsDrive` |
| `PayloadsStay` | `Spec => []StagedOnItsDrive` |

*Argument.* A manifest means something because only a backup whose tar ended well
comes to write one. `VaultInv` states that of every backup at its manifest (`Archived`), whatever
other commands mount, format or lose meanwhile, and that no archive has any other manifest (`Vouched`). Most
steps are `Quiet`: they bring no backup to its manifest and no restoration to its end. One
lemma per action shows which is the case. `RestoredIsWhole` needs that a restoration that unpacks has the
*present* file system mounted (`Rooted`). A formatting would break that for every other restoration, and is refused
exactly while one has its root mounted (`InUse`).

The other two are about *which* drive an undisturbed command worked on, and the commands find it by a
directory, through the mount table. `PlaceInv` says that such a command had the disks to itself
until it ended (`Alone`), that nothing but a partition is ever mounted on its own directories
(`DisksShape`), and where a command stands on its way (`InPlace`): a stick just prepared is what the vault's
directory shows, a snapshot or payload just begun is on the drive that was meant. An unmount filters the
stacks of all directories; what it leaves (`LeftOver`) is proved by the same kind of induction as in Streamer.

`InstallProofs.tla`, for every set of kinds of image and any number of runs (`ImagesAssumption`,
`MaxRunsAssumption`):

| theorem | statement |
|---|---|
| `RemovalIsSafe` | `Spec => []RemovesNothingMounted` |
| `RunsLeaveNothing` | `Spec => []NothingIsLeft` |
| `SuccessStaysWhole` | `Spec => []SuccessIsWhole` |
| `BlocksAreUnmounted` | `Spec => WritesBlocksUnmounted` |
| `InstallTypes` | `Spec => []TypeOK` |

*Argument.* The first four properties speak of the end of a run, or of one instruction; what makes them true is
spread over the functions that run at the time. `InstallInv` says which function calls which and that an outer one
waits at its call (`Stacked`); that in each frame the unmounting of a directory is deferred after its
removal, so runs before it (`Fits`); that whatever exists or is mounted is deferred in *some* frame (`Owed`), which
at the end, with no frames, is `NothingIsLeft`; that binds stand only below the mounted stage, so that one lazy unmount
takes them all along, however many were stacked (`Sheltered`); and how much of the partition and, in dual boot, of the menu a
script at a given place has finished (`Delivers`, `Landed`). There is a lemma for each script that lists
its instructions (`SquashfsIs`, ...), one for `Unwind` and one per instruction.

`TypeOK` says that no point ever carries more than two mounts. Two functions bind onto the same points, and one that
fails half-way returns with its binds in place, so the second stacks its own on them. `Counted` follows
that: a point carries at most one bind for each of those functions that has returned, and one for
the function that runs once it is past the instruction that binds there.

`ProvisionProofs.tla`, for every set of orders and of firmwares, any number of runs and of failing writes
(`RequestsAssumption`, `FirmwaresAssumption`, `BoundsAssumption`):

| theorem | statement |
|---|---|
| `ProvisionTypes` | `Spec => []TypeOK` |
| `ChecksumGuards` | `Spec => []ChecksumGuardsTheDisk` |
| `CarvesAreUndoable` | `Spec => []CarveIsUndoable` |
| `OldestTableStays` | `Spec => []OldestTableWins` |
| `OwnPartition` | `Spec => []DeploysOnOwnPartition` |
| `SuccessesStay` | `Spec => SuccessIsNotUndone` |
| `PausesAreHarmless` | `Spec => PauseIsHarmless` |

*Argument.* The properties compare the machine with a journal that any number of runs have written and any
number of rollbacks have marked, so `ProvisionInv` first says which step a phase has in hand: the youngest of its
name, begun by this run, with the guard's step right below it at the boot entry (`Holds`). From there to the end
the backup stays in that step (`Undoes`), a run that was not told to resume deploys behind its own carve, and one that was is
preceded by a write that failed, because startProvisioning clears the flag in the file (`Carved`).
`Passed` is the invariant of RollbackAll's loop: either a younger backup that was not restored remains, or the machine has
the oldest table restored so far, or the newest one, written since by a reversion older than that one; a handler
that fails half-way falls under the first. `Counted` keeps the numbers of tables within their bound. The
lemmas are about what a Begin, a Commit, a failure, a snapshot or a tool does, whichever phase it stands
between, and the actions are instances of them.

`SuccessesStay` needs more: that the wizard's object equals the file when a run starts, so that an empty journal found by the
run is empty in *both* (`Sessions`); that a step in flight is one the run still has in hand, so that none is left when
Finalize looks (`Settled`); and that no backup anywhere is older than the last success, nor any table newer than
the last write (`Dates`). These hold as long as no write of the journal has failed (`Faultless`), and a
failing write breaks each of them, which is why the property speaks of a rollback before the first such failure
(section 5 has the trace that needs only one).

*Only model-checked.* The liveness properties `RunReturns`, `CallReturns`, `ResultsArrive` and `PushReturns`:
fairness and ENABLED are beyond the prover. All other properties of the passing runs are theorems.

## 5. Where the code departs from its own documentation

Three statements are runs that TLC refutes; the trace is the scenario.

| run | statement | what happens |
|---|---|---|
| `wizard_wipe` | `ui/view.go:837` "explicit ERASE" | an advanced user goes from the client panel to the Hub (entry 4 there), looks into Hub entry 2, comes back with ESC, and resumes a paused dual-boot session with Hub entry 4 and Y: it runs in single-boot mode and wipes the disk unasked |
| `carve_trailing` | `engine/partition.go:1` "Non-Destructive", `:235` "trailing swap" | an unmounted file system that is last on the disk and has the number 3 is removed and formatted |
| `vault_restore` | `ui/view.go:841` "verifies checksums" | the archive was found through a mount that is gone: no manifest is found, none is checked, the disk is wiped, and then there is no archive |

Others follow from the modules without a run of their own:

* `ui/view.go:23` "Your host files and partitions are 100% intact": a single-boot run that
  fails after the wipe says so over a repartitioned disk (`Wipe` has neither backup nor handler);
  a dual-boot run that fails last grows the host's partition in the handler of revert-engine
  and then restores the table with the smaller one (`Reverted`, then `Undone`); if resize2fs has
  succeeded in between, which no module follows, the file system is larger than its partition.
* `safety/journal.go:219` "removes the journal file after a successful run": after a pause
  Finalize refuses and the journal of the success stays for the next failing run to roll back.
  So it does after one failing write: where Begin of bootloader-configure cannot flush
  (`orchestrator.go:462`), the error is ignored and the step stays "running" in memory, Finalize
  refuses, and the next run that fails to download restores the table from before the success
  (this is the trace TLC finds for `SuccessIsNotUndone` without the condition `faults = 0`).
* `ui/view.go:1121` "OPERATION COMPLETED & VERIFIED": single boot drops the error of
  AutoConfigureDualBoot (`orchestrator.go:267`) and reports success with a system that may have no
  boot menu (`Configured`, which is why `SuccessIsWhole` asks for `menu` in dual boot only).
* `ui/view.go:839` on Hub entry 4: in the process that was paused, the wizard's stale object
  has nothing to resume.
* `engine/isolate.go:64-65` on storing rollback data first: the table's backup is in memory
  only while the disk is carved.
* `engine/streamer.go:81` "passes checksum": without a checksum any file at the
  destination is used.
* `engine/scp_streamer.go:160` "rename upon completion": `cat` also ends when the
  connection does, and the truncated part file is renamed (`EndOfInput`, `Rename`).
* `engine/bootloader.go:83` "completed successfully": blkid names no file system on a
  raw image with a partition table of its own, and STORAGE HEAL (111-117) formats the
  partition that was just written (`Heal`).
* `ui/view.go:1174-1175` on keeping the stick as a recovery vault: removable disks are
  listed without `/dev/`, cannot be mounted by FindBackupArchives, and their archives are never offered
  (`OrderScan`).
* `ui/view.go:841` "restores full OS": the snapshot holds `/home`, `/etc`, `/root`,
  `/var/local` and `/opt` (`backup.go:260`), and the disk is formatted for it.

And, with no statement of the repository against it: a Begin
whose write fails and whose error is ignored ends the process in a nil
dereference (`Panic`), in one case after GRUB_DEFAULT was changed;
dismissing an error leads to the Hub also when a preparation that ended meanwhile has
started the next command behind it, which then works unseen without "s" (`Dismiss` after `HandleFormat`,
`ui/model.go:948-952`); SetSessionState on the wizard's object overwrites the steps an earlier run of the same process
recorded; ApplyShrink shrinks a file system and never its partition, so it makes no room for the
carve; a listed mount point that has gone can take a snapshot onto the host's own disk; a
payload staged onto itself is emptied; a deployment that died leaves the target mounted, and
a tarball then cannot be deployed, since only that route does not unmount first (`rootfs.go:600`).

## 6. What is not modelled

* In Provision, what resize2fs makes of the host's file system during a reversion
  (`revert_linux.go:79-84`): the table may have grown and the file system not, always so
  where it is not ext4, and only a log line tells. No property looks at the file system.
* A journal file that is corrupt or unreadable; LoadJournal's error paths.
* Two engines on one journal file. Wizard shows that "s" makes them possible;
  Provision's runs are sequential.
* In Wizard: what an earlier confirmation left in the ERASE input, the
  contents of lists, the seeder (its results change none of the state modelled), the screen
  ScreenUSBDownloadProgress (no key leads to it).
* The text of the boot configuration, and what is edited inside an unpacked root
  (accounts, networking, display server): outcomes only.
* In Vault: ProbeUSBPayloads with its own mounts, the GRUB that ArmAutonomousUSBBootloader
  writes for the hand-off, and the FAT32 boot partition of a stick, which nothing else uses.
* In Install: `dism.exe` (ApplyWim on a Windows host), the list of a WIM's indexes, and AddWindowsBootEntry,
  which is Provision's `WindowsEntryFails`.
* In Vault: the EFI partition of the restored disk, and mkfs and parted as separate steps of `WipeHost`. A restoration
  that mounts between the two of another has the old file system mounted, and mkfs then refuses, which is one of the outcomes of `WipeHost`.
* In Push: a target that stops answering without closing the connection, and two pushers
  on different machines, which behave as two pushes from one.
* The HTTP relay of payloads (`peer_relay.go`).
* Windows and macOS: single tool invocations (`diskpart`, `diskutil`).
* Code without a caller: the StorageEngine interface, LegacyFailover,
  ApplyDockerIsolation (its handler is registered), ApplySlipstream,
  ResumeAndRollback, StreamDownload.
* Rendering, native dialogs, directory scans, launch scripts, manifest
  generators: no state of their own, or pure I/O.

## 7. The plan

In order of importance.

1. **Done**: all modules of section 2, with proofs for every one of them.
2. **Two engines**: a second run beside one that was left with "s", over one
   journal file and one `.part`: composes Wizard's commands with the engine's
   calls. Property: no step of one run is settled or undone by the other.
3. **Proofs**: that Provision implements a Journal with two objects on its file (the engine's, with the
   run's calls as its clients, and the wizard's, which may overwrite it).
4. **BootMenu** (`engine/uefi.go`, `bootloader.go`): file contents as records, each
   handler against the state its step found.
5. **Relay**, **Isolation**, **Slipstream**: short sequences of requests or tools.
6. **Catalog**, **Guards**, **SpeedTracker**: pure functions against
   reference definitions over bounded inputs.
