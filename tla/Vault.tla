------------------------------- MODULE Vault -------------------------------
(***************************************************************************)
(* Host snapshots and the drives that hold them (engine/backup.go,         *)
(* engine/usb_manager.go) with the background commands of the wizard that  *)
(* use them (ui/model.go).  A stick is offered as a whole disk: choosing   *)
(* it repartitions it, mounts its storage partition on the one vault       *)
(* directory and only then streams the snapshot or the payload there.  A   *)
(* partition of a fixed disk is used where it is mounted, or mounted for   *)
(* the time of one operation on a directory named after it.                *)
(*                                                                         *)
(* The keys that order a command are enabled at any time: Wizard.tla shows *)
(* how the user leaves a running one behind.  A file is known by the file  *)
(* system it is on, so a path leads to whatever is mounted there now.      *)
(***************************************************************************)
EXTENDS Naturals, Sequences

CONSTANTS
  Sticks,    \* removable disks
  Parts,     \* partitions of a fixed disk
  MaxJobs,   \* bound: commands
  MaxEvents  \* bound: commands and deaths of the wizard together

ASSUME BoundsAssumption == MaxJobs \in Nat /\ MaxEvents \in Nat
ASSUME DrivesAssumption == Sticks \intersect Parts = {}

Drives == Sticks \union Parts
VaultDir == <<"vault", 0>>     \* /mnt/orch_usb_storage
Automount(p) == <<"auto", p>>       \* /mnt/orch_drive_p
Own(p) == <<"own", p>>         \* where the user has mounted p
Device(p) == <<"dev", p>>      \* /dev/p itself: no directory
Given == <<"given", 0>>        \* a payload elsewhere, that stays
Dirs == {VaultDir} \union {Automount(p) : p \in Parts} \union {Own(p) : p \in Parts}

\* File systems: one per drive and formatting, and the host's own.
Lost == MaxJobs + 1
Host == <<"host", 0>>
Gone == <<"gone", 0>>
None == <<"none", 0>>

VARIABLES
  jobs,      \* the commands ordered so far
  fs,        \* each stick's file system: the job that made it, or Lost
  mounts,    \* what is mounted on each directory, the last one visible
  dirs,      \* the directories that exist
  archive,   \* the snapshot of each job; 0 is one from an earlier session,
             \* perhaps on a medium that has failed since
  payload,   \* os_image.payload on each file system
  host,      \* the disk a restoration writes, by the root file system it has
             \* now: the restorations that have that mounted, and the
             \* snapshots unpacked whole onto it, one over the other
  targets,   \* m.backupTargets: the path each partition is listed with
  found,     \* m.discoveredBackups
  src,       \* where the payload to stage is: Given, or a directory
  selected,  \* m.selectedTarget
  deaths

disks == <<fs, mounts, dirs>>
files == <<archive, payload, host>>
wizard == <<targets, found, src, selected, deaths>>
vars == <<jobs, fs, mounts, dirs, archive, payload, host,
          targets, found, src, selected, deaths>>

Ids == 1 .. Len(jobs)
FileSystems == {Host} \union {<<p, 0>> : p \in Parts} \union (Sticks \X (0 .. MaxJobs))
NoArchive == [on |-> None, state |-> "none", sum |-> "none"]

\* The file system a path leads to.
Shows(dir) ==
  IF dir \notin Dirs THEN Gone
  ELSE IF mounts[dir] # <<>> THEN mounts[dir][Len(mounts[dir])]
  ELSE IF dir \in dirs THEN Host ELSE Gone

\* The path lsblk lists a partition with: one it is mounted on.
Listed(p) ==
  IF mounts[Own(p)] # <<>> THEN Own(p)
  ELSE IF mounts[Automount(p)] # <<>> THEN Automount(p) ELSE Device(p)

Init ==
  /\ jobs = <<>> /\ fs = [s \in Sticks |-> 0]
  /\ \E owned \in SUBSET Parts :
       /\ mounts = [d \in Dirs |-> IF \E p \in owned : d = Own(p)
                                   THEN << <<d[2], 0>> >> ELSE <<>>]
       /\ dirs = {Own(p) : p \in owned}
  /\ \E p \in Parts, old \in {"whole", "rotten"} :
       archive = [j \in 0 .. MaxJobs |->
                    IF j = 0 THEN [on |-> <<p, 0>>, state |-> old, sum |-> "whole"] ELSE NoArchive]
  /\ payload = [f \in FileSystems |-> "none"] /\ host = [roots |-> {}, holds |-> {}]
  /\ targets = [p \in Parts |-> Device(p)] /\ found = {} /\ src = Given
  /\ selected = "none" /\ deaths = 0

-----------------------------------------------------------------------------
(* Commands.                                                                *)

At(j, kind, pc) == j \in Ids /\ jobs[j].kind = kind /\ jobs[j].pc = pc
Running(j) == jobs[j].pc \notin {"ok", "err", "heard", "dead"}
Go(j, pc) == jobs' = [jobs EXCEPT ![j].pc = pc]

\* What can move files or mounts from under another command.
Disturbing == {"prepare", "reset", "stage", "scan", "backup"}

\* Ghost "calm": no disturbing command was there, from its order to its end.
\* One that follows a preparation starts as calm as that was, and one that is
\* given a path needs it to be still mounted.
Start(old, kind, pc, dir, what, heir) ==
  /\ Len(old) < MaxJobs /\ Len(old) + deaths < MaxEvents
  /\ LET busy(j) == old[j].pc \notin {"err", "heard", "dead"} /\
                    (old[j].pc = "ok" => old[j].kind = "prepare")
         stir == kind \in Disturbing
     IN jobs' = Append([j \in DOMAIN old |->
                          [old[j] EXCEPT !.calm = @ /\ ~(busy(j) /\ stir)]],
                  [kind |-> kind, pc |-> pc, dir |-> dir, what |-> what,
                   own |-> FALSE, at |-> None, seen |-> "none",
                   calm |-> heir /\ \A j \in DOMAIN old :
                              busy(j) => old[j].kind \notin Disturbing])

Order(kind, pc, dir, what) == Start(jobs, kind, pc, dir, what, TRUE)

\* makeCleanup, deferred by whoever AutoMountDrive has mounted something for.
CleanUp(j) ==
  IF jobs[j].own
  THEN /\ mounts' = [mounts EXCEPT ![jobs[j].dir] = <<>>]
       /\ dirs' = dirs \ {jobs[j].dir}
  ELSE UNCHANGED <<mounts, dirs>>

Return(j, result) ==
  /\ jobs' = [jobs EXCEPT ![j].pc = result, ![j].own = FALSE]
  /\ CleanUp(j) /\ UNCHANGED fs

-----------------------------------------------------------------------------
(* PrepareAutonomousUSBDisk and FactoryResetUSB.                            *)

ConfirmFormat(s) ==
  /\ Order("prepare", "umount", VaultDir, s)
  /\ selected' = s
  /\ UNCHANGED <<disks, files, targets, found, src, deaths>>

\* "2" on the last screen: the stick chosen in this session, or whichever is
\* /dev/sdc.
OrderReset ==
  /\ \E s \in Sticks : /\ selected \in {s, "none"}
                       /\ Order("reset", "umount", VaultDir, s)
  /\ UNCHANGED <<disks, files, wizard>>

IsOf(s, f) == f[1] = s
Mounted(s) == \E d \in Dirs, n \in 1 .. MaxJobs :
                n \in DOMAIN mounts[d] /\ IsOf(s, mounts[d][n])

Formatter(j, pc) == At(j, "prepare", pc) \/ At(j, "reset", pc)

\* A stick that is too small, or a command that fails, ends it where it is.
FormatFails(j) ==
  /\ \E pc \in {"umount", "mkfs", "clear", "mount"} : Formatter(j, pc)
  /\ Return(j, "err") /\ UNCHANGED <<files, wizard>>

\* What stays mounted on a directory when a stick is unmounted.
Without(s, stack) ==
  LET left[n \in 0 .. Len(stack)] ==
        IF n = 0 THEN <<>>
        ELSE IF IsOf(s, stack[n]) THEN left[n - 1] ELSE Append(left[n - 1], stack[n])
  IN left[Len(stack)]

\* umount -l takes the stick from under whoever is writing to it.
UnmountStick(j) ==
  /\ Formatter(j, "umount") /\ Go(j, "wipe")
  /\ mounts' = [d \in Dirs |-> Without(jobs[j].what, mounts[d])]
  /\ UNCHANGED <<fs, dirs, files, wizard>>

\* wipefs -f and a new table.
Wipe(j) ==
  /\ Formatter(j, "wipe") /\ Go(j, "mkfs")
  /\ fs' = [fs EXCEPT ![jobs[j].what] = Lost]
  /\ UNCHANGED <<mounts, dirs, files, wizard>>

\* mkfs refuses a partition that another command has mounted meanwhile.
MakeFileSystem(j) ==
  /\ Formatter(j, "mkfs") /\ ~Mounted(jobs[j].what)
  /\ Go(j, IF jobs[j].kind = "prepare" THEN "clear" ELSE "ok")
  /\ fs' = [fs EXCEPT ![jobs[j].what] = j]
  /\ UNCHANGED <<mounts, dirs, files, wizard>>

\* mkdir of the vault directory; umount -l takes the last mount off it.
ClearVault(j) ==
  /\ At(j, "prepare", "clear") /\ Go(j, "mount")
  /\ dirs' = dirs \union {VaultDir}
  /\ mounts' = [mounts EXCEPT ![VaultDir] = IF @ = <<>> THEN @ ELSE SubSeq(@, 1, Len(@) - 1)]
  /\ UNCHANGED <<fs, files, wizard>>

\* A preparation that does not look whether the mount has worked.
MountAnyhow(j) ==
  LET f == <<jobs[j].what, fs[jobs[j].what]>>
  IN /\ At(j, "prepare", "mount") /\ Go(j, "ok")
     /\ mounts' \in {mounts} \union
          (IF f[2] # Lost THEN {[mounts EXCEPT ![VaultDir] = Append(@, f)]} ELSE {})
     /\ UNCHANGED <<fs, dirs, files, wizard>>

MountVault(j) ==
  LET f == <<jobs[j].what, fs[jobs[j].what]>>
  IN /\ At(j, "prepare", "mount") /\ f[2] # Lost /\ Shows(VaultDir) # f
     /\ Go(j, "ok")
     /\ mounts' = [mounts EXCEPT ![VaultDir] = Append(@, f)]
     /\ UNCHANGED <<fs, dirs, files, wizard>>

-----------------------------------------------------------------------------
(* What follows a preparation: usbFormatDoneMsg.                            *)

SourceExists == src = Given \/ (Shows(src) # Gone /\ payload[Shows(src)] # "none")

HearPrepared(j) ==
  /\ At(j, "prepare", "ok")
  /\ LET heard == [jobs EXCEPT ![j].pc = "heard"]
     IN \/ Start(heard, "backup", "open", VaultDir, jobs[j].what, jobs[j].calm)
        \/ SourceExists /\ Start(heard, "stage", "open", VaultDir, jobs[j].what, jobs[j].calm)
        \/ ~SourceExists /\ jobs' = heard
  /\ UNCHANGED <<disks, files, wizard>>

-----------------------------------------------------------------------------
(* CreateHostBackupWithProgress.                                            *)

\* DetectBackupTargets: what lsblk says of the mount points now.
ListTargets ==
  /\ targets' = [p \in Parts |-> Listed(p)]
  /\ UNCHANGED <<jobs, disks, files, found, src, selected, deaths>>

\* A listed path is used as it is; a device is mounted first.
OrderBackup(p) ==
  /\ Start(jobs, "backup", IF targets[p] = Device(p) THEN "mkdir" ELSE "open",
           IF targets[p] = Device(p) THEN Automount(p) ELSE targets[p], p, targets[p] = Listed(p))
  /\ UNCHANGED <<disks, files, wizard>>

\* AutoMountDrive: the directory, ...
MakeDir(j) ==
  /\ At(j, "backup", "mkdir") \/ At(j, "scan", "mkdir")
  /\ Go(j, "mount") /\ dirs' = dirs \union {jobs[j].dir}
  /\ UNCHANGED <<fs, mounts, files, wizard>>

\* ... and the mount, refused when the partition is already mounted there.
AutoMount(j) ==
  /\ At(j, "backup", "mount") \/ At(j, "scan", "mount")
  /\ Shows(jobs[j].dir) = Host
  /\ jobs' = [jobs EXCEPT ![j].pc = "open", ![j].own = TRUE]
  /\ mounts' = [mounts EXCEPT ![jobs[j].dir] = << <<jobs[j].dir[2], 0>> >>]
  /\ UNCHANGED <<fs, dirs, files, wizard>>

BackupFails(j) ==
  /\ At(j, "backup", "mount") \/ At(j, "backup", "open")
  /\ Return(j, "err") /\ UNCHANGED <<files, wizard>>

\* tar creates the archive wherever the path leads.
CreateArchive(j) ==
  /\ At(j, "backup", "open") /\ Shows(jobs[j].dir) # Gone
  /\ Go(j, "tar")
  /\ archive' = [archive EXCEPT ![j] = [on |-> Shows(jobs[j].dir), state |-> "cut", sum |-> "none"]]
  /\ UNCHANGED <<disks, payload, host, wizard>>

\* A backup that reads the exit status of tar only for its log.
TarEndsAnyhow(j) ==
  /\ At(j, "backup", "tar") /\ Go(j, "hash") /\ UNCHANGED disks
  /\ \E state \in {"whole", "cut"} : archive' = [archive EXCEPT ![j].state = state]
  /\ UNCHANGED <<payload, host, wizard>>

\* The drive is full, a file changed under tar: what is there stays.
TarEnds(j) ==
  /\ At(j, "backup", "tar")
  /\ \/ Go(j, "hash") /\ archive' = [archive EXCEPT ![j].state = "whole"] /\ UNCHANGED disks
     \/ Return(j, "err") /\ UNCHANGED archive
  /\ UNCHANGED <<payload, host, wizard>>

\* sha256sum goes by the path again; without it there is no manifest, and
\* the backup succeeds all the same.
WriteManifest(j) ==
  /\ At(j, "backup", "hash")
  /\ archive' \in {archive} \union
       (IF Shows(jobs[j].dir) = archive[j].on
        THEN {[archive EXCEPT ![j].sum = archive[j].state]} ELSE {})
  /\ Return(j, "ok")
  /\ UNCHANGED <<payload, host, wizard>>

-----------------------------------------------------------------------------
(* triggerUSBStagePayloadCmd and PurgeIntermediatePayloads.                 *)

\* A device that is not mounted is taken for a directory, and fails.
OrderStage(p) ==
  /\ SourceExists
  /\ Start(jobs, "stage", "open", targets[p], p, targets[p] = Listed(p))
  /\ UNCHANGED <<disks, files, wizard>>

StageFails(j) ==
  /\ At(j, "stage", "open") \/ At(j, "stage", "copy")
  /\ Return(j, "err") /\ UNCHANGED <<files, wizard>>

\* The source is opened, then the payload is created or truncated.
OpenPayload(j) ==
  /\ At(j, "stage", "open") /\ SourceExists /\ Shows(jobs[j].dir) # Gone
  /\ jobs' = [jobs EXCEPT ![j].pc = "copy", ![j].at = Shows(jobs[j].dir),
                          ![j].seen = IF src = Given THEN "whole"
                                      ELSE IF Shows(src) = Shows(jobs[j].dir) THEN "self"
                                      ELSE payload[Shows(src)]]
  /\ payload' = [payload EXCEPT ![Shows(jobs[j].dir)] = "cut"]
  /\ UNCHANGED <<disks, archive, host, wizard>>

\* A staging that takes any end of reading for the end of the file.
CopyAnyhow(j) ==
  /\ At(j, "stage", "copy") /\ Return(j, "ok")
  /\ payload' \in {payload, [payload EXCEPT ![jobs[j].at] = jobs[j].seen]}
  /\ src' = jobs[j].dir
  /\ UNCHANGED <<archive, host, targets, found, selected, deaths>>

\* Everything the source held is copied; a payload that was truncated because
\* it is its own source ends at once.  A purge may have removed the name.
CopyPayload(j) ==
  /\ At(j, "stage", "copy") /\ Return(j, "ok")
  /\ payload' = [payload EXCEPT ![jobs[j].at] =
                   IF @ # "none" /\ jobs[j].seen = "whole" THEN "whole" ELSE @]
  /\ src' = jobs[j].dir
  /\ UNCHANGED <<archive, host, targets, found, selected, deaths>>

\* "1" on the last screen: installer files go, snapshots stay.
Purge ==
  /\ Shows(VaultDir) # Gone
  /\ payload' = [payload EXCEPT ![Shows(VaultDir)] = "none"]
  /\ jobs' = [j \in Ids |-> [jobs[j] EXCEPT !.calm =
                @ /\ ~(jobs[j].kind \in {"prepare", "stage"} /\ jobs[j].pc # "heard")]]
  /\ UNCHANGED <<disks, archive, host, wizard>>

-----------------------------------------------------------------------------
(* FindBackupArchives and RestoreHostFromBackup.                            *)

\* Sticks are listed by a name without /dev/ and cannot be mounted: only
\* partitions are looked at, by the path lsblk gives, or mounted for a look.
OrderScan(p) ==
  /\ Order("scan", IF Listed(p) = Device(p) THEN "mkdir" ELSE "open",
           IF Listed(p) = Device(p) THEN Automount(p) ELSE Listed(p), p)
  /\ UNCHANGED <<disks, files, wizard>>

\* The archives there, partial ones too, by the path they have now.
ReadDir(j) ==
  /\ At(j, "scan", "open") /\ Return(j, "ok")
  /\ found' = {[arch |-> a, dir |-> jobs[j].dir, sum |-> archive[a].sum # "none"] :
                 a \in {b \in DOMAIN archive : archive[b].on = Shows(jobs[j].dir)}}
  /\ UNCHANGED <<files, targets, src, selected, deaths>>

ScanFails(j) ==
  /\ At(j, "scan", "mount") /\ Return(j, "ok") /\ found' = {}
  /\ UNCHANGED <<files, targets, src, selected, deaths>>

OrderRestore(a) ==
  /\ a \in found /\ Order("restore", "check", a.dir, a)
  /\ UNCHANGED <<disks, files, wizard>>

Archive(j) == archive[jobs[j].what.arch]
Reached(j) == Shows(jobs[j].dir) = Archive(j).on

\* The manifest is verified if it can be found where the archive was.
CheckManifest(j) ==
  /\ At(j, "restore", "check") /\ UNCHANGED <<files, wizard>>
  /\ LET manifest == Reached(j) /\ Archive(j).sum # "none"
     IN \/ /\ manifest => Archive(j).sum = Archive(j).state
           /\ jobs' = [jobs EXCEPT ![j].pc = "wipe",
                         ![j].seen = IF manifest THEN "verified" ELSE "unverified"]
           /\ UNCHANGED disks
        \/ manifest /\ Archive(j).sum # Archive(j).state /\ Return(j, "err")

\* A restoration that unmounts what is on the disk before it formats, as the
\* deployments do.
ReleasedFirst == FALSE

\* A mounted root is neither repartitioned nor formatted: mkfs.ext4 is told
\* -F once.
InUse == host.roots # {}

\* New table and file systems; a disk in use, as that of the running system
\* is, refuses.
WipeHost(j) ==
  /\ At(j, "restore", "wipe")
  /\ \/ ~InUse /\ host' = [roots |-> {}, holds |-> {}]
        /\ \/ Go(j, "mount") /\ UNCHANGED disks
           \/ Return(j, "err")
     \/ host' = host /\ Return(j, "err")
  /\ UNCHANGED <<archive, payload, wizard>>

\* Whatever file system is there now, another restoration's too.
MountRoot(j) ==
  /\ At(j, "restore", "mount")
  /\ \/ /\ host' = [roots |-> host.roots \union {j}, holds |-> host.holds]
        /\ Go(j, "extract") /\ UNCHANGED disks
     \/ host' = host /\ Return(j, "err")
  /\ UNCHANGED <<archive, payload, wizard>>

\* tar reads the archive by its path; the steps after it are not checked, and
\* the root is unmounted in any case.
Extract(j) ==
  /\ At(j, "restore", "extract")
  /\ LET whole == Reached(j) /\ Archive(j).state = "whole"
         unpacked == IF j \in host.roots THEN {jobs[j].what.arch} ELSE {}
     IN \/ /\ whole /\ Return(j, "ok")
           /\ host' = [roots |-> host.roots \ {j}, holds |-> host.holds \union unpacked]
        \/ /\ Return(j, "err")
           /\ host' = [roots |-> host.roots \ {j}, holds |-> host.holds]
  /\ UNCHANGED <<archive, payload, wizard>>

-----------------------------------------------------------------------------

\* ctrl+c.  No deferred call runs, so that a restoration's root stays mounted;
\* the tar of a backup goes on by itself.
Die ==
  /\ Len(jobs) + deaths < MaxEvents /\ deaths' = deaths + 1
  /\ \E j \in Ids : Running(j)
  /\ jobs' = [j \in Ids |->
       [jobs[j] EXCEPT !.pc = IF At(j, "backup", "tar") THEN "orphan"
                              ELSE IF Running(j) \/ At(j, "prepare", "ok") THEN "dead" ELSE @]]
  /\ targets' = [p \in Parts |-> Device(p)] /\ found' = {} /\ src' = Given
  /\ selected' = "none"
  /\ UNCHANGED <<disks, files>>

OrphanEnds(j) ==
  /\ At(j, "backup", "orphan") /\ Go(j, "dead")
  /\ archive' \in {archive, [archive EXCEPT ![j].state = "whole"]}
  /\ UNCHANGED <<disks, payload, host, wizard>>

Format(j) == \/ FormatFails(j) \/ UnmountStick(j) \/ Wipe(j) \/ MakeFileSystem(j)
             \/ ClearVault(j) \/ MountVault(j)
Backup(j) == \/ MakeDir(j) \/ AutoMount(j) \/ BackupFails(j) \/ CreateArchive(j)
             \/ TarEnds(j) \/ WriteManifest(j) \/ OrphanEnds(j)
Stage(j) == StageFails(j) \/ OpenPayload(j) \/ CopyPayload(j)
Scan(j) == ReadDir(j) \/ ScanFails(j)
Restore(j) == CheckManifest(j) \/ WipeHost(j) \/ MountRoot(j) \/ Extract(j)

Next ==
  \/ ListTargets \/ OrderReset \/ Purge \/ Die
  \/ \E s \in Sticks : ConfirmFormat(s)
  \/ \E p \in Parts : OrderBackup(p) \/ OrderStage(p) \/ OrderScan(p)
  \/ \E a \in found : OrderRestore(a)
  \/ \E j \in Ids : Format(j) \/ HearPrepared(j) \/ Backup(j) \/ Stage(j) \/ Scan(j) \/ Restore(j)

Spec == Init /\ [][Next]_vars

-----------------------------------------------------------------------------

\* A manifest that matches its archive vouches for a whole one: whatever else
\* ran, failed or was cut off by the end of the wizard, a partial snapshot is
\* never taken for a good one by the check of a restoration.
ManifestMeansWhole ==
  \A a \in DOMAIN archive : archive[a].sum # "none" /\ archive[a].sum = archive[a].state
                              => archive[a].state = "whole"

\* The drive a command's file was meant for.
Meant(j, f) == f \in {<<jobs[j].what, n>> : n \in 0 .. MaxJobs}

\* What still stands on its drive.
Stands(f) == f[1] \in Sticks => fs[f[1]] = f[2]

\* A backup that succeeded with no other command around left a whole snapshot
\* on the drive the user chose, and it stays until that drive is formatted:
\* the wizard goes on to erase the host (backupFinishedMsg).
SnapshotIsOnItsDrive ==
  \A j \in Ids :
    At(j, "backup", "ok") /\ jobs[j].calm =>
      /\ Meant(j, archive[j].on) /\ archive[j].state = "whole"
      /\ Stands(archive[j].on)
           \/ \E k \in Ids : /\ k > j /\ jobs[k].kind \in {"prepare", "reset"}
                              /\ jobs[k].what = jobs[j].what

\* A staging that succeeded undisturbed left the whole payload on its drive,
\* if its source was whole and not the very file it overwrites.
StagedOnItsDrive ==
  \A j \in Ids :
    At(j, "stage", "ok") /\ jobs[j].calm /\ jobs[j].seen = "whole" =>
      /\ Meant(j, jobs[j].at)
      /\ payload[jobs[j].at] = "cut" => \E k \in Ids : k > j /\ jobs[k].kind = "stage"

\* A restoration that reports success has its snapshot whole on the root file
\* system the disk has then: no other restoration has formatted it since it
\* was mounted.
RestoredIsWhole ==
  [][\A j \in Ids : At(j, "restore", "extract") /\ jobs'[j].pc = "ok"
                      => jobs[j].what.arch \in host'.holds]_vars

\* What the menu says of a restoration (view.go:841): the disk is wiped only
\* for an archive whose checksum has been verified, if it was found with one.
VerifiedBeforeTheWipe ==
  \A j \in Ids :
    (At(j, "restore", "mount") \/ At(j, "restore", "extract")) /\ jobs[j].what.sum =>
      jobs[j].seen = "verified"
=============================================================================
