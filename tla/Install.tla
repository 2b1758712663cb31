------------------------------- MODULE Install -------------------------------
(***************************************************************************)
(* How an image gets onto the target partition and into the boot menu:     *)
(* PlanDeploy and ApplyDeploy (engine/rootfs.go) or, for a Windows entry   *)
(* in dual boot, ApplyWim (engine/wim_deployer.go), then                   *)
(* AutoConfigureDualBoot (engine/bootloader.go).                           *)
(*                                                                         *)
(* Each function is a script: a sequence of instructions, each of which    *)
(* may fail, and an instruction says whether the function then returns the *)
(* error or only logs it.  What a function defers is kept on its frame and *)
(* run, newest first, when it returns.                                     *)
(***************************************************************************)
EXTENDS Integers, Sequences, FiniteSets

CONSTANTS
  Images,     \* kinds of image: subset of AllImages
  MaxRuns     \* bound: deployments, counting those that died

AllImages == {"linux_iso", "windows_iso", "raw", "qcow2", "tarball", "wim"}
ASSUME ImagesAssumption == Images \subseteq AllImages
ASSUME MaxRunsAssumption == MaxRuns \in Nat

\* Directories something gets mounted on; those below "stage" are in its tree.
Dirs == {"probe", "target", "iso", "squash", "stage"}
Binds == <<"dev", "pts", "proc", "sys">>
Points == Dirs \union {Binds[i] : i \in DOMAIN Binds}
Below(d) == CASE d = "stage" -> {Binds[i] : i \in DOMAIN Binds}
              [] d = "dev" -> {"pts"}
              [] OTHER -> {}

\* Where the partition's own file system is mounted.
OnPartition == {"target", "stage"}

VARIABLES
  frames,   \* the functions that are running, innermost first
  erred,    \* what the last call or fallible instruction came to
  phase,    \* what RunProvision is waiting for
  image,    \* the image of this run
  pipeline, \* RunProvision's half: dual boot or single boot
  route,    \* the deployment that was chosen
  part,     \* the target partition: its file system and what is on it
  mounts,   \* how many mounts each directory carries
  dirs,     \* temporary directories that exist
  raw,      \* qcow2's converted image is on the host's disk
  menu,     \* grub.cfg was generated in this run, after the last write of 40_custom
  result,   \* of the last run
  stale,    \* the partition is still mounted where a dead run had it
  wiped,    \* ghost: RemoveAll has run over something mounted
  runs

vars == <<frames, erred, phase, image, pipeline, route, part, mounts, dirs, raw, menu,
          result, stale, wiped, runs>>
host == <<phase, image, pipeline, route, menu, result, runs>>

-----------------------------------------------------------------------------
(* The scripts.  Must: an error is returned.  Try: it is logged, at most.   *)

Must(do, on) == [do |-> do, on |-> on, error |-> "return"]
Try(do, on) == [do |-> do, on |-> on, error |-> "ignore"]

IsWindowsISO == <<Must("mkdir", "probe"), Must("mount", "probe"), Must("find", "wim")>>

\* A function that falls back to the blocks itself, with all it has mounted.
FallbackInside ==
  <<Try("release", "target"), Must("mkfs", "ext4"),
    Must("mkdir", "target"), Must("mount", "target"),
    Must("mkdir", "iso"), Must("mount", "iso"), Must("find", "squashfs"),
    Try("unpack", "squashfs"), Must("else_dd", "iso")>>

\* Formats, mounts, finds the squashfs and unpacks it; without unsquashfs it
\* is mounted and copied.
Squashfs ==
  <<Try("release", "target"), Must("mkfs", "ext4"),
    Must("mkdir", "target"), Must("mount", "target"),
    Must("mkdir", "iso"), Must("mount", "iso"), Must("find", "squashfs"),
    Must("unpack", "squashfs")>>

SquashfsCopied ==
  SubSeq(Squashfs, 1, 7)
    \o <<Must("mkdir", "squash"), Must("mount", "squash"), Must("unpack", "squashfs")>>

\* The answer file is put there if the new file system can be mounted.
Windows ==
  <<Try("release", "target"), Must("mkfs", "ntfs"),
    Must("mkdir", "iso"), Must("mount", "iso"), Must("find", "wim"),
    Must("unpack", "wim"), Try("mkdir", "target"), Try("mount", "target")>>

Tarball ==
  <<Must("mkfs", "ext4"), Must("mkdir", "target"), Must("mount", "target"),
    Must("unpack", "tar"), Must("find", "root")>>

\* wim_deployer.go: without a release, and the answer file is required.
ApplyWim ==
  <<Must("mkfs", "ntfs"), Must("mkdir", "target"), Must("mount", "target"),
    Must("unpack", "wim"), Must("find", "answer")>>

\* ApplyDeploy: a Linux ISO that cannot be unpacked is written as it is.
\* RunProvision calls ApplyWim in its place.
ApplyDeploy ==
  [linux   |-> <<Try("call", "squashfs"), Must("else_dd", "iso")>>,
   windows |-> <<Must("call", "windows")>>,
   raw     |-> <<Must("dd", "other")>>,
   qcow2   |-> <<Must("convert", "raw"), Must("dd", "other")>>,
   tarball |-> <<Must("call", "tarball")>>,
   wim     |-> <<Must("call", "wim")>>]

NeutralizeLiveBootHooks ==
  [i \in 1 .. 4 |-> Must("bind", Binds[i])] \o <<Must("unbind_later", "stage"), Try("chroot", "purge")>>

\* The package manager has to be a known one.
AssertBootableKernelAndPackages ==
  [i \in 1 .. 4 |-> Must("bind", Binds[i])]
    \o <<Must("unbind_later", "stage"), Must("find", "packages"), Try("chroot", "install")>>

ConfigureLinux ==
  <<Must("mkdir", "stage"), Try("heal", "ext4"), Must("mount", "stage"),
    Try("call", "neutralize"), Try("call", "packages"), Try("write", "custom")>>

\* A configuration that generates the menu before it adds its entry.
MenuFirst ==
  [linux |-> <<Must("update", "menu"), Must("call", "configure_linux")>>,
   other |-> <<Must("update", "menu"), Try("write", "custom")>>]

\* By the file system found on the partition.
AutoConfigureDualBoot ==
  [linux |-> <<Must("call", "configure_linux"), Must("update", "menu")>>,
   other |-> <<Try("write", "custom"), Must("update", "menu")>>]

Functions(name) ==
  CASE name = "is_windows" -> {IsWindowsISO}
    [] name = "squashfs" -> {Squashfs, SquashfsCopied}
    [] name = "windows" -> {Windows}
    [] name = "tarball" -> {Tarball}
    [] name = "wim" -> {ApplyWim}
    [] name = "neutralize" -> {NeutralizeLiveBootHooks}
    [] name = "packages" -> {AssertBootableKernelAndPackages}
    [] name = "configure_linux" -> {ConfigureLinux}

-----------------------------------------------------------------------------
(* Running them.                                                            *)

Frame(script) == [script |-> script, at |-> 1, cleanups |-> <<>>, failed |-> FALSE]
Top == frames[1]
Running == frames # <<>> /\ ~ Top.failed /\ Top.at <= Len(Top.script)
Now == Top.script[Top.at]
Is(do) == Running /\ Now.do = do

\* The instruction is done: on to the next one, with one more cleanup or none.
Proceed(cleanups) ==
  /\ frames' = [frames EXCEPT ![1].at = @ + 1, ![1].cleanups = cleanups \o @]
  /\ erred' = FALSE

\* It failed.
Fails ==
  /\ frames' = IF Now.error = "return" THEN [frames EXCEPT ![1].failed = TRUE]
               ELSE [frames EXCEPT ![1].at = @ + 1]
  /\ erred' = TRUE

Calls(script) == frames' = <<Frame(script)>> \o frames /\ UNCHANGED erred
Cleanup(do, d) == [do |-> do, on |-> d]

Mounted(d) == mounts[d] > 0
Busy == stale \/ \E d \in OnPartition : Mounted(d)
Mountable == part.fs \in {"ext4", "ntfs", "iso"}

\* umount without -l: refused while something is mounted below.
UnmountAlone(d) ==
  mounts' = [x \in Points |->
    IF x = d /\ Mounted(d) /\ \A b \in Below(d) : mounts[b] < mounts[d]
    THEN mounts[d] - 1 ELSE mounts[x]]

\* umount -l takes the topmost mount with everything below it.
Unmount(d) ==
  mounts' = [x \in Points |->
    CASE x = d /\ Mounted(d) -> mounts[d] - 1
      [] x \in Below(d) /\ mounts[x] >= mounts[d] /\ Mounted(d) -> mounts[d] - 1
      [] OTHER -> mounts[x]]

-----------------------------------------------------------------------------
(* The instructions.                                                        *)

MkdirTemp ==
  /\ Is("mkdir")
  /\ \/ Proceed(<<Cleanup("RemoveAll", Now.on)>>) /\ dirs' = dirs \union {Now.on}
     \/ Fails /\ UNCHANGED dirs
  /\ UNCHANGED <<host, part, mounts, raw, stale, wiped>>

Mount ==
  /\ Is("mount")
  /\ \/ /\ Now.on \in dirs
        /\ Now.on \in OnPartition => Mountable
        /\ Proceed(<<Cleanup("umount", Now.on)>>)
        /\ mounts' = [mounts EXCEPT ![Now.on] = @ + 1]
     \/ Fails /\ UNCHANGED mounts
  /\ UNCHANGED <<host, part, dirs, raw, stale, wiped>>

Bind ==
  /\ Is("bind")
  /\ \/ Proceed(<<>>) /\ mounts' = [mounts EXCEPT ![Now.on] = @ + 1]
     \/ Fails /\ UNCHANGED mounts
  /\ UNCHANGED <<host, part, dirs, raw, stale, wiped>>

\* Only now are the binds deferred to be undone, the last one first.
UnbindLater ==
  /\ Is("unbind_later")
  /\ Proceed([i \in 1 .. 4 |-> Cleanup("umount", Binds[5 - i])])
  /\ UNCHANGED <<host, part, mounts, dirs, raw, stale, wiped>>

\* umount -l of the partition itself.
Release ==
  /\ Is("release") /\ Proceed(<<>>) /\ stale' = FALSE
  /\ UNCHANGED <<host, part, mounts, dirs, raw, wiped>>

\* mkfs.ext4 -F refuses a mounted partition, mkfs.ntfs -F may not.
Mkfs ==
  /\ Is("mkfs")
  /\ \/ (Busy => Now.on = "ntfs") /\ Proceed(<<>>) /\ part' = [fs |-> Now.on, holds |-> "nothing"]
     \/ Fails /\ UNCHANGED part
  /\ UNCHANGED <<host, mounts, dirs, raw, stale, wiped>>

\* unsquashfs, rsync or cp, wimapply, tar.
Unpack ==
  /\ Is("unpack")
  /\ \/ Proceed(<<>>) /\ part' = [part EXCEPT !.holds = "image"]
     \/ Fails /\ part' = [part EXCEPT !.holds = "half"]
  /\ UNCHANGED <<host, mounts, dirs, raw, stale, wiped>>

\* dd asks nobody.  A raw image may be a file system, or a disk with a table
\* of its own, on which blkid finds none.
WriteBlocks(fss) ==
  \/ Proceed(<<>>) /\ \E fs \in fss : part' = [fs |-> fs, holds |-> "image"]
  \/ Fails /\ part' = [fs |-> "none", holds |-> "half"]

Dd ==
  /\ Is("dd") /\ WriteBlocks({"ext4", "ntfs", "hfs", "none"})
  /\ UNCHANGED <<host, mounts, dirs, raw, stale, wiped>>

ElseDd ==
  /\ Is("else_dd")
  /\ \/ erred /\ WriteBlocks({"iso"})
     \/ ~ erred /\ Proceed(<<>>) /\ UNCHANGED part
  /\ UNCHANGED <<host, mounts, dirs, raw, stale, wiped>>

Convert ==
  /\ Is("convert")
  /\ \/ Proceed(<<Cleanup("Remove", "raw")>>) /\ raw' = TRUE
     \/ Fails /\ raw' \in BOOLEAN
  /\ UNCHANGED <<host, part, mounts, dirs, stale, wiped>>

\* A Windows ISO holds an install.wim or .esd, a Linux ISO does not.
Find ==
  /\ Is("find")
  /\ \/ (Now.on = "wim" => image = "windows_iso") /\ Proceed(<<>>)
     \/ Fails
  /\ UNCHANGED <<host, part, mounts, dirs, raw, stale, wiped>>

\* "STORAGE HEAL": blkid succeeds and names no file system.
Heal ==
  /\ Is("heal")
  /\ \/ part.fs = "none" /\ ~ Busy /\ part' = [fs |-> "ext4", holds |-> "nothing"]
     \/ UNCHANGED part
  /\ Proceed(<<>>)
  /\ UNCHANGED <<host, mounts, dirs, raw, stale, wiped>>

Chroot ==
  /\ Is("chroot") /\ (Proceed(<<>>) \/ Fails)
  /\ UNCHANGED <<host, part, mounts, dirs, raw, stale, wiped>>

\* /etc/grub.d/40_custom, replaced; a write that fails may have emptied it.
WriteCustom ==
  /\ Is("write")
  /\ \/ Proceed(<<>>) /\ menu' = FALSE
     \/ Fails /\ menu' \in {menu, FALSE}
  /\ UNCHANGED <<phase, image, pipeline, route, part, mounts, dirs, raw, result, stale, wiped, runs>>

\* update-grub, else grub2-mkconfig.
UpdateMenu ==
  /\ Is("update")
  /\ \/ Proceed(<<>>) /\ menu' = TRUE
     \/ Fails /\ UNCHANGED menu
  /\ UNCHANGED <<phase, image, pipeline, route, part, mounts, dirs, raw, result, stale, wiped, runs>>

Call ==
  /\ Is("call") /\ \E script \in Functions(Now.on) : Calls(script)
  /\ UNCHANGED <<host, part, mounts, dirs, raw, stale, wiped>>

-----------------------------------------------------------------------------
(* Returning.                                                               *)

Returning == frames # <<>> /\ ~ Running

\* RemoveAll does not stop at a mount point.
Do(cleanup) ==
  CASE cleanup.do = "umount" ->
         Unmount(cleanup.on) /\ UNCHANGED <<dirs, raw, wiped>>
    [] cleanup.do = "RemoveAll" ->
         /\ dirs' = dirs \ {cleanup.on}
         /\ wiped' = (wiped \/ \E d \in {cleanup.on} \union Below(cleanup.on) : Mounted(d))
         /\ UNCHANGED <<mounts, raw>>
    [] cleanup.do = "Remove" ->
         raw' = FALSE /\ UNCHANGED <<mounts, dirs, wiped>>

\* A function that cleans up in the order of its set-up.
UnwindOldestFirst ==
  /\ Returning /\ Top.cleanups # <<>>
  /\ Do(Top.cleanups[Len(Top.cleanups)])
  /\ frames' = [frames EXCEPT ![1].cleanups = SubSeq(@, 1, Len(@) - 1)]
  /\ UNCHANGED <<host, erred, part, stale>>

\* Deferred calls run newest first.
Unwind ==
  /\ Returning /\ Top.cleanups # <<>>
  /\ Do(Head(Top.cleanups))
  /\ frames' = [frames EXCEPT ![1].cleanups = Tail(@)]
  /\ UNCHANGED <<host, erred, part, stale>>

\* To the caller's next instruction, or out of the caller with the error.
Return ==
  /\ Returning /\ Top.cleanups = <<>> /\ Len(frames) > 1
  /\ erred' = Top.failed
  /\ LET caller == frames[2]
         lost == Top.failed /\ caller.script[caller.at].error = "return"
     IN frames' = <<[caller EXCEPT !.at = IF lost THEN @ ELSE @ + 1, !.failed = lost]>>
                    \o SubSeq(frames, 3, Len(frames))
  /\ UNCHANGED <<host, part, mounts, dirs, raw, stale, wiped>>

-----------------------------------------------------------------------------
(* The run around them: RunProvision's image-deploy and                     *)
(* bootloader-configure steps.                                              *)

Enter(p, script) == phase' = p /\ frames' = <<Frame(script)>> /\ erred' = FALSE
Ends(r) == phase' = "idle" /\ frames' = <<>> /\ erred' = FALSE /\ result' = r
PhaseEnds(p) == phase = p /\ Returning /\ Top.cleanups = <<>> /\ Len(frames) = 1

\* PlanDeploy: only an ISO has to be looked into, and a WIM is refused; it is
\* for ApplyWim, where any other payload fails like a damaged one.  The
\* partition is a new one or the one an earlier run left.
Start ==
  /\ phase = "idle" /\ runs < MaxRuns /\ runs' = runs + 1
  /\ image' \in Images /\ pipeline' \in {"dual", "single"}
  /\ image' = "wim" => pipeline' = "dual"
  /\ part' \in {part, [fs |-> "ext4", holds |-> "nothing"]}
  /\ menu' = FALSE /\ result' = "none"
  /\ IF image' \in {"linux_iso", "windows_iso"}
     THEN Enter("probe", IsWindowsISO) /\ UNCHANGED route
     ELSE Enter("deploy", ApplyDeploy[image']) /\ route' = image'
  /\ UNCHANGED <<mounts, dirs, raw, stale, wiped>>

\* A tool that is missing ends the run.
Planned ==
  /\ PhaseEnds("probe")
  /\ route' = IF Top.failed THEN "linux" ELSE "windows"
  /\ \/ Enter("deploy", ApplyDeploy[route']) /\ UNCHANGED result
     \/ Ends("error")
  /\ UNCHANGED <<image, pipeline, part, mounts, dirs, raw, menu, stale, wiped, runs>>

\* A Windows image has no part in the host's menu.
Deployed ==
  /\ PhaseEnds("deploy")
  /\ IF Top.failed THEN Ends("error")
     ELSE IF route = "wim" THEN Ends("ok")
     ELSE /\ Enter("configure", AutoConfigureDualBoot[IF part.fs \in {"ntfs", "hfs"}
                                                       THEN "other" ELSE "linux"])
          /\ UNCHANGED result
  /\ UNCHANGED <<image, pipeline, route, part, mounts, dirs, raw, menu, stale, wiped, runs>>

\* In single boot its error is dropped.
Configured ==
  /\ PhaseEnds("configure")
  /\ Ends(IF Top.failed /\ pipeline = "dual" THEN "error" ELSE "ok")
  /\ UNCHANGED <<image, pipeline, route, part, mounts, dirs, raw, menu, stale, wiped, runs>>

\* The process dies; the kernel keeps its mounts.
Die ==
  /\ phase # "idle" /\ Ends("died")
  /\ stale' = (stale \/ \E d \in OnPartition : Mounted(d))
  /\ mounts' = [d \in Points |-> 0] /\ dirs' = {}
  /\ UNCHANGED <<image, pipeline, route, part, raw, menu, wiped, runs>>

Init ==
  /\ frames = <<>> /\ erred = FALSE /\ phase = "idle" /\ image \in Images
  /\ pipeline = "dual" /\ route = "raw"
  /\ part = [fs |-> "ext4", holds |-> "nothing"]
  /\ mounts = [d \in Points |-> 0] /\ dirs = {} /\ raw = FALSE
  /\ menu = FALSE /\ result = "none"
  /\ stale = FALSE /\ wiped = FALSE /\ runs = 0

Instruction ==
  \/ MkdirTemp \/ Mount \/ Bind \/ UnbindLater \/ Release \/ Mkfs \/ Unpack
  \/ Dd \/ ElseDd \/ Convert \/ Find \/ Heal \/ Chroot \/ WriteCustom \/ UpdateMenu \/ Call
Program == Instruction \/ Unwind \/ Return \/ Planned \/ Deployed \/ Configured
Next == Start \/ Program \/ Die

Spec == Init /\ [][Next]_vars

-----------------------------------------------------------------------------

TypeOK ==
  /\ Len(frames) <= 3 /\ erred \in BOOLEAN
  /\ phase \in {"idle", "probe", "deploy", "configure"}
  /\ image \in AllImages /\ pipeline \in {"dual", "single"} /\ route \in DOMAIN ApplyDeploy
  /\ part \in [fs : {"ext4", "ntfs", "hfs", "iso", "none"}, holds : {"nothing", "half", "image"}]
  /\ mounts \in [Points -> 0 .. 2] /\ dirs \subseteq Dirs
  /\ {raw, menu, stale, wiped} \subseteq BOOLEAN
  /\ result \in {"none", "ok", "error", "died"} /\ runs \in 0 .. MaxRuns

\* Whatever fails, and however often binds were stacked on each other, no
\* temporary directory is removed while something is mounted on it or below:
\* RemoveAll would empty the new system, or the host's /dev.
RemovesNothingMounted == ~ wiped

\* A run that ends by itself leaves no mount and no directory behind, also
\* when the second of four binds failed, and no converted image on success.
NothingIsLeft ==
  phase = "idle" /\ result \in {"ok", "error"} =>
    /\ dirs = {} /\ \A d \in Points : mounts[d] = 0
    /\ result = "ok" /\ route = "qcow2" => ~ raw

\* The partition is formatted or written block by block only while this
\* process has it nowhere mounted; dd would write under a live file system.
WritesBlocksUnmounted ==
  [][part'.fs # part.fs /\ phase # "idle" => \A d \in OnPartition : mounts[d] = 0]_vars

\* A run that reports success left a complete image on the partition, not a
\* half of one, and in dual boot a menu that was generated behind the last
\* write of 40_custom.  Whether that write succeeded is looked at by nobody
\* (bootloader.go:249), and in single boot the error of the menu is dropped.
\* Raw images are left out: Heal may format one that was deployed whole.
SuccessIsWhole ==
  result = "ok" =>
    /\ pipeline = "dual" /\ route # "wim" => menu
    /\ route \notin {"raw", "qcow2"} => part.holds = "image"
=============================================================================
