---------------------------- MODULE InstallProofs ----------------------------
(***************************************************************************)
(* What Install.tla promises of mounts, temporary directories and the      *)
(* image, for every number of runs and whatever fails in them.             *)
(***************************************************************************)
EXTENDS Install, SequenceTheorems, TLAPS

Good == part.holds = "image" /\ part.fs # "none"
BindPoints == {"dev", "pts", "proc", "sys"}

Squashed == {Squashfs, SquashfsCopied}
Chroots == {NeutralizeLiveBootHooks, AssertBootableKernelAndPackages}
Deploys == {ApplyDeploy[r] : r \in DOMAIN ApplyDeploy}
Configures == {AutoConfigureDualBoot["linux"], AutoConfigureDualBoot["other"]}
Leaves == Squashed \union {Windows, Tarball, ApplyWim}
Roots == {IsWindowsISO} \union Deploys \union Configures
Scripts == Roots \union Leaves \union {ConfigureLinux} \union Chroots

\* Which function calls which.
Nested(outer, inner) ==
  \/ outer = ApplyDeploy["linux"] /\ inner \in Squashed
  \/ outer = ApplyDeploy["windows"] /\ inner = Windows
  \/ outer = ApplyDeploy["tarball"] /\ inner = Tarball
  \/ outer = ApplyDeploy["wim"] /\ inner = ApplyWim
  \/ outer = AutoConfigureDualBoot["linux"] /\ inner = ConfigureLinux
  \/ outer = ConfigureLinux /\ inner \in Chroots

CleanupShape ==
  {Cleanup("umount", d) : d \in Points} \union {Cleanup("RemoveAll", d) : d \in Dirs}
    \union {Cleanup("Remove", "raw")}
PartShape == [fs : {"ext4", "ntfs", "hfs", "iso", "none"}, holds : {"nothing", "half", "image"}]
FrameShape == [script : Scripts, at : Nat \ {0}, cleanups : Seq(CleanupShape), failed : BOOLEAN]

\* The functions that run: by phase, and each called by the next.
Stacked ==
  /\ frames \in Seq(FrameShape) /\ Len(frames) <= 3
  /\ frames = <<>> <=> phase = "idle"
  /\ phase \in {"idle", "probe", "deploy", "configure"} /\ (phase # "idle" => result = "none")
  /\ route \in DOMAIN ApplyDeploy
  /\ phase = "probe" => frames[Len(frames)].script = IsWindowsISO
  /\ phase = "deploy" => frames[Len(frames)].script = ApplyDeploy[route]
  /\ phase = "configure" => frames[Len(frames)].script \in Configures
  /\ \A k \in 2 .. Len(frames) :
       /\ Nested(frames[k].script, frames[k - 1].script)
       /\ frames[k].at <= Len(frames[k].script) /\ ~ frames[k].failed
       /\ frames[k].script[frames[k].at].do = "call"

Deferred(f, do, d) == \E i \in DOMAIN f.cleanups : f.cleanups[i] = Cleanup(do, d)
Did(f, do, d) == \E m \in 1 .. f.at - 1 : m <= Len(f.script) /\ f.script[m].do = do /\ f.script[m].on = d

\* A directory is removed after what is mounted on it is unmounted, and both
\* have been set up.
Fits(f) ==
  /\ \A i, j \in DOMAIN f.cleanups :
       (f.cleanups[i].do = "RemoveAll" /\ f.cleanups[j] = Cleanup("umount", f.cleanups[i].on)) => j < i
  /\ \A d \in Dirs : /\ Deferred(f, "umount", d) => Did(f, "mount", d)
                     /\ Deferred(f, "RemoveAll", d) => Did(f, "mkdir", d)

\* What is there is going to be cleaned up.
Owed ==
  /\ dirs \subseteq Dirs /\ mounts \in [Points -> Nat]
  /\ \A d \in dirs : \E k \in DOMAIN frames : Deferred(frames[k], "RemoveAll", d)
  /\ \A d \in Dirs : mounts[d] <= 1
  /\ \A d \in Dirs : Mounted(d) => \E k \in DOMAIN frames : Deferred(frames[k], "umount", d)

\* Binds are below the mounted stage.
Sheltered ==
  /\ \A b \in BindPoints : Mounted(b) => Mounted("stage")
  /\ \A k \in DOMAIN frames :
       frames[k].script = ConfigureLinux /\ frames[k].at > 3 /\ (k > 1 \/ Running) => Mounted("stage")

\* A script that is at m has made the file system, and has filled it.
Formatted(s, m) == (s \in Squashed \union {Windows} /\ m > 2) \/ (s \in {Tarball, ApplyWim} /\ m > 1)
Filled(s, m) ==
  \/ s = Squashfs /\ m > 8
  \/ s = SquashfsCopied /\ m > 10
  \/ s = Windows /\ m > 6
  \/ s \in {Tarball, ApplyWim} /\ m > 4

\* How far each function has come with the partition and the menu.
Delivers(f) ==
  /\ Formatted(f.script, f.at) => part.fs # "none"
  /\ Filled(f.script, f.at) => part.holds = "image"
  /\ f.script = ApplyDeploy["linux"] /\ (f.at > 2 \/ (f.at = 2 /\ ~ erred)) => Good
  /\ f.script \in {ApplyDeploy["windows"], ApplyDeploy["tarball"], ApplyDeploy["wim"]} /\ f.at > 1 => Good
  /\ f.script = ApplyDeploy["qcow2"] /\ f.at > 1 /\ raw => Deferred(f, "Remove", "raw")
  /\ f.script \in Configures /\ f.at > 2 => menu

\* What the deployment has left when the boot menu is configured.
Landed ==
  phase = "configure" => (route \notin {"raw", "qcow2"} => Good) /\ (route = "qcow2" => ~ raw)

InstallInv ==
  /\ Stacked /\ (\A k \in DOMAIN frames : Fits(frames[k])) /\ Owed /\ Sheltered
  /\ (\A k \in DOMAIN frames : Delivers(frames[k])) /\ Landed
  /\ part \in PartShape /\ ~ wiped /\ SuccessIsWhole /\ NothingIsLeft

-----------------------------------------------------------------------------
(* The scripts, instruction by instruction.                                 *)

LEMMA SquashfsIs ==
  /\ Len(Squashfs) = 8 /\ DOMAIN Squashfs = 1 .. 8
  /\ Squashfs[1] = Try("release", "target") /\ Squashfs[2] = Must("mkfs", "ext4")
  /\ Squashfs[3] = Must("mkdir", "target") /\ Squashfs[4] = Must("mount", "target")
  /\ Squashfs[5] = Must("mkdir", "iso") /\ Squashfs[6] = Must("mount", "iso")
  /\ Squashfs[7] = Must("find", "squashfs") /\ Squashfs[8] = Must("unpack", "squashfs")
BY DEF Squashfs

LEMMA Listing ==
  ASSUME NEW S, NEW n \in Nat, NEW f, f = [i \in 1 .. n |-> f[i]], \A i \in 1 .. n : f[i] \in S
  PROVE  f \in Seq(S) /\ Len(f) = n
OBVIOUS

LEMMA Joined ==
  ASSUME NEW n \in Nat, NEW m \in Nat, NEW s, NEW t,
         s = [i \in 1 .. n |-> s[i]], t = [i \in 1 .. m |-> t[i]]
  PROVE  /\ Len(s \o t) = n + m /\ DOMAIN (s \o t) = 1 .. n + m
         /\ \A i \in 1 .. n : (s \o t)[i] = s[i]
         /\ \A i \in 1 .. m : (s \o t)[n + i] = t[i]
<1> DEFINE S == {s[i] : i \in 1 .. n} \union {t[i] : i \in 1 .. m}
<1>1. (\A i \in 1 .. n : s[i] \in S) /\ (\A i \in 1 .. m : t[i] \in S)
  OBVIOUS
<1> HIDE DEF S
<1>2. s \in Seq(S) /\ Len(s) = n
  BY ONLY <1>1, n \in Nat, s = [i \in 1 .. n |-> s[i]], Listing
<1>3. t \in Seq(S) /\ Len(t) = m
  BY ONLY <1>1, m \in Nat, t = [i \in 1 .. m |-> t[i]], Listing
<1>4. /\ s \o t \in Seq(S) /\ Len(s \o t) = Len(s) + Len(t)
      /\ \A i \in 1 .. Len(s) + Len(t) : (s \o t)[i] = IF i <= Len(s) THEN s[i] ELSE t[i - Len(s)]
  BY ONLY <1>2, <1>3, ConcatProperties
<1>5. DOMAIN (s \o t) = 1 .. n + m /\ Len(s \o t) = n + m
  BY ONLY <1>2, <1>3, <1>4
<1>6. \A i \in 1 .. n : (s \o t)[i] = s[i]
  BY ONLY <1>2, <1>3, <1>4, n \in Nat, m \in Nat
<1>7. \A i \in 1 .. m : (s \o t)[n + i] = t[i]
  <2> SUFFICES ASSUME NEW i \in 1 .. m PROVE (s \o t)[n + i] = t[i]
    OBVIOUS
  <2>1. n + i \in 1 .. n + m /\ ~ (n + i <= n) /\ n + i - n = i
    OBVIOUS
  <2> QED
    BY ONLY <1>2, <1>3, <1>4, <2>1
<1> QED
  BY <1>5, <1>6, <1>7

LEMMA SquashfsCopiedIs ==
  /\ Len(SquashfsCopied) = 10 /\ DOMAIN SquashfsCopied = 1 .. 10
  /\ \A i \in 1 .. 7 : SquashfsCopied[i] = Squashfs[i]
  /\ SquashfsCopied[8] = Must("mkdir", "squash") /\ SquashfsCopied[9] = Must("mount", "squash")
  /\ SquashfsCopied[10] = Must("unpack", "squashfs")
<1> DEFINE s == SubSeq(Squashfs, 1, 7)
           t == <<Must("mkdir", "squash"), Must("mount", "squash"), Must("unpack", "squashfs")>>
           S == {Squashfs[i] : i \in 1 .. 7}
<1>1. /\ t[1] = Must("mkdir", "squash") /\ t[2] = Must("mount", "squash")
      /\ t[3] = Must("unpack", "squashfs") /\ t = [i \in 1 .. 3 |-> t[i]]
  OBVIOUS
<1>2. \A i \in 1 .. 7 : Squashfs[i] \in S
  OBVIOUS
<1> HIDE DEF S
<1>3. s \in Seq(S) /\ Len(s) = 7 /\ \A i \in 1 .. 7 : s[i] = Squashfs[i]
  <2>1. /\ s \in Seq(S) /\ Len(s) = IF 1 <= 7 THEN 7 - 1 + 1 ELSE 0
        /\ \A i \in 1 .. 7 - 1 + 1 : s[i] = Squashfs[1 + i - 1]
    BY <1>2, SubSeqProperties
  <2> QED
    BY <2>1
<1>4. SquashfsCopied = s \o t
  BY DEF SquashfsCopied
<1> HIDE DEF s, t
<1>5. s = [i \in 1 .. 7 |-> s[i]]
  BY <1>3
<1>6. /\ Len(s \o t) = 7 + 3 /\ DOMAIN (s \o t) = 1 .. 7 + 3
      /\ \A i \in 1 .. 7 : (s \o t)[i] = s[i]
      /\ \A i \in 1 .. 3 : (s \o t)[7 + i] = t[i]
  BY <1>1, <1>5, Joined
<1>7. (s \o t)[7 + 1] = t[1] /\ (s \o t)[7 + 2] = t[2] /\ (s \o t)[7 + 3] = t[3]
  BY <1>6
<1> QED
  BY <1>1, <1>3, <1>4, <1>6, <1>7

\* What both start with: four binds, and only then the promise to undo them.
LEMMA BindsFirst ==
  ASSUME NEW n \in Nat, NEW t, t = [i \in 1 .. n |-> t[i]],
         NEW s, s = [i \in 1 .. 4 |-> Must("bind", Binds[i])] \o t
  PROVE  /\ Len(s) = 4 + n /\ DOMAIN s = 1 .. 4 + n
         /\ \A i \in 1 .. 4 : s[i] = Must("bind", Binds[i])
         /\ \A i \in 1 .. n : s[4 + i] = t[i]
<1> DEFINE b == [i \in 1 .. 4 |-> Must("bind", Binds[i])]
<1>1. \A i \in 1 .. 4 : b[i] = Must("bind", Binds[i])
  OBVIOUS
<1>2. b = [i \in 1 .. 4 |-> b[i]] /\ s = b \o t
  OBVIOUS
<1> HIDE DEF b
<1>3. /\ Len(b \o t) = 4 + n /\ DOMAIN (b \o t) = 1 .. 4 + n
      /\ \A i \in 1 .. 4 : (b \o t)[i] = b[i]
      /\ \A i \in 1 .. n : (b \o t)[4 + i] = t[i]
  BY <1>2, Joined
<1> QED
  BY <1>1, <1>2, <1>3

LEMMA ChrootsAre ==
  /\ \A s \in Chroots : Len(s) \in 6 .. 7 /\ DOMAIN s = 1 .. Len(s)
  /\ \A s \in Chroots : \A i \in 1 .. 4 : s[i] = Must("bind", Binds[i])
  /\ \A s \in Chroots : s[5] = Must("unbind_later", "stage")
  /\ Len(NeutralizeLiveBootHooks) = 6
  /\ NeutralizeLiveBootHooks[6] = Try("chroot", "purge")
  /\ Len(AssertBootableKernelAndPackages) = 7
  /\ AssertBootableKernelAndPackages[6] = Must("find", "packages")
  /\ AssertBootableKernelAndPackages[7] = Try("chroot", "install")
<1> DEFINE t == <<Must("unbind_later", "stage"), Try("chroot", "purge")>>
           u == <<Must("unbind_later", "stage"), Must("find", "packages"), Try("chroot", "install")>>
           N == NeutralizeLiveBootHooks
           P == AssertBootableKernelAndPackages
<1>1. /\ t[1] = Must("unbind_later", "stage") /\ t[2] = Try("chroot", "purge")
      /\ u[1] = Must("unbind_later", "stage") /\ u[2] = Must("find", "packages")
      /\ u[3] = Try("chroot", "install")
  OBVIOUS
<1>2. t = [i \in 1 .. 2 |-> t[i]] /\ u = [i \in 1 .. 3 |-> u[i]]
  OBVIOUS
<1>3. /\ N = [i \in 1 .. 4 |-> Must("bind", Binds[i])] \o t
      /\ P = [i \in 1 .. 4 |-> Must("bind", Binds[i])] \o u
  BY DEF NeutralizeLiveBootHooks, AssertBootableKernelAndPackages
<1> HIDE DEF t, u, N, P
<1>4. /\ Len(N) = 6 /\ DOMAIN N = 1 .. 6 /\ \A i \in 1 .. 4 : N[i] = Must("bind", Binds[i])
      /\ \A i \in 1 .. 2 : N[4 + i] = t[i]
  <2>1. /\ Len(N) = 4 + 2 /\ DOMAIN N = 1 .. 4 + 2
        /\ \A i \in 1 .. 4 : N[i] = Must("bind", Binds[i])
        /\ \A i \in 1 .. 2 : N[4 + i] = t[i]
    BY <1>2, <1>3, BindsFirst
  <2> QED
    BY <2>1
<1>5. /\ Len(P) = 7 /\ DOMAIN P = 1 .. 7 /\ \A i \in 1 .. 4 : P[i] = Must("bind", Binds[i])
      /\ \A i \in 1 .. 3 : P[4 + i] = u[i]
  <2>1. /\ Len(P) = 4 + 3 /\ DOMAIN P = 1 .. 4 + 3
        /\ \A i \in 1 .. 4 : P[i] = Must("bind", Binds[i])
        /\ \A i \in 1 .. 3 : P[4 + i] = u[i]
    BY <1>2, <1>3, BindsFirst
  <2> QED
    BY <2>1
<1>6. N[5] = t[1] /\ N[6] = t[2] /\ P[5] = u[1] /\ P[6] = u[2] /\ P[7] = u[3]
  <2>1. N[4 + 1] = t[1] /\ N[4 + 2] = t[2] /\ P[4 + 1] = u[1] /\ P[4 + 2] = u[2] /\ P[4 + 3] = u[3]
    BY <1>4, <1>5
  <2> QED
    BY <2>1
<1>7. Chroots = {N, P}
  BY DEF Chroots, N, P
<1>10. Len(N) = 6 /\ DOMAIN N = 1 .. 6 /\ Len(P) = 7 /\ DOMAIN P = 1 .. 7
  BY <1>4, <1>5
<1>8. /\ Len(N) \in 6 .. 7 /\ DOMAIN N = 1 .. Len(N)
      /\ Len(P) \in 6 .. 7 /\ DOMAIN P = 1 .. Len(P)
  BY ONLY <1>10
<1>11. N[5] = Must("unbind_later", "stage") /\ P[5] = Must("unbind_later", "stage")
  BY ONLY <1>1, <1>6
<1>9. Len(N) = 6 /\ N[6] = Try("chroot", "purge")
      /\ Len(P) = 7 /\ P[6] = Must("find", "packages") /\ P[7] = Try("chroot", "install")
  BY <1>1, <1>4, <1>5, <1>6
<1> QED
  BY <1>4, <1>5, <1>7, <1>8, <1>9, <1>11 DEF N, P

LEMMA LeavesAre ==
  /\ Len(Windows) = 8 /\ DOMAIN Windows = 1 .. 8
  /\ Windows[1] = Try("release", "target") /\ Windows[2] = Must("mkfs", "ntfs")
  /\ Windows[3] = Must("mkdir", "iso") /\ Windows[4] = Must("mount", "iso")
  /\ Windows[5] = Must("find", "wim") /\ Windows[6] = Must("unpack", "wim")
  /\ Windows[7] = Try("mkdir", "target") /\ Windows[8] = Try("mount", "target")
  /\ Len(Tarball) = 5 /\ DOMAIN Tarball = 1 .. 5
  /\ Tarball[1] = Must("mkfs", "ext4") /\ Tarball[2] = Must("mkdir", "target")
  /\ Tarball[3] = Must("mount", "target") /\ Tarball[4] = Must("unpack", "tar")
  /\ Tarball[5] = Must("find", "root")
  /\ Len(ApplyWim) = 5 /\ DOMAIN ApplyWim = 1 .. 5
  /\ ApplyWim[1] = Must("mkfs", "ntfs") /\ ApplyWim[2] = Must("mkdir", "target")
  /\ ApplyWim[3] = Must("mount", "target") /\ ApplyWim[4] = Must("unpack", "wim")
  /\ ApplyWim[5] = Must("find", "answer")
  /\ Len(IsWindowsISO) = 3 /\ DOMAIN IsWindowsISO = 1 .. 3
  /\ IsWindowsISO[1] = Must("mkdir", "probe") /\ IsWindowsISO[2] = Must("mount", "probe")
  /\ IsWindowsISO[3] = Must("find", "wim")
  /\ Len(ConfigureLinux) = 6 /\ DOMAIN ConfigureLinux = 1 .. 6
  /\ ConfigureLinux[1] = Must("mkdir", "stage") /\ ConfigureLinux[2] = Try("heal", "ext4")
  /\ ConfigureLinux[3] = Must("mount", "stage") /\ ConfigureLinux[4] = Try("call", "neutralize")
  /\ ConfigureLinux[5] = Try("call", "packages") /\ ConfigureLinux[6] = Try("write", "custom")
BY DEF Windows, Tarball, ApplyWim, IsWindowsISO, ConfigureLinux

LEMMA RootsAre ==
  /\ DOMAIN ApplyDeploy = {"linux", "windows", "raw", "qcow2", "tarball", "wim"}
  /\ ApplyDeploy["linux"] = <<Try("call", "squashfs"), Must("else_dd", "iso")>>
  /\ ApplyDeploy["windows"] = <<Must("call", "windows")>>
  /\ ApplyDeploy["raw"] = <<Must("dd", "other")>>
  /\ ApplyDeploy["qcow2"] = <<Must("convert", "raw"), Must("dd", "other")>>
  /\ ApplyDeploy["tarball"] = <<Must("call", "tarball")>> /\ ApplyDeploy["wim"] = <<Must("call", "wim")>>
  /\ AutoConfigureDualBoot["linux"] = <<Must("call", "configure_linux"), Must("update", "menu")>>
  /\ AutoConfigureDualBoot["other"] = <<Try("write", "custom"), Must("update", "menu")>>
BY DEF ApplyDeploy, AutoConfigureDualBoot

\* Every script is one of these.
LEMMA AllScripts ==
  ASSUME NEW s \in Scripts
  PROVE  \/ s = IsWindowsISO \/ s = ConfigureLinux \/ s = Squashfs \/ s = SquashfsCopied
         \/ s = Windows \/ s = Tarball \/ s = ApplyWim \/ s \in Chroots
         \/ s = ApplyDeploy["linux"] \/ s = ApplyDeploy["windows"] \/ s = ApplyDeploy["raw"]
         \/ s = ApplyDeploy["qcow2"] \/ s = ApplyDeploy["tarball"] \/ s = ApplyDeploy["wim"]
         \/ s = AutoConfigureDualBoot["linux"] \/ s = AutoConfigureDualBoot["other"]
BY RootsAre DEF Scripts, Roots, Deploys, Configures, Leaves, Squashed

\* Where the instructions are that change something.
Placed(s, m) ==
  /\ s[m].do \in {"mkdir", "mount"} => s[m].on \in Dirs
  /\ s[m].do = "bind" => s \in Chroots /\ m \in 1 .. 4 /\ s[m].on \in BindPoints
  /\ s[m].do = "unbind_later" => s \in Chroots
  /\ s[m].do = "mkfs" => s \in Leaves /\ s[m].on \in {"ext4", "ntfs"} /\ m \in 1 .. 2
  /\ s[m].do = "unpack" => s \in Leaves
  /\ s[m].do = "dd" => s \in {ApplyDeploy["raw"], ApplyDeploy["qcow2"]}
  /\ s[m].do = "else_dd" => s = ApplyDeploy["linux"]
  /\ s[m].do = "convert" => s = ApplyDeploy["qcow2"]
  /\ s[m].do = "heal" => s = ConfigureLinux
  /\ s[m].do = "write" => s = ConfigureLinux \/ m = 1
  /\ s[m].do = "update" => s \in Configures /\ m = 2

\* Where another function is called.
Calling(s, m) ==
  /\ \/ s \in {ApplyDeploy["linux"], ApplyDeploy["windows"], ApplyDeploy["tarball"], ApplyDeploy["wim"],
               AutoConfigureDualBoot["linux"]}
     \/ s = ConfigureLinux /\ m \in 4 .. 5
  /\ \A t \in Functions(s[m].on) : Nested(s, t)
  /\ Functions(s[m].on) \subseteq Scripts

LEMMA ScriptsArePlaced ==
  ASSUME NEW s \in Scripts
  PROVE  /\ Len(s) \in Nat \ {0} /\ DOMAIN s = 1 .. Len(s)
         /\ \A m \in 1 .. Len(s) : Placed(s, m)
<1> USE DEF Must, Try
<1>1. CASE s = IsWindowsISO
  <2>1. /\ Len(s) = 3 /\ DOMAIN s = 1 .. 3 /\ s[1].do = "mkdir" /\ s[2].do = "mount"
        /\ s[1].on = "probe" /\ s[2].on = "probe" /\ s[3].do = "find"
    BY <1>1, LeavesAre
  <2> QED
    BY <2>1 DEF Placed, Dirs
<1>2. CASE s = ConfigureLinux
  <2>1. /\ Len(s) = 6 /\ DOMAIN s = 1 .. 6 /\ s[1].do = "mkdir" /\ s[2].do = "heal"
        /\ s[3].do = "mount" /\ s[4].do = "call" /\ s[5].do = "call" /\ s[6].do = "write"
        /\ s[1].on = "stage" /\ s[3].on = "stage"
    BY <1>2, LeavesAre
  <2> QED
    BY <1>2, <2>1 DEF Placed, Dirs
<1>3. CASE s = Squashfs
  <2>1. s \in Leaves /\ Len(s) = 8 /\ DOMAIN s = 1 .. 8
    BY <1>3, SquashfsIs DEF Leaves, Squashed
  <2>2. /\ s[1].do = "release" /\ s[2].do = "mkfs" /\ s[2].on = "ext4"
        /\ s[3].do = "mkdir" /\ s[3].on = "target" /\ s[4].do = "mount" /\ s[4].on = "target"
        /\ s[5].do = "mkdir" /\ s[5].on = "iso" /\ s[6].do = "mount" /\ s[6].on = "iso"
        /\ s[7].do = "find" /\ s[8].do = "unpack"
    BY <1>3, SquashfsIs
  <2> QED
    BY <2>1, <2>2 DEF Placed, Dirs
<1>4. CASE s = SquashfsCopied
  <2>1. s \in Leaves /\ Len(s) = 10 /\ DOMAIN s = 1 .. 10
    BY <1>4, SquashfsCopiedIs DEF Leaves, Squashed
  <2>2. \A i \in 1 .. 7 : s[i] = Squashfs[i]
    BY <1>4, SquashfsCopiedIs
  <2>3. /\ s[1].do = "release" /\ s[2].do = "mkfs" /\ s[2].on = "ext4"
        /\ s[3].do = "mkdir" /\ s[3].on = "target" /\ s[4].do = "mount" /\ s[4].on = "target"
        /\ s[5].do = "mkdir" /\ s[5].on = "iso" /\ s[6].do = "mount" /\ s[6].on = "iso"
        /\ s[7].do = "find"
    BY <2>2, SquashfsIs
  <2>4. /\ s[8].do = "mkdir" /\ s[8].on = "squash" /\ s[9].do = "mount" /\ s[9].on = "squash"
        /\ s[10].do = "unpack"
    BY <1>4, SquashfsCopiedIs
  <2> QED
    BY <2>1, <2>3, <2>4 DEF Placed, Dirs
<1>5. CASE s = Windows
  <2>1. s \in Leaves /\ Len(s) = 8 /\ DOMAIN s = 1 .. 8
    BY <1>5, LeavesAre DEF Leaves
  <2>2. /\ s[1].do = "release" /\ s[2].do = "mkfs" /\ s[2].on = "ntfs"
        /\ s[3].do = "mkdir" /\ s[3].on = "iso" /\ s[4].do = "mount" /\ s[4].on = "iso"
        /\ s[5].do = "find" /\ s[6].do = "unpack" /\ s[7].do = "mkdir" /\ s[7].on = "target"
        /\ s[8].do = "mount" /\ s[8].on = "target"
    BY <1>5, LeavesAre
  <2> QED
    BY <2>1, <2>2 DEF Placed, Dirs
<1>6. CASE s \in {Tarball, ApplyWim}
  <2>1. s \in Leaves /\ Len(s) = 5 /\ DOMAIN s = 1 .. 5
    BY <1>6, LeavesAre DEF Leaves
  <2>2. /\ s[1].do = "mkfs" /\ s[1].on \in {"ext4", "ntfs"} /\ s[2].do = "mkdir" /\ s[2].on = "target"
        /\ s[3].do = "mount" /\ s[3].on = "target" /\ s[4].do = "unpack" /\ s[5].do = "find"
    BY <1>6, LeavesAre
  <2> QED
    BY <2>1, <2>2 DEF Placed, Dirs
<1>7. CASE s \in Chroots
  <2>1. \A i \in 1 .. 4 : Binds[i] \in BindPoints
    BY DEF Binds, BindPoints
  <2>2. \A i \in 1 .. 4 : s[i].do = "bind" /\ s[i].on \in BindPoints
    BY <1>7, <2>1, ChrootsAre
  <2>3. /\ s[5].do = "unbind_later" /\ DOMAIN s = 1 .. Len(s) /\ Len(s) \in 6 .. 7
        /\ s[6].do \in {"chroot", "find"} /\ (Len(s) = 7 => s[7].do = "chroot")
    BY <1>7, ChrootsAre DEF Chroots
  <2>4. \A m \in 1 .. Len(s) : m \in 1 .. 4 \/ m = 5 \/ m = 6 \/ (m = 7 /\ Len(s) = 7)
    BY <2>3
  <2> QED
    BY <1>7, <2>2, <2>3, <2>4 DEF Placed, Dirs
<1>8. CASE s \in {ApplyDeploy["windows"], ApplyDeploy["tarball"], ApplyDeploy["wim"]}
  <2>1. Len(s) = 1 /\ DOMAIN s = 1 .. 1 /\ s[1].do = "call"
    BY <1>8, RootsAre
  <2> QED
    BY <2>1 DEF Placed
<1>9. CASE s = ApplyDeploy["linux"]
  <2>1. Len(s) = 2 /\ DOMAIN s = 1 .. 2 /\ s[1].do = "call" /\ s[2].do = "else_dd"
    BY <1>9, RootsAre
  <2> QED
    BY <1>9, <2>1 DEF Placed
<1>10. CASE s = ApplyDeploy["raw"]
  <2>1. Len(s) = 1 /\ DOMAIN s = 1 .. 1 /\ s[1].do = "dd"
    BY <1>10, RootsAre
  <2> QED
    BY <1>10, <2>1 DEF Placed
<1>11. CASE s = ApplyDeploy["qcow2"]
  <2>1. Len(s) = 2 /\ DOMAIN s = 1 .. 2 /\ s[1].do = "convert" /\ s[2].do = "dd"
    BY <1>11, RootsAre
  <2> QED
    BY <1>11, <2>1 DEF Placed
<1>12. CASE s = AutoConfigureDualBoot["linux"]
  <2>1. Len(s) = 2 /\ DOMAIN s = 1 .. 2 /\ s[1].do = "call" /\ s[2].do = "update"
    BY <1>12, RootsAre
  <2> QED
    BY <1>12, <2>1 DEF Placed, Configures
<1>13. CASE s = AutoConfigureDualBoot["other"]
  <2>1. Len(s) = 2 /\ DOMAIN s = 1 .. 2 /\ s[1].do = "write" /\ s[2].do = "update"
    BY <1>13, RootsAre
  <2> QED
    BY <1>13, <2>1 DEF Placed, Configures
<1> QED
  BY <1>1, <1>2, <1>3, <1>4, <1>5, <1>6, <1>7, <1>8, <1>9, <1>10, <1>11, <1>12, <1>13, AllScripts

\* None of these calls another one.
LEMMA Uncalling ==
  ASSUME NEW s \in Leaves \union Chroots \union {IsWindowsISO}, NEW m \in 1 .. Len(s)
  PROVE  s[m].do # "call"
<1> USE DEF Must, Try
<1>1. CASE s = Squashfs
  <2>1. /\ Len(s) = 8 /\ s[1].do # "call" /\ s[2].do # "call" /\ s[3].do # "call"
        /\ s[4].do # "call" /\ s[5].do # "call" /\ s[6].do # "call" /\ s[7].do # "call"
        /\ s[8].do # "call"
    BY <1>1, SquashfsIs
  <2> QED
    BY <2>1
<1>2. CASE s = SquashfsCopied
  <2>1. Len(s) = 10 /\ s[8].do # "call" /\ s[9].do # "call" /\ s[10].do # "call"
    BY <1>2, SquashfsCopiedIs
  <2>2. /\ s[1].do # "call" /\ s[2].do # "call" /\ s[3].do # "call" /\ s[4].do # "call"
        /\ s[5].do # "call" /\ s[6].do # "call" /\ s[7].do # "call"
    BY <1>2, SquashfsIs, SquashfsCopiedIs
  <2> QED
    BY <2>1, <2>2
<1>3. CASE s = Windows
  <2>1. /\ Len(s) = 8 /\ s[1].do # "call" /\ s[2].do # "call" /\ s[3].do # "call"
        /\ s[4].do # "call" /\ s[5].do # "call" /\ s[6].do # "call" /\ s[7].do # "call"
        /\ s[8].do # "call"
    BY <1>3, LeavesAre
  <2> QED
    BY <2>1
<1>5. CASE s \in {Tarball, ApplyWim}
  <2>1. /\ Len(s) = 5 /\ s[1].do # "call" /\ s[2].do # "call" /\ s[3].do # "call"
        /\ s[4].do # "call" /\ s[5].do # "call"
    BY <1>5, LeavesAre
  <2> QED
    BY <2>1
<1>6. CASE s = IsWindowsISO
  <2>1. Len(s) = 3 /\ s[1].do # "call" /\ s[2].do # "call" /\ s[3].do # "call"
    BY <1>6, LeavesAre
  <2> QED
    BY <2>1
<1>4. CASE s \in Chroots
  <2>1. (\A i \in 1 .. 4 : s[i].do # "call") /\ s[5].do # "call"
    BY <1>4, ChrootsAre
  <2>2. s[1].do # "call" /\ s[2].do # "call" /\ s[3].do # "call" /\ s[4].do # "call"
    BY <2>1
  <2>3. CASE s = NeutralizeLiveBootHooks
    <3>1. Len(s) = 6 /\ s[6].do # "call"
      BY <2>3, ChrootsAre
    <3> QED
      BY <2>1, <2>2, <3>1
  <2>4. CASE s = AssertBootableKernelAndPackages
    <3>1. Len(s) = 7 /\ s[6].do # "call" /\ s[7].do # "call"
      BY <2>4, ChrootsAre
    <3> QED
      BY <2>1, <2>2, <3>1
  <2> QED
    BY <1>4, <2>3, <2>4 DEF Chroots
<1> QED
  BY <1>1, <1>2, <1>3, <1>4, <1>5, <1>6 DEF Leaves, Squashed

LEMMA CallsAreNested ==
  ASSUME NEW s \in Scripts, NEW m \in 1 .. Len(s), s[m].do = "call"
  PROVE  Calling(s, m)
<1> USE DEF Must, Try
<1>1. CASE s = ApplyDeploy["linux"]
  <2>1. m = 1 /\ s[1].on = "squashfs"
    BY <1>1, RootsAre
  <2>2. Functions("squashfs") = Squashed
    BY DEF Functions, Squashed
  <2> QED
    BY <1>1, <2>1, <2>2 DEF Calling, Nested, Scripts, Leaves
<1>2. CASE s = ApplyDeploy["windows"]
  <2>1. m = 1 /\ s[1].on = "windows"
    BY <1>2, RootsAre
  <2>2. Functions("windows") = {Windows}
    BY DEF Functions
  <2> QED
    BY <1>2, <2>1, <2>2 DEF Calling, Nested, Scripts, Leaves
<1>3. CASE s = ApplyDeploy["tarball"]
  <2>1. m = 1 /\ s[1].on = "tarball"
    BY <1>3, RootsAre
  <2>2. Functions("tarball") = {Tarball}
    BY DEF Functions
  <2> QED
    BY <1>3, <2>1, <2>2 DEF Calling, Nested, Scripts, Leaves
<1>9. CASE s = ApplyDeploy["wim"]
  <2>1. m = 1 /\ s[1].on = "wim"
    BY <1>9, RootsAre
  <2>2. Functions("wim") = {ApplyWim}
    BY DEF Functions
  <2> QED
    BY <1>9, <2>1, <2>2 DEF Calling, Nested, Scripts, Leaves
<1>4. CASE s = AutoConfigureDualBoot["linux"]
  <2>1. m = 1 /\ s[1].on = "configure_linux"
    BY <1>4, RootsAre
  <2>2. Functions("configure_linux") = {ConfigureLinux}
    BY DEF Functions
  <2> QED
    BY <1>4, <2>1, <2>2 DEF Calling, Nested, Scripts
<1>5. CASE s = ConfigureLinux
  <2>1. m \in 4 .. 5 /\ s[m].on \in {"neutralize", "packages"}
    BY <1>5, LeavesAre
  <2>2. Functions("neutralize") = {NeutralizeLiveBootHooks}
        /\ Functions("packages") = {AssertBootableKernelAndPackages}
    BY DEF Functions
  <2>3. Functions(s[m].on) \subseteq Chroots
    BY <2>1, <2>2 DEF Chroots
  <2> QED
    BY <1>5, <2>1, <2>3 DEF Calling, Nested, Scripts
<1>6. CASE s \in {Squashfs, SquashfsCopied, Windows, Tarball, ApplyWim, IsWindowsISO} \union Chroots
  BY <1>6, Uncalling DEF Leaves, Squashed
<1>7. CASE s \in {ApplyDeploy["raw"], ApplyDeploy["qcow2"], AutoConfigureDualBoot["other"]}
  <2>1. /\ Len(ApplyDeploy["raw"]) = 1 /\ ApplyDeploy["raw"][1].do = "dd"
        /\ Len(ApplyDeploy["qcow2"]) = 2 /\ ApplyDeploy["qcow2"][1].do = "convert"
        /\ ApplyDeploy["qcow2"][2].do = "dd"
    BY RootsAre
  <2>2. /\ Len(AutoConfigureDualBoot["other"]) = 2 /\ AutoConfigureDualBoot["other"][1].do = "write"
        /\ AutoConfigureDualBoot["other"][2].do = "update"
    BY RootsAre
  <2> QED
    BY <1>7, <2>1, <2>2
<1>8. \/ s = ApplyDeploy["linux"] \/ s = ApplyDeploy["windows"] \/ s = ApplyDeploy["tarball"]
      \/ s = ApplyDeploy["wim"]
      \/ s = AutoConfigureDualBoot["linux"] \/ s = ConfigureLinux
      \/ s \in {Squashfs, SquashfsCopied, Windows, Tarball, ApplyWim, IsWindowsISO} \union Chroots
      \/ s \in {ApplyDeploy["raw"], ApplyDeploy["qcow2"], AutoConfigureDualBoot["other"]}
  BY AllScripts
<1> QED
  BY ONLY <1>1, <1>2, <1>3, <1>4, <1>5, <1>6, <1>7, <1>8, <1>9

\* These mount nothing.
LEMMA Silent ==
  ASSUME NEW s \in Deploys \union Configures \union Chroots, NEW m \in 1 .. Len(s)
  PROVE  s[m].do \notin {"mkdir", "mount"}
<1> USE DEF Must, Try
<1>1. CASE s \in Deploys
  <2>1. s \in {ApplyDeploy["linux"], ApplyDeploy["windows"], ApplyDeploy["raw"],
               ApplyDeploy["qcow2"], ApplyDeploy["tarball"], ApplyDeploy["wim"]}
    BY <1>1, RootsAre DEF Deploys
  <2>2. /\ Len(s) = 1 \/ Len(s) = 2
        /\ s[1].do \notin {"mkdir", "mount"} /\ (Len(s) = 2 => s[2].do \notin {"mkdir", "mount"})
    BY <2>1, RootsAre
  <2> QED
    BY <2>2
<1>2. CASE s \in Configures
  <2>1. /\ Len(s) = 2 /\ s[1].do \notin {"mkdir", "mount"} /\ s[2].do \notin {"mkdir", "mount"}
    BY <1>2, RootsAre DEF Configures
  <2> QED
    BY <2>1
<1>3. CASE s \in Chroots
  <2>1. (\A i \in 1 .. 4 : s[i].do = "bind") /\ s[5].do = "unbind_later"
    BY <1>3, ChrootsAre
  <2>2. s[1].do = "bind" /\ s[2].do = "bind" /\ s[3].do = "bind" /\ s[4].do = "bind"
    BY <2>1
  <2>3. CASE s = NeutralizeLiveBootHooks
    <3>1. Len(s) = 6 /\ s[6].do = "chroot"
      BY <2>3, ChrootsAre
    <3> QED
      BY <2>1, <2>2, <3>1
  <2>4. CASE s = AssertBootableKernelAndPackages
    <3>1. Len(s) = 7 /\ s[6].do = "find" /\ s[7].do = "chroot"
      BY <2>4, ChrootsAre
    <3> QED
      BY <2>1, <2>2, <3>1
  <2> QED
    BY <1>3, <2>3, <2>4 DEF Chroots
<1> QED
  BY <1>1, <1>2, <1>3


\* A script mounts on a directory once, after making it.
LEMMA Once ==
  ASSUME NEW s \in Scripts, NEW m \in 1 .. Len(s), NEW n \in 1 .. Len(s),
         s[m].do = "mount", s[n].on = s[m].on, s[n].do \in {"mkdir", "mount"}
  PROVE  (s[n].do = "mount" => n = m) /\ (s[n].do = "mkdir" => n < m)
<1> USE DEF Must, Try
<1>1. CASE s = IsWindowsISO
  <2>1. /\ Len(s) = 3 /\ s[1].do = "mkdir" /\ s[1].on = "probe" /\ s[2].do = "mount"
        /\ s[2].on = "probe" /\ s[3].do = "find"
    BY <1>1, LeavesAre
  <2> QED
    BY <2>1
<1>2. CASE s = ConfigureLinux
  <2>1. /\ Len(s) = 6 /\ s[1].do = "mkdir" /\ s[1].on = "stage" /\ s[2].do = "heal"
        /\ s[3].do = "mount" /\ s[3].on = "stage" /\ s[4].do = "call"
        /\ s[5].do = "call" /\ s[6].do = "write"
    BY <1>2, LeavesAre
  <2> QED
    BY <2>1
<1>3. CASE s = Squashfs
  <2>1. /\ Len(s) = 8 /\ s[1].do = "release" /\ s[2].do = "mkfs" /\ s[3].do = "mkdir"
        /\ s[3].on = "target" /\ s[4].do = "mount" /\ s[4].on = "target"
        /\ s[5].do = "mkdir" /\ s[5].on = "iso" /\ s[6].do = "mount" /\ s[6].on = "iso"
        /\ s[7].do = "find" /\ s[8].do = "unpack"
    BY <1>3, SquashfsIs
  <2> QED
    BY <2>1
<1>4. CASE s = SquashfsCopied
  <2>1. /\ Len(s) = 10 /\ s[1].do = "release" /\ s[2].do = "mkfs" /\ s[3].do = "mkdir"
        /\ s[3].on = "target" /\ s[4].do = "mount" /\ s[4].on = "target"
        /\ s[5].do = "mkdir" /\ s[5].on = "iso" /\ s[6].do = "mount" /\ s[6].on = "iso"
        /\ s[7].do = "find" /\ s[8].do = "mkdir" /\ s[8].on = "squash"
        /\ s[9].do = "mount" /\ s[9].on = "squash" /\ s[10].do = "unpack"
    BY <1>4, SquashfsIs, SquashfsCopiedIs
  <2> QED
    BY <2>1
<1>5. CASE s = Windows
  <2>1. /\ Len(s) = 8 /\ s[1].do = "release" /\ s[2].do = "mkfs" /\ s[3].do = "mkdir"
        /\ s[3].on = "iso" /\ s[4].do = "mount" /\ s[4].on = "iso" /\ s[5].do = "find"
        /\ s[6].do = "unpack" /\ s[7].do = "mkdir" /\ s[7].on = "target"
        /\ s[8].do = "mount" /\ s[8].on = "target"
    BY <1>5, LeavesAre
  <2> QED
    BY <2>1
<1>6. CASE s \in {Tarball, ApplyWim}
  <2>1. /\ Len(s) = 5 /\ s[1].do = "mkfs" /\ s[2].do = "mkdir" /\ s[2].on = "target"
        /\ s[3].do = "mount" /\ s[3].on = "target" /\ s[4].do = "unpack"
        /\ s[5].do = "find"
    BY <1>6, LeavesAre
  <2> QED
    BY <2>1
<1>7. CASE s \in Deploys \union Configures \union Chroots
  BY <1>7, Silent
<1> QED
  BY <1>1, <1>2, <1>3, <1>4, <1>5, <1>6, <1>7, AllScripts, RootsAre DEF Deploys, Configures

\* How a script begins tells its family.
LEMMA Firsts ==
  /\ \A s \in Leaves : s[1].do \in {"release", "mkfs"}
  /\ ConfigureLinux[1].do = "mkdir" /\ ConfigureLinux[1].on = "stage"
  /\ \A s \in Chroots : s[1].do = "bind"
  /\ IsWindowsISO[1].do = "mkdir" /\ IsWindowsISO[1].on = "probe"
  /\ \A s \in Deploys : \/ s[1].do \in {"dd", "convert"}
                        \/ s[1].do = "call" /\ s[1].on \in {"squashfs", "windows", "tarball", "wim"}
  /\ \A s \in Configures : s[1].do = "write" \/ (s[1].do = "call" /\ s[1].on = "configure_linux")
<1> USE DEF Must, Try
<1>1. /\ Squashfs[1].do = "release" /\ Windows[1].do = "release" /\ Tarball[1].do = "mkfs" /\ ApplyWim[1].do = "mkfs"
      /\ SquashfsCopied[1].do = "release"
  BY SquashfsIs, SquashfsCopiedIs, LeavesAre
<1>2. \A s \in Leaves : s[1].do \in {"release", "mkfs"}
  BY <1>1 DEF Leaves, Squashed
<1>3. \A s \in Chroots : s[1].do = "bind"
  BY ChrootsAre
<1>4. \A s \in Deploys : \/ s[1].do \in {"dd", "convert"}
                         \/ s[1].do = "call" /\ s[1].on \in {"squashfs", "windows", "tarball", "wim"}
  <2> SUFFICES ASSUME NEW s \in Deploys
               PROVE  \/ s[1].do \in {"dd", "convert"}
                      \/ s[1].do = "call" /\ s[1].on \in {"squashfs", "windows", "tarball", "wim"}
    OBVIOUS
  <2>1. s \in {ApplyDeploy["linux"], ApplyDeploy["windows"], ApplyDeploy["raw"],
               ApplyDeploy["qcow2"], ApplyDeploy["tarball"], ApplyDeploy["wim"]}
    BY RootsAre DEF Deploys
  <2> QED
    BY <2>1, RootsAre
<1>5. \A s \in Configures : s[1].do = "write" \/ (s[1].do = "call" /\ s[1].on = "configure_linux")
  BY RootsAre DEF Configures
<1> QED
  BY <1>2, <1>3, <1>4, <1>5, LeavesAre

LEMMA Apart ==
  /\ Deploys \cap Configures = {} /\ Deploys \cap Leaves = {} /\ Deploys \cap Chroots = {}
  /\ Configures \cap Leaves = {} /\ Configures \cap Chroots = {} /\ Leaves \cap Chroots = {}
  /\ IsWindowsISO \notin Deploys \union Configures \union Leaves \union Chroots \union {ConfigureLinux}
  /\ ConfigureLinux \notin Deploys \union Configures \union Leaves \union Chroots
BY Firsts

LEMMA LeavesApart ==
  /\ Squashfs # SquashfsCopied /\ Windows \notin Squashed /\ Tarball \notin Squashed \union {Windows}
  /\ ApplyWim \notin Squashed \union {Windows}
<1>1. Len(Squashfs) # Len(SquashfsCopied)
  BY SquashfsIs, SquashfsCopiedIs
<1>2. SquashfsCopied[2].on = "ext4" /\ Squashfs[2].on = "ext4" /\ Windows[2].on = "ntfs"
  BY SquashfsIs, SquashfsCopiedIs, LeavesAre DEF Must, Try
<1>3. Tarball[1].do = "mkfs" /\ ApplyWim[1].do = "mkfs" /\ Windows[1].do = "release" /\ Squashfs[1].do = "release"
      /\ SquashfsCopied[1].do = "release"
  BY SquashfsIs, SquashfsCopiedIs, LeavesAre DEF Must, Try
<1> QED
  BY <1>1, <1>2, <1>3 DEF Squashed

\* Who calls whom, by families.
LEMMA Families ==
  ASSUME NEW o \in Scripts, NEW i \in Scripts, Nested(o, i)
  PROVE  /\ i \in Leaves \union {ConfigureLinux} \union Chroots
         /\ o \in Deploys \union Configures \union {ConfigureLinux}
         /\ o \in Deploys => i \in Leaves
         /\ o \in Configures => i = ConfigureLinux
         /\ i \in Chroots <=> o = ConfigureLinux
<1>1. /\ ApplyDeploy["linux"] \in Deploys /\ ApplyDeploy["windows"] \in Deploys
      /\ ApplyDeploy["wim"] \in Deploys /\ ApplyDeploy["tarball"] \in Deploys /\ AutoConfigureDualBoot["linux"] \in Configures
  BY RootsAre DEF Deploys, Configures
<1>2. /\ Squashed \subseteq Leaves /\ Windows \in Leaves /\ {Tarball, ApplyWim} \subseteq Leaves
  BY DEF Leaves
<1> QED
  BY <1>1, <1>2, Apart DEF Nested

\* What is made and filled where.
LEMMA Reaching ==
  ASSUME NEW s \in Scripts, NEW m \in 1 .. Len(s)
  PROVE  /\ Formatted(s, m + 1) => Formatted(s, m) \/ s[m].do = "mkfs"
         /\ Filled(s, m + 1) => Filled(s, m) \/ s[m].do = "unpack"
         /\ Filled(s, m) => s[m].do \notin {"mkfs", "unpack"}
         /\ s[m].do \in {"mkfs", "unpack"} => s[m].error = "return"
<1> USE DEF Must, Try
<1>1. CASE s = Squashfs
  <2>1. /\ Len(s) = 8 /\ s[2].do = "mkfs" /\ s[2].error = "return"
        /\ s[8].do = "unpack" /\ s[8].error = "return"
        /\ s[1].do = "release" /\ s[3].do = "mkdir" /\ s[4].do = "mount" /\ s[5].do = "mkdir"
        /\ s[6].do = "mount" /\ s[7].do = "find"
    BY <1>1, SquashfsIs
  <2>2. \A n \in Nat : (Formatted(s, n) <=> n > 2) /\ (Filled(s, n) <=> n > 8)
    BY <1>1, LeavesApart DEF Formatted, Filled, Squashed
  <2> QED
    BY <2>1, <2>2
<1>2. CASE s = SquashfsCopied
  <2>1. /\ Len(s) = 10 /\ s[2].do = "mkfs" /\ s[2].error = "return"
        /\ s[10].do = "unpack" /\ s[10].error = "return"
        /\ s[1].do = "release" /\ s[3].do = "mkdir" /\ s[4].do = "mount" /\ s[5].do = "mkdir"
        /\ s[6].do = "mount" /\ s[7].do = "find" /\ s[8].do = "mkdir" /\ s[9].do = "mount"
    BY <1>2, SquashfsIs, SquashfsCopiedIs
  <2>2. \A n \in Nat : (Formatted(s, n) <=> n > 2) /\ (Filled(s, n) <=> n > 10)
    BY <1>2, LeavesApart DEF Formatted, Filled, Squashed
  <2> QED
    BY <2>1, <2>2
<1>3. CASE s = Windows
  <2>1. /\ Len(s) = 8 /\ s[2].do = "mkfs" /\ s[2].error = "return"
        /\ s[6].do = "unpack" /\ s[6].error = "return"
        /\ s[1].do = "release" /\ s[3].do = "mkdir" /\ s[4].do = "mount" /\ s[5].do = "find"
        /\ s[7].do = "mkdir" /\ s[8].do = "mount"
    BY <1>3, LeavesAre
  <2>2. \A n \in Nat : (Formatted(s, n) <=> n > 2) /\ (Filled(s, n) <=> n > 6)
    BY <1>3, LeavesApart DEF Formatted, Filled, Squashed
  <2> QED
    BY <2>1, <2>2
<1>4. CASE s \in {Tarball, ApplyWim}
  <2>1. /\ Len(s) = 5 /\ s[1].do = "mkfs" /\ s[1].error = "return"
        /\ s[4].do = "unpack" /\ s[4].error = "return"
        /\ s[2].do = "mkdir" /\ s[3].do = "mount" /\ s[5].do = "find"
    BY <1>4, LeavesAre
  <2>2. \A n \in Nat : (Formatted(s, n) <=> n > 1) /\ (Filled(s, n) <=> n > 4)
    BY <1>4, LeavesApart DEF Formatted, Filled, Squashed
  <2> QED
    BY <2>1, <2>2
<1>5. CASE s \notin Leaves
  <2>1. ~ Formatted(s, m) /\ ~ Formatted(s, m + 1) /\ ~ Filled(s, m) /\ ~ Filled(s, m + 1)
    BY <1>5 DEF Formatted, Filled, Leaves, Squashed
  <2>2. s[m].do \notin {"mkfs", "unpack"}
    BY <1>5, ScriptsArePlaced DEF Placed
  <2> QED
    BY <2>1, <2>2
<1> QED
  BY <1>1, <1>2, <1>3, <1>4, <1>5 DEF Leaves, Squashed

LEMMA Finished ==
  ASSUME NEW s \in Leaves, NEW m \in Nat, m > Len(s)
  PROVE  Formatted(s, m) /\ Filled(s, m)
<1>1. CASE s = Squashfs
  BY <1>1, SquashfsIs DEF Formatted, Filled, Squashed
<1>2. CASE s = SquashfsCopied
  <2>1. m > 10
    BY <1>2, SquashfsCopiedIs
  <2> QED
    BY <1>2, <2>1 DEF Formatted, Filled, Squashed
<1>3. CASE s = Windows
  BY <1>3, LeavesAre DEF Formatted, Filled, Squashed
<1>4. CASE s \in {Tarball, ApplyWim}
  <2>1. m > 5
    BY <1>4, LeavesAre
  <2> QED
    BY <1>4, <2>1 DEF Formatted, Filled
<1> QED
  BY <1>1, <1>2, <1>3, <1>4 DEF Leaves, Squashed

\* The last instruction of each of these, and whether its error is returned.
LEMMA RootLengths ==
  /\ Len(ApplyDeploy["linux"]) = 2 /\ ApplyDeploy["linux"][2] = Must("else_dd", "iso")
  /\ Len(ApplyDeploy["windows"]) = 1 /\ ApplyDeploy["windows"][1] = Must("call", "windows")
  /\ Len(ApplyDeploy["tarball"]) = 1 /\ ApplyDeploy["tarball"][1] = Must("call", "tarball")
  /\ Len(ApplyDeploy["wim"]) = 1 /\ ApplyDeploy["wim"][1] = Must("call", "wim")
  /\ Len(ApplyDeploy["raw"]) = 1 /\ ApplyDeploy["raw"][1] = Must("dd", "other")
  /\ Len(ApplyDeploy["qcow2"]) = 2 /\ ApplyDeploy["qcow2"][1] = Must("convert", "raw")
  /\ ApplyDeploy["qcow2"][2] = Must("dd", "other") /\ ApplyDeploy["linux"][1] = Try("call", "squashfs")
  /\ \A s \in Configures : Len(s) = 2 /\ s[2] = Must("update", "menu") /\ s[1].do \in {"write", "call"}
BY RootsAre DEF Configures, Must, Try

\* A function that calls another one has nothing to show for itself yet.
LEMMA CallersAreEarly ==
  ASSUME NEW s \in Scripts, NEW m \in 1 .. Len(s), s[m].do = "call"
  PROVE  /\ ~ Formatted(s, m) /\ ~ Filled(s, m) /\ s # ApplyDeploy["qcow2"]
         /\ s \in {ApplyDeploy["linux"], ApplyDeploy["windows"], ApplyDeploy["tarball"], ApplyDeploy["wim"]} => m = 1
         /\ s \in Configures => m = 1
<1> USE DEF Must, Try
<1>1. s \notin Leaves
  BY Uncalling
<1>2. ~ Formatted(s, m) /\ ~ Filled(s, m)
  BY <1>1 DEF Formatted, Filled, Leaves, Squashed
<1>3. s # ApplyDeploy["qcow2"]
  BY RootLengths
<1>4. s \in {ApplyDeploy["linux"], ApplyDeploy["windows"], ApplyDeploy["tarball"], ApplyDeploy["wim"]} => m = 1
  <2>1. s = ApplyDeploy["linux"] => m = 1
    <3>1. Len(ApplyDeploy["linux"]) = 2 /\ ApplyDeploy["linux"][2].do = "else_dd"
      BY RootLengths
    <3> QED
      BY <3>1
  <2>2. s \in {ApplyDeploy["windows"], ApplyDeploy["tarball"], ApplyDeploy["wim"]} => m = 1
    <3>1. /\ Len(ApplyDeploy["windows"]) = 1 /\ Len(ApplyDeploy["tarball"]) = 1
          /\ Len(ApplyDeploy["wim"]) = 1
      BY RootLengths
    <3> QED
      BY <3>1
  <2> QED
    BY <2>1, <2>2
<1>5. s \in Configures => m = 1
  <2> SUFFICES ASSUME s \in Configures PROVE m = 1
    OBVIOUS
  <2>1. s \in {AutoConfigureDualBoot["linux"], AutoConfigureDualBoot["other"]}
    BY DEF Configures
  <2>2. Len(s) = 2 /\ s[2].do = "update"
    BY <2>1, RootsAre
  <2> QED
    BY <2>2
<1> QED
  BY <1>2, <1>3, <1>4, <1>5

-----------------------------------------------------------------------------
(* The stack of functions.                                                  *)

LEMMA Stack ==
  ASSUME Stacked, frames # <<>>
  PROVE  /\ Len(frames) \in 1 .. 3 /\ DOMAIN frames = 1 .. Len(frames)
         /\ \A k \in 1 .. Len(frames) :
              /\ frames[k] \in FrameShape /\ frames[k].script \in Scripts
              /\ frames[k].at \in Nat \ {0} /\ frames[k].failed \in BOOLEAN
              /\ frames[k].cleanups \in Seq(CleanupShape)
         /\ phase # "idle" /\ result = "none"
<1>1. frames \in Seq(FrameShape) /\ Len(frames) <= 3 /\ phase # "idle" /\ result = "none"
  BY DEF Stacked
<1>2. Len(frames) \in 1 .. 3 /\ DOMAIN frames = 1 .. Len(frames)
      /\ \A k \in 1 .. Len(frames) : frames[k] \in FrameShape
  <2> HIDE DEF FrameShape
  <2>1. /\ Len(frames) \in Nat /\ DOMAIN frames = 1 .. Len(frames)
        /\ \A k \in 1 .. Len(frames) : frames[k] \in FrameShape
    BY <1>1
  <2>2. Len(frames) # 0
    BY <1>1, EmptySeq
  <2> QED
    BY <1>1, <2>1, <2>2
<1> QED
  BY <1>1, <1>2 DEF FrameShape

LEMMA Callers ==
  ASSUME Stacked, NEW k \in 2 .. Len(frames)
  PROVE  /\ frames[k].script \in Deploys \union Configures \union {ConfigureLinux}
         /\ ~ Formatted(frames[k].script, frames[k].at) /\ ~ Filled(frames[k].script, frames[k].at)
         /\ frames[k].script # ApplyDeploy["qcow2"]
         /\ frames[k].script \in {ApplyDeploy["linux"], ApplyDeploy["windows"],
                                  ApplyDeploy["tarball"], ApplyDeploy["wim"]} => frames[k].at = 1
         /\ frames[k].script \in Configures => frames[k].at = 1
         /\ frames[k].script = ConfigureLinux =>
              k = 2 /\ frames[k].at \in 4 .. 5 /\ frames[1].script \in Chroots
<1>1. frames # <<>>
  BY DEF Stacked
<1>2. /\ Nested(frames[k].script, frames[k - 1].script)
      /\ frames[k].at <= Len(frames[k].script) /\ frames[k].script[frames[k].at].do = "call"
  BY DEF Stacked
<1>3. /\ k \in 1 .. Len(frames) /\ k - 1 \in 1 .. Len(frames) /\ Len(frames) \in 1 .. 3
      /\ frames[k].script \in Scripts /\ frames[k - 1].script \in Scripts
      /\ frames[k].at \in Nat \ {0}
  BY <1>1, Stack
<1>4. frames[k].at \in 1 .. Len(frames[k].script)
  BY <1>2, <1>3, ScriptsArePlaced
<1>5. Calling(frames[k].script, frames[k].at)
  BY <1>2, <1>3, <1>4, CallsAreNested
<1>6. ASSUME frames[k].script = ConfigureLinux
      PROVE  k = 2 /\ frames[k].at \in 4 .. 5 /\ frames[1].script \in Chroots
  <2>1. frames[k].at \in 4 .. 5
    BY <1>5, <1>6, Apart, RootsAre DEF Calling, Deploys, Configures
  <2>2. frames[k - 1].script \in Chroots
    BY <1>2, <1>3, <1>6, Families
  <2>3. k - 1 = 1
    <3> SUFFICES ASSUME k - 1 # 1 PROVE FALSE
      OBVIOUS
    <3>1. k - 1 \in 2 .. Len(frames)
      BY <1>3
    <3>2. Nested(frames[k - 1].script, frames[k - 1 - 1].script)
      BY <3>1 DEF Stacked
    <3>3. k - 1 - 1 \in 1 .. Len(frames)
      BY <3>1
    <3>4. frames[k - 1 - 1].script \in Scripts
      BY <1>1, <3>3, Stack
    <3> QED
      BY <1>3, <2>2, <3>2, <3>4, Families, Apart
  <2> QED
    BY <2>1, <2>2, <2>3
<1>7. frames[k].script \in Deploys \union Configures \union {ConfigureLinux}
  BY <1>2, <1>3, Families
<1> QED
  BY <1>2, <1>3, <1>4, <1>6, <1>7, CallersAreEarly

\* At most one of the functions that run uses directories.
LEMMA Alone ==
  ASSUME Stacked, NEW k \in 1 .. Len(frames), NEW m \in 1 .. Len(frames[k].script),
         frames[k].script[m].do \in {"mkdir", "mount"},
         NEW n \in 1 .. Len(Top.script), Top.script[n].do \in {"mkdir", "mount"}
  PROVE  k = 1
<1> SUFFICES ASSUME k # 1 PROVE FALSE
  OBVIOUS
<1>1. k \in 2 .. Len(frames) /\ frames # <<>>
  BY DEF Stacked
<1>2. frames[k].script \in Deploys \union Configures \union {ConfigureLinux}
  BY <1>1, Callers
<1>3. frames[k].script = ConfigureLinux
  BY <1>2, Silent
<1>4. Top.script \in Chroots
  BY <1>1, <1>3, Callers DEF Top
<1> QED
  BY <1>4, Silent

\* The instruction that is next, and the places it can be in.
LEMMA Next1 ==
  ASSUME Stacked, Running
  PROVE  /\ frames # <<>> /\ Top \in FrameShape /\ Top.script \in Scripts
         /\ Top.at \in 1 .. Len(Top.script) /\ Top.at \in Nat \ {0} /\ Top.failed = FALSE
         /\ Top.cleanups \in Seq(CleanupShape) /\ Now = Top.script[Top.at]
         /\ Placed(Top.script, Top.at)
<1>1. frames # <<>> /\ ~ Top.failed /\ Top.at <= Len(Top.script)
  BY DEF Running
<1>2. /\ Top \in FrameShape /\ Top.script \in Scripts /\ Top.at \in Nat \ {0}
      /\ Top.failed \in BOOLEAN /\ Top.cleanups \in Seq(CleanupShape)
  BY <1>1, Stack DEF Top
<1>3. Top.at \in 1 .. Len(Top.script)
  BY <1>1, <1>2, ScriptsArePlaced
<1> QED
  BY <1>1, <1>2, <1>3, ScriptsArePlaced DEF Now

\* The function that runs gets on.
Moves ==
  /\ frames' = [frames EXCEPT ![1] = frames'[1]] /\ frames'[1] \in FrameShape
  /\ frames'[1].script = Top.script

LEMMA Replaced ==
  ASSUME NEW S, NEW s \in Seq(S), Len(s) >= 1, NEW x \in S, NEW t, t = [s EXCEPT ![1] = x]
  PROVE  /\ t \in Seq(S) /\ Len(t) = Len(s) /\ DOMAIN t = 1 .. Len(s) /\ t[1] = x
         /\ \A k \in 2 .. Len(s) : t[k] = s[k]
OBVIOUS

LEMMA Moved ==
  ASSUME Stacked, frames # <<>>, Moves, UNCHANGED <<phase, route, result>>
  PROVE  /\ Stacked' /\ frames' # <<>> /\ Len(frames') = Len(frames)
         /\ DOMAIN frames' = 1 .. Len(frames)
         /\ \A k \in 2 .. Len(frames) : frames'[k] = frames[k]
<1>1. Len(frames) \in 1 .. 3 /\ DOMAIN frames = 1 .. Len(frames) /\ frames \in Seq(FrameShape)
  BY Stack DEF Stacked
<1>2. /\ frames' \in Seq(FrameShape) /\ Len(frames') = Len(frames)
      /\ DOMAIN frames' = 1 .. Len(frames)
      /\ \A k \in 2 .. Len(frames) : frames'[k] = frames[k]
  <2>1. frames' = [frames EXCEPT ![1] = frames'[1]] /\ frames'[1] \in FrameShape
    BY DEF Moves
  <2>2. Len(frames) >= 1
    BY <1>1
  <2> HIDE DEF FrameShape
  <2> QED
    BY ONLY <1>1, <2>1, <2>2, Replaced
<1>3. frames' # <<>>
  BY <1>1, <1>2
<1>4. \A k \in 1 .. Len(frames) : frames'[k].script = frames[k].script
  BY <1>1, <1>2 DEF Moves, Top
<1>5. \A k \in 2 .. Len(frames') :
        /\ Nested(frames'[k].script, frames'[k - 1].script)
        /\ frames'[k].at <= Len(frames'[k].script) /\ ~ frames'[k].failed
        /\ frames'[k].script[frames'[k].at].do = "call"
  <2> SUFFICES ASSUME NEW k \in 2 .. Len(frames)
               PROVE  /\ Nested(frames'[k].script, frames'[k - 1].script)
                      /\ frames'[k].at <= Len(frames'[k].script) /\ ~ frames'[k].failed
                      /\ frames'[k].script[frames'[k].at].do = "call"
    BY <1>2
  <2>1. k \in 1 .. Len(frames) /\ k - 1 \in 1 .. Len(frames)
    BY <1>1
  <2>2. frames'[k] = frames[k] /\ frames'[k - 1].script = frames[k - 1].script
    BY <1>2, <1>4, <2>1
  <2>3. /\ Nested(frames[k].script, frames[k - 1].script)
        /\ frames[k].at <= Len(frames[k].script) /\ ~ frames[k].failed
        /\ frames[k].script[frames[k].at].do = "call"
    BY DEF Stacked
  <2> QED
    BY <2>2, <2>3
<1>6. frames'[Len(frames')].script = frames[Len(frames)].script
  BY <1>1, <1>2, <1>4
<1>7. Stacked'
  BY <1>1, <1>2, <1>3, <1>5, <1>6 DEF Stacked
<1> QED
  BY <1>2, <1>3, <1>7 DEF Top

\* What Proceed and Fails make of it.
LEMMA Onward ==
  ASSUME NEW f \in FrameShape, NEW c \in Seq(CleanupShape), NEW g,
         g = [f EXCEPT !.at = @ + 1, !.cleanups = c \o @]
  PROVE  /\ g \in FrameShape /\ g.script = f.script /\ g.at = f.at + 1
         /\ g.cleanups = c \o f.cleanups /\ g.failed = f.failed
<1>1. f.cleanups \in Seq(CleanupShape) /\ f.at \in Nat \ {0}
  BY DEF FrameShape
<1> HIDE DEF CleanupShape
<1>2. c \o f.cleanups \in Seq(CleanupShape) /\ f.at + 1 \in Nat \ {0}
  BY <1>1
<1> QED
  BY <1>2 DEF FrameShape

LEMMA Updated ==
  ASSUME NEW f \in FrameShape
  PROVE  /\ LET g == [f EXCEPT !.failed = TRUE]
            IN  /\ g \in FrameShape /\ g.script = f.script /\ g.at = f.at
                /\ g.cleanups = f.cleanups /\ g.failed = TRUE
         /\ LET g == [f EXCEPT !.at = @ + 1]
            IN  /\ g \in FrameShape /\ g.script = f.script /\ g.at = f.at + 1
                /\ g.cleanups = f.cleanups /\ g.failed = f.failed
<1>5. LET g == [f EXCEPT !.failed = TRUE]
      IN  /\ g \in FrameShape /\ g.script = f.script /\ g.at = f.at
          /\ g.cleanups = f.cleanups /\ g.failed = TRUE
  BY DEF FrameShape
<1>6. LET g == [f EXCEPT !.at = @ + 1]
      IN  /\ g \in FrameShape /\ g.script = f.script /\ g.at = f.at + 1
          /\ g.cleanups = f.cleanups /\ g.failed = f.failed
  BY DEF FrameShape
<1> QED
  BY <1>5, <1>6

LEMMA Proceeded ==
  ASSUME Stacked, Running, NEW c \in Seq(CleanupShape), Proceed(c)
  PROVE  /\ Moves /\ Top'.at = Top.at + 1 /\ Top'.cleanups = c \o Top.cleanups
         /\ Top'.failed = FALSE
<1> DEFINE g == [Top EXCEPT !.at = @ + 1, !.cleanups = c \o @]
<1>1. frames # <<>> /\ Top \in FrameShape /\ Top.failed = FALSE
  BY Next1
<1>2. 1 \in DOMAIN frames
  BY <1>1, Stack
<1>3. frames' = [frames EXCEPT ![1].at = @ + 1, ![1].cleanups = c \o @]
  BY DEF Proceed
<1>4. frames' = [frames EXCEPT ![1] = g]
  BY <1>2, <1>3 DEF Top
<1>5. /\ g \in FrameShape /\ g.script = Top.script /\ g.at = Top.at + 1
      /\ g.cleanups = c \o Top.cleanups /\ g.failed = Top.failed
  <2>1. g = [Top EXCEPT !.at = @ + 1, !.cleanups = c \o @]
    OBVIOUS
  <2> HIDE DEF g
  <2> QED
    BY ONLY <1>1, <2>1, c \in Seq(CleanupShape), Onward
<1> HIDE DEF g
<1>6. frames'[1] = g
  BY <1>2, <1>4
<1> QED
  BY <1>1, <1>4, <1>5, <1>6 DEF Moves, Top

LEMMA Failed ==
  ASSUME Stacked, Running, Fails
  PROVE  /\ Moves /\ Top'.cleanups = Top.cleanups
         /\ \/ Now.error = "return" /\ Top'.at = Top.at /\ Top'.failed = TRUE
            \/ Now.error # "return" /\ Top'.at = Top.at + 1 /\ Top'.failed = FALSE
<1> DEFINE g == [Top EXCEPT !.failed = TRUE]
           h == [Top EXCEPT !.at = @ + 1]
<1>1. frames # <<>> /\ Top \in FrameShape /\ Top.failed = FALSE /\ Top.cleanups \in Seq(CleanupShape)
  BY Next1
<1>2. 1 \in DOMAIN frames
  BY <1>1, Stack
<1>5. /\ g \in FrameShape /\ g.script = Top.script /\ g.at = Top.at
      /\ g.cleanups = Top.cleanups /\ g.failed = TRUE
      /\ h \in FrameShape /\ h.script = Top.script /\ h.at = Top.at + 1
      /\ h.cleanups = Top.cleanups /\ h.failed = Top.failed
  BY <1>1, Updated
<1>6. CASE Now.error = "return"
  <2>1. frames' = [frames EXCEPT ![1] = g]
    BY <1>2, <1>6 DEF Fails, Top
  <2> HIDE DEF g
  <2>2. frames'[1] = g
    BY <1>2, <2>1
  <2> QED
    BY <1>5, <1>6, <2>1, <2>2 DEF Moves, Top
<1>7. CASE Now.error # "return"
  <2>1. frames' = [frames EXCEPT ![1] = h]
    BY <1>2, <1>7 DEF Fails, Top
  <2> HIDE DEF h
  <2>2. frames'[1] = h
    BY <1>2, <2>1
  <2> QED
    BY <1>1, <1>5, <1>7, <2>1, <2>2 DEF Moves, Top
<1> QED
  BY <1>6, <1>7

-----------------------------------------------------------------------------
(* What is deferred.                                                        *)

LEMMA Cleanups ==
  ASSUME NEW x \in CleanupShape
  PROVE  /\ x.do = "RemoveAll" => x.on \in Dirs /\ x = Cleanup("RemoveAll", x.on)
         /\ x.do = "umount" => x.on \in Points /\ x = Cleanup("umount", x.on)
         /\ x.do = "Remove" => x = Cleanup("Remove", "raw")
         /\ x.do \in {"umount", "RemoveAll", "Remove"}
BY DEF CleanupShape, Cleanup

LEMMA Prepended ==
  ASSUME NEW S, NEW x \in S, NEW e \in Seq(S), NEW c, c = <<x>> \o e
  PROVE  /\ c \in Seq(S) /\ Len(c) = Len(e) + 1 /\ DOMAIN c = 1 .. Len(e) + 1 /\ c[1] = x
         /\ \A i \in 1 .. Len(e) : c[i + 1] = e[i]
         /\ \A i \in DOMAIN c : i = 1 \/ (i - 1 \in 1 .. Len(e) /\ c[i] = e[i - 1])
OBVIOUS

LEMMA Trimmed ==
  ASSUME NEW S, NEW e \in Seq(S), e # <<>>, NEW c, c = Tail(e)
  PROVE  /\ c \in Seq(S) /\ Len(c) + 1 = Len(e) /\ DOMAIN c = 1 .. Len(c)
         /\ \A i \in DOMAIN c : i + 1 \in 1 .. Len(e) /\ c[i] = e[i + 1]
         /\ \A i \in 1 .. Len(e) : i = 1 \/ (i - 1 \in DOMAIN c /\ e[i] = c[i - 1])
OBVIOUS

\* Nothing new is deferred.
LEMMA Steps ==
  ASSUME NEW f \in FrameShape, NEW g \in FrameShape, Fits(f), g.script = f.script,
         g.cleanups = f.cleanups, g.at \in {f.at, f.at + 1}
  PROVE  Fits(g) /\ \A do, d : Deferred(g, do, d) <=> Deferred(f, do, d)
<1>1. f.at \in Nat \ {0} /\ g.at \in Nat \ {0}
  BY DEF FrameShape
<1>2. \A do, d : Did(f, do, d) => Did(g, do, d)
  BY <1>1 DEF Did
<1>3. \A do, d : Deferred(g, do, d) <=> Deferred(f, do, d)
  BY DEF Deferred
<1> QED
  BY <1>2, <1>3 DEF Fits

\* What undoes the instruction is.
LEMMA Pushes ==
  ASSUME NEW f \in FrameShape, NEW g \in FrameShape, Fits(f), g.script = f.script,
         f.script \in Scripts, f.at \in 1 .. Len(f.script), g.at = f.at + 1,
         NEW x \in CleanupShape, g.cleanups = <<x>> \o f.cleanups,
         x.do = "RemoveAll" => /\ f.script[f.at].do = "mkdir" /\ f.script[f.at].on = x.on,
         x.do = "umount" => /\ f.script[f.at].do = "mount" /\ f.script[f.at].on = x.on
  PROVE  /\ Fits(g)
         /\ \A do, d : Deferred(g, do, d) <=> Deferred(f, do, d) \/ x = Cleanup(do, d)
<1>1. /\ f.at \in Nat \ {0} /\ f.cleanups \in Seq(CleanupShape) /\ g.cleanups \in Seq(CleanupShape)
      /\ Len(f.script) \in Nat
  BY ScriptsArePlaced DEF FrameShape
<1> DEFINE e == f.cleanups
           c == g.cleanups
<1>2. /\ Len(e) \in Nat /\ DOMAIN e = 1 .. Len(e) /\ DOMAIN c = 1 .. Len(e) + 1 /\ c[1] = x
      /\ \A i \in 1 .. Len(e) : c[i + 1] = e[i]
      /\ \A i \in DOMAIN c : i = 1 \/ (i - 1 \in 1 .. Len(e) /\ c[i] = e[i - 1])
  <2>1. c = <<x>> \o e /\ e \in Seq(CleanupShape)
    BY <1>1
  <2> HIDE DEF e, c, CleanupShape
  <2> QED
    BY <2>1, Prepended
<1>3. \A do, d : Did(f, do, d) => Did(g, do, d)
  BY <1>1 DEF Did
<1>4. \A do, d : f.script[f.at].do = do /\ f.script[f.at].on = d => Did(g, do, d)
  BY <1>1 DEF Did
<1>5. \A do, d : Deferred(g, do, d) <=> Deferred(f, do, d) \/ x = Cleanup(do, d)
  <2> SUFFICES ASSUME NEW do, NEW d
               PROVE  Deferred(g, do, d) <=> Deferred(f, do, d) \/ x = Cleanup(do, d)
    OBVIOUS
  <2>1. ASSUME Deferred(g, do, d) PROVE Deferred(f, do, d) \/ x = Cleanup(do, d)
    <3>1. PICK i \in DOMAIN c : c[i] = Cleanup(do, d)
      BY <2>1 DEF Deferred
    <3>2. i = 1 \/ (i - 1 \in DOMAIN e /\ e[i - 1] = Cleanup(do, d))
      BY <1>2, <3>1
    <3> QED
      BY <1>2, <3>1, <3>2 DEF Deferred
  <2>2. ASSUME Deferred(f, do, d) PROVE Deferred(g, do, d)
    <3>1. PICK i \in DOMAIN e : e[i] = Cleanup(do, d)
      BY <2>2 DEF Deferred
    <3>2. i + 1 \in DOMAIN c /\ c[i + 1] = Cleanup(do, d)
      BY <1>2, <3>1
    <3> QED
      BY <3>2 DEF Deferred
  <2>3. ASSUME x = Cleanup(do, d) PROVE Deferred(g, do, d)
    <3>1. 1 \in DOMAIN c /\ c[1] = Cleanup(do, d)
      BY <1>2, <2>3
    <3> QED
      BY <3>1 DEF Deferred
  <2> QED
    BY <2>1, <2>2, <2>3
<1>6. \A d \in Dirs : /\ Deferred(g, "umount", d) => Did(g, "mount", d)
                      /\ Deferred(g, "RemoveAll", d) => Did(g, "mkdir", d)
  <2>1. \A d \in Dirs : /\ Deferred(f, "umount", d) => Did(f, "mount", d)
                        /\ Deferred(f, "RemoveAll", d) => Did(f, "mkdir", d)
    BY DEF Fits
  <2>2. \A do, d : x = Cleanup(do, d) => x.do = do /\ x.on = d
    BY DEF Cleanup
  <2> QED
    BY <1>3, <1>4, <1>5, <2>1, <2>2
<1>7. ASSUME NEW i \in DOMAIN c, NEW j \in DOMAIN c, c[i].do = "RemoveAll",
             c[j] = Cleanup("umount", c[i].on)
      PROVE  j < i
  <2>1. CASE i # 1 /\ j # 1
    <3>1. i - 1 \in DOMAIN e /\ j - 1 \in DOMAIN e /\ c[i] = e[i - 1] /\ c[j] = e[j - 1]
      BY <1>2, <2>1
    <3>2. j - 1 < i - 1
      BY <1>7, <3>1 DEF Fits
    <3> QED
      BY <1>2, <3>1, <3>2
  <2>2. CASE j = 1 /\ i # 1
    BY <1>2, <2>2
  <2>3. CASE i = 1
    <3>1. x.do = "RemoveAll" /\ x.on \in Dirs /\ c[j] = Cleanup("umount", x.on)
      BY <1>2, <1>7, <2>3, Cleanups
    <3>2. j # 1
      BY <1>2, <3>1 DEF Cleanup
    <3>3. Deferred(f, "umount", x.on)
      BY <1>2, <3>1, <3>2 DEF Deferred
    <3>4. Did(f, "mount", x.on)
      BY <3>1, <3>3 DEF Fits
    <3>5. PICK m \in 1 .. f.at - 1 : m <= Len(f.script) /\ f.script[m].do = "mount" /\ f.script[m].on = x.on
      BY <3>4 DEF Did
    <3>6. m \in 1 .. Len(f.script)
      BY <1>1, <3>5
    <3>7. f.at < m
      BY <3>1, <3>5, <3>6, Once
    <3> QED
      BY <1>1, <3>5, <3>7
  <2> QED
    BY <2>1, <2>2, <2>3
<1> QED
  BY <1>5, <1>6, <1>7 DEF Fits

\* The promise to undo the binds leaves the directories as they are.
LEMMA PushesBinds ==
  ASSUME NEW f \in FrameShape, NEW g \in FrameShape, Fits(f), g.script = f.script,
         g.at = f.at + 1,
         g.cleanups = [i \in 1 .. 4 |-> Cleanup("umount", Binds[5 - i])] \o f.cleanups
  PROVE  /\ Fits(g)
         /\ \A do, d : Deferred(f, do, d) => Deferred(g, do, d)
         /\ \A do : \A d \in Dirs : Deferred(g, do, d) => Deferred(f, do, d)
<1> DEFINE b == [i \in 1 .. 4 |-> Cleanup("umount", Binds[5 - i])]
           e == f.cleanups
           c == g.cleanups
<1>1. /\ f.at \in Nat \ {0} /\ e \in Seq(CleanupShape)
  BY DEF FrameShape
<1>2. \A i \in 1 .. 4 : b[i] = Cleanup("umount", Binds[5 - i]) /\ Binds[5 - i] \notin Dirs
  BY DEF Binds, Dirs
<1>3. b = [i \in 1 .. 4 |-> b[i]] /\ c = b \o e
  OBVIOUS
<1>4. /\ Len(e) \in Nat /\ DOMAIN e = 1 .. Len(e) /\ e = [i \in 1 .. Len(e) |-> e[i]]
  BY <1>1
<1> HIDE DEF b, e, c
<1>5. /\ DOMAIN c = 1 .. 4 + Len(e) /\ \A i \in 1 .. 4 : c[i] = b[i]
      /\ \A i \in 1 .. Len(e) : c[4 + i] = e[i]
  BY <1>3, <1>4, Joined
<1>6. \A i \in DOMAIN c : i \in 1 .. 4 \/ (i - 4 \in DOMAIN e /\ c[i] = e[i - 4])
  <2> SUFFICES ASSUME NEW i \in DOMAIN c, i \notin 1 .. 4
               PROVE  i - 4 \in DOMAIN e /\ c[i] = e[i - 4]
    OBVIOUS
  <2>1. i - 4 \in 1 .. Len(e) /\ 4 + (i - 4) = i
    BY <1>4, <1>5
  <2> QED
    BY <1>4, <1>5, <2>1
<1>7. \A do, d : Deferred(f, do, d) => Deferred(g, do, d)
  <2> SUFFICES ASSUME NEW do, NEW d, Deferred(f, do, d) PROVE Deferred(g, do, d)
    OBVIOUS
  <2>1. PICK i \in DOMAIN e : e[i] = Cleanup(do, d)
    BY DEF Deferred, e
  <2>2. 4 + i \in DOMAIN c /\ c[4 + i] = Cleanup(do, d)
    BY <1>4, <1>5, <2>1
  <2> QED
    BY <2>2 DEF Deferred, c
<1>8. \A do : \A d \in Dirs : Deferred(g, do, d) => Deferred(f, do, d)
  <2> SUFFICES ASSUME NEW do, NEW d \in Dirs, Deferred(g, do, d) PROVE Deferred(f, do, d)
    OBVIOUS
  <2>1. PICK i \in DOMAIN c : c[i] = Cleanup(do, d)
    BY DEF Deferred, c
  <2>2. i \notin 1 .. 4
    <3> SUFFICES ASSUME i \in 1 .. 4 PROVE FALSE
      OBVIOUS
    <3>1. Cleanup(do, d) = Cleanup("umount", Binds[5 - i]) /\ Binds[5 - i] \notin Dirs
      BY <1>2, <1>5, <2>1
    <3> QED
      BY <3>1 DEF Cleanup
  <2> QED
    BY <1>6, <2>1, <2>2 DEF Deferred, e
<1>9. \A do, d : Did(f, do, d) => Did(g, do, d)
  BY <1>1 DEF Did
<1>10. ASSUME NEW i \in DOMAIN c, NEW j \in DOMAIN c, c[i].do = "RemoveAll",
              c[j] = Cleanup("umount", c[i].on)
       PROVE  j < i
  <2>1. i \notin 1 .. 4
    BY <1>2, <1>5, <1>10 DEF Cleanup
  <2>2. i - 4 \in DOMAIN e /\ c[i] = e[i - 4] /\ i \in Nat /\ j \in Nat
    BY <1>5, <1>4, <1>6, <2>1
  <2>3. CASE j \notin 1 .. 4
    <3>1. j - 4 \in DOMAIN e /\ c[j] = e[j - 4]
      BY <1>6, <2>3
    <3>2. j - 4 < i - 4
      BY <1>10, <2>2, <3>1 DEF Fits, e
    <3> QED
      BY <2>2, <3>2
  <2>4. CASE j \in 1 .. 4
    BY <1>4, <1>5, <2>1, <2>4
  <2> QED
    BY <2>3, <2>4
<1> QED
  BY <1>7, <1>8, <1>9, <1>10 DEF Fits, c

\* The newest of what is deferred is done.
LEMMA Pops ==
  ASSUME NEW f \in FrameShape, NEW g \in FrameShape, Fits(f), g.script = f.script, g.at = f.at,
         f.cleanups # <<>>, g.cleanups = Tail(f.cleanups)
  PROVE  /\ Fits(g) /\ f.cleanups[1] \in CleanupShape
         /\ \A do, d : Deferred(g, do, d) => Deferred(f, do, d)
         /\ \A do, d : Deferred(f, do, d) => Deferred(g, do, d) \/ f.cleanups[1] = Cleanup(do, d)
<1> DEFINE e == f.cleanups
           c == g.cleanups
<1>1. e \in Seq(CleanupShape) /\ e # <<>> /\ c = Tail(e)
  BY DEF FrameShape
<1> HIDE DEF e, c
<1>2. /\ DOMAIN c = 1 .. Len(c) /\ Len(c) + 1 = Len(e) /\ Len(c) \in Nat
      /\ \A i \in DOMAIN c : i + 1 \in 1 .. Len(e) /\ c[i] = e[i + 1]
      /\ \A i \in 1 .. Len(e) : i = 1 \/ (i - 1 \in DOMAIN c /\ e[i] = c[i - 1])
  <2>1. c \in Seq(CleanupShape)
    BY <1>1, Trimmed
  <2>2. Len(c) \in Nat
    BY <2>1
  <2> QED
    BY <1>1, <2>2, Trimmed
<1>3. DOMAIN e = 1 .. Len(e) /\ e[1] \in CleanupShape
  BY <1>1
<1>4. \A do, d : Deferred(g, do, d) => Deferred(f, do, d)
  <2> SUFFICES ASSUME NEW do, NEW d, Deferred(g, do, d) PROVE Deferred(f, do, d)
    OBVIOUS
  <2>1. PICK i \in DOMAIN c : c[i] = Cleanup(do, d)
    BY DEF Deferred, c
  <2> QED
    BY <1>2, <1>3, <2>1 DEF Deferred, e
<1>5. \A do, d : Deferred(f, do, d) => Deferred(g, do, d) \/ e[1] = Cleanup(do, d)
  <2> SUFFICES ASSUME NEW do, NEW d, Deferred(f, do, d)
               PROVE  Deferred(g, do, d) \/ e[1] = Cleanup(do, d)
    OBVIOUS
  <2>1. PICK i \in DOMAIN e : e[i] = Cleanup(do, d)
    BY DEF Deferred, e
  <2>2. i = 1 \/ (i - 1 \in DOMAIN c /\ c[i - 1] = Cleanup(do, d))
    BY <1>2, <1>3, <2>1
  <2> QED
    BY <2>1, <2>2 DEF Deferred, c
<1>6. \A do, d : Did(f, do, d) <=> Did(g, do, d)
  BY DEF Did
<1>7. ASSUME NEW i \in DOMAIN c, NEW j \in DOMAIN c, c[i].do = "RemoveAll",
             c[j] = Cleanup("umount", c[i].on)
      PROVE  j < i
  <2>1. i + 1 \in DOMAIN e /\ j + 1 \in DOMAIN e /\ c[i] = e[i + 1] /\ c[j] = e[j + 1]
    BY <1>2, <1>3
  <2>2. j + 1 < i + 1
    BY <1>7, <2>1 DEF Fits, e
  <2> QED
    BY <1>2, <2>2
<1> QED
  BY <1>3, <1>4, <1>5, <1>6, <1>7 DEF Fits, c, e

-----------------------------------------------------------------------------
(* What steps of the function that runs keep.                               *)

LEMMA Strict ==
  ASSUME NEW s \in Scripts, NEW m \in 1 .. Len(s),
         s[m].do \in {"mkfs", "unpack", "dd", "else_dd", "convert", "update"}
  PROVE  s[m].error = "return"
<1>1. Placed(s, m)
  BY ScriptsArePlaced
<1>2. CASE s[m].do \in {"mkfs", "unpack"}
  BY <1>2, Reaching
<1>3. CASE s[m].do \in {"dd", "else_dd", "convert"}
  <2>1. s \in {ApplyDeploy["raw"], ApplyDeploy["qcow2"], ApplyDeploy["linux"]}
    BY <1>1, <1>3 DEF Placed
  <2>2. m = 1 \/ (m = 2 /\ s # ApplyDeploy["raw"])
    BY <2>1, RootLengths
  <2> QED
    BY <1>3, <2>1, <2>2, RootLengths DEF Must, Try
<1>4. CASE s[m].do = "update"
  BY <1>1, <1>4, RootLengths DEF Placed, Must
<1> QED
  BY <1>2, <1>3, <1>4

LEMMA Rooted ==
  ASSUME Stacked, frames # <<>>, Top.script \in Deploys \union Configures \union {IsWindowsISO}
  PROVE  Len(frames) = 1
<1> SUFFICES ASSUME Len(frames) # 1 PROVE FALSE
  OBVIOUS
<1>1. 2 \in 2 .. Len(frames)
  BY Stack
<1>2. Nested(frames[2].script, frames[2 - 1].script)
  BY <1>1 DEF Stacked
<1>3. frames[2].script \in Scripts /\ frames[2 - 1].script \in Scripts /\ frames[2 - 1] = Top
  BY <1>1, Stack DEF Top
<1> QED
  BY <1>2, <1>3, Families, Apart

LEMMA Configuring ==
  ASSUME Stacked, phase = "configure"
  PROVE  /\ Top.script \in Configures \union {ConfigureLinux} \union Chroots
         /\ frames # <<>>
<1>1. frames # <<>> /\ frames[Len(frames)].script \in Configures
  BY DEF Stacked
<1>2. Len(frames) \in 1 .. 3 /\ \A k \in 1 .. Len(frames) : frames[k].script \in Scripts
  BY <1>1, Stack
<1>3. CASE Len(frames) = 1
  BY <1>1, <1>3 DEF Top
<1>4. CASE Len(frames) = 2
  <2>1. Nested(frames[2].script, frames[2 - 1].script)
    BY <1>4 DEF Stacked
  <2> QED
    BY <1>1, <1>2, <1>4, <2>1, Families DEF Top
<1>5. CASE Len(frames) = 3
  <2>1. Nested(frames[3].script, frames[3 - 1].script) /\ Nested(frames[2].script, frames[2 - 1].script)
    BY <1>5 DEF Stacked
  <2>2. frames[2].script = ConfigureLinux
    BY <1>1, <1>2, <1>5, <2>1, Families
  <2>3. frames[1].script \in Chroots
    BY <1>2, <1>5, <2>1, <2>2, Families
  <2> QED
    BY <1>1, <2>3 DEF Top
<1> QED
  BY <1>1, <1>2, <1>3, <1>4, <1>5

\* The image is not touched any more when the boot menu is configured.
LEMMA NotConfiguring ==
  ASSUME Stacked, Running, Now.do \in {"mkfs", "unpack", "dd", "else_dd", "convert"}
  PROVE  phase # "configure"
<1>1. Placed(Top.script, Top.at) /\ Now = Top.script[Top.at]
  BY Next1
<1>2. Top.script \in Leaves \union Deploys
  BY <1>1, RootsAre DEF Placed, Deploys
<1> QED
  BY <1>2, Configuring, Apart

LEMMA Step ==
  ASSUME InstallInv, frames # <<>>, Moves, UNCHANGED <<phase, route, result>>,
         Fits(Top'), Owed', Sheltered', Delivers(Top)', Landed', ~ wiped',
         part' \in PartShape
  PROVE  InstallInv'
<1>1. Stacked
  BY DEF InstallInv
<1>2. /\ Stacked' /\ frames' # <<>> /\ Len(frames') = Len(frames)
      /\ DOMAIN frames' = 1 .. Len(frames)
      /\ \A k \in 2 .. Len(frames) : frames'[k] = frames[k]
  BY <1>1, Moved
<1>3. /\ Len(frames) \in 1 .. 3 /\ DOMAIN frames = 1 .. Len(frames)
      /\ phase # "idle" /\ result = "none"
  BY <1>1, Stack
<1>4. \A k \in DOMAIN frames' : Fits(frames'[k])
  BY <1>2, <1>3 DEF InstallInv, Top
<1>5. \A k \in DOMAIN frames' : Delivers(frames[k])'
  <2> SUFFICES ASSUME NEW k \in 1 .. Len(frames) PROVE Delivers(frames[k])'
    BY <1>2
  <2>1. CASE k = 1
    BY <2>1 DEF Top
  <2>2. CASE k \in 2 .. Len(frames)
    <3>1. /\ ~ Formatted(frames[k].script, frames[k].at) /\ ~ Filled(frames[k].script, frames[k].at)
          /\ frames[k].script # ApplyDeploy["qcow2"]
          /\ frames[k].script \in {ApplyDeploy["linux"], ApplyDeploy["windows"],
                                   ApplyDeploy["tarball"], ApplyDeploy["wim"]} => frames[k].at = 1
          /\ frames[k].script \in Configures => frames[k].at = 1
      BY <1>1, <2>2, Callers
    <3>2. frames'[k] = frames[k]
      BY <1>2, <2>2
    <3> HIDE DEF Formatted, Filled
    <3> QED
      BY <3>1, <3>2 DEF Delivers
  <2> QED
    BY <1>3, <2>1, <2>2
<1>6. SuccessIsWhole' /\ NothingIsLeft'
  BY <1>3 DEF SuccessIsWhole, NothingIsLeft
<1> QED
  BY <1>2, <1>4, <1>5, <1>6 DEF InstallInv

LEMMA OwedStays ==
  ASSUME InstallInv, frames # <<>>, Moves, UNCHANGED <<phase, route, result, mounts, dirs>>,
         \A do : \A d \in Dirs : Deferred(Top, do, d) => Deferred(Top', do, d)
  PROVE  Owed'
<1>1. /\ DOMAIN frames' = 1 .. Len(frames) /\ DOMAIN frames = 1 .. Len(frames)
      /\ \A k \in 2 .. Len(frames) : frames'[k] = frames[k]
  BY Moved, Stack DEF InstallInv
<1>2. \A do : \A k \in DOMAIN frames, d \in Dirs :
        Deferred(frames[k], do, d) => Deferred(frames'[k], do, d)
  <2> SUFFICES ASSUME NEW k \in DOMAIN frames, NEW do, NEW d \in Dirs, Deferred(frames[k], do, d)
               PROVE  Deferred(frames'[k], do, d)
    OBVIOUS
  <2>1. CASE k = 1
    BY <2>1 DEF Top
  <2>2. CASE k # 1
    BY <1>1, <2>2
  <2> QED
    BY <2>1, <2>2
<1>3. Owed
  BY DEF InstallInv
<1>4. \A d \in dirs' : \E k \in DOMAIN frames' : Deferred(frames'[k], "RemoveAll", d)
  BY <1>1, <1>2, <1>3 DEF Owed
<1>5. \A d \in Dirs : Mounted(d)' => \E k \in DOMAIN frames' : Deferred(frames'[k], "umount", d)
  BY <1>1, <1>2, <1>3 DEF Owed, Mounted
<1> QED
  BY <1>3, <1>4, <1>5 DEF Owed

LEMMA ShelteredStays ==
  ASSUME InstallInv, frames # <<>>, Moves, UNCHANGED <<phase, route, result>>,
         Mounted("stage") => Mounted("stage")',
         \A b \in BindPoints : Mounted(b)' => Mounted("stage")',
         Top.script = ConfigureLinux /\ Top'.at > 3 /\ Running' => Mounted("stage")'
  PROVE  Sheltered'
<1>1. /\ DOMAIN frames' = 1 .. Len(frames) /\ DOMAIN frames = 1 .. Len(frames)
      /\ \A k \in 2 .. Len(frames) : frames'[k] = frames[k]
  BY Moved, Stack DEF InstallInv
<1>2. ASSUME NEW k \in DOMAIN frames', frames'[k].script = ConfigureLinux, frames'[k].at > 3,
             k > 1 \/ Running'
      PROVE  Mounted("stage")'
  <2>1. CASE k = 1
    <3>1. Top.script = ConfigureLinux /\ Top'.at > 3 /\ Running'
      BY <1>2, <2>1 DEF Moves, Top
    <3> QED
      BY <3>1
  <2>2. CASE k # 1
    <3>1. k \in DOMAIN frames /\ k > 1 /\ frames'[k] = frames[k]
      BY <1>1, <2>2
    <3> QED
      BY <1>2, <3>1 DEF InstallInv, Sheltered
  <2> QED
    BY <2>1, <2>2
<1> QED
  BY <1>2 DEF Sheltered

\* After the mount of the stage, that is.
LEMMA StageIsMounted ==
  ASSUME InstallInv, Running, Top.script = ConfigureLinux, Top'.at > 3,
         Top'.at = Top.at \/ (Top'.at = Top.at + 1 /\ Top.at # 3)
  PROVE  Mounted("stage")
<1>1. frames # <<>> /\ Top.at \in Nat \ {0}
  BY Next1 DEF InstallInv
<1>3. Top.at > 3
  BY <1>1
<1>4. 1 \in DOMAIN frames
  BY <1>1, Stack DEF InstallInv
<1> QED
  BY <1>3, <1>4 DEF InstallInv, Sheltered, Top

\* An instruction that is not one of the partition's, the menu's or a call.
LEMMA DeliversOn ==
  ASSUME InstallInv, Running, Moves, Top'.at = Top.at + 1,
         Now.do \notin {"mkfs", "unpack", "dd", "else_dd", "convert", "update", "call"},
         \/ UNCHANGED <<part, raw>>
         \/ Top.script = ConfigureLinux
  PROVE  Delivers(Top)'
<1>1. /\ Top.script \in Scripts /\ Top.at \in 1 .. Len(Top.script) /\ Now = Top.script[Top.at]
      /\ Delivers(Top) /\ Top'.script = Top.script
  BY Next1, Stack DEF InstallInv, Top, Moves
<1>2. CASE Top.script = ConfigureLinux
  <2>1. \A m : ~ Formatted(ConfigureLinux, m) /\ ~ Filled(ConfigureLinux, m)
    BY Apart DEF Formatted, Filled, Leaves, Squashed
  <2>2. ConfigureLinux \notin {ApplyDeploy["linux"], ApplyDeploy["windows"], ApplyDeploy["tarball"], ApplyDeploy["wim"],
                              ApplyDeploy["qcow2"]} \union Configures
    BY Apart, RootsAre DEF Deploys
  <2> HIDE DEF Formatted, Filled
  <2> QED
    BY <1>1, <1>2, <2>1, <2>2 DEF Delivers
<1>3. CASE Top.script # ConfigureLinux
  <2>1. /\ Formatted(Top.script, Top'.at) => Formatted(Top.script, Top.at)
        /\ Filled(Top.script, Top'.at) => Filled(Top.script, Top.at)
    BY <1>1, Reaching
  <2>2. Top.script \notin {ApplyDeploy["linux"], ApplyDeploy["windows"], ApplyDeploy["tarball"], ApplyDeploy["wim"],
                           ApplyDeploy["qcow2"]}
    <3>1. /\ Len(ApplyDeploy["linux"]) = 2 /\ ApplyDeploy["linux"][1].do = "call"
          /\ ApplyDeploy["linux"][2].do = "else_dd"
          /\ Len(ApplyDeploy["windows"]) = 1 /\ ApplyDeploy["windows"][1].do = "call"
          /\ Len(ApplyDeploy["tarball"]) = 1 /\ ApplyDeploy["tarball"][1].do = "call"
          /\ Len(ApplyDeploy["wim"]) = 1 /\ ApplyDeploy["wim"][1].do = "call"
          /\ Len(ApplyDeploy["qcow2"]) = 2 /\ ApplyDeploy["qcow2"][1].do = "convert"
          /\ ApplyDeploy["qcow2"][2].do = "dd"
      BY RootLengths DEF Must, Try
    <3> QED
      BY <1>1, <3>1
  <2>3. Top.script \in Configures => Top.at = 1
    BY <1>1, RootLengths DEF Must
  <2> HIDE DEF Formatted, Filled
  <2> QED
    BY <1>1, <1>3, <2>1, <2>2, <2>3 DEF Delivers
<1> QED
  BY <1>2, <1>3

\* A failure that ends the function.
LEMMA DeliversFailed ==
  ASSUME InstallInv, Running, Moves, Top'.at = Top.at, erred',
         menu' = menu \/ Now.do \in {"update", "write"}, raw' = raw \/ Now.do = "convert",
         Top'.cleanups = Top.cleanups,
         Formatted(Top.script, Top.at) => part'.fs # "none",
         Filled(Top.script, Top.at) => part'.holds = "image"
  PROVE  Delivers(Top)'
<1>1. /\ Top.script \in Scripts /\ Top.at \in 1 .. Len(Top.script) /\ Now = Top.script[Top.at]
      /\ Delivers(Top) /\ Top'.script = Top.script
  BY Next1, Stack DEF InstallInv, Top, Moves
<1>2. /\ Top.script = ApplyDeploy["linux"] => Top.at <= 2
      /\ Top.script \in {ApplyDeploy["windows"], ApplyDeploy["tarball"], ApplyDeploy["wim"]} => Top.at = 1
      /\ Top.script = ApplyDeploy["qcow2"] => Top.at = 1 \/ (Top.at = 2 /\ Now.do = "dd")
      /\ Top.script \in Configures => Top.at <= 2
  BY <1>1, RootLengths DEF Must
<1> HIDE DEF Formatted, Filled
<1> QED
  BY <1>1, <1>2 DEF Delivers, Deferred

\* A step that mounts nothing and leaves nothing new to be undone.
LEMMA PlainStep ==
  ASSUME InstallInv, Running, Moves,
         Top'.at = Top.at \/ (Top'.at = Top.at + 1 /\ (Top.script = ConfigureLinux => Top.at # 3)),
         Top'.cleanups = Top.cleanups,
         UNCHANGED <<phase, route, result, mounts, dirs, wiped>>, Delivers(Top)', Landed',
         part' \in PartShape
  PROVE  InstallInv'
<1>1. frames # <<>> /\ Top \in FrameShape /\ 1 \in DOMAIN frames /\ Top' \in FrameShape
      /\ Top'.script = Top.script
  BY Next1, Stack DEF InstallInv, Moves, Top
<1>2. Fits(Top') /\ \A do, d : Deferred(Top', do, d) <=> Deferred(Top, do, d)
  <2>1. Fits(Top)
    BY <1>1 DEF InstallInv, Top
  <2>2. Top'.at \in {Top.at, Top.at + 1}
    OBVIOUS
  <2> QED
    BY <1>1, <2>1, <2>2, Steps
<1>3. Owed'
  BY <1>1, <1>2, OwedStays
<1>4. Sheltered'
  <2>1. Top.script = ConfigureLinux /\ Top'.at > 3 /\ Running' => Mounted("stage")'
    BY StageIsMounted DEF Mounted
  <2>2. /\ Mounted("stage") => Mounted("stage")'
        /\ \A b \in BindPoints : Mounted(b)' => Mounted("stage")'
    BY DEF InstallInv, Sheltered, Mounted
  <2> QED
    BY <1>1, <2>1, <2>2, ShelteredStays
<1>5. ~ wiped'
  BY DEF InstallInv
<1> QED
  BY <1>1, <1>2, <1>3, <1>4, <1>5, Step

\* A failure, of whichever instruction.
LEMMA FailStep ==
  ASSUME InstallInv, Running, Fails, Now.do # "call",
         UNCHANGED <<phase, route, result, mounts, dirs, wiped>>,
         menu' = menu \/ Now.do = "write", raw' = raw \/ Now.do = "convert",
         part' = part \/ Now.do \in {"unpack", "dd", "else_dd"},
         part' \in PartShape, part'.fs = part.fs \/ Now.do \in {"dd", "else_dd"}
  PROVE  InstallInv'
<1>1. /\ Moves /\ Top'.cleanups = Top.cleanups /\ Stacked
      /\ \/ Now.error = "return" /\ Top'.at = Top.at /\ Top'.failed = TRUE
         \/ Now.error # "return" /\ Top'.at = Top.at + 1 /\ Top'.failed = FALSE
  BY Failed DEF InstallInv
<1>2. /\ Top.script \in Scripts /\ Top.at \in 1 .. Len(Top.script) /\ Now = Top.script[Top.at]
      /\ Delivers(Top) /\ Placed(Top.script, Top.at)
  BY <1>1, Next1, Stack DEF InstallInv, Top
<1>3. Landed'
  <2>1. CASE part' = part /\ raw' = raw
    BY <2>1 DEF InstallInv, Landed, Good
  <2>2. CASE Now.do \in {"unpack", "dd", "else_dd", "convert"}
    BY <1>1, <2>2, NotConfiguring DEF Landed
  <2> QED
    BY <2>1, <2>2
<1>6. Now.do \in {"dd", "else_dd"} => Top.script \notin Leaves
  <2>1. Now.do \in {"dd", "else_dd"} =>
          Top.script \in {ApplyDeploy["raw"], ApplyDeploy["qcow2"], ApplyDeploy["linux"]}
    BY <1>2 DEF Placed
  <2>2. {ApplyDeploy["raw"], ApplyDeploy["qcow2"], ApplyDeploy["linux"]} \subseteq Deploys
    BY RootsAre DEF Deploys
  <2> QED
    BY <2>1, <2>2, Apart
<1>4. CASE Now.error = "return"
  <2>1. Formatted(Top.script, Top.at) => part'.fs # "none" /\ Top.script \in Leaves
    <3>1. Formatted(Top.script, Top.at) => Top.script \in Leaves
      BY DEF Formatted, Leaves, Squashed
    <3> HIDE DEF Formatted
    <3>3. Formatted(Top.script, Top.at) => part.fs # "none"
      BY <1>2 DEF Delivers
    <3> QED
      BY ONLY <1>6, <3>1, <3>3, part'.fs = part.fs \/ Now.do \in {"dd", "else_dd"}
  <2>2. Filled(Top.script, Top.at) => part'.holds = "image"
    <3>1. Filled(Top.script, Top.at) => Top.script \in Leaves /\ Now.do # "unpack"
      BY <1>2, Reaching DEF Filled, Leaves, Squashed
    <3> HIDE DEF Filled
    <3>3. Filled(Top.script, Top.at) => part.holds = "image"
      BY <1>2 DEF Delivers
    <3> QED
      BY ONLY <1>6, <3>1, <3>3, part' = part \/ Now.do \in {"unpack", "dd", "else_dd"}
  <2>3. erred'
    BY DEF Fails
  <2>4. Top'.at = Top.at
    BY <1>1, <1>4
  <2>5. Delivers(Top)'
    BY <1>1, <2>1, <2>2, <2>3, <2>4, DeliversFailed
  <2> QED
    BY <1>1, <1>3, <2>4, <2>5, PlainStep
<1>5. CASE Now.error # "return"
  <2>1. Now.do \notin {"mkfs", "unpack", "dd", "else_dd", "convert", "update", "call"}
    BY <1>2, <1>5, Strict
  <2>2. Top'.at = Top.at + 1
    BY <1>1, <1>5
  <2>3. UNCHANGED <<part, raw>>
    BY <2>1
  <2>4. Delivers(Top)'
    BY <1>1, <2>1, <2>2, <2>3, DeliversOn
  <2>5. Top.script = ConfigureLinux => Top.at # 3
    BY <1>2, <1>5, LeavesAre DEF Must
  <2> QED
    BY <1>1, <1>3, <2>2, <2>4, <2>5, PlainStep
<1> QED
  BY <1>4, <1>5

-----------------------------------------------------------------------------
(* The instructions.                                                        *)

LEMMA Advances ==
  ASSUME InstallInv, Running, Proceed(<<>>)
  PROVE  /\ Moves /\ Top'.at = Top.at + 1 /\ Top'.cleanups = Top.cleanups /\ ~ erred'
         /\ Top'.script = Top.script
<1>1. <<>> \in Seq(CleanupShape)
  OBVIOUS
<1>2. /\ Moves /\ Top'.at = Top.at + 1 /\ Top'.cleanups = <<>> \o Top.cleanups
  BY <1>1, Proceeded DEF InstallInv
<1>3. <<>> \o Top.cleanups = Top.cleanups
  <2>1. Top.cleanups \in Seq(CleanupShape)
    BY Next1 DEF InstallInv
  <2> HIDE DEF CleanupShape
  <2> QED
    BY <2>1
<1> QED
  BY <1>2, <1>3 DEF Proceed, Moves, Top

LEMMA AdvanceStep ==
  ASSUME InstallInv, Running, Proceed(<<>>), Now.do # "mount",
         UNCHANGED <<phase, route, result, mounts, dirs, wiped>>, Delivers(Top)', Landed',
         part' \in PartShape
  PROVE  InstallInv'
<1>1. /\ Moves /\ Top'.at = Top.at + 1 /\ Top'.cleanups = Top.cleanups
  BY Advances
<1>2. Top.script = ConfigureLinux => Top.at # 3
  BY Next1, LeavesAre DEF InstallInv, Must
<1> QED
  BY <1>1, <1>2, PlainStep

\* Instructions that change nothing the invariant speaks of.
LEMMA QuietStep ==
  ASSUME InstallInv, Running,
         Now.do \notin {"mkfs", "unpack", "dd", "else_dd", "convert", "update", "call", "mount"},
         Proceed(<<>>) \/ Fails,
         UNCHANGED <<phase, route, result, part, mounts, dirs, raw, wiped>>,
         menu' = menu \/ Now.do = "write"
  PROVE  InstallInv'
<1>1. Landed' /\ part' \in PartShape
  BY DEF InstallInv, Landed, Good
<1>2. CASE Proceed(<<>>)
  <2>1. Delivers(Top)'
    BY <1>2, Advances, DeliversOn
  <2> QED
    BY <1>1, <1>2, <2>1, AdvanceStep
<1>3. CASE Fails
  BY <1>1, <1>3, FailStep
<1> QED
  BY <1>2, <1>3

\* Where the instruction is, once more.
LEMMA Here ==
  ASSUME InstallInv, Running
  PROVE  /\ Top.script \in Scripts /\ Top.at \in 1 .. Len(Top.script) /\ Top.at \in Nat \ {0}
         /\ Now = Top.script[Top.at] /\ Placed(Top.script, Top.at) /\ Delivers(Top)
         /\ frames # <<>> /\ Top \in FrameShape /\ Fits(Top) /\ Stacked /\ 1 \in DOMAIN frames
BY Next1, Stack DEF InstallInv, Top

\* Leaves owe the partition only.
LEMMA LeafDelivers ==
  ASSUME Top'.script \in Leaves, Formatted(Top'.script, Top'.at) => part'.fs # "none",
         Filled(Top'.script, Top'.at) => part'.holds = "image"
  PROVE  Delivers(Top)'
<1>1. Top'.script \notin {ApplyDeploy["linux"], ApplyDeploy["windows"], ApplyDeploy["tarball"], ApplyDeploy["wim"],
                          ApplyDeploy["qcow2"]} \union Configures
  BY Apart, RootsAre DEF Deploys
<1> HIDE DEF Formatted, Filled
<1> QED
  BY <1>1 DEF Delivers

LEMMA MkfsKeeps == InstallInv /\ Mkfs => InstallInv'
<1> SUFFICES ASSUME InstallInv, Mkfs PROVE InstallInv'
  OBVIOUS
<1>1. Running /\ Now.do = "mkfs"
  BY DEF Mkfs, Is
<1>2. CASE Proceed(<<>>) /\ part' = [fs |-> Now.on, holds |-> "nothing"]
  <2>1. /\ Top.script \in Leaves /\ Now.on \in {"ext4", "ntfs"}
        /\ ~ Filled(Top.script, Top.at + 1)
    BY <1>1, Here, Reaching DEF Placed
  <2>2. Top'.script = Top.script /\ Top'.at = Top.at + 1
    BY <1>1, <1>2, Advances
  <2>3. Delivers(Top)'
    BY <1>2, <2>1, <2>2, LeafDelivers
  <2>4. Landed' /\ part' \in PartShape
    BY <1>1, <1>2, <2>1, Here, NotConfiguring DEF Landed, Mkfs, host, PartShape
  <2> QED
    BY <1>1, <1>2, <2>3, <2>4, AdvanceStep DEF Mkfs, host
<1>3. CASE Fails /\ UNCHANGED part
  <2>1. part' \in PartShape
    BY <1>3 DEF InstallInv
  <2> QED
    BY <1>1, <1>3, <2>1, FailStep DEF Mkfs, host
<1> QED
  BY <1>2, <1>3 DEF Mkfs

LEMMA UnpackKeeps == InstallInv /\ Unpack => InstallInv'
<1> SUFFICES ASSUME InstallInv, Unpack PROVE InstallInv'
  OBVIOUS
<1>1. Running /\ Now.do = "unpack" /\ part \in PartShape
  BY DEF Unpack, Is, InstallInv
<1>2. CASE Proceed(<<>>) /\ part' = [part EXCEPT !.holds = "image"]
  <2>1. /\ Top.script \in Leaves
        /\ Formatted(Top.script, Top.at + 1) => Formatted(Top.script, Top.at)
    BY <1>1, Here, Reaching DEF Placed
  <2>2. Top'.script = Top.script /\ Top'.at = Top.at + 1
    BY <1>2, <1>1, Advances
  <2>3. Formatted(Top.script, Top.at) => part.fs # "none"
    BY <1>1, Here DEF Delivers
  <2>4. part'.fs = part.fs /\ part'.holds = "image" /\ part' \in PartShape
    BY <1>1, <1>2 DEF PartShape
  <2>5. Delivers(Top)'
    <3> HIDE DEF Formatted, Filled
    <3> QED
      BY <2>1, <2>2, <2>3, <2>4, LeafDelivers
  <2>6. Landed'
    BY <1>1, Here, NotConfiguring DEF Landed, Unpack, host
  <2> QED
    BY <1>1, <1>2, <2>4, <2>5, <2>6, AdvanceStep DEF Unpack, host
<1>3. CASE Fails /\ part' = [part EXCEPT !.holds = "half"]
  <2>1. part'.fs = part.fs /\ part' \in PartShape
    BY <1>1, <1>3 DEF PartShape
  <2> QED
    BY <1>1, <1>3, <2>1, FailStep DEF Unpack, host
<1> QED
  BY <1>2, <1>3 DEF Unpack

\* dd and the fall-back to it.
LEMMA DdKeeps == InstallInv /\ Dd => InstallInv'
<1> SUFFICES ASSUME InstallInv, Dd PROVE InstallInv'
  OBVIOUS
<1>1. Running /\ Now.do = "dd"
  BY DEF Dd, Is
<1>2. PICK fs \in {"ext4", "ntfs", "hfs", "none"} :
        \/ Proceed(<<>>) /\ part' = [fs |-> fs, holds |-> "image"]
        \/ Fails /\ part' = [fs |-> "none", holds |-> "half"]
  BY DEF Dd, WriteBlocks
<1>3. part' \in PartShape
  BY <1>2 DEF PartShape
<1>4. CASE Proceed(<<>>)
  <2>1. /\ Top'.script = Top.script /\ Top'.at = Top.at + 1 /\ Top'.cleanups = Top.cleanups
    BY <1>1, <1>4, Advances
  <2>2. Top.script \in {ApplyDeploy["raw"], ApplyDeploy["qcow2"]} /\ Delivers(Top)
        /\ Now = Top.script[Top.at] /\ Top.at \in 1 .. Len(Top.script)
    BY <1>1, Here DEF Placed
  <2>3. /\ Top.script \notin Leaves \union Configures
        /\ Top.script \notin {ApplyDeploy["linux"], ApplyDeploy["windows"], ApplyDeploy["tarball"], ApplyDeploy["wim"]}
        /\ Top.script = ApplyDeploy["qcow2"] => Top.at > 1
    <3>1. Top.script \in Deploys
      BY <2>2, RootsAre DEF Deploys
    <3>2. /\ ApplyDeploy["linux"][1].do = "call" /\ ApplyDeploy["windows"][1].do = "call"
          /\ ApplyDeploy["tarball"][1].do = "call" /\ ApplyDeploy["wim"][1].do = "call"
          /\ ApplyDeploy["raw"][1].do = "dd"
          /\ ApplyDeploy["qcow2"][1].do = "convert"
      BY RootLengths DEF Must, Try
    <3>3. Top.at # 1 \/ Top.script[1].do = "dd"
      BY <1>1, <2>2
    <3> QED
      BY <2>2, <3>1, <3>2, <3>3, Apart
  <2>4. ~ Formatted(Top.script, Top.at + 1) /\ ~ Filled(Top.script, Top.at + 1)
    BY <2>3 DEF Formatted, Filled, Leaves, Squashed
  <2>5. raw' = raw /\ \A do, d : Deferred(Top', do, d) <=> Deferred(Top, do, d)
    BY <2>1 DEF Dd, Deferred
  <2>6. Delivers(Top)'
    <3> HIDE DEF Formatted, Filled
    <3> QED
      BY <2>1, <2>2, <2>3, <2>4, <2>5 DEF Delivers
  <2>7. Landed'
    BY <1>1, Here, NotConfiguring DEF Landed, Dd, host
  <2> QED
    BY <1>1, <1>3, <1>4, <2>6, <2>7, AdvanceStep DEF Dd, host
<1>5. CASE Fails
  BY <1>1, <1>3, <1>5, FailStep DEF Dd, host
<1> QED
  BY <1>2, <1>4, <1>5

LEMMA ElseDdKeeps == InstallInv /\ ElseDd => InstallInv'
<1> SUFFICES ASSUME InstallInv, ElseDd PROVE InstallInv'
  OBVIOUS
<1>1. Running /\ Now.do = "else_dd" /\ part \in PartShape
  BY DEF ElseDd, Is, InstallInv
<1>2. \/ Proceed(<<>>) /\ erred /\ part' = [fs |-> "iso", holds |-> "image"]
      \/ Fails /\ part' = [fs |-> "none", holds |-> "half"]
      \/ Proceed(<<>>) /\ ~ erred /\ part' = part
  BY DEF ElseDd, WriteBlocks
<1>3. part' \in PartShape
  BY <1>1, <1>2 DEF PartShape
<1>4. CASE Proceed(<<>>)
  <2>1. /\ Top'.script = Top.script /\ Top'.at = Top.at + 1 /\ Top'.cleanups = Top.cleanups
    BY <1>1, <1>4, Advances
  <2>2. /\ Top.script = ApplyDeploy["linux"] /\ Delivers(Top)
        /\ Now = Top.script[Top.at] /\ Top.at \in 1 .. Len(Top.script)
    BY <1>1, Here DEF Placed
  <2>3. Top.at = 2
    BY <1>1, <2>2, RootLengths DEF Must, Try
  <2>4. Top.script \notin Leaves \union Configures
        /\ Top.script \notin {ApplyDeploy["qcow2"], ApplyDeploy["windows"], ApplyDeploy["tarball"], ApplyDeploy["wim"]}
    BY <1>1, <2>2, <2>3, Apart, RootsAre, RootLengths DEF Deploys, Must, Try
  <2>5. ~ Formatted(Top.script, Top.at + 1) /\ ~ Filled(Top.script, Top.at + 1)
    BY <2>4 DEF Formatted, Filled, Leaves, Squashed
  <2>6. Good'
    <3>1. CASE erred
      BY <1>2, <1>4, <3>1 DEF Good, Fails, Proceed
    <3>2. CASE ~ erred
      <4>1. part' = part
        BY <1>2, <1>4, <3>2 DEF Fails, Proceed
      <4> QED
        BY <2>2, <2>3, <3>2, <4>1 DEF Delivers, Good
    <3> QED
      BY <3>1, <3>2
  <2>7. Delivers(Top)'
    <3> HIDE DEF Formatted, Filled
    <3> QED
      BY <2>1, <2>2, <2>4, <2>5, <2>6 DEF Delivers
  <2>8. Landed'
    BY <1>1, Here, NotConfiguring DEF Landed, ElseDd, host
  <2> QED
    BY <1>1, <1>3, <1>4, <2>7, <2>8, AdvanceStep DEF ElseDd, host
<1>5. CASE Fails
  BY <1>1, <1>3, <1>5, FailStep DEF ElseDd, host
<1> QED
  BY <1>2, <1>4, <1>5

LEMMA HealKeeps == InstallInv /\ Heal => InstallInv'
<1> SUFFICES ASSUME InstallInv, Heal PROVE InstallInv'
  OBVIOUS
<1>1. Running /\ Now.do = "heal" /\ Proceed(<<>>) /\ part \in PartShape
  BY DEF Heal, Is, InstallInv
<1>2. Top.script = ConfigureLinux
  BY <1>1, Here DEF Placed
<1>3. Delivers(Top)'
  BY <1>1, <1>2, Advances, DeliversOn
<1>4. Landed' /\ part' \in PartShape
  BY <1>1 DEF Heal, InstallInv, Landed, Good, host, PartShape
<1> QED
  BY <1>1, <1>3, <1>4, AdvanceStep DEF Heal, host

LEMMA UpdateMenuKeeps == InstallInv /\ UpdateMenu => InstallInv'
<1> SUFFICES ASSUME InstallInv, UpdateMenu PROVE InstallInv'
  OBVIOUS
<1>1. Running /\ Now.do = "update"
  BY DEF UpdateMenu, Is
<1>2. Landed' /\ part' \in PartShape
  BY DEF UpdateMenu, InstallInv, Landed, Good
<1>3. CASE Proceed(<<>>) /\ menu' = TRUE
  <2>1. /\ Top'.script = Top.script /\ Top'.at = Top.at + 1
    BY <1>1, <1>3, Advances
  <2>2. Top.script \in Configures
    BY <1>1, Here DEF Placed
  <2>3. Top.script \notin Leaves \union {ApplyDeploy["qcow2"], ApplyDeploy["windows"],
                                         ApplyDeploy["tarball"], ApplyDeploy["wim"], ApplyDeploy["linux"]}
    BY <2>2, Apart, RootsAre DEF Deploys
  <2>4. ~ Formatted(Top.script, Top.at + 1) /\ ~ Filled(Top.script, Top.at + 1)
    BY <2>3 DEF Formatted, Filled, Leaves, Squashed
  <2>5. Delivers(Top)'
    <3>1. menu'
      BY <1>3
    <3> HIDE DEF Formatted, Filled
    <3> QED
      BY <2>1, <2>2, <2>3, <2>4, <3>1 DEF Delivers
  <2> QED
    BY <1>1, <1>2, <1>3, <2>5, AdvanceStep DEF UpdateMenu
<1>4. CASE Fails /\ UNCHANGED menu
  BY <1>1, <1>2, <1>4, FailStep DEF UpdateMenu
<1> QED
  BY <1>3, <1>4 DEF UpdateMenu

LEMMA QuietKeeps ==
  InstallInv /\ (Release \/ Find \/ Chroot \/ WriteCustom) => InstallInv'
<1> SUFFICES ASSUME InstallInv, Release \/ Find \/ Chroot \/ WriteCustom PROVE InstallInv'
  OBVIOUS
<1>1. Running /\ Now.do \in {"release", "find", "chroot", "write"} /\ (Proceed(<<>>) \/ Fails)
  BY DEF Release, Find, Chroot, WriteCustom, Is
<1>2. UNCHANGED <<phase, route, result, part, mounts, dirs, raw, wiped>>
      /\ (menu' = menu \/ Now.do = "write")
  BY DEF Release, Find, Chroot, WriteCustom, Is, host
<1> QED
  BY <1>1, <1>2, QuietStep
-----------------------------------------------------------------------------
(* Instructions that leave something to be undone.                          *)

LEMMA OwedGrows ==
  ASSUME InstallInv, frames # <<>>, Moves, UNCHANGED <<phase, route, result>>,
         \A do : \A d \in Dirs : Deferred(Top, do, d) => Deferred(Top', do, d),
         dirs' \subseteq Dirs, mounts' \in [Points -> Nat],
         \A d \in dirs' : d \in dirs \/ Deferred(Top', "RemoveAll", d),
         \A d \in Dirs : mounts'[d] <= 1,
         \A d \in Dirs : Mounted(d)' => Mounted(d) \/ Deferred(Top', "umount", d)
  PROVE  Owed'
<1>0. /\ DOMAIN frames' = 1 .. Len(frames) /\ DOMAIN frames = 1 .. Len(frames)
      /\ Len(frames) \in 1 .. 3 /\ \A k \in 2 .. Len(frames) : frames'[k] = frames[k]
  BY Moved, Stack DEF InstallInv
<1>1. /\ DOMAIN frames' = 1 .. Len(frames) /\ DOMAIN frames = 1 .. Len(frames)
      /\ 1 \in DOMAIN frames' /\ \A k \in 2 .. Len(frames) : frames'[k] = frames[k]
  BY <1>0
<1>2. \A do : \A k \in DOMAIN frames, d \in Dirs :
        Deferred(frames[k], do, d) => Deferred(frames'[k], do, d)
  <2> SUFFICES ASSUME NEW k \in DOMAIN frames, NEW do, NEW d \in Dirs, Deferred(frames[k], do, d)
               PROVE  Deferred(frames'[k], do, d)
    OBVIOUS
  <2>1. CASE k = 1
    BY <2>1 DEF Top
  <2>2. CASE k # 1
    BY <1>1, <2>2
  <2> QED
    BY <2>1, <2>2
<1>3. Owed
  BY DEF InstallInv
<1>4. ASSUME NEW d \in dirs' PROVE \E k \in DOMAIN frames' : Deferred(frames'[k], "RemoveAll", d)
  <2>1. CASE d \in dirs
    BY <1>1, <1>2, <1>3, <2>1 DEF Owed
  <2>2. CASE Deferred(Top', "RemoveAll", d)
    BY <1>1, <2>2 DEF Top
  <2> QED
    BY <2>1, <2>2
<1>5. ASSUME NEW d \in Dirs, Mounted(d)'
      PROVE  \E k \in DOMAIN frames' : Deferred(frames'[k], "umount", d)
  <2>1. CASE Mounted(d)
    BY <1>1, <1>2, <1>3, <2>1 DEF Owed
  <2>2. CASE Deferred(Top', "umount", d)
    BY <1>1, <2>2 DEF Top
  <2> QED
    BY <1>5, <2>1, <2>2
<1> QED
  BY <1>4, <1>5 DEF Owed

LEMMA Defers ==
  ASSUME InstallInv, Running, NEW x \in CleanupShape, Proceed(<<x>>),
         x.do = "RemoveAll" => Now.do = "mkdir" /\ Now.on = x.on,
         x.do = "umount" => Now.do = "mount" /\ Now.on = x.on
  PROVE  /\ Moves /\ Top'.script = Top.script /\ Top'.at = Top.at + 1 /\ Fits(Top')
         /\ frames # <<>>
         /\ \A do, d : Deferred(Top', do, d) <=> Deferred(Top, do, d) \/ x = Cleanup(do, d)
<1>1. /\ Top.script \in Scripts /\ Top.at \in 1 .. Len(Top.script) /\ Now = Top.script[Top.at]
      /\ frames # <<>> /\ Top \in FrameShape /\ Fits(Top) /\ Stacked
  BY Here
<1>2. <<x>> \in Seq(CleanupShape)
  <2> HIDE DEF CleanupShape
  <2> QED
    OBVIOUS
<1>3. Moves /\ Top'.at = Top.at + 1 /\ Top'.cleanups = <<x>> \o Top.cleanups
  BY <1>1, <1>2, Proceeded
<1>4. Top' \in FrameShape /\ Top'.script = Top.script
  BY <1>3 DEF Moves, Top
<1>5. /\ x.do = "RemoveAll" => Top.script[Top.at].do = "mkdir" /\ Top.script[Top.at].on = x.on
      /\ x.do = "umount" => Top.script[Top.at].do = "mount" /\ Top.script[Top.at].on = x.on
  BY <1>1
<1>6. /\ Fits(Top')
      /\ \A do, d : Deferred(Top', do, d) <=> Deferred(Top, do, d) \/ x = Cleanup(do, d)
  <2> HIDE DEF Top, Now, Moves, Running, Stacked, FrameShape, CleanupShape, Fits, Deferred
  <2> QED
    BY ONLY <1>1, <1>3, <1>4, <1>5, x \in CleanupShape, Pushes
<1> QED
  BY <1>1, <1>3, <1>4, <1>6

LEMMA ConvertKeeps == InstallInv /\ Convert => InstallInv'
<1> SUFFICES ASSUME InstallInv, Convert PROVE InstallInv'
  OBVIOUS
<1>1. /\ Running /\ Now.do = "convert" /\ part' = part /\ part' \in PartShape /\ ~ wiped'
      /\ UNCHANGED <<phase, route, result, mounts, dirs>>
  BY DEF Convert, Is, host, InstallInv
<1>2. CASE Proceed(<<Cleanup("Remove", "raw")>>)
  <2> DEFINE x == Cleanup("Remove", "raw")
  <2>1. x \in CleanupShape /\ x.do = "Remove"
    BY DEF CleanupShape, Cleanup
  <2>2. Proceed(<<x>>)
    BY <1>2
  <2> HIDE DEF x
  <2>3. /\ Moves /\ Top'.script = Top.script /\ Top'.at = Top.at + 1 /\ Fits(Top')
        /\ frames # <<>>
        /\ \A do, d : Deferred(Top', do, d) <=> Deferred(Top, do, d) \/ x = Cleanup(do, d)
    BY <1>1, <2>1, <2>2, Defers
  <2>4. Top.script = ApplyDeploy["qcow2"] /\ Top.script \in Deploys
    BY <1>1, Here, RootsAre DEF Placed, Deploys
  <2>5. /\ Top.script \notin Leaves \union Configures \union {ConfigureLinux}
        /\ Top.script \notin {ApplyDeploy["linux"], ApplyDeploy["windows"], ApplyDeploy["tarball"], ApplyDeploy["wim"]}
    <3>1. /\ ApplyDeploy["linux"][1].do = "call" /\ ApplyDeploy["windows"][1].do = "call"
          /\ ApplyDeploy["tarball"][1].do = "call" /\ ApplyDeploy["wim"][1].do = "call"
          /\ ApplyDeploy["qcow2"][1].do = "convert"
      BY RootLengths DEF Must, Try
    <3> QED
      BY <2>4, <3>1, Apart
  <2>6. ~ Formatted(Top'.script, Top'.at) /\ ~ Filled(Top'.script, Top'.at)
    BY <2>3, <2>5 DEF Formatted, Filled, Leaves, Squashed
  <2>7. Deferred(Top', "Remove", "raw")
    BY <2>3 DEF x
  <2>8. Delivers(Top)'
    <3> HIDE DEF Formatted, Filled, Deferred
    <3> QED
      BY <2>3, <2>5, <2>6, <2>7 DEF Delivers
  <2>9. Owed'
    BY <1>1, <2>3, OwedStays
  <2>10. Sheltered'
    <3>1. /\ Mounted("stage") => Mounted("stage")'
          /\ \A b \in BindPoints : Mounted(b)' => Mounted("stage")'
      BY <1>1 DEF InstallInv, Sheltered, Mounted
    <3> QED
      BY <1>1, <2>3, <2>5, <3>1, ShelteredStays
  <2>11. Landed'
    BY <1>1, Here, NotConfiguring DEF Landed
  <2> QED
    BY <1>1, <2>3, <2>8, <2>9, <2>10, <2>11, Step
<1>3. CASE Fails
  BY <1>1, <1>3, FailStep DEF Convert, host
<1> QED
  BY <1>2, <1>3 DEF Convert

\* Mounts come after the third instruction of ConfigureLinux.
LEMMA ShelteredOn ==
  ASSUME InstallInv, Running, Moves, Top'.at = Top.at + 1, frames # <<>>,
         UNCHANGED <<phase, route, result>>, Now.do # "mount", UNCHANGED mounts
  PROVE  Sheltered'
<1>1. Top.script = ConfigureLinux => Top.at # 3
  BY Here, LeavesAre DEF Must
<1>2. Top.script = ConfigureLinux /\ Top'.at > 3 /\ Running' => Mounted("stage")'
  BY <1>1, StageIsMounted DEF Mounted
<1>3. /\ Mounted("stage") => Mounted("stage")'
      /\ \A b \in BindPoints : Mounted(b)' => Mounted("stage")'
  BY DEF InstallInv, Sheltered, Mounted
<1> QED
  BY <1>2, <1>3, ShelteredStays

LEMMA MkdirKeeps == InstallInv /\ MkdirTemp => InstallInv'
<1> SUFFICES ASSUME InstallInv, MkdirTemp PROVE InstallInv'
  OBVIOUS
<1>1. /\ Running /\ Now.do = "mkdir" /\ ~ wiped' /\ part' \in PartShape
      /\ UNCHANGED <<phase, route, result, menu, part, mounts, raw, wiped>>
  BY DEF MkdirTemp, Is, host, InstallInv
<1>2. CASE Proceed(<<Cleanup("RemoveAll", Now.on)>>) /\ dirs' = dirs \union {Now.on}
  <2> DEFINE x == Cleanup("RemoveAll", Now.on)
  <2>0. Now.on \in Dirs
    BY <1>1, Here DEF Placed
  <2>1. x \in CleanupShape /\ x.do = "RemoveAll" /\ x.on = Now.on
    BY <2>0 DEF CleanupShape, Cleanup
  <2>2. Proceed(<<x>>)
    BY <1>2
  <2> HIDE DEF x
  <2>3. /\ Moves /\ Top'.script = Top.script /\ Top'.at = Top.at + 1 /\ Fits(Top')
        /\ frames # <<>>
        /\ \A do, d : Deferred(Top', do, d) <=> Deferred(Top, do, d) \/ x = Cleanup(do, d)
    BY <1>1, <2>1, <2>2, Defers
  <2>4. Delivers(Top)'
    BY <1>1, <2>3, DeliversOn
  <2>5. Owed'
    <3>1. Deferred(Top', "RemoveAll", Now.on)
      BY <2>3 DEF x
    <3>2. dirs' \subseteq Dirs /\ mounts' \in [Points -> Nat] /\ \A d \in Dirs : mounts'[d] <= 1
      BY <1>1, <1>2, <2>0 DEF InstallInv, Owed
    <3>3. \A d \in dirs' : d \in dirs \/ Deferred(Top', "RemoveAll", d)
      BY <1>2, <3>1
    <3>4. \A d \in Dirs : Mounted(d)' => Mounted(d)
      BY <1>1 DEF Mounted
    <3> HIDE DEF Deferred
    <3> QED
      BY <1>1, <2>3, <3>2, <3>3, <3>4, OwedGrows
  <2>6. Sheltered'
    BY <1>1, <2>3, ShelteredOn
  <2>7. Landed'
    BY <1>1 DEF InstallInv, Landed, Good
  <2> QED
    BY <1>1, <2>3, <2>4, <2>5, <2>6, <2>7, Step
<1>3. CASE Fails /\ UNCHANGED dirs
  BY <1>1, <1>3, FailStep
<1> QED
  BY <1>2, <1>3 DEF MkdirTemp

\* What is mounted once is not mounted again before it is unmounted.
LEMMA MountedOnce ==
  ASSUME InstallInv, Running, Now.do = "mount"
  PROVE  Now.on \in Dirs /\ mounts[Now.on] = 0
<1>1. /\ Top.script \in Scripts /\ Top.at \in 1 .. Len(Top.script) /\ Now = Top.script[Top.at]
      /\ Now.on \in Dirs /\ frames # <<>> /\ Stacked /\ Top.at \in Nat \ {0}
  BY Here DEF Placed
<1>2. Owed /\ Now.on \in Points
  BY <1>1 DEF InstallInv, Points
<1> SUFFICES ASSUME Mounted(Now.on) PROVE FALSE
  BY <1>1, <1>2 DEF Owed, Mounted
<1>3. PICK k \in DOMAIN frames : Deferred(frames[k], "umount", Now.on)
  BY <1>1, <1>2 DEF Owed
<1>4. Fits(frames[k]) /\ k \in 1 .. Len(frames)
  BY <1>1, Stack DEF InstallInv
<1>5. Did(frames[k], "mount", Now.on)
  BY <1>1, <1>3, <1>4 DEF Fits
<1>6. PICK m \in 1 .. frames[k].at - 1 :
        m <= Len(frames[k].script) /\ frames[k].script[m].do = "mount" /\ frames[k].script[m].on = Now.on
  BY <1>5 DEF Did
<1>7. m \in 1 .. Len(frames[k].script)
  <2>1. frames[k].script \in Scripts /\ frames[k].at \in Nat \ {0}
    BY <1>1, <1>4, Stack
  <2>2. Len(frames[k].script) \in Nat
    BY <2>1, ScriptsArePlaced
  <2> QED
    BY <1>6, <2>1, <2>2
<1>8. k = 1
  BY <1>1, <1>4, <1>6, <1>7, Alone
<1>9. m \in 1 .. Len(Top.script) /\ m \in 1 .. Top.at - 1 /\ Top.script[m].do = "mount"
      /\ Top.script[m].on = Now.on
  BY <1>6, <1>7, <1>8 DEF Top
<1>10. Top.at = m
  BY <1>1, <1>9, Once
<1> QED
  BY <1>1, <1>9, <1>10
LEMMA MountKeeps == InstallInv /\ Mount => InstallInv'
<1> SUFFICES ASSUME InstallInv, Mount PROVE InstallInv'
  OBVIOUS
<1>1. /\ Running /\ Now.do = "mount" /\ ~ wiped' /\ part' \in PartShape
      /\ UNCHANGED <<phase, route, result, menu, part, dirs, raw, wiped>>
  BY DEF Mount, Is, host, InstallInv
<1>2. CASE Proceed(<<Cleanup("umount", Now.on)>>) /\ mounts' = [mounts EXCEPT ![Now.on] = @ + 1]
  <2> DEFINE x == Cleanup("umount", Now.on)
  <2>0. Now.on \in Dirs /\ mounts[Now.on] = 0 /\ Dirs \subseteq Points
    BY <1>1, MountedOnce DEF Points
  <2>1. x \in CleanupShape /\ x.do = "umount" /\ x.on = Now.on
    BY <2>0 DEF CleanupShape, Cleanup
  <2>2. Proceed(<<x>>)
    BY <1>2
  <2> HIDE DEF x
  <2>3. /\ Moves /\ Top'.script = Top.script /\ Top'.at = Top.at + 1 /\ Fits(Top')
        /\ frames # <<>>
        /\ \A do, d : Deferred(Top', do, d) <=> Deferred(Top, do, d) \/ x = Cleanup(do, d)
    BY <1>1, <2>1, <2>2, Defers
  <2>4. Delivers(Top)'
    BY <1>1, <2>3, DeliversOn
  <2>5. /\ mounts \in [Points -> Nat] /\ mounts' \in [Points -> Nat] /\ mounts'[Now.on] = 1
        /\ \A d \in Points : d # Now.on => mounts'[d] = mounts[d]
    BY <1>2, <2>0 DEF InstallInv, Owed
  <2>6. Owed'
    <3>1. Deferred(Top', "umount", Now.on)
      BY <2>3 DEF x
    <3>2. dirs' \subseteq Dirs /\ mounts' \in [Points -> Nat] /\ \A d \in Dirs : mounts'[d] <= 1
      BY <1>1, <2>0, <2>5 DEF InstallInv, Owed
    <3>3. \A d \in Dirs : Mounted(d)' => Mounted(d) \/ Deferred(Top', "umount", d)
      BY <2>0, <2>5, <3>1 DEF Mounted
    <3> HIDE DEF Deferred
    <3> QED
      BY <1>1, <2>3, <3>2, <3>3, OwedGrows
  <2>7. Sheltered'
    <3>1. Mounted("stage") => Mounted("stage")'
      BY <2>5 DEF Mounted, Points, Dirs
    <3>2. \A b \in BindPoints : Mounted(b)' => Mounted("stage")'
      <4> SUFFICES ASSUME NEW b \in BindPoints, Mounted(b)' PROVE Mounted("stage")'
        OBVIOUS
      <4>1. b \in Points /\ b # Now.on
        BY <2>0 DEF BindPoints, Dirs, Points, Binds
      <4>2. Mounted(b)
        BY <2>5, <4>1 DEF Mounted
      <4> QED
        BY <3>1, <4>2 DEF InstallInv, Sheltered
    <3>3. Top.script = ConfigureLinux /\ Top'.at > 3 /\ Running' => Mounted("stage")'
      <4>1. CASE Top.script = ConfigureLinux /\ Top.at = 3
        <5>1. Now.on = "stage"
          BY <1>1, <4>1, Here, LeavesAre DEF Must
        <5> QED
          BY <2>5, <5>1 DEF Mounted
      <4>2. CASE Top.at # 3
        BY <1>1, <2>3, <3>1, <4>2, StageIsMounted
      <4> QED
        BY <4>1, <4>2
    <3> QED
      BY <1>1, <2>3, <3>1, <3>2, <3>3, ShelteredStays
  <2>8. Landed'
    BY <1>1 DEF InstallInv, Landed, Good
  <2> QED
    BY <1>1, <2>3, <2>4, <2>6, <2>7, <2>8, Step
<1>3. CASE Fails /\ UNCHANGED mounts
  BY <1>1, <1>3, FailStep
<1> QED
  BY <1>2, <1>3 DEF Mount

\* The functions that change root run below ConfigureLinux, on the mounted stage.
LEMMA InChroot ==
  ASSUME InstallInv, frames # <<>>, Top.script \in Chroots
  PROVE  2 \in DOMAIN frames /\ frames[2].script = ConfigureLinux /\ Mounted("stage")
<1>1. /\ Len(frames) \in 1 .. 3 /\ DOMAIN frames = 1 .. Len(frames) /\ phase # "idle" /\ Stacked
      /\ \A k \in 1 .. Len(frames) : frames[k].script \in Scripts
  BY Stack DEF InstallInv
<1>2. Len(frames) # 1
  <2> SUFFICES ASSUME Len(frames) = 1 PROVE FALSE
    OBVIOUS
  <2>1. Top.script \in {IsWindowsISO} \union Deploys \union Configures
    BY <1>1 DEF Stacked, Top, Deploys
  <2> QED
    BY <2>1, Apart
<1>3. 2 \in 2 .. Len(frames) /\ 2 \in 1 .. Len(frames) /\ 1 \in 1 .. Len(frames)
  BY <1>1, <1>2
<1>4. Nested(frames[2].script, frames[2 - 1].script)
  BY <1>1, <1>3 DEF Stacked
<1>5. frames[2].script = ConfigureLinux
  BY <1>1, <1>3, <1>4, Families DEF Top
<1>6. frames[2].at \in 4 .. 5
  BY <1>1, <1>3, <1>5, Callers
<1>7. frames[2].at > 3
  BY <1>6
<1> QED
  BY <1>1, <1>3, <1>5, <1>7 DEF InstallInv, Sheltered

LEMMA BindKeeps == InstallInv /\ Bind => InstallInv'
<1> SUFFICES ASSUME InstallInv, Bind PROVE InstallInv'
  OBVIOUS
<1>1. /\ Running /\ Now.do = "bind" /\ ~ wiped' /\ part' \in PartShape
      /\ UNCHANGED <<phase, route, result, menu, part, dirs, raw, wiped>>
  BY DEF Bind, Is, host, InstallInv
<1>2. Top.script \in Chroots /\ Now.on \in BindPoints /\ frames # <<>>
  BY <1>1, Here DEF Placed
<1>3. CASE Proceed(<<>>) /\ mounts' = [mounts EXCEPT ![Now.on] = @ + 1]
  <2>1. /\ Moves /\ Top'.at = Top.at + 1 /\ Top'.cleanups = Top.cleanups /\ Top'.script = Top.script
    BY <1>1, <1>3, Advances
  <2>2. /\ mounts \in [Points -> Nat] /\ mounts' \in [Points -> Nat]
        /\ \A d \in Points : d # Now.on => mounts'[d] = mounts[d]
        /\ Now.on \in Points /\ Now.on \notin Dirs
    <3>1. Now.on \in Points /\ Now.on \notin Dirs
      BY <1>2 DEF BindPoints, Points, Binds, Dirs
    <3>2. mounts \in [Points -> Nat]
      BY DEF InstallInv, Owed
    <3>3. QED
      BY <1>3, <3>1, <3>2
  <2>3. \A d \in Dirs : mounts'[d] = mounts[d]
    BY <2>2 DEF Points
  <2>4. Mounted("stage") /\ Mounted("stage")'
    BY <1>2, <2>3, InChroot DEF Mounted, Dirs
  <2>5. Delivers(Top)'
    BY <1>1, <2>1, DeliversOn
  <2>6. Fits(Top') /\ \A do, d : Deferred(Top', do, d) <=> Deferred(Top, do, d)
    BY <1>1, <2>1, Here, Steps DEF Moves, Top
  <2>7. Owed'
    <3>1. dirs' \subseteq Dirs /\ mounts' \in [Points -> Nat] /\ \A d \in Dirs : mounts'[d] <= 1
      BY <1>1, <2>2, <2>3 DEF InstallInv, Owed
    <3>2. \A d \in Dirs : Mounted(d)' => Mounted(d)
      BY <2>3 DEF Mounted
    <3> HIDE DEF Deferred
    <3> QED
      BY <1>1, <1>2, <2>1, <2>6, <3>1, <3>2, OwedGrows
  <2>8. Sheltered'
    BY <1>1, <1>2, <2>1, <2>4, ShelteredStays
  <2>9. Landed'
    BY <1>1 DEF InstallInv, Landed, Good
  <2> QED
    BY <1>1, <1>2, <2>1, <2>5, <2>6, <2>7, <2>8, <2>9, Step
<1>4. CASE Fails /\ UNCHANGED mounts
  BY <1>1, <1>4, FailStep
<1> QED
  BY <1>3, <1>4 DEF Bind

LEMMA UnbindLaterKeeps == InstallInv /\ UnbindLater => InstallInv'
<1> SUFFICES ASSUME InstallInv, UnbindLater PROVE InstallInv'
  OBVIOUS
<1> DEFINE b == [i \in 1 .. 4 |-> Cleanup("umount", Binds[5 - i])]
<1>1. /\ Running /\ Now.do = "unbind_later" /\ ~ wiped' /\ part' \in PartShape /\ Proceed(b)
      /\ UNCHANGED <<phase, route, result, menu, part, mounts, dirs, raw, wiped>>
  BY DEF UnbindLater, Is, host, InstallInv
<1>2. Top.script \in Chroots /\ frames # <<>> /\ Fits(Top) /\ Top \in FrameShape /\ Stacked
  BY <1>1, Here DEF Placed
<1>3. b \in Seq(CleanupShape)
  <2>1. \A i \in 1 .. 4 : b[i] \in CleanupShape
    <3>1. \A i \in 1 .. 4 : b[i] = Cleanup("umount", Binds[5 - i]) /\ Binds[5 - i] \in Points
      BY DEF Points, Binds
    <3> HIDE DEF b
    <3> QED
      BY <3>1 DEF CleanupShape
  <2>2. b = [i \in 1 .. 4 |-> b[i]]
    OBVIOUS
  <2> HIDE DEF b, CleanupShape
  <2> QED
    BY <2>1, <2>2, Listing
<1>4. Moves /\ Top'.at = Top.at + 1 /\ Top'.cleanups = b \o Top.cleanups
  <2> HIDE DEF b
  <2> QED
    BY <1>1, <1>2, <1>3, Proceeded
<1>5. Top' \in FrameShape /\ Top'.script = Top.script
  BY <1>4 DEF Moves, Top
<1>6. /\ Fits(Top')
      /\ \A do, d : Deferred(Top, do, d) => Deferred(Top', do, d)
  <2> HIDE DEF Top, Moves, FrameShape, Fits, Deferred
  <2> QED
    BY ONLY <1>2, <1>4, <1>5, PushesBinds
<1> HIDE DEF b
<1>7. Delivers(Top)'
  BY <1>1, <1>4, DeliversOn
<1>8. Owed'
  BY <1>1, <1>2, <1>4, <1>6, OwedStays
<1>9. Sheltered'
  BY <1>1, <1>2, <1>4, ShelteredOn
<1>10. Landed'
  BY <1>1 DEF InstallInv, Landed, Good
<1> QED
  BY <1>1, <1>2, <1>4, <1>6, <1>7, <1>8, <1>9, <1>10, Step
-----------------------------------------------------------------------------
(* Calls and returns.                                                       *)

LEMMA CallKeeps == InstallInv /\ Call => InstallInv'
<1> SUFFICES ASSUME InstallInv, Call PROVE InstallInv'
  OBVIOUS
<1>1. PICK script \in Functions(Now.on) : frames' = <<Frame(script)>> \o frames
  BY DEF Call, Calls
<1>2. /\ Running /\ Now.do = "call"
      /\ UNCHANGED <<erred, phase, image, pipeline, route, part, mounts, dirs, raw, menu, result, wiped>>
  BY DEF Call, Calls, Is, host
<1>3. /\ Top.script \in Scripts /\ Top.at \in 1 .. Len(Top.script) /\ Now = Top.script[Top.at]
      /\ frames # <<>> /\ Stacked
  BY <1>2, Here
<1>4. Calling(Top.script, Top.at)
  BY <1>2, <1>3, CallsAreNested
<1>5. script \in Scripts /\ Nested(Top.script, script)
  BY <1>1, <1>3, <1>4 DEF Calling
<1>6. Len(frames) \in 1 .. 3 /\ DOMAIN frames = 1 .. Len(frames) /\ frames \in Seq(FrameShape)
      /\ phase # "idle" /\ result = "none"
      /\ \A k \in 1 .. Len(frames) : frames[k].script \in Scripts
  BY <1>3, Stack DEF Stacked
<1>7. Len(frames) # 3
  <2> SUFFICES ASSUME Len(frames) = 3 PROVE FALSE
    OBVIOUS
  <2>1. Nested(frames[3].script, frames[3 - 1].script) /\ Nested(frames[2].script, frames[2 - 1].script)
    BY <1>3 DEF Stacked
  <2>2. frames[2].script = ConfigureLinux
    BY <1>6, <2>1, Families, Apart
  <2>3. Top.script \in Chroots
    BY <1>6, <2>1, <2>2, Families DEF Top
  <2> QED
    BY <1>4, <2>3, Apart, RootsAre DEF Calling, Deploys, Configures
<1> DEFINE x == Frame(script)
<1>8. /\ x \in FrameShape /\ x.script = script /\ x.at = 1 /\ x.cleanups = <<>>
  BY <1>5 DEF Frame, FrameShape
<1>9. frames' = <<x>> \o frames
  BY <1>1
<1> HIDE DEF x
<1>10. /\ frames' \in Seq(FrameShape) /\ Len(frames') = Len(frames) + 1
       /\ DOMAIN frames' = 1 .. Len(frames) + 1 /\ frames'[1] = x
       /\ \A k \in 1 .. Len(frames) : frames'[k + 1] = frames[k]
       /\ \A k \in DOMAIN frames' : k = 1 \/ (k - 1 \in 1 .. Len(frames) /\ frames'[k] = frames[k - 1])
  <2> HIDE DEF FrameShape
  <2> QED
    BY ONLY <1>6, <1>8, <1>9, Prepended
<1>11. Stacked'
  <2>1. frames' # <<>> /\ Len(frames') <= 3
    BY <1>6, <1>7, <1>10
  <2>2. frames'[Len(frames')] = frames[Len(frames)]
    BY <1>6, <1>10
  <2>3. ASSUME NEW k \in 2 .. Len(frames')
        PROVE  /\ Nested(frames'[k].script, frames'[k - 1].script)
               /\ frames'[k].at <= Len(frames'[k].script) /\ ~ frames'[k].failed
               /\ frames'[k].script[frames'[k].at].do = "call"
    <3>1. CASE k = 2
      <4>1. frames'[2] = Top /\ frames'[1].script = script
        BY <1>6, <1>8, <1>10 DEF Top
      <4> QED
        BY <1>2, <1>5, <3>1, <4>1 DEF Running, Now
    <3>2. CASE k # 2
      <4>1. k - 1 \in 2 .. Len(frames) /\ k \in DOMAIN frames' /\ k - 1 \in DOMAIN frames'
            /\ k # 1 /\ k - 1 # 1
        BY <1>6, <1>10, <3>2
      <4>2. frames'[k] = frames[k - 1] /\ frames'[k - 1] = frames[k - 1 - 1]
        BY <1>10, <4>1
      <4> QED
        BY <1>3, <4>1, <4>2 DEF Stacked
    <3> QED
      BY <3>1, <3>2
  <2> QED
    BY <1>2, <1>3, <1>6, <1>10, <2>1, <2>2, <2>3 DEF Stacked
<1>12. \A k \in DOMAIN frames' : Fits(frames'[k])
  <2>1. Fits(x)
    BY <1>8 DEF Fits, Deferred
  <2> HIDE DEF Fits
  <2> QED
    BY <1>6, <1>10, <2>1 DEF InstallInv
<1>13. Owed'
  <2>1. \A do, d : \A k \in DOMAIN frames : Deferred(frames[k], do, d) =>
          k + 1 \in DOMAIN frames' /\ Deferred(frames'[k + 1], do, d)
    BY <1>6, <1>10
  <2>2. \A d \in dirs : \E k \in DOMAIN frames' : Deferred(frames'[k], "RemoveAll", d)
    BY <2>1 DEF InstallInv, Owed
  <2>3. \A d \in Dirs : Mounted(d) => \E k \in DOMAIN frames' : Deferred(frames'[k], "umount", d)
    BY <2>1 DEF InstallInv, Owed
  <2> HIDE DEF Deferred
  <2> QED
    BY <1>2, <2>2, <2>3 DEF InstallInv, Owed, Mounted
<1>14. Sheltered'
  <2>1. ASSUME NEW k \in DOMAIN frames', frames'[k].script = ConfigureLinux, frames'[k].at > 3
        PROVE  Mounted("stage")
    <3>1. k # 1
      BY <1>8, <1>10, <2>1
    <3>2. k - 1 \in DOMAIN frames /\ frames'[k] = frames[k - 1] /\ (k - 1 > 1 \/ Running)
      BY <1>2, <1>6, <1>10, <3>1
    <3> QED
      BY <2>1, <3>2 DEF InstallInv, Sheltered
  <2> QED
    BY <1>2, <2>1 DEF InstallInv, Sheltered, Mounted
<1>15. \A k \in DOMAIN frames' : Delivers(frames[k])'
  <2>1. ~ Formatted(x.script, x.at) /\ ~ Filled(x.script, x.at)
    BY <1>8 DEF Formatted, Filled
  <2> SUFFICES ASSUME NEW k \in DOMAIN frames' PROVE Delivers(frames[k])'
    OBVIOUS
  <2>2. CASE k = 1
    <3> HIDE DEF Formatted, Filled
    <3> QED
      BY <1>8, <1>10, <2>1, <2>2 DEF Delivers
  <2>3. CASE k # 1
    <3>1. k - 1 \in DOMAIN frames /\ frames'[k] = frames[k - 1]
      BY <1>6, <1>10, <2>3
    <3>2. Delivers(frames[k - 1])
      BY <3>1 DEF InstallInv
    <3> HIDE DEF Formatted, Filled, Deferred
    <3> QED
      BY <1>2, <3>1, <3>2 DEF Delivers, Good
  <2> QED
    BY <2>2, <2>3
<1> QED
  BY <1>2, <1>11, <1>12, <1>13, <1>14, <1>15
     DEF InstallInv, Landed, Good, SuccessIsWhole, NothingIsLeft

LEMMA Returned ==
  ASSUME NEW S, NEW s \in Seq(S), Len(s) > 1, NEW x \in S, NEW t,
         t = <<x>> \o SubSeq(s, 3, Len(s))
  PROVE  /\ t \in Seq(S) /\ Len(t) = Len(s) - 1 /\ DOMAIN t = 1 .. Len(s) - 1 /\ t[1] = x
         /\ \A k \in 2 .. Len(s) - 1 : t[k] = s[k + 1]
<1> DEFINE r == SubSeq(s, 3, Len(s))
<1>1. /\ r \in Seq(S) /\ Len(r) = Len(s) - 2 /\ \A i \in 1 .. Len(s) - 2 : r[i] = s[i + 2]
  <2>1. Len(s) \in Nat /\ 3 \in Int /\ \A i \in 3 .. Len(s) : s[i] \in S
    OBVIOUS
  <2>2. /\ SubSeq(s, 3, Len(s)) \in Seq(S)
        /\ Len(SubSeq(s, 3, Len(s))) = IF 3 <= Len(s) THEN Len(s) - 3 + 1 ELSE 0
        /\ \A i \in 1 .. Len(s) - 3 + 1 : SubSeq(s, 3, Len(s))[i] = s[3 + i - 1]
    BY <2>1, SubSeqProperties
  <2>3. r = SubSeq(s, 3, Len(s))
    OBVIOUS
  <2> HIDE DEF r
  <2>4. r \in Seq(S) /\ Len(r) = Len(s) - 2
    <3>1. r \in Seq(S) /\ Len(r) = IF 3 <= Len(s) THEN Len(s) - 3 + 1 ELSE 0
      BY ONLY <2>2, <2>3
    <3>2. (IF 3 <= Len(s) THEN Len(s) - 3 + 1 ELSE 0) = Len(s) - 2
      <4>1. ASSUME NEW n \in Nat, n > 1
            PROVE  (IF 3 <= n THEN n - 3 + 1 ELSE 0) = n - 2
        BY <4>1
      <4> QED
        BY ONLY <2>1, <4>1, Len(s) > 1
    <3> QED
      BY ONLY <3>1, <3>2
  <2>5. ASSUME NEW i \in 1 .. Len(s) - 2 PROVE r[i] = s[i + 2]
    <3>1. i \in 1 .. Len(s) - 3 + 1 /\ 3 + i - 1 = i + 2
      BY <2>1
    <3>2. r[i] = s[3 + i - 1]
      BY ONLY <2>2, <2>3, <3>1
    <3> QED
      BY <3>1, <3>2
  <2> QED
    BY <2>4, <2>5
<1>2. t = <<x>> \o r
  OBVIOUS
<1> HIDE DEF r
<1>3. /\ t \in Seq(S) /\ Len(t) = Len(r) + 1 /\ DOMAIN t = 1 .. Len(r) + 1 /\ t[1] = x
      /\ \A i \in 1 .. Len(r) : t[i + 1] = r[i]
  BY <1>1, <1>2, Prepended
<1>4. ASSUME NEW k \in 2 .. Len(s) - 1 PROVE t[k] = s[k + 1]
  <2>1. k - 1 \in 1 .. Len(r) /\ k - 1 \in 1 .. Len(s) - 2 /\ (k - 1) + 1 = k /\ (k - 1) + 2 = k + 1
    BY <1>1
  <2> QED
    BY <1>1, <1>3, <2>1
<1> QED
  BY <1>1, <1>3, <1>4
LEMMA Resumed ==
  ASSUME NEW f \in FrameShape, NEW g, g = [f EXCEPT !.at = f.at + 1, !.failed = FALSE]
  PROVE  /\ g \in FrameShape /\ g.script = f.script /\ g.cleanups = f.cleanups
         /\ g.at = f.at + 1 /\ g.failed = FALSE
<1>1. f.at + 1 \in Nat \ {0}
  BY DEF FrameShape
<1> QED
  BY <1>1 DEF FrameShape

LEMMA Aborted ==
  ASSUME NEW f \in FrameShape, NEW g, g = [f EXCEPT !.at = f.at, !.failed = TRUE]
  PROVE  /\ g \in FrameShape /\ g.script = f.script /\ g.cleanups = f.cleanups
         /\ g.at = f.at /\ g.failed = TRUE
BY DEF FrameShape

\* A function that has come to its end without an error has done all of it.
LEMMA Completed ==
  ASSUME InstallInv, Returning, ~ Top.failed
  PROVE  Top.at > Len(Top.script) /\ (Top.script \in Leaves => Good)
<1>1. frames # <<>> /\ Top.at > Len(Top.script) /\ Top.at \in Nat \ {0} /\ Delivers(Top)
  <2>1. frames # <<>> /\ ~ (Top.at <= Len(Top.script))
    BY DEF Returning, Running
  <2>2. /\ Top.at \in Nat \ {0} /\ Top.script \in Scripts /\ 1 \in DOMAIN frames
    BY <2>1, Stack DEF InstallInv, Top
  <2>3. Len(Top.script) \in Nat
    BY <2>2, ScriptsArePlaced
  <2> QED
    BY <2>1, <2>2, <2>3 DEF InstallInv, Top
<1>2. ASSUME Top.script \in Leaves PROVE Good
  <2>1. Formatted(Top.script, Top.at) /\ Filled(Top.script, Top.at)
    BY <1>1, <1>2, Finished
  <2> HIDE DEF Formatted, Filled
  <2> QED
    BY <1>1, <2>1 DEF Delivers, Good
<1> QED
  BY <1>1, <1>2

LEMMA ReturnKeeps == InstallInv /\ Return => InstallInv'
<1> SUFFICES ASSUME InstallInv, Return PROVE InstallInv'
  OBVIOUS
<1> DEFINE caller == frames[2]
           lost == Top.failed /\ caller.script[caller.at].error = "return"
           g == [caller EXCEPT !.at = IF lost THEN @ ELSE @ + 1, !.failed = lost]
<1>1. /\ Returning /\ Top.cleanups = <<>> /\ Len(frames) > 1 /\ erred' = Top.failed
      /\ frames' = <<g>> \o SubSeq(frames, 3, Len(frames)) /\ frames # <<>>
      /\ UNCHANGED <<phase, image, pipeline, route, part, mounts, dirs, raw, menu, result, wiped>>
  BY DEF Return, Returning, host
<1>2. /\ Stacked /\ Len(frames) \in 2 .. 3 /\ DOMAIN frames = 1 .. Len(frames)
      /\ frames \in Seq(FrameShape) /\ phase # "idle" /\ result = "none"
      /\ Top.failed \in BOOLEAN /\ caller \in FrameShape /\ caller.at \in Nat \ {0}
      /\ caller.script \in Scripts /\ Top.script \in Scripts
  <2>1. Stacked /\ frames \in Seq(FrameShape)
    BY DEF InstallInv, Stacked
  <2>2. Len(frames) \in 2 .. 3 /\ 2 \in 1 .. Len(frames) /\ 1 \in 1 .. Len(frames)
    BY <1>1, <2>1, Stack
  <2> QED
    BY <1>1, <2>1, <2>2, Stack DEF Top
<1>3. /\ Nested(caller.script, Top.script) /\ caller.at <= Len(caller.script)
      /\ ~ caller.failed /\ caller.script[caller.at].do = "call" /\ 2 \in 2 .. Len(frames)
  <2>1. 2 \in 2 .. Len(frames) /\ frames[2 - 1] = Top
    BY <1>2 DEF Top
  <2> QED
    BY <1>2, <2>1 DEF Stacked
<1>4. /\ g \in FrameShape /\ g.script = caller.script /\ g.cleanups = caller.cleanups
      /\ g.at = (IF lost THEN caller.at ELSE caller.at + 1) /\ g.failed = lost
  <2>1. lost \in BOOLEAN
    BY <1>2
  <2>2. g = [caller EXCEPT !.at = IF lost THEN @ ELSE @ + 1, !.failed = lost]
    OBVIOUS
  <2> HIDE DEF lost, caller, g, FrameShape
  <2> QED
    <3>0. caller \in FrameShape /\ caller.at + 1 \in Nat \ {0}
      BY <1>2
    <3>1. CASE lost
      <4>1. g = [caller EXCEPT !.at = caller.at, !.failed = TRUE]
        BY ONLY <2>2, <3>1
      <4>2. /\ g \in FrameShape /\ g.script = caller.script /\ g.cleanups = caller.cleanups
            /\ g.at = caller.at /\ g.failed = TRUE
        BY ONLY <3>0, <4>1, Aborted
      <4> QED
        BY ONLY <3>1, <4>2
    <3>2. CASE ~ lost
      <4>1. g = [caller EXCEPT !.at = caller.at + 1, !.failed = FALSE]
        BY ONLY <2>1, <2>2, <3>2
      <4>2. /\ g \in FrameShape /\ g.script = caller.script /\ g.cleanups = caller.cleanups
            /\ g.at = caller.at + 1 /\ g.failed = FALSE
        BY ONLY <3>0, <4>1, Resumed
      <4> QED
        BY ONLY <2>1, <3>2, <4>2
    <3> QED
      BY <3>1, <3>2
<1> HIDE DEF g
<1>5. /\ frames' \in Seq(FrameShape) /\ Len(frames') = Len(frames) - 1
      /\ DOMAIN frames' = 1 .. Len(frames) - 1 /\ frames'[1] = g
      /\ \A k \in 2 .. Len(frames) - 1 : frames'[k] = frames[k + 1]
  <2> HIDE DEF FrameShape, Top
  <2> QED
    BY ONLY <1>1, <1>2, <1>4, Returned
<1>6. \A k \in DOMAIN frames' : k = 1 \/ (k \in 2 .. Len(frames) - 1 /\ k + 1 \in 3 .. Len(frames)
                                            /\ frames'[k] = frames[k + 1])
  BY <1>2, <1>5
<1>7. Stacked'
  <2>1. frames' # <<>> /\ Len(frames') <= 3
    BY <1>2, <1>5
  <2>2. frames'[Len(frames')].script = frames[Len(frames)].script
    <3>1. CASE Len(frames) = 2
      BY <1>4, <1>5, <3>1
    <3>2. CASE Len(frames) = 3
      BY <1>5, <3>2
    <3> QED
      BY <1>2, <3>1, <3>2
  <2>3. ASSUME NEW k \in 2 .. Len(frames')
        PROVE  /\ Nested(frames'[k].script, frames'[k - 1].script)
               /\ frames'[k].at <= Len(frames'[k].script) /\ ~ frames'[k].failed
               /\ frames'[k].script[frames'[k].at].do = "call"
    <3>1. k = 2 /\ Len(frames) = 3 /\ 3 \in 2 .. Len(frames)
      <4>1. Len(frames') = Len(frames) - 1
        BY <1>5
      <4> QED
        BY <1>2, <4>1
    <3>2. frames'[2] = frames[3] /\ frames'[1].script = frames[3 - 1].script
      BY <1>4, <1>5, <3>1
    <3> QED
      BY <1>2, <3>1, <3>2 DEF Stacked
  <2> QED
    BY <1>1, <1>2, <1>5, <2>1, <2>2, <2>3 DEF Stacked
<1>8. Fits(g) /\ \A do, d : Deferred(g, do, d) <=> Deferred(caller, do, d)
  <2>1. Fits(caller) /\ g.at \in {caller.at, caller.at + 1}
    BY <1>2, <1>4 DEF InstallInv
  <2> HIDE DEF FrameShape, Fits, Deferred, caller
  <2> QED
    BY ONLY <1>2, <1>4, <2>1, Steps
<1>9. \A k \in DOMAIN frames' : Fits(frames'[k])
  <2> HIDE DEF Fits
  <2> QED
    BY <1>2, <1>5, <1>6, <1>8 DEF InstallInv
<1>10. Owed'
  <2>1. ASSUME NEW k \in DOMAIN frames, NEW do, NEW d, Deferred(frames[k], do, d)
        PROVE  \E n \in DOMAIN frames' : Deferred(frames'[n], do, d)
    <3>1. k # 1
      BY <1>1, <2>1 DEF Deferred, Top
    <3>2. CASE k = 2
      <4>1. 1 \in DOMAIN frames' /\ Deferred(frames'[1], do, d)
        BY <1>2, <1>5, <1>8, <2>1, <3>2
      <4> QED
        BY <4>1
    <3>3. CASE k = 3
      <4>1. 2 \in DOMAIN frames' /\ frames'[2] = frames[3]
        BY <1>2, <1>5, <3>3
      <4> QED
        BY <2>1, <3>3, <4>1
    <3> QED
      BY <1>2, <3>1, <3>2, <3>3
  <2> HIDE DEF Deferred
  <2>2. \A d \in dirs : \E k \in DOMAIN frames' : Deferred(frames'[k], "RemoveAll", d)
    BY <2>1 DEF InstallInv, Owed
  <2>3. \A d \in Dirs : Mounted(d) => \E k \in DOMAIN frames' : Deferred(frames'[k], "umount", d)
    BY <2>1 DEF InstallInv, Owed
  <2> QED
    BY <1>1, <2>2, <2>3 DEF InstallInv, Owed, Mounted
<1>11. Sheltered'
  <2>1. ASSUME NEW k \in DOMAIN frames', frames'[k].script = ConfigureLinux, frames'[k].at > 3
        PROVE  Mounted("stage")
    <3>1. CASE k = 1
      <4>1. caller.script = ConfigureLinux /\ caller.at \in 4 .. 5
        BY <1>2, <1>3, <1>4, <1>5, <2>1, <3>1, Callers
      <4>2. 2 \in DOMAIN frames /\ caller.at > 3
        BY <1>2, <4>1
      <4> QED
        BY <4>1, <4>2 DEF InstallInv, Sheltered
    <3>2. CASE k # 1
      <4>1. k + 1 \in DOMAIN frames /\ frames'[k] = frames[k + 1] /\ k + 1 > 1
        BY <1>2, <1>6, <3>2
      <4> QED
        BY <2>1, <4>1 DEF InstallInv, Sheltered
    <3> QED
      BY <3>1, <3>2
  <2> QED
    BY <1>1, <2>1 DEF InstallInv, Sheltered, Mounted
<1>12. /\ caller.script \in Deploys \union Configures \union {ConfigureLinux}
       /\ caller.script # ApplyDeploy["qcow2"]
       /\ caller.script \in {ApplyDeploy["linux"], ApplyDeploy["windows"],
                             ApplyDeploy["tarball"], ApplyDeploy["wim"]} => caller.at = 1
       /\ caller.script \in Configures => caller.at = 1
  BY <1>2, <1>3, Callers
<1>13. Delivers(Top)'
  <2>0. /\ Top'.script = caller.script /\ Top'.at = (IF lost THEN caller.at ELSE caller.at + 1)
        /\ erred' = Top.failed /\ part' = part /\ Good' = Good
    BY <1>1, <1>4, <1>5 DEF Top, Good
  <2>1. caller.script \notin Leaves
    BY <1>12, Apart
  <2>2. ~ Formatted(Top'.script, Top'.at) /\ ~ Filled(Top'.script, Top'.at)
    BY <2>0, <2>1 DEF Formatted, Filled, Leaves, Squashed
  <2>3. ASSUME caller.script \in {ApplyDeploy["linux"], ApplyDeploy["windows"], ApplyDeploy["tarball"], ApplyDeploy["wim"]},
               ~ Top.failed
        PROVE  Good
    <3>1. caller.script \in Deploys
      BY <2>3, RootsAre DEF Deploys
    <3>2. Top.script \in Leaves
      BY <1>2, <1>3, <3>1, Families
    <3> QED
      BY <1>1, <2>3, <3>2, Completed
  <2>4. caller.script \in {ApplyDeploy["windows"], ApplyDeploy["tarball"], ApplyDeploy["wim"]} /\ Top.failed => lost
    <3>1. ApplyDeploy["windows"][1].error = "return" /\ ApplyDeploy["tarball"][1].error = "return"
          /\ ApplyDeploy["wim"][1].error = "return"
      BY RootLengths DEF Must
    <3> QED
      BY <1>12, <3>1
  <2>5. /\ Top'.at \in {caller.at, caller.at + 1} /\ (lost => Top'.at = caller.at)
    BY <2>0
  <2> HIDE DEF Formatted, Filled, lost, caller, Good, Deferred
  <2> QED
    BY <1>2, <1>12, <2>0, <2>2, <2>3, <2>4, <2>5 DEF Delivers
<1>14. \A k \in DOMAIN frames' : Delivers(frames[k])'
  <2> SUFFICES ASSUME NEW k \in DOMAIN frames' PROVE Delivers(frames[k])'
    OBVIOUS
  <2>1. CASE k = 1
    BY <1>13, <2>1 DEF Top
  <2>2. CASE k # 1
    <3>1. k + 1 \in 2 .. Len(frames) /\ frames'[k] = frames[k + 1]
      BY <1>2, <1>6, <2>2
    <3>2. /\ ~ Formatted(frames[k + 1].script, frames[k + 1].at)
          /\ ~ Filled(frames[k + 1].script, frames[k + 1].at)
          /\ frames[k + 1].script # ApplyDeploy["qcow2"]
          /\ frames[k + 1].script \in {ApplyDeploy["linux"], ApplyDeploy["windows"],
                                       ApplyDeploy["tarball"], ApplyDeploy["wim"]} => frames[k + 1].at = 1
          /\ frames[k + 1].script \in Configures => frames[k + 1].at = 1
      BY <1>2, <3>1, Callers
    <3> HIDE DEF Formatted, Filled
    <3> QED
      BY <3>1, <3>2 DEF Delivers
  <2> QED
    BY <2>1, <2>2
<1> QED
  BY <1>1, <1>2, <1>7, <1>9, <1>10, <1>11, <1>14
     DEF InstallInv, Landed, Good, SuccessIsWhole, NothingIsLeft
-----------------------------------------------------------------------------
(* What was deferred is done.                                               *)

LEMMA Shortened ==
  ASSUME NEW f \in FrameShape, f.cleanups # <<>>, NEW g, g = [f EXCEPT !.cleanups = Tail(@)]
  PROVE  /\ g \in FrameShape /\ g.script = f.script /\ g.at = f.at /\ g.failed = f.failed
         /\ g.cleanups = Tail(f.cleanups)
<1>1. f.cleanups \in Seq(CleanupShape)
  BY DEF FrameShape
<1> HIDE DEF CleanupShape
<1>2. Tail(f.cleanups) \in Seq(CleanupShape)
  BY <1>1
<1> QED
  BY <1>2 DEF FrameShape

\* umount -l takes one mount, and what is below it.
LEMMA Unmounts ==
  ASSUME mounts \in [Points -> Nat], NEW d \in Points, Unmount(d)
  PROVE  /\ mounts' \in [Points -> Nat] /\ \A x \in Points : mounts'[x] <= mounts[x]
         /\ Mounted(d) => mounts'[d] = mounts[d] - 1
         /\ \A x \in Dirs \ {d} : mounts'[x] = mounts[x]
         /\ d = "stage" /\ Mounted(d) => \A b \in BindPoints : mounts'[b] <= mounts[d] - 1
<1> DEFINE after(x) == CASE x = d /\ Mounted(d) -> mounts[d] - 1
                         [] x \in Below(d) /\ mounts[x] >= mounts[d] /\ Mounted(d) -> mounts[d] - 1
                         [] OTHER -> mounts[x]
<1>1. mounts' = [x \in Points |-> after(x)]
  BY DEF Unmount
<1>2. mounts[d] \in Nat /\ (Mounted(d) <=> mounts[d] > 0)
  BY DEF Mounted
<1>3. d \notin Below(d) /\ Below(d) \subseteq BindPoints /\ Dirs \cap BindPoints = {}
  BY DEF Below, Dirs, BindPoints, Binds
<1>4. ASSUME NEW x \in Points
      PROVE  /\ after(x) \in Nat /\ after(x) <= mounts[x]
             /\ x = d /\ Mounted(d) => after(x) = mounts[d] - 1
             /\ x # d /\ x \notin Below(d) => after(x) = mounts[x]
             /\ x \in Below(d) /\ Mounted(d) => after(x) <= mounts[d] - 1
  <2>1. mounts[x] \in Nat
    OBVIOUS
  <2>2. CASE x = d /\ Mounted(d)
    <3>1. after(x) = mounts[d] - 1
      BY <2>2
    <3> QED
      BY <1>2, <1>3, <2>1, <2>2, <3>1
  <2>3. CASE ~ (x = d /\ Mounted(d)) /\ x \in Below(d) /\ mounts[x] >= mounts[d] /\ Mounted(d)
    <3>1. after(x) = mounts[d] - 1
      BY <2>3
    <3> QED
      BY <1>2, <1>3, <2>1, <2>3, <3>1
  <2>4. CASE ~ (x = d /\ Mounted(d)) /\ ~ (x \in Below(d) /\ mounts[x] >= mounts[d] /\ Mounted(d))
    <3>1. after(x) = mounts[x]
      BY <2>4
    <3> QED
      BY <1>2, <1>3, <2>1, <2>4, <3>1
  <2> QED
    BY <2>2, <2>3, <2>4
<1> HIDE DEF after
<1>5. mounts' \in [Points -> Nat] /\ \A x \in Points : mounts'[x] = after(x)
  BY <1>1, <1>4
<1>6. Dirs \subseteq Points /\ BindPoints \subseteq Points /\ (d = "stage" => Below(d) = BindPoints)
  BY DEF Points, Dirs, BindPoints, Binds, Below
<1> QED
  BY <1>3, <1>4, <1>5, <1>6

\* What RemoveAll goes through is not mounted: a function unmounts a directory
\* before it removes it, and no other uses one at the same time.
LEMMA RemovesUnmounted ==
  ASSUME InstallInv, frames # <<>>, NEW d \in Dirs, NEW i \in DOMAIN Top.cleanups,
         Top.cleanups[i] = Cleanup("RemoveAll", d),
         \A j \in DOMAIN Top.cleanups : i <= j
  PROVE  ~ Mounted(d)
<1> SUFFICES ASSUME Mounted(d) PROVE FALSE
  OBVIOUS
<1>1. /\ Stacked /\ Owed /\ Fits(Top) /\ 1 \in DOMAIN frames /\ DOMAIN frames = 1 .. Len(frames)
      /\ Top.script \in Scripts /\ Top.at \in Nat \ {0} /\ Top.cleanups \in Seq(CleanupShape)
  BY Stack DEF InstallInv, Top
<1>2. PICK k \in DOMAIN frames : Deferred(frames[k], "umount", d)
  BY <1>1 DEF Owed
<1>3. Did(frames[k], "mount", d)
  <2>1. Fits(frames[k])
    BY DEF InstallInv
  <2> QED
    BY <1>2, <2>1 DEF Fits
<1>4. PICK m \in 1 .. frames[k].at - 1 :
        m <= Len(frames[k].script) /\ frames[k].script[m].do = "mount" /\ frames[k].script[m].on = d
  BY <1>3 DEF Did
<1>5. m \in 1 .. Len(frames[k].script)
  <2>1. frames[k].script \in Scripts /\ frames[k].at \in Nat \ {0}
    BY <1>1, Stack
  <2>2. Len(frames[k].script) \in Nat
    BY <2>1, ScriptsArePlaced
  <2> QED
    BY <1>4, <2>1, <2>2
<1>6. Did(Top, "mkdir", d)
  BY <1>1 DEF Fits, Deferred
<1>7. PICK n \in 1 .. Top.at - 1 : n <= Len(Top.script) /\ Top.script[n].do = "mkdir" /\ Top.script[n].on = d
  BY <1>6 DEF Did
<1>8. n \in 1 .. Len(Top.script)
  <2>1. Len(Top.script) \in Nat
    BY <1>1, ScriptsArePlaced
  <2> QED
    BY <1>1, <1>7, <2>1
<1>9. k = 1
  <2>1. k \in 1 .. Len(frames) /\ frames[k].script[m].do \in {"mkdir", "mount"}
        /\ Top.script[n].do \in {"mkdir", "mount"}
    BY <1>1, <1>4, <1>7
  <2> QED
    BY ONLY <1>1, <1>5, <1>8, <2>1, Alone
<1>10. PICK j \in DOMAIN Top.cleanups : Top.cleanups[j] = Cleanup("umount", d)
  BY <1>2, <1>9 DEF Deferred, Top
<1>11. Top.cleanups[i].do = "RemoveAll" /\ Top.cleanups[i].on = d
  BY DEF Cleanup
<1>12. j < i /\ i <= j
  BY <1>1, <1>10, <1>11 DEF Fits
<1>13. i \in Nat /\ j \in Nat
  BY <1>1
<1> QED
  BY <1>12, <1>13

LEMMA UnwindKeeps == InstallInv /\ Unwind => InstallInv'
<1> SUFFICES ASSUME InstallInv, Unwind PROVE InstallInv'
  OBVIOUS
<1> DEFINE c == Top.cleanups[1]
           g == [Top EXCEPT !.cleanups = Tail(@)]
<1>1. /\ Returning /\ ~ Running /\ frames # <<>> /\ Top.cleanups # <<>> /\ Do(Head(Top.cleanups))
      /\ UNCHANGED <<erred, phase, image, pipeline, route, part, menu, result>>
  BY DEF Unwind, Returning, host
<1>2. /\ Stacked /\ Owed /\ Fits(Top) /\ 1 \in DOMAIN frames /\ DOMAIN frames = 1 .. Len(frames)
      /\ Top \in FrameShape /\ Top.script \in Scripts /\ Top.at \in Nat \ {0}
      /\ Top.cleanups \in Seq(CleanupShape) /\ Delivers(Top)
  BY <1>1, Stack DEF InstallInv, Top
<1>3. frames' = [frames EXCEPT ![1] = g]
  BY <1>2 DEF Unwind, Top
<1>4. /\ g \in FrameShape /\ g.script = Top.script /\ g.at = Top.at /\ g.failed = Top.failed
      /\ g.cleanups = Tail(Top.cleanups)
  <2>1. g = [Top EXCEPT !.cleanups = Tail(@)]
    OBVIOUS
  <2> HIDE DEF g, FrameShape, Top
  <2> QED
    BY ONLY <1>1, <1>2, <2>1, Shortened
<1> HIDE DEF g
<1>5. /\ frames'[1] = g /\ Top' = g
  BY <1>2, <1>3 DEF Top
<1>6. Moves
  BY <1>3, <1>4, <1>5 DEF Moves
<1>7. /\ DOMAIN frames' = 1 .. Len(frames)
      /\ \A k \in 2 .. Len(frames) : frames'[k] = frames[k]
  BY <1>1, <1>2, <1>6, Moved
<1>8. ~ Running'
  BY <1>1, <1>4, <1>5 DEF Running
<1>9. c \in CleanupShape /\ c = Head(Top.cleanups) /\ 1 \in DOMAIN Top.cleanups
      /\ \A j \in DOMAIN Top.cleanups : 1 <= j
  <2> HIDE DEF CleanupShape
  <2> QED
    BY <1>1, <1>2
<1>10. /\ Fits(Top')
       /\ \A do, d : Deferred(Top', do, d) => Deferred(Top, do, d)
       /\ \A do, d : Deferred(Top, do, d) => Deferred(Top', do, d) \/ c = Cleanup(do, d)
  <2> HIDE DEF Top, FrameShape, CleanupShape, Fits, Deferred
  <2> QED
    BY ONLY <1>1, <1>2, <1>4, <1>5, Pops
<1> HIDE DEF c
<1>11. Do(c)
  BY <1>1, <1>9
<1>12. /\ c.do = "RemoveAll" => c.on \in Dirs /\ c = Cleanup("RemoveAll", c.on)
       /\ c.do = "umount" => c.on \in Points /\ c = Cleanup("umount", c.on)
       /\ c.do = "Remove" => c = Cleanup("Remove", "raw")
       /\ c.do \in {"umount", "RemoveAll", "Remove"}
  BY <1>9, Cleanups
<1>13. /\ c.do = "umount" => Unmount(c.on) /\ UNCHANGED <<dirs, raw, wiped>>
       /\ c.do = "RemoveAll" =>
            /\ dirs' = dirs \ {c.on} /\ UNCHANGED <<mounts, raw>>
            /\ wiped' = (wiped \/ \E d \in {c.on} \union Below(c.on) : Mounted(d))
       /\ c.do = "Remove" => raw' = FALSE /\ UNCHANGED <<mounts, dirs, wiped>>
  BY <1>11, <1>12 DEF Do
<1>14. /\ mounts' \in [Points -> Nat] /\ \A x \in Points : mounts'[x] <= mounts[x]
       /\ mounts \in [Points -> Nat] /\ dirs' \subseteq dirs /\ dirs \subseteq Dirs
       /\ Dirs \subseteq Points /\ BindPoints \subseteq Points /\ "stage" \in Dirs
       /\ \A d \in Dirs : mounts[d] <= 1
       /\ raw' = raw \/ (raw' = FALSE /\ c.do = "Remove")
  <2>1. Dirs \subseteq Points /\ BindPoints \subseteq Points /\ "stage" \in Dirs
    BY DEF Points, Dirs, BindPoints, Binds
  <2>2. mounts \in [Points -> Nat] /\ dirs \subseteq Dirs /\ \A d \in Dirs : mounts[d] <= 1
    BY <1>2 DEF Owed
  <2>3. CASE c.do = "umount"
    BY <1>12, <1>13, <2>1, <2>2, <2>3, Unmounts
  <2>4. CASE c.do # "umount"
    BY <1>12, <1>13, <2>1, <2>2, <2>4
  <2> QED
    BY <2>3, <2>4
<1>15. ASSUME NEW x \in Points, Mounted(x)' PROVE Mounted(x)
  <2>1. mounts[x] \in Nat /\ mounts'[x] \in Nat /\ mounts'[x] <= mounts[x] /\ mounts'[x] > 0
    BY <1>14, <1>15 DEF Mounted
  <2> QED
    BY <2>1 DEF Mounted
<1>16. ~ wiped'
  <2>1. ~ wiped
    BY DEF InstallInv
  <2>2. CASE c.do = "RemoveAll"
    <3>1. c.on \in Dirs /\ Top.cleanups[1] = Cleanup("RemoveAll", c.on)
      BY <1>12, <2>2 DEF c
    <3>2. ~ Mounted(c.on)
      BY <1>1, <1>9, <3>1, RemovesUnmounted
    <3>3. \A b \in Below(c.on) : ~ Mounted(b)
      <4>1. Below(c.on) = {} \/ (c.on = "stage" /\ Below(c.on) = BindPoints)
        BY <3>1 DEF Below, Dirs, Binds, BindPoints
      <4>2. c.on = "stage" => \A b \in BindPoints : ~ Mounted(b)
        BY <3>2 DEF InstallInv, Sheltered
      <4> QED
        BY <4>1, <4>2
    <3> QED
      BY <1>13, <2>1, <2>2, <3>2, <3>3
  <2> QED
    BY <1>12, <1>13, <2>1, <2>2
<1>17. Owed'
  <2>1. ASSUME NEW d \in dirs' PROVE \E k \in DOMAIN frames' : Deferred(frames'[k], "RemoveAll", d)
    <3>1. PICK k \in DOMAIN frames : Deferred(frames[k], "RemoveAll", d)
      BY <1>2, <1>14 DEF Owed
    <3>2. CASE k = 1
      <4>1. c # Cleanup("RemoveAll", d)
        BY <1>13 DEF Cleanup
      <4>2. Deferred(frames'[1], "RemoveAll", d)
        BY <1>5, <1>10, <3>1, <3>2, <4>1 DEF Top
      <4> QED
        BY <1>2, <1>7, <4>2
    <3>3. CASE k # 1
      BY <1>2, <1>7, <3>1, <3>3
    <3> QED
      BY <3>2, <3>3
  <2>2. ASSUME NEW d \in Dirs, Mounted(d)'
        PROVE  \E k \in DOMAIN frames' : Deferred(frames'[k], "umount", d)
    <3>0. Mounted(d)
      BY <1>14, <1>15, <2>2
    <3>1. PICK k \in DOMAIN frames : Deferred(frames[k], "umount", d)
      BY <1>2, <3>0 DEF Owed
    <3>2. CASE k = 1
      <4>1. c # Cleanup("umount", d)
        <5> SUFFICES ASSUME c = Cleanup("umount", d) PROVE FALSE
          OBVIOUS
        <5>1. c.do = "umount" /\ c.on = d /\ d \in Points
          BY <1>14 DEF Cleanup
        <5>2. mounts'[d] = mounts[d] - 1
          BY <1>13, <1>14, <3>0, <5>1, Unmounts
        <5>3. mounts[d] \in Nat /\ mounts[d] <= 1 /\ mounts'[d] > 0
          BY <1>14, <2>2, <5>1 DEF Mounted
        <5> QED
          BY <5>2, <5>3
      <4>2. Deferred(frames'[1], "umount", d)
        BY <1>5, <1>10, <3>1, <3>2, <4>1 DEF Top
      <4> QED
        BY <1>2, <1>7, <4>2
    <3>3. CASE k # 1
      BY <1>2, <1>7, <3>1, <3>3
    <3> QED
      BY <3>2, <3>3
  <2>3. \A d \in Dirs : mounts'[d] <= 1
    <3> SUFFICES ASSUME NEW d \in Dirs PROVE mounts'[d] <= 1
      OBVIOUS
    <3>1. mounts'[d] \in Nat /\ mounts[d] \in Nat /\ mounts'[d] <= mounts[d] /\ mounts[d] <= 1
      BY <1>14
    <3> QED
      BY <3>1
  <2> HIDE DEF Deferred
  <2> QED
    BY <1>14, <2>1, <2>2, <2>3 DEF Owed
<1>18. Sheltered'
  <2>1. CASE c.do = "umount" /\ c.on = "stage"
    <3>1. \A b \in BindPoints : ~ Mounted(b)'
      <4> SUFFICES ASSUME NEW b \in BindPoints, Mounted(b)' PROVE FALSE
        OBVIOUS
      <4>1. Mounted("stage")
        BY <1>14, <1>15 DEF InstallInv, Sheltered
      <4>2. mounts'[b] <= mounts["stage"] - 1
        BY <1>13, <1>14, <2>1, <4>1, Unmounts
      <4>3. mounts["stage"] \in Nat /\ mounts["stage"] <= 1 /\ mounts'[b] \in Nat /\ mounts'[b] > 0
        BY <1>14 DEF Mounted
      <4> QED
        BY <4>2, <4>3
    <3>2. ASSUME NEW k \in DOMAIN frames', k > 1, frames'[k].script = ConfigureLinux PROVE FALSE
      <4>1. k \in 2 .. Len(frames) /\ frames[k].script = ConfigureLinux
        BY <1>2, <1>7, <3>2
      <4>2. Top.script \in Chroots
        BY <1>2, <4>1, Callers DEF Top
      <4>3. Deferred(Top, "umount", "stage")
        BY <1>9, <1>12, <2>1 DEF Deferred, c
      <4>4. Did(Top, "mount", "stage")
        BY <1>2, <1>14, <4>3 DEF Fits
      <4>5. PICK m \in 1 .. Top.at - 1 : m <= Len(Top.script) /\ Top.script[m].do = "mount"
        BY <4>4 DEF Did
      <4>6. m \in 1 .. Len(Top.script)
        <5>1. Len(Top.script) \in Nat
          BY <1>2, ScriptsArePlaced
        <5> QED
          BY <1>2, <4>5, <5>1
      <4> QED
        BY <4>2, <4>5, <4>6, Silent
    <3>3. ASSUME NEW k \in DOMAIN frames', frames'[k].script = ConfigureLinux, k > 1 \/ Running'
          PROVE  FALSE
      BY <1>8, <3>2, <3>3
    <3> QED
      BY <3>1, <3>3 DEF Sheltered
  <2>2. CASE ~ (c.do = "umount" /\ c.on = "stage")
    <3>1. mounts'["stage"] = mounts["stage"]
      BY <1>12, <1>13, <1>14, <2>2, Unmounts
    <3>2. Mounted("stage") <=> Mounted("stage")'
      BY <3>1 DEF Mounted
    <3>3. \A b \in BindPoints : Mounted(b)' => Mounted("stage")'
      BY <1>14, <1>15, <3>2 DEF InstallInv, Sheltered
    <3> QED
      BY <1>1, <1>6, <1>8, <3>2, <3>3, ShelteredStays
  <2> QED
    BY <2>1, <2>2
<1>19. Delivers(Top)'
  <2>1. raw' => raw /\ (c = Cleanup("Remove", "raw") => FALSE)
    <3>1. c = Cleanup("Remove", "raw") => ~ raw'
      BY <1>13 DEF Cleanup
    <3> QED
      BY <1>14, <3>1
  <2>2. raw' /\ Deferred(Top, "Remove", "raw") => Deferred(Top', "Remove", "raw")
    BY <1>10, <2>1
  <2>3. Top'.script = Top.script /\ Top'.at = Top.at /\ Good' = Good
    BY <1>1, <1>4, <1>5 DEF Good
  <2> HIDE DEF Formatted, Filled, Deferred, Good
  <2> QED
    BY <1>1, <1>2, <2>1, <2>2, <2>3 DEF Delivers
<1>20. Landed' /\ part' \in PartShape
  BY <1>1, <1>14 DEF InstallInv, Landed, Good
<1> QED
  BY <1>1, <1>6, <1>10, <1>16, <1>17, <1>18, <1>19, <1>20, Step
-----------------------------------------------------------------------------
(* The run around the functions.                                            *)

Clear == dirs = {} /\ mounts \in [Points -> Nat] /\ \A d \in Points : mounts[d] = 0

LEMMA NothingOwed ==
  ASSUME Owed, Sheltered, \A k \in DOMAIN frames : frames[k].cleanups = <<>>
  PROVE  Clear
<1>1. \A do, d : \A k \in DOMAIN frames : ~ Deferred(frames[k], do, d)
  BY DEF Deferred
<1>2. dirs = {} /\ \A d \in Dirs : ~ Mounted(d)
  <2> HIDE DEF Deferred
  <2> QED
    BY <1>1 DEF Owed
<1>3. \A b \in BindPoints : ~ Mounted(b)
  BY <1>2 DEF Sheltered, Dirs
<1>4. Points = Dirs \union BindPoints /\ mounts \in [Points -> Nat]
  BY DEF Points, BindPoints, Binds, Owed
<1> QED
  BY <1>2, <1>3, <1>4 DEF Clear, Mounted

LEMMA EnterKeeps ==
  ASSUME Clear', NEW p, NEW s, Enter(p, s),
         \/ p = "probe" /\ s = IsWindowsISO
         \/ p = "deploy" /\ s = ApplyDeploy[route']
         \/ p = "configure" /\ s \in Configures,
         route' \in DOMAIN ApplyDeploy, result' = "none", part' \in PartShape, ~ wiped', Landed'
  PROVE  InstallInv'
<1> DEFINE f == Frame(s)
<1>1. phase' = p /\ frames' = <<f>>
  BY DEF Enter
<1>2. s \in Roots /\ s \in Scripts
  BY DEF Roots, Scripts, Deploys
<1>3. f \in FrameShape /\ f.script = s /\ f.at = 1 /\ f.cleanups = <<>>
  BY <1>2 DEF Frame, FrameShape
<1> HIDE DEF f
<1>4. /\ frames' \in Seq(FrameShape) /\ Len(frames') = 1 /\ DOMAIN frames' = {1}
      /\ frames'[1] = f /\ frames' # <<>>
  <2> HIDE DEF FrameShape
  <2> QED
    BY <1>1, <1>3
<1>5. Stacked'
  <2>1. frames'[Len(frames')].script = s /\ Len(frames') <= 3 /\ ~ \E k \in 2 .. Len(frames') : TRUE
    BY <1>3, <1>4
  <2> HIDE DEF FrameShape, Configures
  <2> QED
    BY <1>1, <1>4, <2>1 DEF Stacked
<1>6. \A k \in DOMAIN frames' : Fits(frames'[k])
  BY <1>3, <1>4 DEF Fits, Deferred
<1>7. Owed' /\ Sheltered'
  <2>1. Dirs \subseteq Points /\ BindPoints \subseteq Points
    BY DEF Points, BindPoints, Binds
  <2> QED
    BY <1>3, <1>4, <2>1 DEF Clear, Owed, Sheltered, Mounted
<1>8. \A k \in DOMAIN frames' : Delivers(frames[k])'
  <2>1. ~ Formatted(f.script, f.at) /\ ~ Filled(f.script, f.at)
    BY <1>3 DEF Formatted, Filled
  <2> HIDE DEF Formatted, Filled
  <2> QED
    BY <1>3, <1>4, <2>1 DEF Delivers
<1> QED
  BY <1>5, <1>6, <1>7, <1>8 DEF InstallInv, SuccessIsWhole, NothingIsLeft

LEMMA EndKeeps ==
  ASSUME Clear', NEW r, Ends(r), route' \in DOMAIN ApplyDeploy, part' \in PartShape, ~ wiped',
         SuccessIsWhole', r = "ok" /\ route' = "qcow2" => ~ raw'
  PROVE  InstallInv'
<1>1. phase' = "idle" /\ frames' = <<>> /\ result' = r
  BY DEF Ends
<1>2. Stacked'
  <2>1. frames' \in Seq(FrameShape) /\ Len(frames') <= 3 /\ ~ \E k \in 2 .. Len(frames') : TRUE
    BY <1>1
  <2> HIDE DEF FrameShape
  <2> QED
    BY <1>1, <2>1 DEF Stacked
<1>3. DOMAIN frames' = {}
  BY <1>1
<1>4. Owed' /\ Sheltered'
  <2>1. Dirs \subseteq Points /\ BindPoints \subseteq Points
    BY DEF Points, BindPoints, Binds
  <2> QED
    BY <1>3, <2>1 DEF Clear, Owed, Sheltered, Mounted
<1>5. NothingIsLeft'
  BY <1>1 DEF NothingIsLeft, Clear
<1> QED
  BY <1>1, <1>2, <1>3, <1>4, <1>5 DEF InstallInv, Landed

LEMMA InitHolds == Init => InstallInv
<1> SUFFICES ASSUME Init PROVE InstallInv
  OBVIOUS
<1>1. frames = <<>> /\ phase = "idle" /\ route = "raw" /\ result = "none"
  BY DEF Init
<1>2. Stacked
  <2>1. frames \in Seq(FrameShape) /\ Len(frames) <= 3 /\ ~ \E k \in 2 .. Len(frames) : TRUE
    BY <1>1
  <2>2. "raw" \in DOMAIN ApplyDeploy
    BY RootsAre
  <2> HIDE DEF FrameShape
  <2> QED
    BY <1>1, <2>1, <2>2 DEF Stacked
<1>3. DOMAIN frames = {}
  BY <1>1
<1>4. Owed /\ Sheltered
  <2>1. Dirs \subseteq Points /\ BindPoints \subseteq Points
    BY DEF Points, BindPoints, Binds
  <2>2. dirs = {} /\ mounts \in [Points -> Nat] /\ \A d \in Points : mounts[d] = 0
    BY DEF Init
  <2> QED
    BY <1>3, <2>1, <2>2 DEF Owed, Sheltered, Mounted
<1> QED
  BY <1>1, <1>2, <1>3, <1>4
     DEF Init, InstallInv, Landed, PartShape, SuccessIsWhole, NothingIsLeft

\* Between runs nothing is mounted and no directory is left.
LEMMA IdleIsClear == InstallInv /\ phase = "idle" => Clear
<1> SUFFICES ASSUME InstallInv, phase = "idle" PROVE Clear
  OBVIOUS
<1>1. frames = <<>>
  BY DEF InstallInv, Stacked
<1>2. DOMAIN frames = {}
  BY <1>1
<1> QED
  BY <1>2, NothingOwed DEF InstallInv

LEMMA PhaseEndIsClear ==
  ASSUME InstallInv, NEW p, PhaseEnds(p), p \in {"probe", "deploy", "configure"}
  PROVE  /\ Clear /\ result = "none" /\ frames[Len(frames)] = Top /\ Delivers(Top)
         /\ Top.cleanups = <<>> /\ Returning /\ phase = p /\ Stacked
         /\ route \in DOMAIN ApplyDeploy /\ part \in PartShape /\ ~ wiped
<1>1. Returning /\ Top.cleanups = <<>> /\ Len(frames) = 1 /\ phase = p
  BY DEF PhaseEnds
<1>2. Stacked /\ frames # <<>>
  BY <1>1 DEF InstallInv, Returning
<1>3. DOMAIN frames = 1 .. 1 /\ result = "none"
  BY <1>1, <1>2, Stack
<1>4. \A k \in DOMAIN frames : frames[k].cleanups = <<>>
  BY <1>1, <1>3 DEF Top
<1>5. Clear
  BY <1>4, NothingOwed DEF InstallInv
<1> QED
  BY <1>1, <1>2, <1>3, <1>5 DEF InstallInv, Top, Stacked

LEMMA StartKeeps == InstallInv /\ Start => InstallInv'
<1> SUFFICES ASSUME InstallInv, Start PROVE InstallInv'
  OBVIOUS
<1>1. Clear /\ UNCHANGED <<mounts, dirs, wiped>> /\ result' = "none"
  BY IdleIsClear DEF Start
<1>2. Clear'
  BY <1>1 DEF Clear
<1>3. part' \in PartShape /\ ~ wiped'
  BY <1>1 DEF Start, InstallInv, PartShape
<1>4. CASE image' \in {"linux_iso", "windows_iso"}
  <2>1. Enter("probe", IsWindowsISO) /\ route' = route
    BY <1>4 DEF Start
  <2>2. route' \in DOMAIN ApplyDeploy /\ Landed'
    BY <2>1 DEF InstallInv, Stacked, Enter, Landed
  <2> QED
    BY <1>1, <1>2, <1>3, <2>1, <2>2, EnterKeeps
<1>5. CASE image' \notin {"linux_iso", "windows_iso"}
  <2>1. Enter("deploy", ApplyDeploy[image']) /\ route' = image'
    BY <1>5 DEF Start
  <2>2. image' \in {"raw", "qcow2", "tarball", "wim"}
    BY <1>5, ImagesAssumption DEF Start, AllImages
  <2>3. route' \in DOMAIN ApplyDeploy
    BY <2>1, <2>2, RootsAre
  <2>4. Landed'
    BY <2>1 DEF Enter, Landed
  <2> QED
    BY <1>1, <1>2, <1>3, <2>1, <2>3, <2>4, EnterKeeps
<1> QED
  BY <1>4, <1>5

LEMMA PlannedKeeps == InstallInv /\ Planned => InstallInv'
<1> SUFFICES ASSUME InstallInv, Planned PROVE InstallInv'
  OBVIOUS
<1>1. PhaseEnds("probe") /\ UNCHANGED <<part, mounts, dirs, wiped>>
  BY DEF Planned
<1>2. Clear /\ result = "none" /\ part \in PartShape /\ ~ wiped
  BY <1>1, PhaseEndIsClear
<1>3. Clear' /\ part' \in PartShape /\ ~ wiped'
  BY <1>1, <1>2 DEF Clear
<1>4. route' \in DOMAIN ApplyDeploy
  BY RootsAre DEF Planned
<1>5. CASE Enter("deploy", ApplyDeploy[route']) /\ UNCHANGED result
  <2>1. Landed'
    BY <1>5 DEF Enter, Landed
  <2> QED
    BY <1>2, <1>3, <1>4, <1>5, <2>1, EnterKeeps
<1>6. CASE Ends("error")
  <2>1. SuccessIsWhole'
    BY <1>6 DEF Ends, SuccessIsWhole
  <2> QED
    BY <1>3, <1>4, <1>6, <2>1, EndKeeps
<1> QED
  BY <1>5, <1>6 DEF Planned

LEMMA DeployedKeeps == InstallInv /\ Deployed => InstallInv'
<1> SUFFICES ASSUME InstallInv, Deployed PROVE InstallInv'
  OBVIOUS
<1>1. PhaseEnds("deploy") /\ UNCHANGED <<route, part, mounts, dirs, raw, wiped>>
  BY DEF Deployed
<1>2. /\ Clear /\ result = "none" /\ part \in PartShape /\ ~ wiped /\ Delivers(Top)
      /\ Top.script = ApplyDeploy[route] /\ Top.cleanups = <<>> /\ Returning
      /\ route \in DOMAIN ApplyDeploy
  BY <1>1, PhaseEndIsClear DEF Stacked
<1>3. Clear' /\ part' \in PartShape /\ ~ wiped' /\ route' \in DOMAIN ApplyDeploy
  BY <1>1, <1>2 DEF Clear
<1>4. CASE Top.failed
  <2>1. Ends("error")
    BY <1>4 DEF Deployed
  <2>2. SuccessIsWhole'
    BY <2>1 DEF Ends, SuccessIsWhole
  <2> QED
    BY <1>3, <2>1, <2>2, EndKeeps
<1>5. CASE ~ Top.failed
  <2>1. \/ \E s \in Configures : Enter("configure", s) /\ UNCHANGED result
        \/ route = "wim" /\ Ends("ok")
    BY <1>5 DEF Deployed, Configures
  <2>2. Top.at > Len(Top.script)
    BY <1>2, <1>5, Completed
  <2>3. ~ Deferred(Top, "Remove", "raw")
    BY <1>2 DEF Deferred
  <2>4. /\ Top.script = ApplyDeploy["linux"] => Top.at > 2
        /\ Top.script = ApplyDeploy["windows"] => Top.at > 1
        /\ Top.script \in {ApplyDeploy["tarball"], ApplyDeploy["wim"]} => Top.at > 1
        /\ Top.script = ApplyDeploy["qcow2"] => Top.at > 1
    <3>1. /\ Top.script = ApplyDeploy["linux"] => Top.at > 2
          /\ Top.script = ApplyDeploy["windows"] => Top.at > 1
          /\ Top.script \in {ApplyDeploy["tarball"], ApplyDeploy["wim"]} => Top.at > 1
          /\ Top.script = ApplyDeploy["qcow2"] => Top.at > 2
      BY <2>2, RootLengths
    <3>2. Top.at \in Nat \ {0}
      <4>1. frames # <<>> /\ Stacked
        BY <1>2 DEF Returning, InstallInv
      <4> QED
        BY <4>1, Stack DEF Top
    <3> QED
      BY <3>1, <3>2
  <2>5. (route \notin {"raw", "qcow2"} => Good) /\ (route = "qcow2" => ~ raw)
    <3>1. route \in {"linux", "windows", "raw", "qcow2", "tarball", "wim"}
      BY <1>2, RootsAre
    <3> HIDE DEF Good, Deferred, Formatted, Filled
    <3> QED
      BY <1>2, <2>3, <2>4, <3>1 DEF Delivers
  <2>6. Landed'
    BY <1>1, <2>5 DEF Landed, Good
  <2>7. CASE \E s \in Configures : Enter("configure", s) /\ UNCHANGED result
    BY <1>2, <1>3, <2>6, <2>7, EnterKeeps
  <2>8. CASE route = "wim" /\ Ends("ok")
    <3>1. SuccessIsWhole'
      BY <1>1, <2>5, <2>8 DEF Ends, SuccessIsWhole, Good
    <3> QED
      BY <1>1, <1>3, <2>8, <3>1, EndKeeps
  <2> QED
    BY <2>1, <2>7, <2>8
<1> QED
  BY <1>4, <1>5

LEMMA ConfiguredKeeps == InstallInv /\ Configured => InstallInv'
<1> SUFFICES ASSUME InstallInv, Configured PROVE InstallInv'
  OBVIOUS
<1>1. PhaseEnds("configure") /\ UNCHANGED <<route, part, mounts, dirs, raw, menu, wiped, pipeline>>
      /\ Ends(IF Top.failed /\ pipeline = "dual" THEN "error" ELSE "ok")
  BY DEF Configured
<1>2. /\ Clear /\ part \in PartShape /\ ~ wiped /\ Delivers(Top) /\ Top.script \in Configures
      /\ Returning /\ phase = "configure" /\ route \in DOMAIN ApplyDeploy
  BY <1>1, PhaseEndIsClear DEF Stacked
<1>3. Clear' /\ part' \in PartShape /\ ~ wiped' /\ route' \in DOMAIN ApplyDeploy
  BY <1>1, <1>2 DEF Clear
<1>4. Landed
  BY DEF InstallInv
<1>5. CASE Top.failed /\ pipeline = "dual"
  <2>1. Ends("error")
    BY <1>1, <1>5
  <2>2. SuccessIsWhole'
    BY <2>1 DEF Ends, SuccessIsWhole
  <2> QED
    BY <1>3, <2>1, <2>2, EndKeeps
<1>7. CASE Top.failed /\ pipeline # "dual"
  <2>1. Ends("ok")
    BY <1>1, <1>7
  <2>2. SuccessIsWhole'
    BY <1>1, <1>2, <1>4, <1>7 DEF SuccessIsWhole, Landed, Good
  <2>3. route' = "qcow2" => ~ raw'
    BY <1>1, <1>2, <1>4 DEF Landed
  <2> QED
    BY <1>3, <2>1, <2>2, <2>3, EndKeeps
<1>6. CASE ~ Top.failed
  <2>1. Ends("ok")
    BY <1>1, <1>6
  <2>2. Top.at > Len(Top.script)
    BY <1>2, <1>6, Completed
  <2>3. Top.at > 2
    BY <1>2, <2>2, RootLengths
  <2>4. menu
    <3> HIDE DEF Good, Deferred, Formatted, Filled, Configures
    <3> QED
      BY <1>2, <2>3 DEF Delivers
  <2>5. SuccessIsWhole'
    BY <1>1, <1>2, <1>4, <2>4 DEF SuccessIsWhole, Landed, Good
  <2>6. route' = "qcow2" => ~ raw'
    BY <1>1, <1>2, <1>4 DEF Landed
  <2> QED
    BY <1>3, <2>1, <2>5, <2>6, EndKeeps
<1> QED
  BY <1>5, <1>6, <1>7

LEMMA DieKeeps == InstallInv /\ Die => InstallInv'
<1> SUFFICES ASSUME InstallInv, Die PROVE InstallInv'
  OBVIOUS
<1>1. /\ Ends("died") /\ mounts' = [d \in Points |-> 0] /\ dirs' = {}
      /\ UNCHANGED <<route, part, wiped>>
  BY DEF Die
<1>2. Clear'
  BY <1>1 DEF Clear
<1>3. route' \in DOMAIN ApplyDeploy /\ part' \in PartShape /\ ~ wiped'
  BY <1>1 DEF InstallInv, Stacked
<1>4. SuccessIsWhole'
  BY <1>1 DEF Ends, SuccessIsWhole
<1> QED
  BY <1>1, <1>2, <1>3, <1>4, EndKeeps

LEMMA StepKeeps == InstallInv /\ [Next]_vars => InstallInv'
<1> SUFFICES ASSUME InstallInv, [Next]_vars PROVE InstallInv'
  OBVIOUS
<1>1. CASE Instruction
  <2>1. CASE Release \/ Find \/ Chroot \/ WriteCustom
    BY <2>1, QuietKeeps
  <2>2. CASE Dd
    BY <2>2, DdKeeps
  <2> QED
    BY <1>1, <2>1, <2>2, MkdirKeeps, MountKeeps, BindKeeps, UnbindLaterKeeps, MkfsKeeps, UnpackKeeps,
       ElseDdKeeps, ConvertKeeps, HealKeeps, UpdateMenuKeeps, CallKeeps DEF Instruction
<1>2. CASE Unwind \/ Return \/ Planned \/ Deployed \/ Configured
  BY <1>2, UnwindKeeps, ReturnKeeps, PlannedKeeps, DeployedKeeps, ConfiguredKeeps
<1>3. CASE Start \/ Die
  BY <1>3, StartKeeps, DieKeeps
<1>4. CASE UNCHANGED vars
  BY <1>4 DEF vars, InstallInv, Stacked, Owed, Sheltered, Landed, SuccessIsWhole, NothingIsLeft,
              Delivers, Good, Mounted, Running, Top
<1> QED
  BY <1>1, <1>2, <1>3, <1>4 DEF Next, Program
-----------------------------------------------------------------------------
(* What follows.                                                            *)

LEMMA Invariance == Spec => []InstallInv
<1>1. Init => InstallInv
  BY InitHolds
<1>2. InstallInv /\ [Next]_vars => InstallInv'
  BY StepKeeps
<1> QED
  BY <1>1, <1>2, PTL DEF Spec

\* No temporary directory is removed while anything is mounted on it or below
\* it, whatever failed before: RemoveAll (rootfs.go, bootloader.go) never runs
\* into the new system or the host's /dev.
THEOREM RemovalIsSafe == Spec => []RemovesNothingMounted
<1>1. InstallInv => RemovesNothingMounted
  BY DEF InstallInv, RemovesNothingMounted
<1> QED
  BY <1>1, Invariance, PTL

\* The deferred calls of all functions together undo every mount and directory
\* of a run that comes to an end, and the conversion of one that succeeds.
THEOREM RunsLeaveNothing == Spec => []NothingIsLeft
<1>1. InstallInv => NothingIsLeft
  BY DEF InstallInv
<1> QED
  BY <1>1, Invariance, PTL

\* Every error that would leave the image incomplete reaches the caller, raw
\* images apart, and in dual boot so does that of a menu not generated behind
\* the last write of 40_custom; single boot drops it (orchestrator.go:267).
THEOREM SuccessStaysWhole == Spec => []SuccessIsWhole
<1>1. InstallInv => SuccessIsWhole
  BY DEF InstallInv
<1> QED
  BY <1>1, Invariance, PTL

\* Blocks are written by a function that mounts nothing and is called by none.
LEMMA WriterHasNothingMounted ==
  ASSUME InstallInv, Running, Now.do \in {"dd", "else_dd"}, NEW d \in Dirs
  PROVE  ~ Mounted(d)
<1> SUFFICES ASSUME Mounted(d) PROVE FALSE
  OBVIOUS
<1>1. /\ Top.script \in Scripts /\ Top.at \in 1 .. Len(Top.script) /\ Fits(Top) /\ Stacked
      /\ frames # <<>> /\ Placed(Top.script, Top.at) /\ Now = Top.script[Top.at]
  BY Here
<1>2. Top.script \in Deploys
  BY <1>1, RootsAre DEF Placed, Deploys
<1>3. Len(frames) = 1 /\ DOMAIN frames = 1 .. Len(frames)
  BY <1>1, <1>2, Rooted, Stack
<1>4. Deferred(Top, "umount", d)
  BY <1>3 DEF InstallInv, Owed, Top
<1>5. Did(Top, "mount", d)
  BY <1>1, <1>4 DEF Fits
<1>6. PICK m \in 1 .. Top.at - 1 : m <= Len(Top.script) /\ Top.script[m].do = "mount"
  BY <1>5 DEF Did
<1>7. m \in 1 .. Len(Top.script)
  <2>1. Len(Top.script) \in Nat
    BY <1>1, ScriptsArePlaced
  <2> QED
    BY <1>1, <1>6, <2>1
<1> QED
  BY <1>2, <1>6, <1>7, Silent

\* So does mkfs: whoever calls it has mounted nothing before, nor has its
\* caller.  mkfs.ntfs is forced and would not look.
LEMMA FormatterHasNothingMounted ==
  ASSUME InstallInv, Running, Now.do = "mkfs", NEW d \in Dirs
  PROVE  ~ Mounted(d)
<1> SUFFICES ASSUME Mounted(d) PROVE FALSE
  OBVIOUS
<1>1. /\ Top.script \in Scripts /\ Top.at \in 1 .. Len(Top.script) /\ Fits(Top) /\ Stacked
      /\ frames # <<>> /\ Placed(Top.script, Top.at) /\ Now = Top.script[Top.at]
  BY Here
<1>2. Top.script \in Leaves /\ Top.at \in 1 .. 2
  BY <1>1 DEF Placed
<1>3. PICK k \in DOMAIN frames : Deferred(frames[k], "umount", d)
  BY DEF InstallInv, Owed
<1>4. Did(frames[k], "mount", d)
  BY <1>3 DEF InstallInv, Fits
<1>5. PICK m \in 1 .. frames[k].at - 1 :
        m <= Len(frames[k].script) /\ frames[k].script[m].do = "mount"
  BY <1>4 DEF Did
<1>6. CASE k = 1
  <2>1. m = 1
    BY <1>2, <1>5, <1>6 DEF Top
  <2> QED
    BY <1>2, <1>5, <1>6, <2>1, Firsts DEF Top
<1>7. CASE k # 1
  <2>1. k \in 2 .. Len(frames) /\ DOMAIN frames = 1 .. Len(frames)
    BY <1>1, <1>7, Stack
  <2>2. frames[k].script \in Deploys \union Configures \union {ConfigureLinux}
    BY <1>1, <2>1, Callers
  <2>3. frames[k].script # ConfigureLinux
    BY <1>1, <1>2, <2>1, Callers, Apart DEF Top
  <2>4. m \in 1 .. Len(frames[k].script)
    BY <1>1, <1>3, <1>5, Stack, ScriptsArePlaced
  <2> QED
    BY <1>5, <2>2, <2>3, <2>4, Silent
<1> QED
  BY <1>6, <1>7

\* mkfs, dd and STORAGE HEAL never work on a partition that this process has
\* mounted, also when the extraction before the fall-back to dd has failed.
THEOREM BlocksAreUnmounted == Spec => WritesBlocksUnmounted
<1> DEFINE A == part'.fs # part.fs /\ phase # "idle" => \A d \in OnPartition : mounts[d] = 0
<1>1. InstallInv /\ [Next]_vars => [A]_vars
  <2> SUFFICES ASSUME InstallInv, Next, part'.fs # part.fs, phase # "idle", NEW d \in OnPartition
               PROVE  mounts[d] = 0
    BY DEF vars
  <2>1. d \in Dirs /\ d \in Points /\ mounts[d] \in Nat /\ part \in PartShape
    BY DEF OnPartition, Dirs, Points, InstallInv, Owed
  <2>2. CASE Mkfs \/ Heal
    <3>1. ~ Mounted(d)
      BY <2>1, <2>2, FormatterHasNothingMounted DEF Mkfs, Heal, Is, Busy
    <3> QED
      BY <2>1, <3>1 DEF Mounted
  <2>3. CASE Dd \/ ElseDd
    <3>1. ~ Mounted(d)
      BY <2>1, <2>3, WriterHasNothingMounted DEF Dd, ElseDd, Is
    <3> QED
      BY <2>1, <3>1 DEF Mounted
  <2>4. CASE Unpack
    <3>1. part'.fs = part.fs
      BY <2>1, <2>4 DEF Unpack, PartShape
    <3> QED
      BY <3>1
  <2>5. CASE Start
    BY <2>5 DEF Start
  <2>6. CASE ~ (Mkfs \/ Heal \/ Dd \/ ElseDd \/ Unpack \/ Start)
    <3>1. part' = part
      <4>1. CASE MkdirTemp \/ Mount \/ Bind \/ UnbindLater \/ Release \/ Convert \/ Find
        BY <4>1 DEF MkdirTemp, Mount, Bind, UnbindLater, Release, Convert, Find
      <4>2. CASE Chroot \/ WriteCustom \/ UpdateMenu \/ Call \/ Unwind \/ Return
        BY <4>2 DEF Chroot, WriteCustom, UpdateMenu, Call, Unwind, Return
      <4>3. CASE Planned \/ Deployed \/ Configured \/ Die
        BY <4>3 DEF Planned, Deployed, Configured, Die
      <4> QED
        BY <2>6, <4>1, <4>2, <4>3 DEF Next, Program, Instruction
    <3> QED
      BY <3>1
  <2> QED
    BY <2>2, <2>3, <2>4, <2>5, <2>6
<1> QED
  BY <1>1, Invariance, PTL DEF Spec, WritesBlocksUnmounted
-----------------------------------------------------------------------------
(* How many binds are stacked on a point: one for each of the functions     *)
(* ConfigureLinux has called that bind.                                     *)

\* How many of them have returned.
Called(at) == IF at <= 4 THEN 0 ELSE IF at = 5 THEN 1 ELSE 2

\* How many binds ConfigureLinux, as the k-th frame, has on its i-th point.
BoundOn(k, i) == Called(frames[k].at) + (IF k > 1 /\ i < frames[1].at THEN 1 ELSE 0)

Counted ==
  \A k \in DOMAIN frames : frames[k].script = ConfigureLinux =>
    \A i \in 1 .. 4 : mounts[Binds[i]] <= BoundOn(k, i)

Plain ==
  /\ erred \in BOOLEAN /\ image \in AllImages /\ pipeline \in {"dual", "single"}
  /\ raw \in BOOLEAN /\ menu \in BOOLEAN
  /\ stale \in BOOLEAN /\ wiped \in BOOLEAN
  /\ result \in {"none", "ok", "error", "died"} /\ runs \in 0 .. MaxRuns

TypesInv == InstallInv /\ Counted /\ Plain

LEMMA BindsAre ==
  /\ {Binds[i] : i \in 1 .. 4} = BindPoints
  /\ \A i \in 1 .. 4, j \in 1 .. 4 : Binds[i] = Binds[j] => i = j
  /\ BindPoints \subseteq Points /\ Points = Dirs \union BindPoints /\ Dirs \cap BindPoints = {}
BY DEF Binds, BindPoints, Points, Dirs

\* Only one script mounts the stage.
LEMMA StageIsConfigured ==
  ASSUME NEW s \in Scripts, NEW m \in 1 .. Len(s), s[m].do = "mount", s[m].on = "stage"
  PROVE  s = ConfigureLinux
<1> USE DEF Must, Try
<1>1. CASE s = IsWindowsISO
  <2>1. /\ Len(s) = 3 /\ s[1].do = "mkdir" /\ s[2].on = "probe" /\ s[3].do = "find"
    BY <1>1, LeavesAre
  <2> QED
    BY <2>1
<1>2. CASE s = Squashfs
  <2>1. /\ Len(s) = 8 /\ s[1].do = "release" /\ s[2].do = "mkfs" /\ s[3].do = "mkdir"
        /\ s[4].on = "target" /\ s[5].do = "mkdir" /\ s[6].on = "iso"
        /\ s[7].do = "find" /\ s[8].do = "unpack"
    BY <1>2, SquashfsIs
  <2> QED
    BY <2>1
<1>3. CASE s = SquashfsCopied
  <2>1. /\ Len(s) = 10 /\ s[1].do = "release" /\ s[2].do = "mkfs" /\ s[3].do = "mkdir"
        /\ s[4].on = "target" /\ s[5].do = "mkdir" /\ s[6].on = "iso" /\ s[7].do = "find"
        /\ s[8].do = "mkdir" /\ s[9].on = "squash" /\ s[10].do = "unpack"
    BY <1>3, SquashfsIs, SquashfsCopiedIs
  <2> QED
    BY <2>1
<1>4. CASE s = Windows
  <2>1. /\ Len(s) = 8 /\ s[1].do = "release" /\ s[2].do = "mkfs" /\ s[3].do = "mkdir"
        /\ s[4].on = "iso" /\ s[5].do = "find" /\ s[6].do = "unpack" /\ s[7].do = "mkdir"
        /\ s[8].on = "target"
    BY <1>4, LeavesAre
  <2> QED
    BY <2>1
<1>5. CASE s \in {Tarball, ApplyWim}
  <2>1. /\ Len(s) = 5 /\ s[1].do = "mkfs" /\ s[2].do = "mkdir" /\ s[3].on = "target"
        /\ s[4].do = "unpack" /\ s[5].do = "find"
    BY <1>5, LeavesAre
  <2> QED
    BY <2>1
<1>6. CASE s \in Deploys \union Configures \union Chroots
  BY <1>6, Silent
<1> QED
  BY <1>1, <1>2, <1>3, <1>4, <1>5, <1>6, AllScripts, RootsAre DEF Deploys, Configures

\* Binds are there only while ConfigureLinux runs.
LEMMA BoundByConfigure ==
  ASSUME InstallInv, NEW b \in BindPoints, Mounted(b)
  PROVE  \E k \in DOMAIN frames : frames[k].script = ConfigureLinux
<1>1. Mounted("stage") /\ "stage" \in Dirs
  BY DEF InstallInv, Sheltered, Dirs
<1>2. PICK k \in DOMAIN frames : Deferred(frames[k], "umount", "stage")
  BY <1>1 DEF InstallInv, Owed
<1>3. Did(frames[k], "mount", "stage")
  BY <1>1, <1>2 DEF InstallInv, Fits
<1>4. frames # <<>>
  BY <1>2
<1>5. DOMAIN frames = 1 .. Len(frames) /\ frames[k].script \in Scripts /\ frames[k].at \in Nat \ {0}
  BY <1>2, <1>4, Stack DEF InstallInv
<1>6. PICK m \in 1 .. frames[k].at - 1 :
        m <= Len(frames[k].script) /\ frames[k].script[m].do = "mount" /\ frames[k].script[m].on = "stage"
  BY <1>3 DEF Did
<1>7. m \in 1 .. Len(frames[k].script)
  BY <1>5, <1>6, ScriptsArePlaced
<1> QED
  BY <1>5, <1>6, <1>7, StageIsConfigured

\* A script without ConfigureLinux around it has bound nothing.
LEMMA Unbound ==
  ASSUME InstallInv, \A k \in DOMAIN frames : frames[k].script # ConfigureLinux,
         NEW b \in BindPoints
  PROVE  mounts[b] = 0
<1>1. ~ Mounted(b)
  BY BoundByConfigure
<1>2. mounts[b] \in Nat
  BY BindsAre DEF InstallInv, Owed
<1> QED
  BY <1>1, <1>2 DEF Mounted

\* The function that runs gets on, and binds nothing.
LEMMA CountedStays ==
  ASSUME InstallInv, Counted, frames # <<>>, Moves, UNCHANGED <<phase, route, result>>,
         Top'.at \in {Top.at, Top.at + 1}, mounts' \in [Points -> Nat],
         \A i \in 1 .. 4 : mounts'[Binds[i]] <= mounts[Binds[i]]
  PROVE  Counted'
<1>1. /\ DOMAIN frames' = 1 .. Len(frames) /\ Len(frames) \in 1 .. 3
      /\ \A k \in 2 .. Len(frames) : frames'[k] = frames[k]
  BY Moved, Stack DEF InstallInv
<1>2. /\ DOMAIN frames = 1 .. Len(frames) /\ mounts \in [Points -> Nat]
      /\ \A k \in 1 .. Len(frames) : frames[k].at \in Nat \ {0}
  BY Stack DEF InstallInv, Owed
<1> SUFFICES ASSUME NEW k \in 1 .. Len(frames), frames'[k].script = ConfigureLinux, NEW i \in 1 .. 4
             PROVE  mounts'[Binds[i]] <= BoundOn(k, i)'
  BY <1>1 DEF Counted
<1>3. frames[k].script = ConfigureLinux /\ frames'[k].at \in {frames[k].at, frames[k].at + 1}
  <2>1. CASE k = 1
    BY <2>1 DEF Moves, Top
  <2>2. CASE k # 1
    BY <1>1, <2>2
  <2> QED
    BY <2>1, <2>2
<1>4. mounts[Binds[i]] <= BoundOn(k, i)
  BY <1>2, <1>3 DEF Counted
<1>5. mounts'[Binds[i]] <= mounts[Binds[i]] /\ mounts[Binds[i]] \in Nat /\ mounts'[Binds[i]] \in Nat
  BY <1>2, BindsAre
<1>6. BoundOn(k, i) <= BoundOn(k, i)' /\ BoundOn(k, i) \in Nat /\ BoundOn(k, i)' \in Nat
  <2>1. frames'[1].at \in {frames[1].at, frames[1].at + 1} /\ frames[1].at \in Nat
    BY <1>1, <1>2 DEF Top
  <2>2. Called(frames[k].at) <= Called(frames'[k].at)
        /\ Called(frames[k].at) \in Nat /\ Called(frames'[k].at) \in Nat
    <3>1. \A n \in Nat : Called(n) <= Called(n) /\ Called(n) <= Called(n + 1) /\ Called(n) \in Nat
      BY DEF Called
    <3>2. /\ frames[k].at \in Nat /\ frames[k].at + 1 \in Nat
          /\ frames'[k].at = frames[k].at \/ frames'[k].at = frames[k].at + 1
      BY <1>2, <1>3
    <3> HIDE DEF Called
    <3> QED
      BY ONLY <3>1, <3>2
  <2>3. k > 1 /\ i < frames[1].at => i < frames'[1].at
    BY <2>1
  <2> QED
    BY <2>2, <2>3 DEF BoundOn
<1> QED
  BY <1>4, <1>5, <1>6

\* What every instruction but a call does to the function it belongs to.
Bounded(ms) == ms \in [Points -> Nat] /\ \A i \in 1 .. 4 : ms[Binds[i]] <= mounts[Binds[i]]

LEMMA InstructionMoves ==
  ASSUME InstallInv, Instruction, ~ Call
  PROVE  /\ frames # <<>> /\ Running /\ Moves /\ Top'.at \in {Top.at, Top.at + 1}
         /\ UNCHANGED <<phase, route, result>>
<1>1. Running /\ UNCHANGED <<phase, route, result>> /\ Stacked /\ frames # <<>>
  BY DEF Instruction, MkdirTemp, Mount, Bind, UnbindLater, Release, Mkfs, Unpack, Dd, ElseDd, Convert,
         Find, Heal, Chroot, WriteCustom, UpdateMenu, Is, host, InstallInv, Running
<1>2. ASSUME NEW c \in Seq(CleanupShape), Proceed(c)
      PROVE  Moves /\ Top'.at = Top.at + 1
  BY <1>1, <1>2, Proceeded
<1>3. ASSUME Fails PROVE Moves /\ Top'.at \in {Top.at, Top.at + 1}
  BY <1>1, <1>3, Failed
<1>4. \/ Fails \/ Proceed(<<>>)
      \/ Is("mkdir") /\ Proceed(<<Cleanup("RemoveAll", Now.on)>>)
      \/ Is("mount") /\ Proceed(<<Cleanup("umount", Now.on)>>)
      \/ Proceed(<<Cleanup("Remove", "raw")>>)
      \/ Proceed([i \in 1 .. 4 |-> Cleanup("umount", Binds[5 - i])])
  BY DEF Instruction, MkdirTemp, Mount, Bind, UnbindLater, Release, Mkfs, Unpack, Dd, ElseDd, Convert,
         Find, Heal, Chroot, WriteCustom, UpdateMenu, WriteBlocks
<1>5. /\ <<>> \in Seq(CleanupShape) /\ <<Cleanup("Remove", "raw")>> \in Seq(CleanupShape)
      /\ Is("mkdir") => <<Cleanup("RemoveAll", Now.on)>> \in Seq(CleanupShape)
      /\ Is("mount") => <<Cleanup("umount", Now.on)>> \in Seq(CleanupShape)
      /\ [i \in 1 .. 4 |-> Cleanup("umount", Binds[5 - i])] \in Seq(CleanupShape)
  <2>1. /\ Cleanup("Remove", "raw") \in CleanupShape
        /\ Is("mkdir") => Cleanup("RemoveAll", Now.on) \in CleanupShape
        /\ Is("mount") => Cleanup("umount", Now.on) \in CleanupShape
    BY <1>1, Here DEF Placed, Is, CleanupShape, Points
  <2>2. \A i \in 1 .. 4 : Cleanup("umount", Binds[5 - i]) \in CleanupShape
    BY DEF CleanupShape, Points, Binds
  <2> DEFINE b == [i \in 1 .. 4 |-> Cleanup("umount", Binds[5 - i])]
  <2>3. b = [i \in 1 .. 4 |-> b[i]] /\ \A i \in 1 .. 4 : b[i] \in CleanupShape
    BY <2>2
  <2> HIDE DEF b, CleanupShape
  <2>4. b \in Seq(CleanupShape)
    BY <2>3, Listing
  <2> QED
    BY <2>1, <2>4 DEF b
<1> QED
  BY <1>1, <1>2, <1>3, <1>4, <1>5

LEMMA UnwindMoves ==
  ASSUME InstallInv, Unwind
  PROVE  /\ frames # <<>> /\ Moves /\ Top'.at = Top.at /\ UNCHANGED <<phase, route, result>>
         /\ Bounded(mounts')
<1>1. /\ Returning /\ frames # <<>> /\ Top.cleanups # <<>> /\ Do(Head(Top.cleanups))
      /\ UNCHANGED <<phase, route, result>>
  BY DEF Unwind, Returning, host
<1>2. /\ 1 \in DOMAIN frames /\ Top \in FrameShape /\ Top.cleanups \in Seq(CleanupShape)
      /\ mounts \in [Points -> Nat]
  BY <1>1, Stack DEF InstallInv, Top, Owed
<1> DEFINE g == [Top EXCEPT !.cleanups = Tail(@)]
<1>3. frames' = [frames EXCEPT ![1] = g]
  BY <1>2 DEF Unwind, Top
<1>4. g \in FrameShape /\ g.script = Top.script /\ g.at = Top.at
  <2>1. g = [Top EXCEPT !.cleanups = Tail(@)]
    OBVIOUS
  <2> HIDE DEF g, FrameShape, Top
  <2> QED
    BY ONLY <1>1, <1>2, <2>1, Shortened
<1> HIDE DEF g
<1>5. Moves /\ Top'.at = Top.at
  BY <1>2, <1>3, <1>4 DEF Moves, Top
<1> DEFINE c == Head(Top.cleanups)
<1>6. c \in CleanupShape
  <2> HIDE DEF CleanupShape
  <2> QED
    BY <1>1, <1>2
<1>7. c.do = "umount" => c.on \in Points
  BY <1>6, Cleanups
<1>8. (c.do = "umount" /\ Unmount(c.on)) \/ mounts' = mounts
  BY <1>1, <1>6, Cleanups DEF Do
<1> HIDE DEF c
<1>9. mounts' \in [Points -> Nat] /\ \A x \in Points : mounts'[x] <= mounts[x]
  <2>1. CASE c.do = "umount" /\ Unmount(c.on)
    BY <1>2, <1>7, <2>1, Unmounts
  <2>2. CASE mounts' = mounts
    BY <1>2, <2>2
  <2> QED
    BY <1>8, <2>1, <2>2
<1> QED
  BY <1>1, <1>5, <1>9, BindsAre DEF Bounded


\* Only a bind adds to the mounts of a bind's point.
LEMMA InstructionBounds ==
  ASSUME InstallInv, Instruction, ~ Bind
  PROVE  Bounded(mounts')
<1>1. mounts \in [Points -> Nat]
  BY DEF InstallInv, Owed
<1>2. CASE Mount
  <2>1. /\ Running /\ Now.do = "mount"
        /\ mounts' = mounts \/ mounts' = [mounts EXCEPT ![Now.on] = @ + 1]
    BY <1>2 DEF Mount, Is
  <2>2. Now.on \in Dirs
    BY <2>1, Here DEF Placed
  <2>3. /\ mounts' \in [Points -> Nat]
        /\ \A x \in BindPoints : mounts'[x] = mounts[x]
    BY <1>1, <2>1, <2>2, BindsAre
  <2>4. \A i \in 1 .. 4 : Binds[i] \in BindPoints /\ mounts[Binds[i]] \in Nat
    BY <1>1, BindsAre
  <2> QED
    BY <2>3, <2>4 DEF Bounded
<1>3. CASE ~ Mount
  <2>1. mounts' = mounts
    BY <1>3 DEF Instruction, MkdirTemp, UnbindLater, Release, Mkfs, Unpack, Dd, ElseDd, Convert,
                Find, Heal, Chroot, WriteCustom, UpdateMenu, Call
  <2>2. \A i \in 1 .. 4 : mounts[Binds[i]] \in Nat
    BY <1>1, BindsAre
  <2> QED
    BY <1>1, <2>1, <2>2 DEF Bounded
<1> QED
  BY <1>2, <1>3

\* The i-th of the four binds is the i-th instruction, so that its point is
\* counted as soon as it is mounted.
LEMMA BindCounts ==
  ASSUME InstallInv, Counted, Bind
  PROVE  Counted'
<1>1. /\ frames # <<>> /\ Running /\ Moves /\ Top'.at \in {Top.at, Top.at + 1}
      /\ UNCHANGED <<phase, route, result>> /\ Now.do = "bind"
  <2>1. Running /\ Now.do = "bind" /\ ~ Call
    BY DEF Bind, Is, Call
  <2> QED
    BY <2>1, InstructionMoves DEF Instruction
<1>2. /\ Top.script \in Chroots /\ Top.at \in 1 .. 4 /\ Now = Top.script[Top.at]
  BY <1>1, Here DEF Placed
<1>3. Now.on = Binds[Top.at]
  BY <1>2, ChrootsAre DEF Must
<1>4. mounts \in [Points -> Nat]
  BY DEF InstallInv, Owed
<1>5. CASE mounts' = mounts
  <2>1. \A i \in 1 .. 4 : mounts[Binds[i]] \in Nat
    BY <1>4, BindsAre
  <2> QED
    BY <1>1, <1>4, <1>5, <2>1, CountedStays
<1>6. CASE Proceed(<<>>) /\ mounts' = [mounts EXCEPT ![Binds[Top.at]] = @ + 1]
  <2>1. Top'.at = Top.at + 1
    BY <1>1, <1>6, Advances
  <2>2. /\ DOMAIN frames' = 1 .. Len(frames) /\ Len(frames) \in 1 .. 3
        /\ \A k \in 2 .. Len(frames) : frames'[k] = frames[k]
    BY <1>1, Moved, Stack DEF InstallInv
  <2>3. 2 \in DOMAIN frames /\ frames[2].script = ConfigureLinux /\ DOMAIN frames = 1 .. Len(frames)
        /\ frames[2].at \in Nat
    BY <1>1, <1>2, InChroot, Stack DEF InstallInv
  <2> SUFFICES ASSUME NEW k \in 1 .. Len(frames), frames'[k].script = ConfigureLinux, NEW i \in 1 .. 4
               PROVE  mounts'[Binds[i]] <= BoundOn(k, i)'
    BY <2>2 DEF Counted
  <2>4. k = 2
    <3>1. k # 1
      BY <1>1, <1>2, Apart DEF Moves, Top
    <3>2. k \in 2 .. Len(frames)
      BY <2>2, <3>1
    <3> QED
      BY <2>2, <3>2, Callers DEF InstallInv
  <2>5. mounts[Binds[i]] <= Called(frames[2].at) + (IF i < Top.at THEN 1 ELSE 0)
    BY <2>3 DEF Counted, BoundOn, Top
  <2>6. BoundOn(k, i)' = Called(frames[2].at) + (IF i < Top.at + 1 THEN 1 ELSE 0)
    BY <2>1, <2>2, <2>3, <2>4 DEF BoundOn, Top
  <2>7. /\ mounts[Binds[i]] \in Nat /\ Binds[i] \in Points /\ Binds[Top.at] \in Points
        /\ Binds[i] = Binds[Top.at] => i = Top.at
    BY <1>2, <1>4, BindsAre
  <2>8. mounts'[Binds[i]] = IF i = Top.at THEN mounts[Binds[i]] + 1 ELSE mounts[Binds[i]]
    BY <1>4, <1>6, <2>7
  <2>9. Called(frames[2].at) \in Nat
    BY <2>3 DEF Called
  <2> QED
    BY <1>2, <2>5, <2>6, <2>7, <2>8, <2>9
<1> QED
  BY <1>3, <1>5, <1>6 DEF Bind

LEMMA CallCounts ==
  ASSUME InstallInv, Counted, Call
  PROVE  Counted'
<1>1. PICK script \in Functions(Now.on) : frames' = <<Frame(script)>> \o frames
  BY DEF Call, Calls
<1>2. Running /\ Now.do = "call" /\ UNCHANGED mounts
  BY DEF Call, Is
<1>3. /\ Top.script \in Scripts /\ Top.at \in 1 .. Len(Top.script) /\ Now = Top.script[Top.at]
      /\ frames # <<>> /\ Stacked
  BY <1>2, Here
<1>4. script \in Scripts /\ Nested(Top.script, script)
  BY <1>1, <1>2, <1>3, CallsAreNested DEF Calling
<1>5. /\ Len(frames) \in 1 .. 3 /\ DOMAIN frames = 1 .. Len(frames) /\ frames \in Seq(FrameShape)
      /\ \A k \in 1 .. Len(frames) : frames[k].at \in Nat \ {0}
  BY <1>3, Stack DEF Stacked
<1> DEFINE x == Frame(script)
<1>6. x \in FrameShape /\ x.script = script /\ x.at = 1
  BY <1>4 DEF Frame, FrameShape
<1>7. frames' = <<x>> \o frames
  BY <1>1
<1> HIDE DEF x
<1>8. /\ DOMAIN frames' = 1 .. Len(frames) + 1 /\ frames'[1] = x
      /\ \A k \in DOMAIN frames' : k = 1 \/ (k - 1 \in 1 .. Len(frames) /\ frames'[k] = frames[k - 1])
  <2> HIDE DEF FrameShape
  <2> QED
    BY <1>5, <1>6, <1>7, Prepended
<1>9. \A i \in 1 .. 4 : mounts'[Binds[i]] = mounts[Binds[i]] /\ mounts[Binds[i]] \in Nat
  BY <1>2, BindsAre DEF InstallInv, Owed
<1> SUFFICES ASSUME NEW k \in DOMAIN frames', frames'[k].script = ConfigureLinux, NEW i \in 1 .. 4
             PROVE  mounts'[Binds[i]] <= BoundOn(k, i)'
  BY DEF Counted
<1>10. CASE k = 1
  <2>1. script = ConfigureLinux
    BY <1>6, <1>8, <1>10
  <2>2. Top.script \in Configures
    BY <1>3, <1>4, <2>1, Families, Apart
  <2>3. Len(frames) = 1
    BY <1>3, <2>2, Rooted
  <2>4. \A j \in DOMAIN frames : frames[j].script # ConfigureLinux
    BY <1>5, <2>2, <2>3, Apart DEF Top
  <2>5. mounts[Binds[i]] = 0
    BY <2>4, BindsAre, Unbound
  <2>6. BoundOn(k, i)' \in Nat
    BY <1>6, <1>8, <1>10 DEF BoundOn, Called
  <2> QED
    BY <1>9, <2>5, <2>6
<1>11. CASE k # 1
  <2>1. k - 1 \in 1 .. Len(frames) /\ frames'[k] = frames[k - 1] /\ k \in Nat /\ k > 1
    BY <1>8, <1>11
  <2>2. k = 2
    <3> SUFFICES ASSUME k # 2 PROVE FALSE
      OBVIOUS
    <3>1. k - 1 \in 2 .. Len(frames) /\ frames[k - 1].script = ConfigureLinux
      BY <2>1
    <3>2. Top.script \in Chroots
      BY <1>3, <3>1, Callers DEF Top
    <3> QED
      BY <1>2, <1>3, <3>2, Uncalling
  <2>3. mounts[Binds[i]] <= BoundOn(1, i)
    BY <1>5, <2>1, <2>2 DEF Counted
  <2>4. BoundOn(1, i) = Called(frames[1].at)
    BY <1>5 DEF BoundOn, Called
  <2>5. BoundOn(k, i)' = Called(frames[1].at)
    BY <1>5, <1>6, <1>8, <2>1, <2>2 DEF BoundOn, Called
  <2> QED
    BY <1>9, <2>3, <2>4, <2>5
<1> QED
  BY <1>10, <1>11

LEMMA ReturnCounts ==
  ASSUME InstallInv, Counted, Return
  PROVE  Counted'
<1> DEFINE caller == frames[2]
           lost == Top.failed /\ caller.script[caller.at].error = "return"
           g == [caller EXCEPT !.at = IF lost THEN @ ELSE @ + 1, !.failed = lost]
<1>1. /\ Len(frames) > 1 /\ frames' = <<g>> \o SubSeq(frames, 3, Len(frames)) /\ frames # <<>>
      /\ UNCHANGED mounts
  BY DEF Return, Returning
<1>2. /\ Stacked /\ Len(frames) \in 2 .. 3 /\ DOMAIN frames = 1 .. Len(frames)
      /\ frames \in Seq(FrameShape) /\ Top.failed \in BOOLEAN
      /\ caller \in FrameShape /\ caller.at \in Nat \ {0}
  <2>1. Stacked /\ frames \in Seq(FrameShape)
    BY DEF InstallInv, Stacked
  <2>2. Len(frames) \in 2 .. 3 /\ 2 \in 1 .. Len(frames) /\ 1 \in 1 .. Len(frames)
    BY <1>1, <2>1, Stack
  <2> QED
    BY <1>1, <2>1, <2>2, Stack DEF Top
<1>3. /\ g \in FrameShape /\ g.script = caller.script
      /\ g.at = IF lost THEN caller.at ELSE caller.at + 1
  <2>1. lost \in BOOLEAN
    BY <1>2
  <2>2. g = [caller EXCEPT !.at = IF lost THEN @ ELSE @ + 1, !.failed = lost]
    OBVIOUS
  <2>3. caller \in FrameShape /\ caller.at + 1 \in Nat \ {0}
    BY <1>2
  <2> HIDE DEF lost, caller, g, FrameShape
  <2>4. CASE lost
    <3>1. g = [caller EXCEPT !.at = caller.at, !.failed = TRUE]
      BY ONLY <2>2, <2>4
    <3> QED
      BY ONLY <2>3, <2>4, <3>1, Aborted
  <2>5. CASE ~ lost
    <3>1. g = [caller EXCEPT !.at = caller.at + 1, !.failed = FALSE]
      BY ONLY <2>1, <2>2, <2>5
    <3> QED
      BY ONLY <2>3, <2>5, <3>1, Resumed
  <2> QED
    BY <2>4, <2>5
<1> HIDE DEF g
<1>4. /\ DOMAIN frames' = 1 .. Len(frames) - 1 /\ frames'[1] = g
      /\ \A k \in 2 .. Len(frames) - 1 : frames'[k] = frames[k + 1]
  <2> HIDE DEF FrameShape
  <2> QED
    BY <1>1, <1>2, <1>3, Returned
<1>5. \A i \in 1 .. 4 : mounts'[Binds[i]] = mounts[Binds[i]] /\ mounts[Binds[i]] \in Nat
  BY <1>1, BindsAre DEF InstallInv, Owed
<1> SUFFICES ASSUME NEW k \in DOMAIN frames', frames'[k].script = ConfigureLinux, NEW i \in 1 .. 4
             PROVE  mounts'[Binds[i]] <= BoundOn(k, i)'
  BY DEF Counted
<1>6. CASE k = 1
  <2>1. caller.script = ConfigureLinux
    BY <1>3, <1>4, <1>6
  <2>2. caller.at \in 4 .. 5
    BY <1>2, <2>1, Callers
  <2>3. ConfigureLinux[caller.at].error = "ignore"
    BY <2>2, LeavesAre DEF Try
  <2>4. g.at = caller.at + 1
    BY <1>3, <2>1, <2>3
  <2>5. mounts[Binds[i]] <= BoundOn(2, i)
    BY <1>2, <2>1 DEF Counted
  <2>6. BoundOn(2, i) \in Nat /\ BoundOn(2, i) <= Called(caller.at) + 1 /\ Called(caller.at) \in Nat
    BY DEF BoundOn, Called
  <2>7. Called(caller.at) + 1 = Called(caller.at + 1)
    BY <2>2 DEF Called
  <2>8. BoundOn(k, i)' = Called(caller.at + 1)
    BY <1>4, <1>6, <2>2, <2>4 DEF BoundOn, Called
  <2> QED
    BY <1>5, <2>5, <2>6, <2>7, <2>8
<1>7. CASE k # 1
  <2>1. k \in 2 .. Len(frames) - 1 /\ k + 1 \in 2 .. Len(frames) /\ k + 1 # 2
    BY <1>2, <1>4, <1>7
  <2>2. frames[k + 1].script = ConfigureLinux
    BY <1>4, <2>1
  <2> QED
    BY <1>2, <2>1, <2>2, Callers
<1> QED
  BY <1>6, <1>7

LEMMA RootCounts ==
  ASSUME frames' = <<>> \/ \E s \in Roots : frames' = <<Frame(s)>>
  PROVE  Counted'
<1>1. CASE frames' = <<>>
  BY <1>1 DEF Counted
<1>2. CASE \E s \in Roots : frames' = <<Frame(s)>>
  <2>1. PICK s \in Roots : frames' = <<Frame(s)>>
    BY <1>2
  <2>2. s # ConfigureLinux
    BY Apart DEF Roots
  <2>3. \A k \in DOMAIN frames' : frames'[k].script = s
    BY <2>1 DEF Frame
  <2> QED
    BY <2>2, <2>3 DEF Counted
<1> QED
  BY <1>1, <1>2

LEMMA CountedKeeps ==
  ASSUME InstallInv, Counted, [Next]_vars
  PROVE  Counted'
<1>1. CASE Instruction /\ ~ Bind /\ ~ Call
  BY <1>1, InstructionMoves, InstructionBounds, CountedStays DEF Bounded
<1>2. CASE Bind
  BY <1>2, BindCounts
<1>3. CASE Call
  BY <1>3, CallCounts
<1>4. CASE Unwind
  <2>1. /\ frames # <<>> /\ Moves /\ Top'.at = Top.at /\ UNCHANGED <<phase, route, result>>
        /\ Bounded(mounts')
    BY <1>4, UnwindMoves
  <2> QED
    BY <2>1, CountedStays DEF Bounded
<1>5. CASE Return
  BY <1>5, ReturnCounts
<1>6. CASE Start \/ Planned \/ Deployed \/ Configured \/ Die
  <2>1. route \in DOMAIN ApplyDeploy /\ Images \subseteq AllImages
    BY ImagesAssumption DEF InstallInv, Stacked
  <2>2. /\ IsWindowsISO \in Roots /\ \A r \in DOMAIN ApplyDeploy : ApplyDeploy[r] \in Roots
        /\ AutoConfigureDualBoot["linux"] \in Roots /\ AutoConfigureDualBoot["other"] \in Roots
    BY DEF Roots, Deploys, Configures
  <2>3. CASE Start
    <3>1. /\ image' \in AllImages
          /\ IF image' \in {"linux_iso", "windows_iso"} THEN frames' = <<Frame(IsWindowsISO)>>
             ELSE frames' = <<Frame(ApplyDeploy[image'])>>
      BY <2>1, <2>3 DEF Start, Enter
    <3>2. image' \notin {"linux_iso", "windows_iso"} => image' \in DOMAIN ApplyDeploy
      BY <3>1, RootsAre DEF AllImages
    <3> QED
      BY <2>2, <3>1, <3>2, RootCounts
  <2>4. CASE Planned
    <3>1. /\ route' \in {"linux", "windows"}
          /\ frames' = <<>> \/ frames' = <<Frame(ApplyDeploy[route'])>>
      BY <2>4 DEF Planned, Enter, Ends
    <3> QED
      BY <2>2, <3>1, RootsAre, RootCounts
  <2>5. CASE Deployed
    <3>1. \/ frames' = <<>> \/ frames' = <<Frame(AutoConfigureDualBoot["linux"])>>
          \/ frames' = <<Frame(AutoConfigureDualBoot["other"])>>
      BY <2>5 DEF Deployed, Enter, Ends
    <3> QED
      BY <2>2, <3>1, RootCounts
  <2>6. CASE Configured \/ Die
    BY <2>6, RootCounts DEF Configured, Die, Ends
  <2> QED
    BY <1>6, <2>3, <2>4, <2>5, <2>6
<1>7. CASE UNCHANGED vars
  BY <1>7 DEF vars, Counted, BoundOn
<1> QED
  BY <1>1, <1>2, <1>3, <1>4, <1>5, <1>6, <1>7 DEF Next, Program, Instruction

\* The plain variables.
LEMMA InstructionIsPlain ==
  ASSUME InstallInv, Plain, Instruction
  PROVE  Plain'
<1>1. UNCHANGED <<image, pipeline, result, wiped, runs>>
  BY DEF Instruction, MkdirTemp, Mount, Bind, UnbindLater, Release, Mkfs, Unpack, Dd, ElseDd, Convert,
         Find, Heal, Chroot, WriteCustom, UpdateMenu, Call, host
<1>2. \/ Fails \/ \E c : Proceed(c) \/ erred' = erred
  BY DEF Instruction, MkdirTemp, Mount, Bind, UnbindLater, Release, Mkfs, Unpack, Dd, ElseDd, Convert,
         Find, Heal, Chroot, WriteCustom, UpdateMenu, WriteBlocks, Call, Calls
<1>3. erred' \in BOOLEAN
  BY <1>2 DEF Plain, Fails, Proceed
<1>4. raw' \in BOOLEAN
  BY DEF Plain, Instruction, MkdirTemp, Mount, Bind, UnbindLater, Release, Mkfs, Unpack, Dd, ElseDd,
         Convert, Find, Heal, Chroot, WriteCustom, UpdateMenu, Call
<1>5. stale' \in BOOLEAN
  BY DEF Plain, Instruction, MkdirTemp, Mount, Bind, UnbindLater, Release, Mkfs, Unpack, Dd, ElseDd,
         Convert, Find, Heal, Chroot, WriteCustom, UpdateMenu, Call
<1>6. menu' \in BOOLEAN
  BY DEF Plain, Instruction, MkdirTemp, Mount, Bind, UnbindLater, Release, Mkfs, Unpack, Dd, ElseDd,
         Convert, Find, Heal, Chroot, WriteCustom, UpdateMenu, Call, host
<1> QED
  BY <1>1, <1>3, <1>4, <1>5, <1>6 DEF Plain

LEMMA UnwindIsPlain ==
  ASSUME InstallInv, Plain, Unwind
  PROVE  Plain'
<1>1. UNCHANGED <<image, pipeline, result, runs, erred, menu, stale>> /\ Do(Head(Top.cleanups))
  BY DEF Unwind, host
<1> DEFINE c == Head(Top.cleanups)
<1>2. c.do \in {"umount", "RemoveAll", "Remove"}
  <2>1. c \in CleanupShape
    <3>1. frames # <<>> /\ Top.cleanups # <<>>
      BY DEF Unwind, Returning
    <3>2. Top.cleanups \in Seq(CleanupShape)
      BY <3>1, Stack DEF InstallInv, Top
    <3> HIDE DEF CleanupShape
    <3> QED
      BY <3>1, <3>2
  <2> HIDE DEF c
  <2> QED
    BY <2>1, Cleanups
<1> HIDE DEF c
<1>3. Do(c)
  BY <1>1 DEF c
<1>4. raw' \in BOOLEAN /\ wiped' \in BOOLEAN
  <2>1. CASE c.do = "umount"
    BY <1>3, <2>1 DEF Do, Plain
  <2>2. CASE c.do = "RemoveAll"
    <3>1. UNCHANGED raw /\ wiped' = (wiped \/ \E d \in {c.on} \union Below(c.on) : Mounted(d))
      BY <1>3, <2>2 DEF Do
    <3> QED
      BY <3>1 DEF Plain
  <2>3. CASE c.do = "Remove"
    BY <1>3, <2>3 DEF Do, Plain
  <2> QED
    BY <1>2, <2>1, <2>2, <2>3
<1> QED
  BY <1>1, <1>4 DEF Plain

LEMMA PlainKeeps ==
  ASSUME InstallInv, Plain, [Next]_vars
  PROVE  Plain'
<1>1. CASE Instruction
  BY <1>1, InstructionIsPlain
<1>2. CASE Unwind
  BY <1>2, UnwindIsPlain
<1>3. CASE Return
  <2>1. Top.failed \in BOOLEAN
    <3>1. frames # <<>>
      BY <1>3 DEF Return, Returning
    <3> QED
      BY <3>1, Stack DEF InstallInv, Top
  <2>2. erred' = Top.failed /\ UNCHANGED <<image, pipeline, raw, menu, stale, wiped, result, runs>>
    BY <1>3 DEF Return, host
  <2> QED
    BY <2>1, <2>2 DEF Plain
<1>4. CASE Start
  <2>1. image' \in AllImages /\ pipeline' \in {"dual", "single"} /\ ~ erred' /\ ~ menu' /\ result' = "none"
        /\ UNCHANGED <<raw, stale, wiped>> /\ runs < MaxRuns /\ runs' = runs + 1
    BY <1>4, ImagesAssumption DEF Start, Enter
  <2>2. runs' \in 0 .. MaxRuns
    BY <2>1, MaxRunsAssumption DEF Plain
  <2>3. erred' \in BOOLEAN /\ menu' \in BOOLEAN
    BY <1>4 DEF Start, Enter
  <2> QED
    BY <2>1, <2>2, <2>3 DEF Plain
<1>5. CASE Planned \/ Deployed \/ Configured
  <2>1. UNCHANGED <<image, pipeline, raw, menu, stale, wiped, runs>>
    BY <1>5 DEF Planned, Deployed, Configured
  <2>2. erred' \in BOOLEAN
    BY <1>5 DEF Planned, Deployed, Configured, Enter, Ends
  <2>3. result' = result \/ result' \in {"error", "ok"}
    BY <1>5 DEF Planned, Deployed, Configured, Enter, Ends
  <2> QED
    BY <2>1, <2>2, <2>3 DEF Plain
<1>6. CASE Die
  <2>1. UNCHANGED <<image, pipeline, raw, menu, wiped, runs>> /\ result' = "died"
    BY <1>6 DEF Die, Ends
  <2>2. erred' \in BOOLEAN /\ stale' \in BOOLEAN
    BY <1>6 DEF Die, Ends
  <2> QED
    BY <2>1, <2>2 DEF Plain
<1>7. CASE UNCHANGED vars
  BY <1>7 DEF vars, Plain
<1> QED
  BY <1>1, <1>2, <1>3, <1>4, <1>5, <1>6, <1>7 DEF Next, Program

LEMMA TypesInit == Init => TypesInv
<1> SUFFICES ASSUME Init PROVE TypesInv
  OBVIOUS
<1>1. Counted
  BY DEF Init, Counted
<1>2. Plain
  <2>1. 0 \in 0 .. MaxRuns
    BY MaxRunsAssumption
  <2> QED
    BY <2>1, ImagesAssumption DEF Init, Plain
<1> QED
  BY <1>1, <1>2, InitHolds DEF TypesInv

\* No bind is stacked higher than the number of functions that bind.
LEMMA MountsAreFew ==
  ASSUME InstallInv, Counted
  PROVE  mounts \in [Points -> 0 .. 2]
<1>1. mounts \in [Points -> Nat] /\ \A d \in Dirs : mounts[d] <= 1
  BY DEF InstallInv, Owed
<1>2. ASSUME NEW b \in BindPoints PROVE mounts[b] <= 2
  <2>1. CASE \A k \in DOMAIN frames : frames[k].script # ConfigureLinux
    BY <2>1, Unbound
  <2>2. CASE \E k \in DOMAIN frames : frames[k].script = ConfigureLinux
    <3>1. PICK k \in DOMAIN frames : frames[k].script = ConfigureLinux
      BY <2>2
    <3>2. PICK i \in 1 .. 4 : Binds[i] = b
      BY BindsAre
    <3>3. mounts[b] <= BoundOn(k, i)
      BY <3>1, <3>2 DEF Counted
    <3>4. frames # <<>>
      BY <3>1
    <3>5. DOMAIN frames = 1 .. Len(frames) /\ frames[k].at \in Nat \ {0}
      BY <3>1, <3>4, Stack DEF InstallInv
    <3>6. BoundOn(k, i) <= 2 /\ BoundOn(k, i) \in Nat
      <4>1. CASE k = 1
        BY <4>1 DEF BoundOn, Called
      <4>2. CASE k # 1
        <5>1. frames[k].at \in 4 .. 5
          BY <3>1, <3>5, <4>2, Callers DEF InstallInv
        <5> QED
          BY <5>1 DEF BoundOn, Called
      <4> QED
        BY <4>1, <4>2
    <3>7. mounts[b] \in Nat
      BY <1>1, BindsAre
    <3> QED
      BY <3>3, <3>6, <3>7
  <2> QED
    BY <2>1, <2>2
<1> QED
  BY <1>1, <1>2, BindsAre

LEMMA TypesFollow == TypesInv => TypeOK
<1> SUFFICES ASSUME TypesInv PROVE TypeOK
  OBVIOUS
<1>1. mounts \in [Points -> 0 .. 2]
  BY MountsAreFew DEF TypesInv
<1>2. /\ Len(frames) <= 3 /\ phase \in {"idle", "probe", "deploy", "configure"}
      /\ route \in DOMAIN ApplyDeploy /\ dirs \subseteq Dirs
      /\ part \in [fs : {"ext4", "ntfs", "hfs", "iso", "none"}, holds : {"nothing", "half", "image"}]
  BY DEF TypesInv, InstallInv, Stacked, Owed, PartShape
<1>3. erred \in BOOLEAN /\ {raw, menu, stale, wiped} \subseteq BOOLEAN
  BY DEF TypesInv, Plain
<1>4. image \in AllImages /\ pipeline \in {"dual", "single"} /\ result \in {"none", "ok", "error", "died"} /\ runs \in 0 .. MaxRuns
  BY DEF TypesInv, Plain
<1> QED
  BY <1>1, <1>2, <1>3, <1>4 DEF TypeOK

\* The variables keep their types.  Above all no bind is ever stacked higher
\* than twice: two functions bind (NeutralizeLiveBootHooks and
\* AssertBootableKernelAndPackages), and what the first leaves bound when it
\* fails half-way is all that the second adds to.
THEOREM InstallTypes == Spec => []TypeOK
<1>1. TypesInv /\ [Next]_vars => TypesInv'
  BY StepKeeps, CountedKeeps, PlainKeeps DEF TypesInv
<1> QED
  BY <1>1, TypesInit, TypesFollow, PTL DEF Spec
=============================================================================
