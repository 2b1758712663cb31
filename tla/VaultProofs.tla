----------------------------- MODULE VaultProofs -----------------------------
(***************************************************************************)
(* What Vault.tla promises of its snapshots and of staged payloads, for    *)
(* every set of drives and every number of commands and deaths.  VaultInv  *)
(* is about what a manifest and a success mean: it holds wherever a path   *)
(* leads.  PlaceInv is about where paths lead, for commands that nothing   *)
(* else disturbs.                                                          *)
(***************************************************************************)
EXTENDS Vault, TLAPS, WellFoundedInduction

Fields == {"kind", "pc", "dir", "what", "own", "at", "seen", "calm"}
IsJob(r) == r = [f \in Fields |-> r[f]]
IsArchive(r) == r = [f \in {"on", "state", "sum"} |-> r[f]]

\* As much of the types as the steps need.
JobsShape ==
  /\ jobs \in Seq({jobs[i] : i \in DOMAIN jobs}) /\ Len(jobs) <= MaxJobs
  /\ \A i \in Ids : IsJob(jobs[i])
ArchiveShape ==
  /\ archive = [a \in 0 .. MaxJobs |-> archive[a]]
  /\ \A a \in 0 .. MaxJobs : IsArchive(archive[a])

\* Whatever has a manifest was whole when it was written, ...
Vouched == \A a \in 0 .. MaxJobs : archive[a].sum \in {"none", "whole"}

\* ... because a backup comes to its manifest only from a tar that ended well.
Archived == \A j \in Ids : At(j, "backup", "hash") => archive[j].state = "whole"

\* What a restoration unpacks onto is the root file system of the disk.
Rooted == \A j \in Ids : At(j, "restore", "extract") => j \in host.roots

VaultInv == JobsShape /\ ArchiveShape /\ Vouched /\ Archived /\ Rooted

\* Most steps: no backup comes to its manifest, no restoration to unpacking,
\* and none succeeds.
Quiet ==
  /\ JobsShape' /\ Ids \subseteq Ids'
  /\ \A i \in Ids' : jobs'[i].kind = "backup" /\ jobs'[i].pc = "hash" => At(i, "backup", "hash")
  /\ \A i \in Ids' : jobs'[i].kind = "restore" /\ jobs'[i].pc = "extract"
                     => i \in Ids /\ At(i, "restore", "extract")
  /\ \A i \in Ids : At(i, "restore", "extract") => jobs'[i].pc # "ok"

\* A command that may still do something.
Active(r) == r.pc \notin {"err", "heard", "dead"} /\ (r.pc = "ok" => r.kind = "prepare")

\* What one step keeps of a restoration that is unpacking.
Restored == \A i \in Ids : At(i, "restore", "extract") /\ jobs'[i].pc = "ok"
                             => jobs[i].what.arch \in host'.holds

-----------------------------------------------------------------------------

LEMMA InitVault == Init => VaultInv
<1> SUFFICES ASSUME Init PROVE VaultInv
  OBVIOUS
<1>1. jobs = <<>> /\ Len(jobs) = 0 /\ DOMAIN jobs = {}
  BY DEF Init
<1>2. jobs \in Seq({jobs[i] : i \in DOMAIN jobs})
  BY <1>1
<1>3. PICK q \in Parts, old \in {"whole", "rotten"} :
        archive = [j \in 0 .. MaxJobs |->
          IF j = 0 THEN [on |-> <<q, 0>>, state |-> old, sum |-> "whole"] ELSE NoArchive]
  BY DEF Init
<1>4. \A a \in 0 .. MaxJobs : IsArchive(archive[a]) /\ archive[a].sum \in {"none", "whole"}
  BY <1>3 DEF IsArchive, NoArchive
<1>5. archive = [a \in 0 .. MaxJobs |-> archive[a]]
  BY <1>3
<1> QED
  BY <1>1, <1>2, <1>4, <1>5, BoundsAssumption
  DEF VaultInv, JobsShape, ArchiveShape, Vouched, Archived, Rooted, Ids

\* A function on 1 .. n is a sequence of its own values.
LEMMA Listing ==
  ASSUME NEW n \in Nat, NEW f, f = [i \in 1 .. n |-> f[i]]
  PROVE  f \in Seq({f[i] : i \in DOMAIN f}) /\ Len(f) = n
<1> DEFINE S == {f[i] : i \in DOMAIN f}
<1>1. \A i \in 1 .. n : f[i] \in S
  OBVIOUS
<1> HIDE DEF S
<1>2. f \in Seq(S) /\ Len(f) = n
  BY <1>1
<1> QED
  BY <1>2 DEF S

LEMMA Replaced ==
  ASSUME JobsShape, NEW j \in Ids, NEW r, IsJob(r), jobs' = [jobs EXCEPT ![j] = r]
  PROVE  JobsShape' /\ Ids' = Ids /\ \A i \in Ids : jobs'[i] = IF i = j THEN r ELSE jobs[i]
<1>1. DOMAIN jobs = Ids /\ Len(jobs) \in Nat
  BY DEF JobsShape, Ids
<1>2. DOMAIN jobs' = Ids /\ \A i \in Ids : jobs'[i] = IF i = j THEN r ELSE jobs[i]
  BY <1>1
<1>3. jobs' = [i \in 1 .. Len(jobs) |-> jobs'[i]]
  BY <1>1 DEF Ids
<1>4. jobs' \in Seq({jobs'[i] : i \in DOMAIN jobs'}) /\ Len(jobs') = Len(jobs)
  BY ONLY <1>1, <1>3, Listing
<1> QED
  BY <1>1, <1>2, <1>4 DEF JobsShape, Ids

\* One command goes on.
LEMMA Changed ==
  ASSUME JobsShape, NEW j \in Ids, NEW r, IsJob(r), r.kind = jobs[j].kind,
         jobs' = [jobs EXCEPT ![j] = r],
         r.kind = "backup" => r.pc # "hash", r.kind = "restore" => r.pc # "extract",
         At(j, "restore", "extract") => r.pc # "ok"
  PROVE  Quiet
<1>1. JobsShape' /\ Ids' = Ids /\ \A i \in Ids : jobs'[i] = IF i = j THEN r ELSE jobs[i]
  BY Replaced
<1> QED
  BY <1>1 DEF Quiet, At

\* A command is ordered: it comes last, and disturbs those that are busy.
Joined(old, kind, pc, dir, what, heir) ==
  LET n == Len(jobs) + 1 IN
  /\ JobsShape' /\ Ids' = Ids \union {n} /\ n \notin Ids /\ Len(jobs) \in Nat
  /\ \A i \in Ids :
       /\ jobs'[i].kind = old[i].kind /\ jobs'[i].pc = old[i].pc
       /\ jobs'[i].dir = old[i].dir /\ jobs'[i].what = old[i].what
       /\ jobs'[i].own = old[i].own /\ jobs'[i].at = old[i].at
       /\ jobs'[i].seen = old[i].seen
       /\ jobs'[i].calm => old[i].calm /\ ~ (Active(old[i]) /\ kind \in Disturbing)
  /\ jobs'[n].kind = kind /\ jobs'[n].pc = pc /\ jobs'[n].dir = dir
  /\ jobs'[n].what = what /\ jobs'[n].own = FALSE
  /\ jobs'[n].calm => heir /\ \A k \in Ids : Active(old[k]) => old[k].kind \notin Disturbing

LEMMA Appended ==
  ASSUME JobsShape, NEW old, NEW kind, NEW pc, NEW dir, NEW what, NEW heir,
         old \in Seq({old[i] : i \in DOMAIN old}), Len(old) = Len(jobs),
         \A i \in Ids : IsJob(old[i]), Start(old, kind, pc, dir, what, heir)
  PROVE  Joined(old, kind, pc, dir, what, heir)
<1> DEFINE stir == kind \in Disturbing
           older == [k \in DOMAIN old |-> [old[k] EXCEPT !.calm = @ /\ ~(Active(old[k]) /\ stir)]]
           new == [kind |-> kind, pc |-> pc, dir |-> dir, what |-> what,
                   own |-> FALSE, at |-> None, seen |-> "none",
                   calm |-> heir /\ \A k \in DOMAIN old :
                              Active(old[k]) => old[k].kind \notin Disturbing]
<1>1. jobs' = Append(older, new) /\ Len(old) < MaxJobs
  BY DEF Start, Active
<1>2. DOMAIN old = Ids /\ Len(old) \in Nat
  BY DEF JobsShape, Ids
<1>3. \A k \in Ids :
        /\ IsJob(older[k]) /\ older[k].kind = old[k].kind /\ older[k].pc = old[k].pc
        /\ older[k].dir = old[k].dir /\ older[k].what = old[k].what
        /\ older[k].own = old[k].own /\ older[k].at = old[k].at
        /\ older[k].seen = old[k].seen
        /\ older[k].calm => old[k].calm /\ ~ (Active(old[k]) /\ stir)
  <2> SUFFICES ASSUME NEW k \in Ids
      PROVE  /\ IsJob(older[k]) /\ older[k].kind = old[k].kind /\ older[k].pc = old[k].pc
             /\ older[k].dir = old[k].dir /\ older[k].what = old[k].what
             /\ older[k].own = old[k].own /\ older[k].at = old[k].at
             /\ older[k].seen = old[k].seen
             /\ older[k].calm => old[k].calm /\ ~ (Active(old[k]) /\ stir)
    OBVIOUS
  <2> DEFINE still == old[k].calm /\ ~(Active(old[k]) /\ stir)
  <2>1. older[k] = [old[k] EXCEPT !.calm = still]
    BY <1>2
  <2>2. IsJob(old[k])
    OBVIOUS
  <2>3. still => old[k].calm /\ ~ (Active(old[k]) /\ stir)
    OBVIOUS
  <2> HIDE DEF stir, older, still
  <2>4. older[k].calm = still
    BY <2>1, <2>2 DEF IsJob, Fields
  <2>5. /\ IsJob(older[k]) /\ older[k].kind = old[k].kind /\ older[k].pc = old[k].pc
        /\ older[k].dir = old[k].dir /\ older[k].what = old[k].what
        /\ older[k].own = old[k].own /\ older[k].at = old[k].at
        /\ older[k].seen = old[k].seen
    BY <2>1, <2>2 DEF IsJob, Fields
  <2> QED
    BY <2>3, <2>4, <2>5
<1>4. /\ IsJob(new) /\ new.kind = kind /\ new.pc = pc /\ new.dir = dir /\ new.what = what
      /\ new.own = FALSE
  BY DEF IsJob, Fields
<1>12. new.calm => heir /\ \A k \in Ids : Active(old[k]) => old[k].kind \notin Disturbing
  BY <1>2
<1>5. older = [k \in 1 .. Len(jobs) |-> older[k]]
  BY <1>2 DEF Ids
<1> HIDE DEF older, new
<1> DEFINE S == {older[k] : k \in 1 .. Len(jobs)} \union {new}
<1>6. older \in Seq(S) /\ new \in S /\ Len(older) = Len(jobs)
  <2>1. \A k \in 1 .. Len(jobs) : older[k] \in S
    OBVIOUS
  <2> QED
    BY <1>2, <1>5, <2>1
<1> HIDE DEF S
<1>7. /\ jobs' \in Seq(S) /\ Len(jobs') = Len(jobs) + 1
      /\ \A k \in 1 .. Len(jobs) : jobs'[k] = older[k]
      /\ jobs'[Len(jobs) + 1] = new
  BY <1>1, <1>2, <1>6
<1>8. jobs' \in Seq({jobs'[i] : i \in DOMAIN jobs'})
  <2>1. Len(jobs') \in Nat /\ jobs' = [i \in 1 .. Len(jobs') |-> jobs'[i]]
    BY <1>2, <1>7
  <2> QED
    BY ONLY <2>1, Listing
<1>9. Ids' = Ids \union {Len(jobs) + 1} /\ Len(jobs) + 1 \notin Ids
  BY <1>2, <1>7 DEF Ids
<1>10. \A i \in Ids : jobs'[i] = older[i]
  BY <1>7 DEF Ids
<1>11. JobsShape'
  <2>1. Len(jobs') <= MaxJobs
    BY <1>1, <1>2, <1>7, BoundsAssumption
  <2>2. \A i \in Ids' : IsJob(jobs'[i])
    BY <1>3, <1>4, <1>7, <1>9, <1>10
  <2> QED
    BY <1>8, <2>1, <2>2 DEF JobsShape
<1> QED
  BY <1>2, <1>3, <1>4, <1>7, <1>9, <1>10, <1>11, <1>12 DEF Joined

LEMMA Ordered ==
  ASSUME JobsShape, NEW old, NEW kind, NEW pc, NEW dir, NEW what, NEW heir,
         old \in Seq({old[i] : i \in DOMAIN old}), Len(old) = Len(jobs),
         \A i \in Ids : /\ IsJob(old[i]) /\ old[i].kind = jobs[i].kind
                        /\ old[i].pc = jobs[i].pc \/ old[i].pc = "heard",
         pc # "hash", pc # "extract", Start(old, kind, pc, dir, what, heir)
  PROVE  Quiet
<1>0. \A i \in Ids : IsJob(old[i])
  OBVIOUS
<1>1. Joined(old, kind, pc, dir, what, heir)
  BY <1>0, Appended
<1>2. /\ JobsShape' /\ Ids' = Ids \union {Len(jobs) + 1} /\ Len(jobs) + 1 \notin Ids
      /\ \A i \in Ids : jobs'[i].kind = old[i].kind /\ jobs'[i].pc = old[i].pc
      /\ jobs'[Len(jobs) + 1].pc = pc
  BY <1>1 DEF Joined
<1> QED
  BY <1>2 DEF Quiet, At

LEMMA QuietKeeps ==
  ASSUME VaultInv, Quiet, UNCHANGED <<archive, host>>
  PROVE  VaultInv' /\ Restored
BY DEF VaultInv, ArchiveShape, Vouched, Archived, Rooted, Quiet, Restored, At

LEMMA OrderedKeeps ==
  ASSUME VaultInv, NEW kind, NEW pc, NEW dir, NEW what, NEW heir,
         pc # "hash", pc # "extract", Start(jobs, kind, pc, dir, what, heir),
         UNCHANGED <<archive, host>>
  PROVE  VaultInv' /\ Restored
<1>1. \A i \in Ids : IsJob(jobs[i])
  BY DEF VaultInv, JobsShape
<1>2. Quiet
  BY <1>1, Ordered DEF VaultInv, JobsShape
<1> QED
  BY <1>2, QuietKeeps

\* A command goes on to a place that is neither a manifest nor a success.
LEMMA GoKeeps ==
  ASSUME VaultInv, NEW j \in Ids, NEW pc, NEW own, NEW at, NEW seen,
         jobs' = [jobs EXCEPT ![j] = [jobs[j] EXCEPT !.pc = pc, !.own = own,
                                                     !.at = at, !.seen = seen]],
         pc # "hash", pc # "extract", At(j, "restore", "extract") => pc # "ok",
         UNCHANGED <<archive, host>>
  PROVE  VaultInv' /\ Restored
<1> DEFINE r == [jobs[j] EXCEPT !.pc = pc, !.own = own, !.at = at, !.seen = seen]
<1>1. IsJob(jobs[j]) /\ JobsShape
  BY DEF VaultInv, JobsShape
<1>2. IsJob(r) /\ r.kind = jobs[j].kind /\ r.pc = pc
  BY <1>1 DEF IsJob, Fields
<1> HIDE DEF r
<1>3. jobs' = [jobs EXCEPT ![j] = r]
  BY DEF r
<1>4. Quiet
  BY <1>1, <1>2, <1>3, Changed
<1> QED
  BY <1>4, QuietKeeps

LEMMA PlainGo ==
  ASSUME VaultInv, NEW j \in Ids, NEW pc, Go(j, pc),
         pc # "hash", pc # "extract", At(j, "restore", "extract") => pc # "ok",
         UNCHANGED <<archive, host>>
  PROVE  VaultInv' /\ Restored
<1>1. IsJob(jobs[j])
  BY DEF VaultInv, JobsShape
<1>2. jobs' = [jobs EXCEPT ![j] = [jobs[j] EXCEPT !.pc = pc, !.own = jobs[j].own,
                                     !.at = jobs[j].at, !.seen = jobs[j].seen]]
  <2>1. [jobs[j] EXCEPT !.pc = pc]
          = [jobs[j] EXCEPT !.pc = pc, !.own = jobs[j].own,
                            !.at = jobs[j].at, !.seen = jobs[j].seen]
    BY <1>1 DEF IsJob, Fields
  <2> QED
    BY <2>1 DEF Go
<1> QED
  BY <1>2, GoKeeps

LEMMA ReturnKeeps ==
  ASSUME VaultInv, NEW j \in Ids, NEW result, Return(j, result),
         result # "hash", result # "extract", At(j, "restore", "extract") => result # "ok",
         UNCHANGED <<archive, host>>
  PROVE  VaultInv' /\ Restored
<1>1. IsJob(jobs[j])
  BY DEF VaultInv, JobsShape
<1>2. jobs' = [jobs EXCEPT ![j] = [jobs[j] EXCEPT !.pc = result, !.own = FALSE,
                                     !.at = jobs[j].at, !.seen = jobs[j].seen]]
  <2>1. [jobs[j] EXCEPT !.pc = result, !.own = FALSE]
          = [jobs[j] EXCEPT !.pc = result, !.own = FALSE,
                            !.at = jobs[j].at, !.seen = jobs[j].seen]
    BY <1>1 DEF IsJob, Fields
  <2> QED
    BY <2>1 DEF Return
<1> QED
  BY <1>2, GoKeeps

\* All commands change alike: their kind stays and none comes to a manifest.
LEMMA AllKeep ==
  ASSUME VaultInv, UNCHANGED <<archive, host>>, jobs' = [j \in Ids |-> jobs'[j]],
         \A j \in Ids : /\ IsJob(jobs'[j]) /\ jobs'[j].kind = jobs[j].kind
                        /\ jobs'[j].pc = jobs[j].pc \/ jobs'[j].pc \in {"dead", "orphan"}
  PROVE  VaultInv' /\ Restored
<1>1. JobsShape /\ Len(jobs) \in Nat
  BY DEF VaultInv, JobsShape
<1>2. jobs' \in Seq({jobs'[i] : i \in DOMAIN jobs'}) /\ Len(jobs') = Len(jobs)
  <2>1. jobs' = [j \in 1 .. Len(jobs) |-> jobs'[j]]
    BY DEF Ids
  <2> QED
    BY ONLY <1>1, <2>1, Listing
<1>3. Quiet
  BY <1>1, <1>2 DEF Quiet, JobsShape, Ids, At
<1> QED
  BY <1>3, QuietKeeps

\* A backup writes its own archive, and no manifest that does not fit.
LEMMA WritesKeep ==
  ASSUME VaultInv, UNCHANGED host, JobsShape', Ids' = Ids, NEW j \in Ids, jobs[j].kind = "backup",
         jobs'[j].kind = "backup", \A i \in Ids \ {j} : jobs'[i] = jobs[i],
         archive' = [archive EXCEPT ![j] = archive'[j]], IsArchive(archive'[j]),
         archive'[j].sum \in {"none", "whole"},
         jobs'[j].pc = "hash" => archive'[j].state = "whole"
  PROVE  VaultInv' /\ Restored
<1>1. j \in 0 .. MaxJobs
  BY BoundsAssumption DEF VaultInv, JobsShape, Ids
<1>2. archive' = [a \in 0 .. MaxJobs |-> IF a = j THEN archive'[j] ELSE archive[a]]
  BY <1>1 DEF VaultInv, ArchiveShape
<1>3. archive' = [a \in 0 .. MaxJobs |-> archive'[a]]
  BY <1>2
<1>4. \A a \in 0 .. MaxJobs : archive'[a] = IF a = j THEN archive'[j] ELSE archive[a]
  BY <1>2
<1>5. ArchiveShape' /\ Vouched'
  BY <1>3, <1>4 DEF VaultInv, ArchiveShape, Vouched
<1>6. Archived'
  <2> SUFFICES ASSUME NEW i \in Ids, jobs'[i].kind = "backup", jobs'[i].pc = "hash"
               PROVE  archive'[i].state = "whole"
    BY DEF Archived, At
  <2>1. i \in 0 .. MaxJobs
    BY BoundsAssumption DEF VaultInv, JobsShape, Ids
  <2> QED
    BY <1>4, <2>1 DEF VaultInv, Archived, At
<1>7. Restored /\ Rooted'
  BY DEF VaultInv, Restored, Rooted, At
<1> QED
  BY <1>5, <1>6, <1>7 DEF VaultInv

-----------------------------------------------------------------------------
(* The steps.                                                               *)

LEMMA FormatKeeps ==
  ASSUME VaultInv, NEW j \in Ids, Format(j)
  PROVE  VaultInv' /\ Restored
<1>1. CASE FormatFails(j)
  BY <1>1, ReturnKeeps DEF FormatFails, files, Formatter, At
<1>2. CASE UnmountStick(j)
  BY <1>2, PlainGo DEF UnmountStick, files, Formatter, At
<1>3. CASE Wipe(j)
  BY <1>3, PlainGo DEF Wipe, files, Formatter, At
<1>4. CASE MakeFileSystem(j)
  <2>1. jobs[j].kind # "restore"
    BY <1>4 DEF MakeFileSystem, Formatter, At
  <2>2. \E pc \in {"clear", "ok"} : Go(j, pc) /\ UNCHANGED <<archive, host>>
    BY <1>4 DEF MakeFileSystem, files
  <2> QED
    BY <2>1, <2>2, PlainGo DEF At
<1>5. CASE ClearVault(j)
  BY <1>5, PlainGo DEF ClearVault, files, At
<1>6. CASE MountVault(j)
  BY <1>6, PlainGo DEF MountVault, files, At
<1> QED
  BY <1>1, <1>2, <1>3, <1>4, <1>5, <1>6 DEF Format

LEMMA HearKeeps ==
  ASSUME VaultInv, NEW j \in Ids, HearPrepared(j)
  PROVE  VaultInv' /\ Restored
<1> DEFINE heard == [jobs EXCEPT ![j].pc = "heard"]
           r == [jobs[j] EXCEPT !.pc = "heard"]
<1>0. UNCHANGED <<archive, host>>
  BY DEF HearPrepared, files
<1>1. JobsShape /\ IsJob(jobs[j]) /\ DOMAIN jobs = Ids /\ Len(jobs) \in Nat
  BY DEF VaultInv, JobsShape, Ids
<1>2. IsJob(r) /\ r.kind = jobs[j].kind /\ r.pc = "heard" /\ heard = [jobs EXCEPT ![j] = r]
  BY <1>1 DEF IsJob, Fields
<1> HIDE DEF r
<1>3. heard = [i \in 1 .. Len(jobs) |-> heard[i]]
  BY <1>1, <1>2 DEF Ids
<1>4. \A i \in Ids : heard[i] = IF i = j THEN r ELSE jobs[i]
  BY <1>1, <1>2
<1> HIDE DEF heard
<1>5. heard \in Seq({heard[i] : i \in DOMAIN heard}) /\ Len(heard) = Len(jobs)
  BY ONLY <1>1, <1>3, Listing
<1>6. \A i \in Ids : /\ IsJob(heard[i]) /\ heard[i].kind = jobs[i].kind
                     /\ heard[i].pc = jobs[i].pc \/ heard[i].pc = "heard"
  BY <1>1, <1>2, <1>4 DEF JobsShape
<1>7. CASE Start(heard, "backup", "open", VaultDir, jobs[j].what, jobs[j].calm)
  BY <1>0, <1>1, <1>5, <1>6, <1>7, Ordered, QuietKeeps
<1>8. CASE Start(heard, "stage", "open", VaultDir, jobs[j].what, jobs[j].calm)
  BY <1>0, <1>1, <1>5, <1>6, <1>8, Ordered, QuietKeeps
<1>9. CASE jobs' = heard
  <2>1. Go(j, "heard")
    BY <1>9 DEF Go, heard
  <2> QED
    BY <1>0, <2>1, PlainGo
<1> QED
  BY <1>7, <1>8, <1>9 DEF HearPrepared, heard

LEMMA BackupKeeps ==
  ASSUME VaultInv, NEW j \in Ids, Backup(j)
  PROVE  VaultInv' /\ Restored
<1>0. j \in 0 .. MaxJobs /\ JobsShape /\ IsJob(jobs[j]) /\ IsArchive(archive[j])
      /\ archive[j].sum \in {"none", "whole"}
  BY BoundsAssumption DEF VaultInv, JobsShape, ArchiveShape, Vouched, Ids
<1>host. UNCHANGED host
  BY DEF Backup, MakeDir, AutoMount, BackupFails, CreateArchive, TarEnds, WriteManifest,
         OrphanEnds, files
<1>1. CASE MakeDir(j)
  BY <1>1, PlainGo DEF MakeDir, files, At
<1>2. CASE AutoMount(j)
  <2>1. jobs' = [jobs EXCEPT ![j] = [jobs[j] EXCEPT !.pc = "open", !.own = TRUE,
                                       !.at = jobs[j].at, !.seen = jobs[j].seen]]
    <3>1. [jobs[j] EXCEPT !.pc = "open", !.own = TRUE]
            = [jobs[j] EXCEPT !.pc = "open", !.own = TRUE,
                              !.at = jobs[j].at, !.seen = jobs[j].seen]
      BY <1>0 DEF IsJob, Fields
    <3> QED
      BY <1>2, <3>1 DEF AutoMount
  <2>2. UNCHANGED <<archive, host>> /\ ~ At(j, "restore", "extract")
    BY <1>2 DEF AutoMount, files, At
  <2> QED
    BY <2>1, <2>2, GoKeeps
<1>3. CASE BackupFails(j)
  BY <1>3, ReturnKeeps DEF BackupFails, files, At
<1>4. CASE CreateArchive(j)
  <2> DEFINE r == [on |-> Shows(jobs[j].dir), state |-> "cut", sum |-> "none"]
  <2>1. IsArchive(r) /\ r.sum = "none"
    BY DEF IsArchive
  <2>2. archive' = [archive EXCEPT ![j] = r] /\ Go(j, "tar") /\ jobs[j].kind = "backup"
    BY <1>4 DEF CreateArchive, At
  <2>4. archive'[j] = r /\ archive' = [archive EXCEPT ![j] = archive'[j]]
    BY <1>0, <2>2 DEF VaultInv, ArchiveShape
  <2> HIDE DEF r
  <2>3. /\ JobsShape' /\ Ids' = Ids /\ \A i \in Ids \ {j} : jobs'[i] = jobs[i]
        /\ jobs'[j].kind = "backup" /\ jobs'[j].pc = "tar"
    <3> DEFINE q == [jobs[j] EXCEPT !.pc = "tar"]
    <3>1. IsJob(q) /\ q.kind = "backup" /\ q.pc = "tar"
      BY <1>0, <2>2 DEF IsJob, Fields
    <3>2. jobs' = [jobs EXCEPT ![j] = q]
      BY <2>2 DEF Go
    <3> HIDE DEF q
    <3>3. JobsShape' /\ Ids' = Ids /\ \A i \in Ids : jobs'[i] = IF i = j THEN q ELSE jobs[i]
      BY <1>0, <3>1, <3>2, Replaced
    <3> QED
      BY <3>1, <3>3
  <2> QED
    BY <2>1, <2>2, <2>3, <2>4, <1>host, WritesKeep
<1>5. CASE TarEnds(j)
  <2>1. CASE Return(j, "err") /\ UNCHANGED <<archive, host>>
    BY <1>5, <2>1, ReturnKeeps DEF TarEnds, At
  <2>2. CASE Go(j, "hash") /\ archive' = [archive EXCEPT ![j].state = "whole"]
    <3> DEFINE r == [archive[j] EXCEPT !.state = "whole"]
               q == [jobs[j] EXCEPT !.pc = "hash"]
    <3>1. IsArchive(r) /\ r.sum = archive[j].sum /\ r.state = "whole"
      BY <1>0 DEF IsArchive
    <3>2. IsJob(q) /\ q.kind = "backup"
      BY <1>0, <1>5 DEF IsJob, Fields, TarEnds, At
    <3>3. jobs' = [jobs EXCEPT ![j] = q] /\ archive' = [archive EXCEPT ![j] = r]
          /\ jobs[j].kind = "backup"
      BY <1>5, <2>2 DEF Go, TarEnds, At
    <3>6. archive'[j] = r /\ archive' = [archive EXCEPT ![j] = archive'[j]]
      BY <1>0, <3>3 DEF VaultInv, ArchiveShape
    <3> HIDE DEF q, r
    <3>4. JobsShape' /\ Ids' = Ids /\ \A i \in Ids : jobs'[i] = IF i = j THEN q ELSE jobs[i]
      BY <1>0, <3>2, <3>3, Replaced
    <3> QED
      BY <1>0, <3>1, <3>2, <3>3, <3>4, <3>6, <1>host, WritesKeep
  <2> QED
    BY <1>5, <2>1, <2>2 DEF TarEnds
<1>6. CASE WriteManifest(j)
  <2>1. CASE UNCHANGED <<archive, host>>
    BY <1>6, <2>1, ReturnKeeps DEF WriteManifest, At
  <2>2. CASE archive' = [archive EXCEPT ![j].sum = archive[j].state]
    <3> DEFINE r == [archive[j] EXCEPT !.sum = archive[j].state]
               q == [jobs[j] EXCEPT !.pc = "ok", !.own = FALSE]
    <3>1. IsArchive(r) /\ r.sum = archive[j].state
      BY <1>0 DEF IsArchive
    <3>2. archive[j].state = "whole"
      BY <1>6 DEF WriteManifest, VaultInv, Archived
    <3>3. IsJob(q) /\ q.kind = "backup" /\ q.pc = "ok"
      BY <1>0, <1>6 DEF IsJob, Fields, WriteManifest, At
    <3>4. jobs' = [jobs EXCEPT ![j] = q] /\ archive' = [archive EXCEPT ![j] = r]
          /\ jobs[j].kind = "backup"
      BY <1>6, <2>2 DEF Return, WriteManifest, At
    <3>6. archive'[j] = r /\ archive' = [archive EXCEPT ![j] = archive'[j]]
      BY <1>0, <3>4 DEF VaultInv, ArchiveShape
    <3> HIDE DEF q, r
    <3>5. JobsShape' /\ Ids' = Ids /\ \A i \in Ids : jobs'[i] = IF i = j THEN q ELSE jobs[i]
      BY <1>0, <3>3, <3>4, Replaced
    <3>7. jobs'[j] = q /\ \A i \in Ids \ {j} : jobs'[i] = jobs[i]
      BY <3>5
    <3>8. IsArchive(archive'[j]) /\ archive'[j].sum = "whole" /\ jobs'[j].pc # "hash"
      BY <3>1, <3>2, <3>3, <3>6, <3>7
    <3> QED
      BY ONLY VaultInv, j \in Ids, <3>3, <3>4, <3>5, <3>6, <3>7, <3>8, <1>host, WritesKeep
  <2> QED
    BY <1>6, <2>1, <2>2 DEF WriteManifest
<1>7. CASE OrphanEnds(j)
  <2>1. CASE UNCHANGED <<archive, host>>
    BY <1>7, <2>1, PlainGo DEF OrphanEnds, At
  <2>2. CASE archive' = [archive EXCEPT ![j].state = "whole"]
    <3> DEFINE r == [archive[j] EXCEPT !.state = "whole"]
               q == [jobs[j] EXCEPT !.pc = "dead"]
    <3>1. IsArchive(r) /\ r.sum = archive[j].sum
      BY <1>0 DEF IsArchive
    <3>2. IsJob(q) /\ q.kind = "backup" /\ q.pc = "dead"
      BY <1>0, <1>7 DEF IsJob, Fields, OrphanEnds, At
    <3>3. jobs' = [jobs EXCEPT ![j] = q] /\ archive' = [archive EXCEPT ![j] = r]
          /\ jobs[j].kind = "backup"
      BY <1>7, <2>2 DEF Go, OrphanEnds, At
    <3>6. archive'[j] = r /\ archive' = [archive EXCEPT ![j] = archive'[j]]
      BY <1>0, <3>3 DEF VaultInv, ArchiveShape
    <3> HIDE DEF q, r
    <3>4. JobsShape' /\ Ids' = Ids /\ \A i \in Ids : jobs'[i] = IF i = j THEN q ELSE jobs[i]
      BY <1>0, <3>2, <3>3, Replaced
    <3> QED
      BY <1>0, <3>1, <3>2, <3>3, <3>4, <3>6, <1>host, WritesKeep
  <2> QED
    BY <1>7, <2>1, <2>2 DEF OrphanEnds
<1> QED
  BY <1>1, <1>2, <1>3, <1>4, <1>5, <1>6, <1>7 DEF Backup

LEMMA StageKeeps ==
  ASSUME VaultInv, NEW j \in Ids, Stage(j)
  PROVE  VaultInv' /\ Restored
<1>1. CASE StageFails(j)
  BY <1>1, ReturnKeeps DEF StageFails, files, At
<1>2. CASE OpenPayload(j)
  <2> DEFINE at == Shows(jobs[j].dir)
             seen == IF src = Given THEN "whole"
                     ELSE IF Shows(src) = Shows(jobs[j].dir) THEN "self" ELSE payload[Shows(src)]
  <2>1. /\ jobs' = [jobs EXCEPT ![j].pc = "copy", ![j].at = at, ![j].seen = seen]
        /\ UNCHANGED <<archive, host>> /\ ~ At(j, "restore", "extract")
    BY <1>2 DEF OpenPayload, At
  <2> HIDE DEF at, seen
  <2> DEFINE r == [jobs[j] EXCEPT !.pc = "copy", !.at = at, !.seen = seen]
  <2>2. JobsShape /\ IsJob(jobs[j])
    BY DEF VaultInv, JobsShape
  <2>3. IsJob(r) /\ r.kind = jobs[j].kind /\ r.pc = "copy" /\ jobs' = [jobs EXCEPT ![j] = r]
    BY <2>1, <2>2 DEF IsJob, Fields
  <2> HIDE DEF r
  <2>4. Quiet
    BY <2>1, <2>2, <2>3, Changed
  <2> QED
    BY <2>1, <2>4, QuietKeeps
<1>3. CASE CopyPayload(j)
  BY <1>3, ReturnKeeps DEF CopyPayload, At
<1> QED
  BY <1>1, <1>2, <1>3 DEF Stage

LEMMA ScanKeeps ==
  ASSUME VaultInv, NEW j \in Ids, Scan(j)
  PROVE  VaultInv' /\ Restored
<1>1. CASE ReadDir(j)
  BY <1>1, ReturnKeeps DEF ReadDir, files, At
<1>2. CASE ScanFails(j)
  BY <1>2, ReturnKeeps DEF ScanFails, files, At
<1> QED
  BY <1>1, <1>2 DEF Scan

\* A restoration goes on: it comes to unpacking only by mounting the root, and
\* takes no root from under another.
KeepsRoots(j, pc) ==
  /\ pc = "extract" => j \in host'.roots
  /\ \A i \in Ids \ {j} : At(i, "restore", "extract") => i \in host'.roots
  /\ At(j, "restore", "extract") /\ pc = "ok" => jobs[j].what.arch \in host'.holds

LEMMA RestorationKeeps ==
  ASSUME VaultInv, UNCHANGED archive, NEW j \in Ids, NEW r, IsJob(r), KeepsRoots(j, r.pc),
         jobs[j].kind = "restore", r.kind = "restore", jobs' = [jobs EXCEPT ![j] = r]
  PROVE  VaultInv' /\ Restored
<1>1. JobsShape' /\ Ids' = Ids /\ \A i \in Ids : jobs'[i] = IF i = j THEN r ELSE jobs[i]
  BY Replaced DEF VaultInv
<1>2. ArchiveShape' /\ Vouched' /\ Archived'
  BY <1>1 DEF VaultInv, ArchiveShape, Vouched, Archived, At
<1>3. Rooted'
  BY <1>1 DEF KeepsRoots, Rooted, At
<1>4. Restored
  BY <1>1 DEF KeepsRoots, Restored, At
<1> QED
  BY <1>1, <1>2, <1>3, <1>4 DEF VaultInv

\* A restoration ends well only with its snapshot on the root file system.
LEMMA RestoreKeeps ==
  ASSUME VaultInv, NEW j \in Ids, Restore(j)
  PROVE  VaultInv' /\ Restored
<1>0. IsJob(jobs[j]) /\ jobs[j].kind = "restore" /\ UNCHANGED archive
  BY DEF VaultInv, JobsShape, Restore, CheckManifest, WipeHost, MountRoot, Extract, files, At
<1> DEFINE Turns(pc, own, seen) ==
             jobs' = [jobs EXCEPT ![j] = [jobs[j] EXCEPT !.pc = pc, !.own = own, !.seen = seen]]
<1>1. ASSUME NEW pc, NEW own, NEW seen,
             Turns(pc, own, seen), KeepsRoots(j, pc)
      PROVE  VaultInv' /\ Restored
  <2> DEFINE r == [jobs[j] EXCEPT !.pc = pc, !.own = own, !.seen = seen]
  <2>1. IsJob(r) /\ r.kind = "restore" /\ r.pc = pc
    BY <1>0 DEF IsJob, Fields
  <2>2. jobs' = [jobs EXCEPT ![j] = r]
    BY <1>1
  <2> HIDE DEF r
  <2> QED
    BY <1>0, <1>1, <2>1, <2>2, RestorationKeeps
<1>2. \A i \in Ids : At(i, "restore", "extract") => i \in host.roots
  BY DEF VaultInv, Rooted
<1>3. ASSUME NEW pc, Go(j, pc)
      PROVE  Turns(pc, jobs[j].own, jobs[j].seen)
  <2>1. [jobs[j] EXCEPT !.pc = pc]
          = [jobs[j] EXCEPT !.pc = pc, !.own = jobs[j].own, !.seen = jobs[j].seen]
    BY <1>0 DEF IsJob, Fields
  <2> QED
    BY <1>3, <2>1 DEF Go
<1>4. ASSUME NEW result, Return(j, result)
      PROVE  Turns(result, FALSE, jobs[j].seen)
  <2>1. [jobs[j] EXCEPT !.pc = result, !.own = FALSE]
          = [jobs[j] EXCEPT !.pc = result, !.own = FALSE, !.seen = jobs[j].seen]
    BY <1>0 DEF IsJob, Fields
  <2> QED
    BY <1>4, <2>1 DEF Return
<1>5. CASE CheckManifest(j)
  <2>1. /\ KeepsRoots(j, "err") /\ KeepsRoots(j, "wipe")
    BY <1>2, <1>5 DEF CheckManifest, KeepsRoots, files, At
  <2>2. CASE Return(j, "err")
    <3>1. Turns("err", FALSE, jobs[j].seen)
      BY <1>4, <2>2
    <3> HIDE DEF Turns
    <3> QED
      BY <1>1, <2>1, <3>1
  <2>3. CASE \E seen \in {"verified", "unverified"} :
               jobs' = [jobs EXCEPT ![j].pc = "wipe", ![j].seen = seen]
    <3>1. PICK seen \in {"verified", "unverified"} :
            jobs' = [jobs EXCEPT ![j].pc = "wipe", ![j].seen = seen]
      BY <2>3
    <3>2. [jobs[j] EXCEPT !.pc = "wipe", !.seen = seen]
            = [jobs[j] EXCEPT !.pc = "wipe", !.own = jobs[j].own, !.seen = seen]
      BY <1>0 DEF IsJob, Fields
    <3>3. Turns("wipe", jobs[j].own, seen)
      BY <3>1, <3>2
    <3> HIDE DEF Turns
    <3> QED
      BY <1>1, <2>1, <3>3
  <2> QED
    BY <1>5, <2>2, <2>3 DEF CheckManifest
<1> HIDE DEF Turns
<1>6. CASE WipeHost(j)
  <2>1. KeepsRoots(j, "mount") /\ KeepsRoots(j, "err")
    BY <1>2, <1>6 DEF WipeHost, KeepsRoots, InUse, At
  <2> QED
    BY <1>1, <1>3, <1>4, <1>6, <2>1 DEF WipeHost
<1>7. CASE MountRoot(j)
  <2>1. ~ At(j, "restore", "extract")
    BY <1>7 DEF MountRoot, At
  <2>2. \A i \in Ids \ {j} : At(i, "restore", "extract") => i \in host'.roots
    BY <1>2, <1>7 DEF MountRoot
  <2>3. CASE Go(j, "extract") /\ host' = [roots |-> host.roots \union {j}, holds |-> host.holds]
    <3>1. KeepsRoots(j, "extract")
      BY <2>1, <2>2, <2>3 DEF KeepsRoots
    <3> QED
      BY <1>1, <1>3, <2>3, <3>1
  <2>4. CASE Return(j, "err")
    <3>1. KeepsRoots(j, "err")
      BY <2>2 DEF KeepsRoots
    <3> QED
      BY <1>1, <1>4, <2>4, <3>1
  <2> QED
    BY <1>7, <2>3, <2>4 DEF MountRoot
<1>8. CASE Extract(j)
  <2>1. j \in host.roots
    BY <1>2, <1>8 DEF Extract
  <2>2. \A i \in Ids \ {j} : At(i, "restore", "extract") => i \in host'.roots
    BY <1>2, <1>8 DEF Extract
  <2>3. CASE Return(j, "err")
    <3>1. KeepsRoots(j, "err")
      BY <2>2 DEF KeepsRoots
    <3> QED
      BY <1>1, <1>4, <2>3, <3>1
  <2>4. CASE Return(j, "ok") /\ jobs[j].what.arch \in host'.holds
    <3>1. KeepsRoots(j, "ok")
      BY <2>2, <2>4 DEF KeepsRoots
    <3> QED
      BY <1>1, <1>4, <2>4, <3>1
  <2> QED
    BY <1>8, <2>1, <2>3, <2>4 DEF Extract
<1> QED
  BY <1>5, <1>6, <1>7, <1>8 DEF Restore

LEMMA PurgeKeeps ==
  ASSUME VaultInv, Purge
  PROVE  VaultInv' /\ Restored
<1>1. \A j \in Ids : IsJob(jobs[j])
  BY DEF VaultInv, JobsShape
<1>2. jobs' = [j \in Ids |-> jobs'[j]] /\ UNCHANGED <<archive, host>>
  BY DEF Purge
<1>3. \A j \in Ids : IsJob(jobs'[j]) /\ jobs'[j].kind = jobs[j].kind /\ jobs'[j].pc = jobs[j].pc
  BY <1>1 DEF Purge, IsJob, Fields
<1> QED
  BY <1>2, <1>3, AllKeep

LEMMA DieKeeps ==
  ASSUME VaultInv, Die
  PROVE  VaultInv' /\ Restored
<1> DEFINE to(j) == IF At(j, "backup", "tar") THEN "orphan"
                    ELSE IF Running(j) \/ At(j, "prepare", "ok") THEN "dead" ELSE jobs[j].pc
<1>1. \A j \in Ids : IsJob(jobs[j])
  BY DEF VaultInv, JobsShape
<1>2. UNCHANGED <<archive, host>>
  BY DEF Die, files
<1>3. jobs' = [j \in Ids |-> [jobs[j] EXCEPT !.pc = to(j)]]
  BY DEF Die
<1>4. \A j \in Ids : to(j) = jobs[j].pc \/ to(j) \in {"dead", "orphan"}
  OBVIOUS
<1> HIDE DEF to
<1>5. jobs' = [j \in Ids |-> jobs'[j]]
  BY <1>3
<1>6. \A j \in Ids : IsJob(jobs'[j]) /\ jobs'[j].kind = jobs[j].kind /\ jobs'[j].pc = to(j)
  BY <1>1, <1>3 DEF IsJob, Fields
<1> QED
  BY <1>2, <1>4, <1>5, <1>6, AllKeep

LEMMA StepVault == VaultInv /\ [Next]_vars => VaultInv' /\ Restored
<1> SUFFICES ASSUME VaultInv, [Next]_vars PROVE VaultInv' /\ Restored
  OBVIOUS
<1>1. CASE ListTargets
  <2>1. UNCHANGED <<jobs, archive, host>>
    BY <1>1 DEF ListTargets, files
  <2> QED
    BY <2>1 DEF VaultInv, JobsShape, ArchiveShape, Vouched, Archived, Rooted, Restored, At, Ids
<1>2. CASE OrderReset
  <2>1. UNCHANGED <<archive, host>>
    BY <1>2 DEF OrderReset, files
  <2>2. PICK x \in Sticks : Start(jobs, "reset", "umount", VaultDir, x, TRUE)
    BY <1>2 DEF OrderReset, Order
  <2> QED
    BY <2>1, <2>2, OrderedKeeps
<1>3. CASE Purge
  BY <1>3, PurgeKeeps
<1>4. CASE Die
  BY <1>4, DieKeeps
<1>5. ASSUME NEW x \in Sticks, ConfirmFormat(x) PROVE VaultInv' /\ Restored
  BY <1>5, OrderedKeeps DEF ConfirmFormat, Order, files
<1>6. ASSUME NEW p \in Parts, OrderBackup(p) \/ OrderStage(p) \/ OrderScan(p)
      PROVE  VaultInv' /\ Restored
  <2>1. UNCHANGED <<archive, host>>
    BY <1>6 DEF OrderBackup, OrderStage, OrderScan, files
  <2>2. CASE OrderBackup(p)
    <3>1. PICK pc \in {"mkdir", "open"} :
            Start(jobs, "backup", pc, IF targets[p] = Device(p) THEN Automount(p) ELSE targets[p],
                  p, targets[p] = Listed(p))
      BY <2>2 DEF OrderBackup
    <3> QED
      BY <2>1, <3>1, OrderedKeeps
  <2>3. CASE OrderStage(p)
    BY <2>1, <2>3, OrderedKeeps DEF OrderStage
  <2>4. CASE OrderScan(p)
    <3>1. PICK pc \in {"mkdir", "open"} :
            Start(jobs, "scan", pc, IF Listed(p) = Device(p) THEN Automount(p) ELSE Listed(p), p, TRUE)
      BY <2>4 DEF OrderScan, Order
    <3> QED
      BY <2>1, <3>1, OrderedKeeps
  <2> QED
    BY <1>6, <2>2, <2>3, <2>4
<1>7. ASSUME NEW a \in found, OrderRestore(a) PROVE VaultInv' /\ Restored
  BY <1>7, OrderedKeeps DEF OrderRestore, Order, files
<1>8. ASSUME NEW j \in Ids, Format(j) \/ HearPrepared(j) \/ Backup(j) \/ Stage(j)
                             \/ Scan(j) \/ Restore(j)
      PROVE  VaultInv' /\ Restored
  BY <1>8, FormatKeeps, HearKeeps, BackupKeeps, StageKeeps, ScanKeeps, RestoreKeeps
<1>9. CASE UNCHANGED vars
  <2>1. UNCHANGED <<jobs, archive, host>>
    BY <1>9 DEF vars
  <2> QED
    BY <2>1 DEF VaultInv, JobsShape, ArchiveShape, Vouched, Archived, Rooted, Restored, At, Ids
<1> QED
  BY <1>1, <1>2, <1>3, <1>4, <1>5, <1>6, <1>7, <1>8, <1>9 DEF Next

LEMMA VouchedMeansWhole == VaultInv => ManifestMeansWhole
BY DEF VaultInv, ArchiveShape, Vouched, ManifestMeansWhole

-----------------------------------------------------------------------------
(* Induction, and what is left of a stack of mounts.                        *)

\* Induction over the naturals, as the least element of a set of them.
LEMMA Least ==
  ASSUME NEW T, T \subseteq Nat, T # {}
  PROVE  \E x \in T : \A y \in T : x <= y
<1>1. IsWellFoundedOn(OpToRel(<, Nat), Nat)
  BY NatLessThanWellFounded
<1>2. PICK x \in T : \A y \in T : ~ (<<y, x>> \in OpToRel(<, Nat))
  BY <1>1, WFMin
<1>3. \A y \in T : ~ (y < x)
  BY <1>2 DEF OpToRel
<1> QED
  BY <1>3

LEMMA LeftOver ==
  ASSUME NEW S, NEW s, NEW stack \in Seq(S)
  PROVE  Without(s, stack) \in Seq(S)
<1> DEFINE Next1(prev, i) == IF IsOf(s, stack[i]) THEN prev ELSE Append(prev, stack[i])
           Is(f, n) == f = [i \in 0 .. n |-> IF i = 0 THEN <<>> ELSE Next1(f[i - 1], i)]
<1>0. Len(stack) \in Nat
  OBVIOUS
<1>1. \A n \in 0 .. Len(stack) : \E f : Is(f, n)
  <2> DEFINE T == {n \in 0 .. Len(stack) : ~ \E f : Is(f, n)}
  <2> SUFFICES ASSUME T # {} PROVE FALSE
    OBVIOUS
  <2>0. T \subseteq Nat
    OBVIOUS
  <2>1. PICK x \in T : \A y \in T : x <= y
    <3> HIDE DEF T
    <3> QED
      BY <2>0, Least
  <2>2. x # 0
    <3>1. Is([i \in 0 .. 0 |-> <<>>], 0)
      OBVIOUS
    <3> QED
      BY <3>1
  <2>3. x - 1 \in 0 .. Len(stack) /\ x - 1 \notin T /\ x \in Nat
    <3>1. x \in 0 .. Len(stack)
      OBVIOUS
    <3>2. x - 1 \in 0 .. Len(stack) /\ x \in Nat /\ ~ (x <= x - 1)
      BY <1>0, <2>2, <3>1
    <3> HIDE DEF T
    <3> QED
      BY <2>1, <3>2
  <2>4. PICK f : Is(f, x - 1)
    BY <2>3
  <2> DEFINE g == [i \in 0 .. x |-> IF i = x THEN Next1(f[x - 1], x) ELSE f[i]]
  <2>5. Is(g, x)
    <3> HIDE DEF Next1
    <3>1. \A i \in 0 .. x : g[i] = IF i = 0 THEN <<>> ELSE Next1(g[i - 1], i)
      <4> TAKE i \in 0 .. x
      <4>1. CASE i = x
        BY <2>2, <2>3, <4>1
      <4>2. CASE i # x
        BY <2>3, <2>4, <4>2
      <4> QED
        BY <4>1, <4>2
    <3> QED
      BY <3>1
  <2> QED
    BY <2>5
<1> DEFINE left == CHOOSE f : Is(f, Len(stack))
<1>2. Is(left, Len(stack))
  <2> HIDE DEF Is
  <2>0. Len(stack) \in 0 .. Len(stack)
    BY <1>0
  <2>1. \E f : Is(f, Len(stack))
    BY <1>1, <2>0
  <2> QED
    BY <2>1
<1>3. Without(s, stack) = left[Len(stack)]
  BY DEF Without
<1> HIDE DEF left
<1>4. \A n \in 0 .. Len(stack) : left[n] \in Seq(S)
  <2> DEFINE T == {n \in 0 .. Len(stack) : left[n] \notin Seq(S)}
  <2> SUFFICES ASSUME T # {} PROVE FALSE
    OBVIOUS
  <2>0. T \subseteq Nat
    OBVIOUS
  <2>1. PICK x \in T : \A y \in T : x <= y
    <3> HIDE DEF T
    <3> QED
      BY <2>0, Least
  <2>2. x # 0
    BY <1>2
  <2>3. x - 1 \in 0 .. Len(stack) /\ x - 1 \notin T /\ x \in 1 .. Len(stack)
    BY <2>1, <2>2
  <2>4. left[x - 1] \in Seq(S) /\ stack[x] \in S
    BY <2>3
  <2>5. left[x] = Next1(left[x - 1], x)
    <3> HIDE DEF Next1
    <3> QED
      BY <1>2, <2>2, <2>3
  <2>6. left[x] \in Seq(S)
    BY <2>4, <2>5
  <2> QED
    BY <2>6
<1> QED
  BY <1>0, <1>3, <1>4
-----------------------------------------------------------------------------
(* Calm commands: where a path leads while nothing else moves the disks.    *)

Busy(j) == Active(jobs[j])

\* A calm command is alone with the disks until it has ended.
Alone ==
  \A j \in Ids, k \in Ids :
    jobs[j].calm /\ jobs[k].kind \in Disturbing =>
      /\ k < j => ~Busy(k)
      /\ k > j => ~Busy(j)

\* On the directories of a partition nothing else is ever mounted.
DisksShape ==
  /\ mounts \in [Dirs -> Seq(FileSystems)]
  /\ \A q \in Parts : \A d \in {Own(q), Automount(q)} : mounts[d] \in Seq({<<q, 0>>})
  /\ fs \in [Sticks -> 0 .. Lost]
  /\ payload = [f \in FileSystems |-> payload[f]]

\* What the commands are about.
Aimed ==
  \A j \in Ids :
    /\ jobs[j].kind \in {"prepare", "reset"} => jobs[j].what \in Sticks
    /\ jobs[j].kind \in {"backup", "scan"} /\ jobs[j].pc \in {"mkdir", "mount"}
         => jobs[j].what \in Parts /\ jobs[j].dir = Automount(jobs[j].what)
    /\ jobs[j].own => jobs[j].kind \in {"backup", "scan"}

\* The file system of a drive as it is now, and a path that leads there.
Home(drive) == <<drive, IF drive \in Sticks THEN fs[drive] ELSE 0>>
Leads(dir, drive) == Shows(dir) = Home(drive) /\ Home(drive) \in FileSystems

Restaged(j) == \E k \in Ids : k > j /\ jobs[k].kind = "stage"
Reformatted(j) == \E k \in Ids : /\ k > j /\ jobs[k].kind \in {"prepare", "reset"}
                                 /\ jobs[k].what = jobs[j].what

\* Where a calm command is, on its way to what it promises.
InPlace(j) ==
  /\ At(j, "prepare", "ok") => Leads(VaultDir, jobs[j].what)
  /\ At(j, "backup", "open") => Leads(jobs[j].dir, jobs[j].what)
  /\ At(j, "stage", "open") => Leads(jobs[j].dir, jobs[j].what) \/ Shows(jobs[j].dir) = Gone
  /\ jobs[j].kind = "backup" /\ jobs[j].pc \in {"tar", "hash", "ok"} =>
       Meant(j, archive[j].on) /\ (Stands(archive[j].on) \/ Reformatted(j))
  /\ At(j, "backup", "ok") => archive[j].state = "whole"
  /\ jobs[j].kind = "stage" /\ jobs[j].pc \in {"copy", "ok"} =>
       jobs[j].at \in FileSystems /\ Meant(j, jobs[j].at)
  /\ At(j, "stage", "ok") /\ jobs[j].seen = "whole" /\ payload[jobs[j].at] = "cut" =>
       Restaged(j)

PlaceInv == Alone /\ DisksShape /\ Aimed /\ \A j \in Ids : jobs[j].calm => InPlace(j)

LEMMA OneMount ==
  ASSUME NEW S, NEW f \in S
  PROVE  <<f>> \in Seq(S)
OBVIOUS

LEMMA InitPlace == Init => PlaceInv
<1> SUFFICES ASSUME Init PROVE PlaceInv
  OBVIOUS
<1>1. Ids = {}
  BY DEF Init, Ids
<1>2. PICK owned \in SUBSET Parts :
        mounts = [d \in Dirs |-> IF \E q \in owned : d = Own(q) THEN << <<d[2], 0>> >> ELSE <<>>]
  BY DEF Init
<1>3. \A q \in Parts : <<q, 0>> \in FileSystems
  BY DEF FileSystems
<1>4. \A q \in owned : mounts[Own(q)] = << <<q, 0>> >>
  BY <1>2 DEF Own, Dirs
<1>5. \A d \in Dirs : mounts[d] = <<>> \/ \E q \in owned : d = Own(q)
  BY <1>2
<1>6. \A d \in Dirs : mounts[d] \in Seq(FileSystems)
  <2> TAKE d \in Dirs
  <2>1. CASE mounts[d] = <<>>
    BY <2>1
  <2>2. ASSUME NEW q \in owned, d = Own(q)
        PROVE  mounts[d] \in Seq(FileSystems)
    BY <1>3, <1>4, <2>2, OneMount
  <2> QED
    BY <1>5, <2>1, <2>2
<1>7. \A q \in Parts : \A d \in {Own(q), Automount(q)} : mounts[d] \in Seq({<<q, 0>>})
  <2> SUFFICES ASSUME NEW q \in Parts, NEW d \in {Own(q), Automount(q)}
               PROVE  mounts[d] \in Seq({<<q, 0>>})
    OBVIOUS
  <2>1. d \in Dirs
    BY DEF Dirs
  <2>2. \A r \in owned : d = Own(r) => r = q
    BY DEF Own, Automount
  <2>3. mounts[d] = <<>> \/ mounts[d] = << <<q, 0>> >>
    BY <1>4, <1>5, <2>1, <2>2
  <2>4. <<q, 0>> \in {<<q, 0>>}
    OBVIOUS
  <2>5. << <<q, 0>> >> \in Seq({<<q, 0>>})
    BY ONLY <2>4, OneMount
  <2>6. CASE mounts[d] = <<>>
    BY <2>6
  <2>7. CASE mounts[d] = << <<q, 0>> >>
    BY <2>5, <2>7
  <2> QED
    BY <2>3, <2>6, <2>7
<1>8. DisksShape
  <2>1. mounts \in [Dirs -> Seq(FileSystems)]
    BY <1>2, <1>6
  <2>2. fs \in [Sticks -> 0 .. Lost]
    BY BoundsAssumption DEF Init, Lost
  <2>3. payload = [f \in FileSystems |-> payload[f]]
    BY DEF Init
  <2> QED
    BY <1>7, <2>1, <2>2, <2>3 DEF DisksShape
<1> QED
  BY <1>1, <1>8 DEF PlaceInv, Alone, Aimed

\* One command moves on, and none is ordered.
Moved(k) ==
  /\ Ids' = Ids /\ \A i \in Ids \ {k} : jobs'[i] = jobs[i]
  /\ jobs'[k].kind = jobs[k].kind /\ jobs'[k].dir = jobs[k].dir
  /\ jobs'[k].what = jobs[k].what /\ jobs'[k].calm = jobs[k].calm

LEMMA Moves ==
  ASSUME JobsShape, NEW j \in Ids, NEW pc, NEW own, NEW at, NEW seen,
         jobs' = [jobs EXCEPT ![j] = [jobs[j] EXCEPT !.pc = pc, !.own = own,
                                                     !.at = at, !.seen = seen]]
  PROVE  /\ Moved(j) /\ jobs'[j].pc = pc /\ jobs'[j].own = own
         /\ jobs'[j].at = at /\ jobs'[j].seen = seen
<1> DEFINE r == [jobs[j] EXCEPT !.pc = pc, !.own = own, !.at = at, !.seen = seen]
<1>1. IsJob(jobs[j])
  BY DEF JobsShape
<1>2. /\ r.kind = jobs[j].kind /\ r.dir = jobs[j].dir /\ r.what = jobs[j].what
      /\ r.calm = jobs[j].calm
  BY <1>1 DEF IsJob, Fields
<1>5. r.pc = pc /\ r.own = own /\ r.at = at /\ r.seen = seen
  BY <1>1 DEF IsJob, Fields
<1>6. IsJob(r)
  BY <1>1 DEF IsJob, Fields
<1>3. jobs' = [jobs EXCEPT ![j] = r]
  OBVIOUS
<1> HIDE DEF r
<1>4. Ids' = Ids /\ \A i \in Ids : jobs'[i] = IF i = j THEN r ELSE jobs[i]
  BY <1>3, <1>6, Replaced
<1> QED
  BY <1>2, <1>4, <1>5 DEF Moved

LEMMA Goes ==
  ASSUME JobsShape, NEW j \in Ids, NEW pc, Go(j, pc)
  PROVE  /\ Moved(j) /\ jobs'[j].pc = pc /\ jobs'[j].own = jobs[j].own
         /\ jobs'[j].at = jobs[j].at /\ jobs'[j].seen = jobs[j].seen
<1>1. IsJob(jobs[j])
  BY DEF JobsShape
<1>2. [jobs[j] EXCEPT !.pc = pc]
        = [jobs[j] EXCEPT !.pc = pc, !.own = jobs[j].own, !.at = jobs[j].at, !.seen = jobs[j].seen]
  BY <1>1 DEF IsJob, Fields
<1> DEFINE own == jobs[j].own
           at == jobs[j].at
           seen == jobs[j].seen
<1>3. jobs' = [jobs EXCEPT ![j] = [jobs[j] EXCEPT !.pc = pc, !.own = own,
                                                  !.at = at, !.seen = seen]]
  BY <1>2 DEF Go
<1> HIDE DEF own, at, seen
<1>4. /\ Moved(j) /\ jobs'[j].pc = pc /\ jobs'[j].own = own
      /\ jobs'[j].at = at /\ jobs'[j].seen = seen
  BY <1>3, Moves
<1> QED
  BY <1>4 DEF own, at, seen

LEMMA Returns ==
  ASSUME JobsShape, NEW j \in Ids, NEW result, Return(j, result)
  PROVE  /\ Moved(j) /\ jobs'[j].pc = result /\ jobs'[j].own = FALSE
         /\ jobs'[j].at = jobs[j].at /\ jobs'[j].seen = jobs[j].seen
<1>1. IsJob(jobs[j])
  BY DEF JobsShape
<1>2. [jobs[j] EXCEPT !.pc = result, !.own = FALSE]
        = [jobs[j] EXCEPT !.pc = result, !.own = FALSE, !.at = jobs[j].at, !.seen = jobs[j].seen]
  BY <1>1 DEF IsJob, Fields
<1> DEFINE at == jobs[j].at
           seen == jobs[j].seen
<1>3. jobs' = [jobs EXCEPT ![j] = [jobs[j] EXCEPT !.pc = result, !.own = FALSE,
                                                  !.at = at, !.seen = seen]]
  BY <1>2 DEF Return
<1> HIDE DEF at, seen
<1>4. /\ Moved(j) /\ jobs'[j].pc = result /\ jobs'[j].own = FALSE
      /\ jobs'[j].at = at /\ jobs'[j].seen = seen
  BY <1>3, Moves
<1> QED
  BY <1>4 DEF at, seen

\* What a step leaves of the disks, for commands that are not about to use them.
Spares(i) ==
  /\ archive'[i] = archive[i]
  /\ \A x \in Sticks : fs'[x] # fs[x] => (jobs[i].what = x => Reformatted(i)')
  /\ \A f \in FileSystems : payload'[f] = "cut" => payload[f] = "cut" \/ Restaged(i)'

LEMMA StaysInPlace ==
  ASSUME NEW i \in Ids, InPlace(i), Ids \subseteq Ids',
         \A k \in Ids : jobs'[k].kind = jobs[k].kind /\ jobs'[k].what = jobs[k].what,
         jobs'[i].dir = jobs[i].dir, jobs'[i].at = jobs[i].at, jobs'[i].seen = jobs[i].seen,
         jobs'[i].pc = jobs[i].pc \/ jobs'[i].pc \in {"heard", "dead", "orphan"},
         Spares(i), Busy(i) => UNCHANGED disks
  PROVE  InPlace(i)'
<1>1. Restaged(i) => Restaged(i)'
  BY DEF Restaged
<1>2. Reformatted(i) => Reformatted(i)'
  BY DEF Reformatted
<1>3. ASSUME UNCHANGED disks
      PROVE  \A dir, drive : /\ Leads(dir, drive) => Leads(dir, drive)'
                             /\ Shows(dir)' = Shows(dir)
  BY <1>3 DEF disks, Leads, Home, Shows
<1>4. At(i, "prepare", "ok")' => Leads(VaultDir, jobs[i].what)'
  BY <1>3 DEF InPlace, At, Busy, Active
<1>5. At(i, "backup", "open")' => Leads(jobs[i].dir, jobs[i].what)'
  BY <1>3 DEF InPlace, At, Busy, Active
<1>6. At(i, "stage", "open")' =>
        Leads(jobs[i].dir, jobs[i].what)' \/ Shows(jobs[i].dir)' = Gone
  BY <1>3 DEF InPlace, At, Busy, Active
<1>7. jobs'[i].kind = "backup" /\ jobs'[i].pc \in {"tar", "hash", "ok"} =>
        Meant(i, archive[i].on)' /\ (Stands(archive[i].on)' \/ Reformatted(i)')
  <2> SUFFICES ASSUME jobs'[i].kind = "backup", jobs'[i].pc \in {"tar", "hash", "ok"}
               PROVE  Meant(i, archive[i].on)' /\ (Stands(archive[i].on)' \/ Reformatted(i)')
    OBVIOUS
  <2>1. Meant(i, archive[i].on) /\ (Stands(archive[i].on) \/ Reformatted(i))
    BY DEF InPlace
  <2>2. Meant(i, archive[i].on)'
    BY <2>1 DEF Meant, Spares
  <2>3. archive[i].on[1] = jobs[i].what
    BY <2>1 DEF Meant
  <2>4. Stands(archive[i].on) => Stands(archive[i].on)' \/ Reformatted(i)'
    BY <2>3 DEF Stands, Spares
  <2> QED
    BY <1>2, <2>1, <2>2, <2>4
<1>8. At(i, "backup", "ok")' => archive'[i].state = "whole"
  BY DEF InPlace, At, Spares
<1>9. jobs'[i].kind = "stage" /\ jobs'[i].pc \in {"copy", "ok"} =>
        jobs'[i].at \in FileSystems /\ Meant(i, jobs[i].at)'
  BY DEF InPlace, Meant
<1>10. At(i, "stage", "ok")' /\ jobs'[i].seen = "whole" /\ payload'[jobs'[i].at] = "cut" =>
         Restaged(i)'
  BY <1>1 DEF InPlace, At, Spares
<1> QED
  BY <1>4, <1>5, <1>6, <1>7, <1>8, <1>9, <1>10 DEF InPlace

\* One command moves on: it is the only one that a calm one may have to fear,
\* and then it was ordered later.
LEMMA MoveKeeps ==
  ASSUME JobsShape, PlaceInv, NEW k \in Ids, Busy(k), Moved(k),
         jobs[k].kind \in Disturbing \/ UNCHANGED disks,
         \A i \in Ids : i # k => archive'[i] = archive[i],
         \A x \in Sticks : fs'[x] # fs[x] =>
           jobs[k].kind \in {"prepare", "reset"} /\ jobs[k].what = x,
         \A f \in FileSystems : payload'[f] = "cut" => payload[f] = "cut" \/ jobs[k].kind = "stage",
         DisksShape', jobs'[k].own => jobs[k].kind \in {"backup", "scan"},
         jobs'[k].pc \in {"mkdir", "mount"} => jobs[k].pc \in {"mkdir", "mount"}
           \/ jobs[k].kind \notin {"backup", "scan"},
         jobs[k].calm => InPlace(k)'
  PROVE  PlaceInv'
<1>1. /\ Ids' = Ids
      /\ \A i \in Ids : /\ jobs'[i].kind = jobs[i].kind /\ jobs'[i].what = jobs[i].what
                        /\ jobs'[i].dir = jobs[i].dir /\ jobs'[i].calm = jobs[i].calm
  BY DEF Moved
<1>2. Alone'
  BY <1>1 DEF Moved, PlaceInv, Alone, Busy
<1>3. Aimed'
  BY <1>1 DEF Moved, PlaceInv, Aimed
<1>4. ASSUME NEW i \in Ids, jobs[i].calm, i # k
      PROVE  InPlace(i)'
  <2>1. i \in Nat /\ k \in Nat
    BY DEF Ids
  <2>2. jobs[k].kind \in Disturbing => k > i /\ ~ Busy(i)
    BY <1>4, <2>1 DEF PlaceInv, Alone
  <2>3. jobs[k].kind \in {"prepare", "reset"} => (jobs[i].what = jobs[k].what => Reformatted(i)')
    BY <1>1, <2>2 DEF Reformatted, Disturbing
  <2>4. jobs[k].kind = "stage" => Restaged(i)'
    BY <1>1, <2>2 DEF Restaged, Disturbing
  <2>5. Spares(i)
    BY <1>4, <2>3, <2>4 DEF Spares
  <2>6. Busy(i) => UNCHANGED disks
    BY <2>2
  <2>7. InPlace(i)
    BY <1>4 DEF PlaceInv
  <2>8. /\ jobs'[i].dir = jobs[i].dir /\ jobs'[i].at = jobs[i].at
        /\ jobs'[i].seen = jobs[i].seen /\ jobs'[i].pc = jobs[i].pc
    BY <1>4 DEF Moved
  <2> QED
    BY <1>1, <2>5, <2>6, <2>7, <2>8, StaysInPlace
<1>5. \A i \in Ids' : jobs'[i].calm => InPlace(i)'
  BY <1>1, <1>4
<1> QED
  BY <1>2, <1>3, <1>5 DEF PlaceInv

\* What the place of a new command must be.
Begins(kind, pc, dir, what, heir) ==
  /\ pc \in {"umount", "mkdir", "open", "check"}
  /\ kind \in {"prepare", "reset"} => what \in Sticks
  /\ pc = "mkdir" => what \in Parts /\ dir = Automount(what)
  /\ kind \in {"backup", "stage"} /\ pc = "open" /\ heir =>
       Leads(dir, what) \/ (kind = "stage" /\ Shows(dir) = Gone)

LEMMA OrderPlaces ==
  ASSUME JobsShape, PlaceInv, UNCHANGED <<disks, archive, payload>>,
         NEW old, NEW kind, NEW pc, NEW dir, NEW what, NEW heir,
         \A i \in Ids :
           /\ old[i].kind = jobs[i].kind
           /\ old[i].pc = jobs[i].pc \/ old[i].pc = "heard"
           /\ old[i].dir = jobs[i].dir /\ old[i].what = jobs[i].what
           /\ old[i].own = jobs[i].own /\ old[i].at = jobs[i].at
           /\ old[i].seen = jobs[i].seen /\ old[i].calm = jobs[i].calm,
         Begins(kind, pc, dir, what, heir), Joined(old, kind, pc, dir, what, heir)
  PROVE  PlaceInv'
<1> PICK n : n = Len(jobs) + 1
  OBVIOUS
<1>0. \A i \in Ids : i \in Nat /\ i < n
  BY DEF Joined, Ids
<1>1. /\ Ids' = Ids \union {n} /\ n \notin Ids
      /\ \A i \in Ids :
           /\ jobs'[i].kind = jobs[i].kind /\ jobs'[i].what = jobs[i].what
           /\ jobs'[i].dir = jobs[i].dir /\ jobs'[i].own = jobs[i].own
           /\ jobs'[i].at = jobs[i].at /\ jobs'[i].seen = jobs[i].seen
           /\ jobs'[i].pc = old[i].pc
           /\ jobs'[i].calm => jobs[i].calm
  BY DEF Joined
<1>2. \A i \in Ids : jobs'[i].calm => ~ (Active(old[i]) /\ kind \in Disturbing)
  BY DEF Joined
<1>3. /\ jobs'[n].kind = kind /\ jobs'[n].pc = pc /\ jobs'[n].dir = dir
      /\ jobs'[n].what = what /\ jobs'[n].own = FALSE
  BY DEF Joined
<1>4. jobs'[n].calm => heir /\ \A k \in Ids : Active(old[k]) => old[k].kind \notin Disturbing
  BY DEF Joined
<1>5. \A i \in Ids : (Busy(i)' <=> Active(old[i])) /\ (Active(old[i]) => Busy(i))
  BY <1>1 DEF Busy, Active
<1>6. Alone'
  <2> SUFFICES ASSUME NEW j \in Ids', NEW k \in Ids', jobs'[j].calm, jobs'[k].kind \in Disturbing
               PROVE  (k < j => ~ Busy(k)') /\ (k > j => ~ Busy(j)')
    BY DEF Alone
  <2>1. CASE j \in Ids /\ k \in Ids
    BY <1>0, <1>1, <1>5, <2>1 DEF PlaceInv, Alone
  <2>2. CASE j \in Ids /\ k = n
    BY <1>0, <1>1, <1>2, <1>3, <1>5, <2>2
  <2>3. CASE j = n /\ k \in Ids
    <3>1. k < j /\ ~ (k > j)
      BY <1>0, <2>3 DEF Joined
    <3>2. old[k].kind \in Disturbing
      BY <1>1, <2>3
    <3> QED
      BY <1>4, <1>5, <2>3, <3>1, <3>2
  <2>4. CASE j = n /\ k = n
    BY <1>1, <2>4 DEF Joined
  <2> QED
    BY <1>1, <2>1, <2>2, <2>3, <2>4
<1>7. Aimed'
  BY <1>1, <1>3 DEF Begins, PlaceInv, Aimed
<1>8. DisksShape'
  BY DEF PlaceInv, DisksShape, disks
<1>9. ASSUME NEW i \in Ids, jobs'[i].calm
      PROVE  InPlace(i)'
  <2>1. Spares(i)
    BY DEF Spares, disks
  <2>2. InPlace(i)
    BY <1>1, <1>9 DEF PlaceInv
  <2>3. jobs'[i].pc = jobs[i].pc \/ jobs'[i].pc \in {"heard", "dead", "orphan"}
    BY <1>1
  <2> QED
    BY <1>1, <2>1, <2>2, <2>3, StaysInPlace
<1>10. jobs'[n].calm => InPlace(n)'
  <2> SUFFICES ASSUME jobs'[n].calm PROVE InPlace(n)'
    OBVIOUS
  <2>1. \A d, drive : (Leads(d, drive) => Leads(d, drive)') /\ Shows(d)' = Shows(d)
    BY DEF disks, Leads, Home, Shows
  <2>2. kind \in {"backup", "stage"} /\ pc = "open" =>
          Leads(dir, what) \/ (kind = "stage" /\ Shows(dir) = Gone)
    BY <1>4 DEF Begins
  <2>3. pc \in {"umount", "mkdir", "open", "check"}
    BY DEF Begins
  <2>5. At(n, "backup", "open")' => Leads(jobs[n].dir, jobs[n].what)'
    BY <1>3, <2>1, <2>2 DEF At
  <2>6. At(n, "stage", "open")' =>
          Leads(jobs[n].dir, jobs[n].what)' \/ Shows(jobs[n].dir)' = Gone
    BY <1>3, <2>1, <2>2 DEF At
  <2>7. jobs'[n].pc \notin {"ok", "tar", "hash", "copy"}
    BY <1>3, <2>3
  <2> QED
    BY <2>5, <2>6, <2>7 DEF InPlace, At
<1> QED
  BY <1>1, <1>6, <1>7, <1>8, <1>9, <1>10 DEF PlaceInv

LEMMA PlainOrder ==
  ASSUME VaultInv, PlaceInv, UNCHANGED <<disks, files>>,
         NEW kind, NEW pc, NEW dir, NEW what, NEW heir,
         Begins(kind, pc, dir, what, heir), Start(jobs, kind, pc, dir, what, heir)
  PROVE  PlaceInv'
<1>1. JobsShape /\ \A i \in Ids : IsJob(jobs[i])
  BY DEF VaultInv, JobsShape
<1>2. Joined(jobs, kind, pc, dir, what, heir)
  BY <1>1, Appended DEF JobsShape
<1>3. UNCHANGED <<disks, archive, payload>>
  BY DEF files
<1> QED
  BY <1>1, <1>2, <1>3, OrderPlaces

\* All commands change alike, or not at all.
LEMMA AllInPlace ==
  ASSUME PlaceInv, UNCHANGED <<disks, archive>>, Ids' = Ids, DisksShape',
         \A f \in FileSystems : payload'[f] = "cut" => payload[f] = "cut",
         \A i \in Ids :
           /\ jobs'[i].kind = jobs[i].kind /\ jobs'[i].what = jobs[i].what
           /\ jobs'[i].dir = jobs[i].dir /\ jobs'[i].own = jobs[i].own
           /\ jobs'[i].at = jobs[i].at /\ jobs'[i].seen = jobs[i].seen
           /\ jobs'[i].pc # jobs[i].pc => Busy(i) /\ jobs'[i].pc \in {"dead", "orphan"}
           /\ jobs'[i].calm => jobs[i].calm
  PROVE  PlaceInv'
<1>1. \A i \in Ids : Busy(i)' => Busy(i)
  BY DEF Busy, Active
<1>2. Alone'
  BY <1>1 DEF PlaceInv, Alone
<1>3. Aimed'
  BY DEF PlaceInv, Aimed
<1>4. ASSUME NEW i \in Ids, jobs'[i].calm
      PROVE  InPlace(i)'
  <2>1. Spares(i)
    BY DEF Spares, disks
  <2>2. InPlace(i)
    BY <1>4 DEF PlaceInv
  <2> QED
    BY <2>1, <2>2, StaysInPlace
<1> QED
  BY <1>2, <1>3, <1>4 DEF PlaceInv

LEMMA CleanUpShape ==
  ASSUME DisksShape, NEW j, CleanUp(j), UNCHANGED fs, payload' = [f \in FileSystems |-> payload'[f]]
  PROVE  DisksShape'
<1>1. CASE UNCHANGED mounts
  BY <1>1 DEF DisksShape
<1>2. CASE mounts' = [mounts EXCEPT ![jobs[j].dir] = <<>>]
  <2>1. \A S : <<>> \in Seq(S)
    OBVIOUS
  <2>2. \A d \in Dirs : mounts'[d] = mounts[d] \/ mounts'[d] = <<>>
    BY <1>2 DEF DisksShape
  <2>3. mounts' \in [Dirs -> Seq(FileSystems)]
    BY <1>2, <2>1 DEF DisksShape
  <2>4. \A q \in Parts : \A d \in {Own(q), Automount(q)} : d \in Dirs
    BY DEF Dirs
  <2>5. \A q \in Parts : \A d \in {Own(q), Automount(q)} : mounts'[d] \in Seq({<<q, 0>>})
    BY <2>1, <2>2, <2>4 DEF DisksShape
  <2> QED
    BY <2>3, <2>5 DEF DisksShape
<1> QED
  BY <1>1, <1>2 DEF CleanUp

LEMMA ReturnPlaces ==
  ASSUME VaultInv, PlaceInv, NEW j \in Ids, Busy(j), NEW result, Return(j, result),
         result \notin {"mkdir", "mount"},
         \A i \in Ids : i # j => archive'[i] = archive[i],
         payload' = [f \in FileSystems |-> payload'[f]],
         \A f \in FileSystems : payload'[f] = "cut" => payload[f] = "cut",
         jobs[j].calm => InPlace(j)'
  PROVE  PlaceInv'
<1>1. JobsShape
  BY DEF VaultInv
<1>2. Moved(j) /\ jobs'[j].pc = result /\ jobs'[j].own = FALSE
  BY <1>1, Returns
<1>3. UNCHANGED fs /\ CleanUp(j)
  BY DEF Return
<1>4. DisksShape'
  BY <1>3, CleanUpShape DEF PlaceInv
<1>5. jobs[j].kind \in Disturbing \/ UNCHANGED disks
  BY <1>3 DEF CleanUp, PlaceInv, Aimed, Disturbing, disks
<1> QED
  BY <1>1, <1>2, <1>3, <1>4, <1>5, MoveKeeps

LEMMA FailPlaces ==
  ASSUME VaultInv, PlaceInv, NEW j \in Ids, Busy(j), Return(j, "err"), UNCHANGED <<archive, payload>>
  PROVE  PlaceInv'
<1>1. jobs'[j].pc = "err"
  BY Returns DEF VaultInv
<1>2. InPlace(j)'
  BY <1>1 DEF InPlace, At
<1>3. payload' = [f \in FileSystems |-> payload'[f]]
  BY DEF PlaceInv, DisksShape
<1> QED
  BY <1>2, <1>3, ReturnPlaces

\* A command goes on with the disks.
LEMMA GoPlaces ==
  ASSUME VaultInv, PlaceInv, NEW j \in Ids, Busy(j), NEW pc, Go(j, pc),
         jobs[j].kind \in Disturbing \/ UNCHANGED disks,
         UNCHANGED <<archive, payload>>,
         \A x \in Sticks : fs'[x] # fs[x] =>
           jobs[j].kind \in {"prepare", "reset"} /\ jobs[j].what = x,
         DisksShape',
         pc \in {"mkdir", "mount"} =>
           jobs[j].pc \in {"mkdir", "mount"} \/ jobs[j].kind \notin {"backup", "scan"},
         jobs[j].calm => InPlace(j)'
  PROVE  PlaceInv'
<1>1. JobsShape
  BY DEF VaultInv
<1>2. Moved(j) /\ jobs'[j].pc = pc /\ jobs'[j].own = jobs[j].own
  BY <1>1, Goes
<1>3. jobs'[j].own => jobs[j].kind \in {"backup", "scan"}
  BY <1>2 DEF PlaceInv, Aimed
<1> QED
  BY <1>1, <1>2, <1>3, MoveKeeps

LEMMA FormatPlaces ==
  ASSUME VaultInv, PlaceInv, NEW j \in Ids, Format(j)
  PROVE  PlaceInv'
<1>0. JobsShape
  BY DEF VaultInv
<1>1. CASE FormatFails(j)
  BY <1>1, FailPlaces DEF FormatFails, files, Formatter, At, Busy, Active
<1>2. CASE UnmountStick(j)
  <2>1. /\ Go(j, "wipe") /\ Formatter(j, "umount") /\ UNCHANGED <<fs, archive, payload>>
        /\ mounts' = [d \in Dirs |-> Without(jobs[j].what, mounts[d])]
    BY <1>2 DEF UnmountStick, files
  <2>2. DisksShape'
    <3>1. \A d \in Dirs : Without(jobs[j].what, mounts[d]) \in Seq(FileSystems)
      BY LeftOver DEF PlaceInv, DisksShape
    <3>2. \A q \in Parts : \A d \in {Own(q), Automount(q)} :
            d \in Dirs /\ Without(jobs[j].what, mounts[d]) \in Seq({<<q, 0>>})
      BY LeftOver DEF PlaceInv, DisksShape, Dirs
    <3> QED
      BY <2>1, <3>1, <3>2 DEF PlaceInv, DisksShape
  <2>3. jobs'[j].pc = "wipe"
    BY <1>0, <2>1, Goes
  <2>4. InPlace(j)'
    BY <2>3 DEF InPlace, At
  <2> QED
    BY <2>1, <2>2, <2>4, GoPlaces DEF Formatter, At, Busy, Active, Disturbing
<1>3. CASE Wipe(j)
  <2>1. /\ Go(j, "mkfs") /\ Formatter(j, "wipe") /\ UNCHANGED <<mounts, dirs, archive, payload>>
        /\ fs' = [fs EXCEPT ![jobs[j].what] = Lost]
    BY <1>3 DEF Wipe, files
  <2>2. DisksShape' /\ \A x \in Sticks : fs'[x] # fs[x] => jobs[j].what = x
    <3>1. Lost \in 0 .. Lost
      BY BoundsAssumption DEF Lost
    <3> QED
      BY <2>1, <3>1 DEF PlaceInv, DisksShape
  <2>3. jobs'[j].pc = "mkfs"
    BY <1>0, <2>1, Goes
  <2>4. InPlace(j)'
    BY <2>3 DEF InPlace, At
  <2>5. jobs[j].kind \in {"prepare", "reset"} /\ Busy(j)
    BY <2>1 DEF Formatter, At, Busy, Active
  <2> QED
    BY <2>1, <2>2, <2>4, <2>5, GoPlaces DEF Disturbing
<1>4. CASE MakeFileSystem(j)
  <2> DEFINE pc == IF jobs[j].kind = "prepare" THEN "clear" ELSE "ok"
  <2>1. /\ Go(j, pc) /\ Formatter(j, "mkfs") /\ UNCHANGED <<mounts, dirs, archive, payload>>
        /\ fs' = [fs EXCEPT ![jobs[j].what] = j]
    BY <1>4 DEF MakeFileSystem, files
  <2>2. j \in 0 .. Lost
    BY BoundsAssumption DEF VaultInv, JobsShape, Ids, Lost
  <2>3. DisksShape' /\ \A x \in Sticks : fs'[x] # fs[x] => jobs[j].what = x
    BY <2>1, <2>2 DEF PlaceInv, DisksShape
  <2>4. jobs[j].kind \in {"prepare", "reset"} /\ Busy(j)
    BY <2>1 DEF Formatter, At, Busy, Active
  <2>5. pc \in {"clear", "ok"} /\ (pc = "ok" => jobs[j].kind = "reset")
    BY <2>4
  <2> HIDE DEF pc
  <2>6. jobs'[j].pc = pc /\ jobs'[j].kind = jobs[j].kind
    BY <1>0, <2>1, Goes DEF Moved
  <2>7. InPlace(j)'
    BY <2>4, <2>5, <2>6 DEF InPlace, At
  <2> QED
    BY <2>1, <2>3, <2>4, <2>5, <2>7, GoPlaces DEF Disturbing
<1>5. CASE ClearVault(j)
  <2>1. /\ Go(j, "mount") /\ At(j, "prepare", "clear") /\ UNCHANGED <<fs, archive, payload>>
        /\ mounts' = [mounts EXCEPT ![VaultDir] =
                        IF @ = <<>> THEN @ ELSE SubSeq(@, 1, Len(@) - 1)]
    BY <1>5 DEF ClearVault, files
  <2>2. VaultDir \in Dirs /\ \A q \in Parts : VaultDir \notin {Own(q), Automount(q)}
    BY DEF Dirs, VaultDir, Own, Automount
  <2>3. mounts'[VaultDir] \in Seq(FileSystems)
    <3> DEFINE stack == mounts[VaultDir]
    <3>1. stack \in Seq(FileSystems)
      BY <2>2 DEF PlaceInv, DisksShape
    <3>2. mounts'[VaultDir] = IF stack = <<>> THEN stack ELSE SubSeq(stack, 1, Len(stack) - 1)
      BY <2>1, <2>2 DEF PlaceInv, DisksShape
    <3> HIDE DEF stack
    <3>3. stack # <<>> => SubSeq(stack, 1, Len(stack) - 1) \in Seq(FileSystems)
      BY <3>1
    <3> QED
      BY <3>1, <3>2, <3>3
  <2>4. DisksShape'
    BY <2>1, <2>2, <2>3 DEF PlaceInv, DisksShape, Dirs
  <2>5. jobs'[j].pc = "mount" /\ jobs'[j].kind = "prepare"
    BY <1>0, <2>1, Goes DEF Moved, At
  <2>6. InPlace(j)'
    BY <2>5 DEF InPlace, At
  <2> QED
    BY <2>1, <2>4, <2>6, GoPlaces DEF At, Busy, Active, Disturbing
<1>6. CASE MountVault(j)
  <2> DEFINE f == <<jobs[j].what, fs[jobs[j].what]>>
  <2>1. /\ Go(j, "ok") /\ At(j, "prepare", "mount") /\ UNCHANGED <<fs, dirs, archive, payload>>
        /\ fs[jobs[j].what] # Lost /\ mounts' = [mounts EXCEPT ![VaultDir] = Append(@, f)]
    BY <1>6 DEF MountVault, files
  <2>2. VaultDir \in Dirs /\ \A q \in Parts : VaultDir \notin {Own(q), Automount(q)}
    BY DEF Dirs, VaultDir, Own, Automount
  <2>3. jobs[j].what \in Sticks
    BY <2>1 DEF PlaceInv, Aimed, At
  <2>4. f \in FileSystems /\ f = Home(jobs[j].what)
    BY <2>1, <2>3, BoundsAssumption DEF FileSystems, PlaceInv, DisksShape, Lost, Home
  <2> HIDE DEF f
  <2>5. mounts'[VaultDir] = Append(mounts[VaultDir], f)
    BY <2>1, <2>2 DEF PlaceInv, DisksShape
  <2>6. mounts[VaultDir] \in Seq(FileSystems)
    BY <2>2 DEF PlaceInv, DisksShape
  <2>7. /\ mounts'[VaultDir] \in Seq(FileSystems) /\ mounts'[VaultDir] # <<>>
        /\ mounts'[VaultDir][Len(mounts'[VaultDir])] = f
    BY <2>4, <2>5, <2>6
  <2>8. DisksShape'
    BY <2>1, <2>2, <2>7 DEF PlaceInv, DisksShape, Dirs
  <2>9. jobs'[j].pc = "ok" /\ jobs'[j].kind = "prepare" /\ jobs'[j].what = jobs[j].what
    BY <1>0, <2>1, Goes DEF Moved, At
  <2>10. Leads(VaultDir, jobs[j].what)'
    <3>1. Shows(VaultDir)' = f
      BY <2>2, <2>7 DEF Shows
    <3>2. Home(jobs[j].what)' = f
      BY <2>1, <2>4, <2>9 DEF Home
    <3> QED
      BY <2>4, <3>1, <3>2 DEF Leads
  <2>11. InPlace(j)'
    BY <2>9, <2>10 DEF InPlace, At
  <2> QED
    BY <2>1, <2>8, <2>11, GoPlaces DEF At, Busy, Active, Disturbing
<1> QED
  BY <1>1, <1>2, <1>3, <1>4, <1>5, <1>6 DEF Format

LEMMA HearPlaces ==
  ASSUME VaultInv, PlaceInv, NEW j \in Ids, HearPrepared(j)
  PROVE  PlaceInv'
<1> DEFINE heard == [jobs EXCEPT ![j].pc = "heard"]
           r == [jobs[j] EXCEPT !.pc = "heard"]
<1>0. UNCHANGED <<disks, archive, payload>> /\ At(j, "prepare", "ok")
  BY DEF HearPrepared, files
<1>1. JobsShape /\ IsJob(jobs[j]) /\ DOMAIN jobs = Ids /\ Len(jobs) \in Nat
  BY DEF VaultInv, JobsShape, Ids
<1>2. /\ IsJob(r) /\ r.kind = jobs[j].kind /\ r.pc = "heard" /\ heard = [jobs EXCEPT ![j] = r]
      /\ r.dir = jobs[j].dir /\ r.what = jobs[j].what /\ r.own = jobs[j].own
      /\ r.at = jobs[j].at /\ r.seen = jobs[j].seen /\ r.calm = jobs[j].calm
  BY <1>1 DEF IsJob, Fields
<1> HIDE DEF r
<1>3. heard = [i \in 1 .. Len(jobs) |-> heard[i]]
  BY <1>1, <1>2 DEF Ids
<1>4. \A i \in Ids : heard[i] = IF i = j THEN r ELSE jobs[i]
  BY <1>1, <1>2
<1> HIDE DEF heard
<1>5. heard \in Seq({heard[i] : i \in DOMAIN heard}) /\ Len(heard) = Len(jobs)
  BY ONLY <1>1, <1>3, Listing
<1>6. \A i \in Ids :
        /\ heard[i].kind = jobs[i].kind
        /\ heard[i].pc = jobs[i].pc \/ heard[i].pc = "heard"
        /\ heard[i].dir = jobs[i].dir /\ heard[i].what = jobs[i].what
        /\ heard[i].own = jobs[i].own /\ heard[i].at = jobs[i].at
        /\ heard[i].seen = jobs[i].seen /\ heard[i].calm = jobs[i].calm
  BY <1>1, <1>2, <1>4 DEF JobsShape
<1>7. \A i \in Ids : IsJob(heard[i])
  BY <1>1, <1>2, <1>4 DEF JobsShape
<1>8. ASSUME NEW kind \in {"backup", "stage"},
             Start(heard, kind, "open", VaultDir, jobs[j].what, jobs[j].calm)
      PROVE  PlaceInv'
  <2>1. Joined(heard, kind, "open", VaultDir, jobs[j].what, jobs[j].calm)
    BY <1>1, <1>5, <1>7, <1>8, Appended
  <2>2. jobs[j].calm => Leads(VaultDir, jobs[j].what)
    BY <1>0 DEF PlaceInv, InPlace
  <2>3. Begins(kind, "open", VaultDir, jobs[j].what, jobs[j].calm)
    BY <2>2 DEF Begins
  <2> QED
    BY <1>0, <1>1, <1>6, <2>1, <2>3, OrderPlaces
<1>9. CASE jobs' = heard
  <2>1. Go(j, "heard")
    BY <1>9 DEF Go, heard
  <2>2. jobs'[j].pc = "heard"
    BY <1>1, <2>1, Goes
  <2>3. InPlace(j)'
    BY <2>2 DEF InPlace, At
  <2>4. DisksShape' /\ Busy(j) /\ jobs[j].kind \in Disturbing /\ UNCHANGED fs
    BY <1>0 DEF PlaceInv, DisksShape, disks, At, Busy, Active, Disturbing
  <2> QED
    BY <1>0, <2>1, <2>3, <2>4, GoPlaces
<1> QED
  BY <1>8, <1>9 DEF HearPrepared, heard

LEMMA FormattingNumber ==
  ASSUME NEW drive, NEW n, <<drive, n>> \in FileSystems
  PROVE  n \in 0 .. MaxJobs
<1>1. CASE <<drive, n>> = Host
  BY <1>1, BoundsAssumption DEF Host
<1>2. ASSUME NEW q \in Parts, <<drive, n>> = <<q, 0>>
      PROVE  n \in 0 .. MaxJobs
  BY <1>2, BoundsAssumption
<1>3. CASE <<drive, n>> \in Sticks \X (0 .. MaxJobs)
  BY <1>3
<1> QED
  BY <1>1, <1>2, <1>3 DEF FileSystems

\* A backup whose tar has ended well is where it was.
LEMMA TarInPlace ==
  ASSUME PlaceInv, NEW j \in Ids, At(j, "backup", "tar"), Moved(j), jobs'[j].pc = "hash",
         archive'[j].on = archive[j].on, UNCHANGED disks, jobs[j].calm
  PROVE  InPlace(j)'
<1>1. Meant(j, archive[j].on) /\ (Stands(archive[j].on) \/ Reformatted(j))
  BY DEF PlaceInv, InPlace, At
<1>2. Meant(j, archive[j].on)'
  BY <1>1 DEF Meant, Moved
<1>3. Stands(archive[j].on) => Stands(archive[j].on)'
  BY DEF Stands, disks
<1>4. Reformatted(j) => Reformatted(j)'
  BY DEF Reformatted, Moved
<1> QED
  BY <1>1, <1>2, <1>3, <1>4 DEF InPlace, At, Moved

LEMMA BackupPlaces ==
  ASSUME VaultInv, PlaceInv, NEW j \in Ids, Backup(j)
  PROVE  PlaceInv'
<1>0. JobsShape /\ j \in 0 .. MaxJobs
  BY BoundsAssumption DEF VaultInv, JobsShape, Ids
<1>1. CASE MakeDir(j)
  <2>1. Go(j, "mount") /\ (At(j, "backup", "mkdir") \/ At(j, "scan", "mkdir"))
    BY <1>1 DEF MakeDir
  <2>2. UNCHANGED <<fs, mounts, archive, payload>>
    BY <1>1 DEF MakeDir, files
  <2>3. DisksShape'
    BY <2>2 DEF PlaceInv, DisksShape
  <2>4. jobs'[j].pc = "mount" /\ jobs'[j].kind = jobs[j].kind
    BY <1>0, <2>1, Goes DEF Moved
  <2>5. InPlace(j)'
    BY <2>4 DEF InPlace, At
  <2> QED
    BY <2>1, <2>2, <2>3, <2>5, GoPlaces DEF At, Busy, Active, Disturbing
<1>2. CASE AutoMount(j)
  <2> DEFINE f == <<jobs[j].dir[2], 0>>
  <2>1. /\ At(j, "backup", "mount") \/ At(j, "scan", "mount")
        /\ jobs' = [jobs EXCEPT ![j].pc = "open", ![j].own = TRUE]
        /\ mounts' = [mounts EXCEPT ![jobs[j].dir] = <<f>>]
        /\ UNCHANGED <<fs, dirs, archive, payload>>
    BY <1>2 DEF AutoMount, files
  <2>2. jobs[j].what \in Parts /\ jobs[j].dir = Automount(jobs[j].what)
    BY <2>1 DEF PlaceInv, Aimed, At
  <2>3. f = <<jobs[j].what, 0>> /\ jobs[j].dir \in Dirs /\ f \in FileSystems
    BY <2>2 DEF Automount, Dirs, FileSystems
  <2>4. f = Home(jobs[j].what)
    BY <2>2, <2>3, DrivesAssumption DEF Home
  <2>5. \A q \in Parts : \A d \in {Own(q), Automount(q)} :
          d \in Dirs /\ (d = jobs[j].dir => f = <<q, 0>>)
    BY <2>2, <2>3 DEF Own, Automount, Dirs
  <2> HIDE DEF f
  <2>6. /\ \A d \in Dirs : mounts'[d] = IF d = jobs[j].dir THEN <<f>> ELSE mounts[d]
        /\ mounts' = [d \in Dirs |-> mounts'[d]]
    BY <2>1 DEF PlaceInv, DisksShape
  <2>7. \A S : f \in S => <<f>> \in Seq(S)
    BY OneMount
  <2>8. DisksShape'
    <3>1. \A d \in Dirs : mounts'[d] \in Seq(FileSystems)
      BY <2>3, <2>6, <2>7 DEF PlaceInv, DisksShape
    <3>2. \A q \in Parts : \A d \in {Own(q), Automount(q)} : mounts'[d] \in Seq({<<q, 0>>})
      <4> SUFFICES ASSUME NEW q \in Parts, NEW d \in {Own(q), Automount(q)}
                   PROVE  mounts'[d] \in Seq({<<q, 0>>})
        OBVIOUS
      <4>1. mounts[d] \in Seq({<<q, 0>>}) /\ d \in Dirs
        BY <2>5 DEF PlaceInv, DisksShape
      <4>2. CASE d = jobs[j].dir
        BY <2>5, <2>6, <2>7, <4>1, <4>2
      <4>3. CASE d # jobs[j].dir
        BY <2>6, <4>1, <4>3
      <4> QED
        BY <4>2, <4>3
    <3> QED
      BY <2>1, <2>6, <3>1, <3>2 DEF PlaceInv, DisksShape
  <2> DEFINE at == jobs[j].at
             seen == jobs[j].seen
  <2>9. jobs' = [jobs EXCEPT ![j] = [jobs[j] EXCEPT !.pc = "open", !.own = TRUE,
                                                    !.at = at, !.seen = seen]]
    <3>1. IsJob(jobs[j])
      BY <1>0 DEF JobsShape
    <3>2. [jobs[j] EXCEPT !.pc = "open", !.own = TRUE]
            = [jobs[j] EXCEPT !.pc = "open", !.own = TRUE, !.at = at, !.seen = seen]
      BY <3>1 DEF IsJob, Fields
    <3> QED
      BY <2>1, <3>2
  <2> HIDE DEF at, seen
  <2>10. Moved(j) /\ jobs'[j].pc = "open" /\ jobs'[j].own = TRUE
    BY <1>0, <2>9, Moves
  <2>11. Leads(jobs[j].dir, jobs[j].what)'
    <3>1. mounts'[jobs[j].dir] = <<f>>
      BY <2>3, <2>6
    <3>2. <<f>> # <<>> /\ Len(<<f>>) = 1 /\ <<f>>[1] = f
      OBVIOUS
    <3>3. Shows(jobs[j].dir)' = f
      BY <2>3, <2>10, <3>1, <3>2 DEF Shows, Moved
    <3>4. Home(jobs[j].what)' = f
      BY <2>1, <2>4, <2>10 DEF Home, Moved
    <3> QED
      BY <2>3, <3>3, <3>4 DEF Leads
  <2>12. InPlace(j)'
    BY <2>1, <2>10, <2>11 DEF InPlace, At, Moved
  <2> QED
    BY <1>0, <2>1, <2>8, <2>10, <2>12, MoveKeeps DEF At, Busy, Active, Disturbing
<1>3. CASE BackupFails(j)
  BY <1>3, FailPlaces DEF BackupFails, files, At, Busy, Active
<1>4. CASE CreateArchive(j)
  <2>1. /\ At(j, "backup", "open") /\ Go(j, "tar") /\ UNCHANGED <<disks, payload>>
        /\ archive' = [archive EXCEPT ![j] = [on |-> Shows(jobs[j].dir), state |-> "cut", sum |-> "none"]]
    BY <1>4 DEF CreateArchive
  <2>2. archive'[j].on = Shows(jobs[j].dir)
    BY <1>0, <2>1 DEF VaultInv, ArchiveShape
  <2>3. \A i \in Ids : i # j => archive'[i] = archive[i]
    BY <2>1 DEF VaultInv, ArchiveShape
  <2>4. Moved(j) /\ jobs'[j].pc = "tar" /\ jobs'[j].own = jobs[j].own
    BY <1>0, <2>1, Goes
  <2>5. jobs[j].calm => InPlace(j)'
    <3> SUFFICES ASSUME jobs[j].calm PROVE InPlace(j)'
      OBVIOUS
    <3>1. archive'[j].on = Home(jobs[j].what) /\ Home(jobs[j].what) \in FileSystems
      BY <2>1, <2>2 DEF PlaceInv, InPlace, Leads
    <3>2. Meant(j, archive[j].on)' /\ Stands(archive[j].on)'
      <4>1. jobs[j].what \in Sticks => fs[jobs[j].what] \in 0 .. MaxJobs
        BY <3>1, FormattingNumber DEF Home
      <4> QED
        BY <2>1, <2>4, <3>1, <4>1, BoundsAssumption DEF Meant, Stands, Home, Moved, disks
    <3> QED
      BY <2>1, <2>4, <3>2 DEF InPlace, At, Moved
  <2>6. jobs'[j].own => jobs[j].kind \in {"backup", "scan"}
    BY <2>4 DEF PlaceInv, Aimed
  <2>7. DisksShape' /\ UNCHANGED fs
    BY <2>1 DEF PlaceInv, DisksShape, disks
  <2> QED
    BY <1>0, <2>1, <2>3, <2>4, <2>5, <2>6, <2>7, MoveKeeps DEF At, Busy, Active
<1>5. CASE TarEnds(j)
  <2>1. CASE Return(j, "err") /\ UNCHANGED archive
    BY <1>5, <2>1, FailPlaces DEF TarEnds, At, Busy, Active
  <2>2. CASE Go(j, "hash") /\ archive' = [archive EXCEPT ![j].state = "whole"] /\ UNCHANGED disks
    <3>1. At(j, "backup", "tar") /\ UNCHANGED payload
      BY <1>5 DEF TarEnds
    <3>2. /\ archive'[j].on = archive[j].on
          /\ \A i \in Ids : i # j => archive'[i] = archive[i]
      <4>1. IsArchive(archive[j])
        BY <1>0 DEF VaultInv, ArchiveShape
      <4> QED
        BY <1>0, <2>2, <4>1 DEF VaultInv, ArchiveShape, IsArchive
    <3>3. Moved(j) /\ jobs'[j].pc = "hash" /\ jobs'[j].own = jobs[j].own
      BY <1>0, <2>2, Goes
    <3>4. jobs'[j].own => jobs[j].kind \in {"backup", "scan"}
      BY <3>3 DEF PlaceInv, Aimed
    <3>5. jobs[j].calm => InPlace(j)'
      BY <2>2, <3>1, <3>2, <3>3, TarInPlace
    <3>6. DisksShape' /\ UNCHANGED fs
      BY <2>2, <3>1 DEF PlaceInv, DisksShape, disks
    <3> QED
      BY <1>0, <2>2, <3>1, <3>2, <3>3, <3>4, <3>5, <3>6, MoveKeeps DEF At, Busy, Active
  <2> QED
    BY <1>5, <2>1, <2>2 DEF TarEnds
<1>6. CASE WriteManifest(j)
  <2>1. /\ At(j, "backup", "hash") /\ Return(j, "ok") /\ UNCHANGED payload
        /\ archive' = archive \/ archive' = [archive EXCEPT ![j].sum = archive[j].state]
    BY <1>6 DEF WriteManifest
  <2>2. /\ archive'[j].on = archive[j].on /\ archive'[j].state = archive[j].state
        /\ \A i \in Ids : i # j => archive'[i] = archive[i]
    <3>1. IsArchive(archive[j])
      BY <1>0 DEF VaultInv, ArchiveShape
    <3>2. CASE archive' = archive
      BY <3>2
    <3>3. CASE archive' = [archive EXCEPT ![j].sum = archive[j].state]
      BY <1>0, <3>1, <3>3 DEF VaultInv, ArchiveShape, IsArchive
    <3> QED
      BY <2>1, <3>2, <3>3
  <2>3. Moved(j) /\ jobs'[j].pc = "ok" /\ UNCHANGED fs
    BY <1>0, <2>1, Returns DEF Return
  <2>4. archive[j].state = "whole"
    BY <2>1 DEF VaultInv, Archived
  <2>5. jobs[j].calm => InPlace(j)'
    <3> SUFFICES ASSUME jobs[j].calm PROVE InPlace(j)'
      OBVIOUS
    <3>1. Meant(j, archive[j].on) /\ (Stands(archive[j].on) \/ Reformatted(j))
      BY <2>1 DEF PlaceInv, InPlace, At
    <3>2. Meant(j, archive[j].on)'
      BY <2>2, <2>3, <3>1 DEF Meant, Moved
    <3>3. Stands(archive[j].on) => Stands(archive[j].on)'
      BY <2>2, <2>3 DEF Stands
    <3>4. Reformatted(j) => Reformatted(j)'
      BY <2>3 DEF Reformatted, Moved
    <3> QED
      BY <2>1, <2>2, <2>3, <2>4, <3>1, <3>2, <3>3, <3>4 DEF InPlace, At, Moved
  <2>6. payload' = [f \in FileSystems |-> payload'[f]]
    BY <2>1 DEF PlaceInv, DisksShape
  <2>7. \A f \in FileSystems : payload'[f] = "cut" => payload[f] = "cut"
    BY <2>1
  <2>8. Busy(j)
    BY <2>1 DEF At, Busy, Active
  <2> QED
    BY <2>1, <2>2, <2>5, <2>6, <2>7, <2>8, ReturnPlaces
<1>7. CASE OrphanEnds(j)
  <2>1. /\ At(j, "backup", "orphan") /\ Go(j, "dead") /\ UNCHANGED <<disks, payload>>
        /\ archive' = archive \/ archive' = [archive EXCEPT ![j].state = "whole"]
    BY <1>7 DEF OrphanEnds
  <2>2. \A i \in Ids : i # j => archive'[i] = archive[i]
    <3>1. CASE archive' = archive
      BY <3>1
    <3>2. CASE archive' = [archive EXCEPT ![j].state = "whole"]
      BY <3>2 DEF VaultInv, ArchiveShape
    <3> QED
      BY <2>1, <3>1, <3>2
  <2>3. Moved(j) /\ jobs'[j].pc = "dead" /\ jobs'[j].own = jobs[j].own
    BY <1>0, <2>1, Goes
  <2>4. jobs'[j].own => jobs[j].kind \in {"backup", "scan"}
    BY <2>3 DEF PlaceInv, Aimed
  <2>5. InPlace(j)'
    BY <2>3 DEF InPlace, At
  <2>6. DisksShape' /\ UNCHANGED fs
    BY <2>1 DEF PlaceInv, DisksShape, disks
  <2> QED
    BY <1>0, <2>1, <2>2, <2>3, <2>4, <2>5, <2>6, MoveKeeps DEF At, Busy, Active
<1> QED
  BY <1>1, <1>2, <1>3, <1>4, <1>5, <1>6, <1>7 DEF Backup

LEMMA StagePlaces ==
  ASSUME VaultInv, PlaceInv, NEW j \in Ids, Stage(j)
  PROVE  PlaceInv'
<1>0. JobsShape
  BY DEF VaultInv
<1>1. CASE StageFails(j)
  BY <1>1, FailPlaces DEF StageFails, files, At, Busy, Active
<1>2. CASE OpenPayload(j)
  <2> DEFINE at == Shows(jobs[j].dir)
             own == jobs[j].own
             seen == IF src = Given THEN "whole"
                     ELSE IF Shows(src) = Shows(jobs[j].dir) THEN "self" ELSE payload[Shows(src)]
  <2>1. /\ At(j, "stage", "open") /\ UNCHANGED <<disks, archive>> /\ at # Gone
        /\ jobs' = [jobs EXCEPT ![j].pc = "copy", ![j].at = at, ![j].seen = seen]
        /\ payload' = [payload EXCEPT ![at] = "cut"]
    BY <1>2 DEF OpenPayload
  <2>2. at = Shows(jobs[j].dir)
    OBVIOUS
  <2> HIDE DEF at, seen
  <2>3. jobs' = [jobs EXCEPT ![j] = [jobs[j] EXCEPT !.pc = "copy", !.own = own,
                                                    !.at = at, !.seen = seen]]
    <3>1. IsJob(jobs[j])
      BY <1>0 DEF JobsShape
    <3>2. [jobs[j] EXCEPT !.pc = "copy", !.at = at, !.seen = seen]
            = [jobs[j] EXCEPT !.pc = "copy", !.own = own, !.at = at, !.seen = seen]
      BY <3>1 DEF IsJob, Fields
    <3> QED
      BY <2>1, <3>2
  <2> HIDE DEF own
  <2>4. /\ Moved(j) /\ jobs'[j].pc = "copy" /\ jobs'[j].own = own
        /\ jobs'[j].at = at /\ jobs'[j].seen = seen
    BY <1>0, <2>3, Moves
  <2>5. jobs[j].calm => InPlace(j)'
    <3> SUFFICES ASSUME jobs[j].calm PROVE InPlace(j)'
      OBVIOUS
    <3>1. at = Home(jobs[j].what) /\ Home(jobs[j].what) \in FileSystems
      BY <2>1, <2>2 DEF PlaceInv, InPlace, Leads
    <3>2. Meant(j, jobs[j].at)'
      <4>1. jobs[j].what \in Sticks => fs[jobs[j].what] \in 0 .. MaxJobs
        BY <3>1, FormattingNumber DEF Home
      <4> QED
        BY <2>4, <3>1, <4>1, BoundsAssumption DEF Meant, Home, Moved
    <3> QED
      BY <2>1, <2>4, <3>1, <3>2 DEF InPlace, At, Moved
  <2>6. jobs'[j].own => jobs[j].kind \in {"backup", "scan"}
    BY <2>4 DEF PlaceInv, Aimed, own
  <2>7. DisksShape' /\ UNCHANGED fs
    BY <2>1 DEF PlaceInv, DisksShape, disks
  <2> QED
    BY <1>0, <2>1, <2>4, <2>5, <2>6, <2>7, MoveKeeps DEF At, Busy, Active, Disturbing
<1>3. CASE CopyPayload(j)
  <2>1. /\ At(j, "stage", "copy") /\ Return(j, "ok") /\ UNCHANGED archive
        /\ payload' = [payload EXCEPT ![jobs[j].at] =
                          IF @ # "none" /\ jobs[j].seen = "whole" THEN "whole" ELSE @]
    BY <1>3 DEF CopyPayload
  <2>2. payload = [f \in FileSystems |-> payload[f]]
    BY DEF PlaceInv, DisksShape
  <2>3. payload' = [f \in FileSystems |-> payload'[f]]
    BY <2>1, <2>2
  <2>4. \A f \in FileSystems : payload'[f] = "cut" => payload[f] = "cut"
    BY <2>1, <2>2
  <2>5. /\ Moved(j) /\ jobs'[j].pc = "ok" /\ jobs'[j].at = jobs[j].at
        /\ jobs'[j].seen = jobs[j].seen
    BY <1>0, <2>1, Returns
  <2>6. jobs[j].calm => InPlace(j)'
    <3> SUFFICES ASSUME jobs[j].calm PROVE InPlace(j)'
      OBVIOUS
    <3>1. jobs[j].at \in FileSystems /\ Meant(j, jobs[j].at)
      BY <2>1 DEF PlaceInv, InPlace, At
    <3>2. Meant(j, jobs[j].at)'
      BY <2>5, <3>1 DEF Meant, Moved
    <3>3. jobs[j].seen = "whole" => payload'[jobs[j].at] # "cut"
      BY <2>1, <2>2, <3>1
    <3> QED
      BY <2>1, <2>5, <3>1, <3>2, <3>3 DEF InPlace, At, Moved
  <2>7. Busy(j)
    BY <2>1 DEF At, Busy, Active
  <2> QED
    BY <2>1, <2>3, <2>4, <2>6, <2>7, ReturnPlaces
<1> QED
  BY <1>1, <1>2, <1>3 DEF Stage

LEMMA ScanPlaces ==
  ASSUME VaultInv, PlaceInv, NEW j \in Ids, Scan(j)
  PROVE  PlaceInv'
<1>1. /\ jobs[j].kind = "scan" /\ Busy(j) /\ Return(j, "ok")
      /\ UNCHANGED <<archive, payload>>
  BY DEF Scan, ReadDir, ScanFails, files, At, Busy, Active
<1>2. Moved(j)
  BY <1>1, Returns DEF VaultInv
<1>3. InPlace(j)'
  BY <1>1, <1>2 DEF InPlace, At, Moved
<1>4. payload' = [f \in FileSystems |-> payload'[f]]
  BY <1>1 DEF PlaceInv, DisksShape
<1> QED
  BY <1>1, <1>3, <1>4, ReturnPlaces

\* A restoration mounts nothing that is modelled here.
LEMMA RestorePlaces ==
  ASSUME VaultInv, PlaceInv, NEW j \in Ids, Restore(j)
  PROVE  PlaceInv'
<1>0. JobsShape
  BY DEF VaultInv
<1>1. jobs[j].kind = "restore" /\ Busy(j) /\ UNCHANGED <<archive, payload>>
  BY DEF Restore, CheckManifest, WipeHost, MountRoot, Extract, files, At, Busy, Active
<1>2. payload' = [f \in FileSystems |-> payload'[f]] /\ (UNCHANGED disks => DisksShape')
  BY <1>1 DEF PlaceInv, DisksShape, disks
<1>3. ASSUME Moved(j) PROVE InPlace(j)'
  BY <1>1, <1>3 DEF InPlace, At, Moved
<1>4. ASSUME NEW result \in {"ok", "err"}, Return(j, result)
      PROVE  PlaceInv'
  <2>1. InPlace(j)'
    BY <1>0, <1>3, <1>4, Returns
  <2> QED
    BY <1>1, <1>2, <1>4, <2>1, ReturnPlaces
<1>5. ASSUME NEW pc \in {"mount", "extract"}, Go(j, pc), UNCHANGED disks
      PROVE  PlaceInv'
  <2>1. InPlace(j)' /\ UNCHANGED fs
    BY <1>0, <1>3, <1>5, Goes DEF disks
  <2> QED
    BY <1>1, <1>2, <1>5, <2>1, GoPlaces
<1>6. ASSUME NEW seen \in {"verified", "unverified"}, UNCHANGED disks,
             jobs' = [jobs EXCEPT ![j].pc = "wipe", ![j].seen = seen]
      PROVE  PlaceInv'
  <2> DEFINE own == jobs[j].own
             at == jobs[j].at
  <2>1. IsJob(jobs[j])
    BY <1>0 DEF JobsShape
  <2>2. [jobs[j] EXCEPT !.pc = "wipe", !.seen = seen]
          = [jobs[j] EXCEPT !.pc = "wipe", !.own = own, !.at = at, !.seen = seen]
    BY <2>1 DEF IsJob, Fields
  <2>3. jobs' = [jobs EXCEPT ![j] = [jobs[j] EXCEPT !.pc = "wipe", !.own = own,
                                                    !.at = at, !.seen = seen]]
    BY <1>6, <2>2
  <2> HIDE DEF own, at
  <2>4. /\ Moved(j) /\ jobs'[j].pc = "wipe" /\ jobs'[j].own = own
        /\ jobs'[j].at = at /\ jobs'[j].seen = seen
    BY <1>0, <2>3, Moves
  <2>5. ~ own
    BY <1>1 DEF PlaceInv, Aimed, own
  <2>6. UNCHANGED fs
    BY <1>6 DEF disks
  <2> QED
    BY <1>0, <1>1, <1>2, <1>3, <1>6, <2>4, <2>5, <2>6, MoveKeeps
<1>7. CASE CheckManifest(j)
  BY <1>4, <1>6, <1>7 DEF CheckManifest
<1>8. CASE WipeHost(j)
  BY <1>4, <1>5, <1>8 DEF WipeHost
<1>9. CASE MountRoot(j)
  BY <1>4, <1>5, <1>9 DEF MountRoot
<1>10. CASE Extract(j)
  BY <1>4, <1>10 DEF Extract
<1> QED
  BY <1>7, <1>8, <1>9, <1>10 DEF Restore

LEMMA PurgePlaces ==
  ASSUME VaultInv, PlaceInv, Purge
  PROVE  PlaceInv'
<1>1. \A j \in Ids : IsJob(jobs[j])
  BY DEF VaultInv, JobsShape
<1>2. /\ jobs' = [j \in Ids |-> jobs'[j]] /\ UNCHANGED <<disks, archive>>
      /\ payload' = [payload EXCEPT ![Shows(VaultDir)] = "none"]
  BY DEF Purge
<1>3. Ids' = Ids
  BY <1>2, AllKeep, PurgeKeeps DEF Purge, VaultInv, JobsShape, Ids
<1>4. \A j \in Ids :
        /\ jobs'[j].kind = jobs[j].kind /\ jobs'[j].what = jobs[j].what
        /\ jobs'[j].dir = jobs[j].dir /\ jobs'[j].own = jobs[j].own
        /\ jobs'[j].at = jobs[j].at /\ jobs'[j].seen = jobs[j].seen
        /\ jobs'[j].pc = jobs[j].pc /\ (jobs'[j].calm => jobs[j].calm)
  BY <1>1 DEF Purge, IsJob, Fields
<1>5. DisksShape' /\ \A f \in FileSystems : payload'[f] = "cut" => payload[f] = "cut"
  BY <1>2 DEF PlaceInv, DisksShape, disks
<1> QED
  BY <1>2, <1>3, <1>4, <1>5, AllInPlace

LEMMA DiePlaces ==
  ASSUME VaultInv, PlaceInv, Die
  PROVE  PlaceInv'
<1> DEFINE to(j) == IF At(j, "backup", "tar") THEN "orphan"
                    ELSE IF Running(j) \/ At(j, "prepare", "ok") THEN "dead" ELSE jobs[j].pc
<1>1. \A j \in Ids : IsJob(jobs[j])
  BY DEF VaultInv, JobsShape
<1>2. jobs' = [j \in Ids |-> [jobs[j] EXCEPT !.pc = to(j)]]
  BY DEF Die
<1>3. \A j \in Ids : to(j) # jobs[j].pc => Busy(j) /\ to(j) \in {"dead", "orphan"}
  BY DEF At, Running, Busy, Active
<1> HIDE DEF to
<1>4. Ids' = Ids
  BY <1>2, DieKeeps DEF VaultInv, JobsShape, Ids
<1>5. \A j \in Ids :
        /\ jobs'[j].kind = jobs[j].kind /\ jobs'[j].what = jobs[j].what
        /\ jobs'[j].dir = jobs[j].dir /\ jobs'[j].own = jobs[j].own
        /\ jobs'[j].at = jobs[j].at /\ jobs'[j].seen = jobs[j].seen
        /\ jobs'[j].calm = jobs[j].calm /\ jobs'[j].pc = to(j)
  BY <1>1, <1>2 DEF IsJob, Fields
<1>6. UNCHANGED <<disks, archive, payload>>
  BY DEF Die, files
<1>7. DisksShape'
  BY <1>6 DEF PlaceInv, DisksShape, disks
<1> QED
  BY <1>3, <1>4, <1>5, <1>6, <1>7, AllInPlace

\* Where a partition is listed, it is mounted.
LEMMA ListedLeads ==
  ASSUME PlaceInv, NEW q \in Parts
  PROVE  Leads(Listed(q), q) \/ (Listed(q) = Device(q) /\ Shows(Listed(q)) = Gone)
<1>1. {Own(q), Automount(q)} \subseteq Dirs /\ Device(q) \notin Dirs
  BY DEF Own, Automount, Device, Dirs, VaultDir
<1>2. <<q, 0>> \in FileSystems /\ <<q, 0>> = Home(q)
  BY DrivesAssumption DEF FileSystems, Home
<1>3. ASSUME NEW d \in {Own(q), Automount(q)}, mounts[d] # <<>>
      PROVE  Leads(d, q)
  <2>1. mounts[d] \in Seq({<<q, 0>>})
    BY DEF PlaceInv, DisksShape
  <2> DEFINE S == {<<q, 0>>}
  <2>2. \A x \in S : x = <<q, 0>>
    OBVIOUS
  <2>3. mounts[d] \in Seq(S)
    BY <2>1
  <2> HIDE DEF S
  <2>4. mounts[d][Len(mounts[d])] \in S
    BY <1>3, <2>3
  <2> QED
    BY <1>1, <1>2, <1>3, <2>2, <2>4 DEF Leads, Shows
<1>4. Shows(Device(q)) = Gone
  BY <1>1 DEF Shows
<1> QED
  BY <1>3, <1>4 DEF Listed

LEMMA StepPlaces == VaultInv /\ PlaceInv /\ [Next]_vars => PlaceInv'
<1> SUFFICES ASSUME VaultInv, PlaceInv, [Next]_vars PROVE PlaceInv'
  OBVIOUS
<1>1. ASSUME UNCHANGED <<jobs, disks, files>>
      PROVE  PlaceInv'
  <2>1. Ids' = Ids /\ UNCHANGED <<disks, archive, payload>>
    BY <1>1 DEF Ids, files
  <2>2. DisksShape'
    BY <2>1 DEF PlaceInv, DisksShape, disks
  <2> QED
    BY <1>1, <2>1, <2>2, AllInPlace
<1>2. CASE ListTargets
  BY <1>1, <1>2 DEF ListTargets
<1>3. CASE OrderReset
  <2>1. PICK x \in Sticks : Start(jobs, "reset", "umount", VaultDir, x, TRUE)
    BY <1>3 DEF OrderReset, Order
  <2>2. Begins("reset", "umount", VaultDir, x, TRUE)
    BY DEF Begins
  <2> QED
    BY <1>3, <2>1, <2>2, PlainOrder DEF OrderReset
<1>4. CASE Purge
  BY <1>4, PurgePlaces
<1>5. CASE Die
  BY <1>5, DiePlaces
<1>6. ASSUME NEW x \in Sticks, ConfirmFormat(x) PROVE PlaceInv'
  <2>1. Begins("prepare", "umount", VaultDir, x, TRUE)
    BY DEF Begins
  <2> QED
    BY <1>6, <2>1, PlainOrder DEF ConfirmFormat, Order
<1>7. ASSUME NEW q \in Parts, OrderBackup(q) PROVE PlaceInv'
  <2> DEFINE device == targets[q] = Device(q)
             pc == IF device THEN "mkdir" ELSE "open"
             dir == IF device THEN Automount(q) ELSE targets[q]
             heir == targets[q] = Listed(q)
  <2>1. Start(jobs, "backup", pc, dir, q, heir) /\ UNCHANGED <<disks, files>>
    BY <1>7 DEF OrderBackup
  <2>2. Begins("backup", pc, dir, q, heir)
    BY ListedLeads DEF Begins
  <2> HIDE DEF pc, dir, heir
  <2> QED
    BY <2>1, <2>2, PlainOrder
<1>8. ASSUME NEW q \in Parts, OrderStage(q) PROVE PlaceInv'
  <2> DEFINE heir == targets[q] = Listed(q)
             dir == targets[q]
  <2>1. Start(jobs, "stage", "open", dir, q, heir) /\ UNCHANGED <<disks, files>>
    BY <1>8 DEF OrderStage
  <2>2. Begins("stage", "open", dir, q, heir)
    BY ListedLeads DEF Begins
  <2> HIDE DEF heir, dir
  <2> QED
    BY <2>1, <2>2, PlainOrder
<1>9. ASSUME NEW q \in Parts, OrderScan(q) PROVE PlaceInv'
  <2> DEFINE device == Listed(q) = Device(q)
             pc == IF device THEN "mkdir" ELSE "open"
             dir == IF device THEN Automount(q) ELSE Listed(q)
  <2>1. Start(jobs, "scan", pc, dir, q, TRUE) /\ UNCHANGED <<disks, files>>
    BY <1>9 DEF OrderScan, Order
  <2>2. Begins("scan", pc, dir, q, TRUE)
    BY DEF Begins
  <2> HIDE DEF pc, dir
  <2> QED
    BY <2>1, <2>2, PlainOrder
<1>10. ASSUME NEW a \in found, OrderRestore(a) PROVE PlaceInv'
  <2> DEFINE dir == a.dir
  <2>1. Start(jobs, "restore", "check", dir, a, TRUE) /\ UNCHANGED <<disks, files>>
    BY <1>10 DEF OrderRestore, Order
  <2>2. Begins("restore", "check", dir, a, TRUE)
    BY DEF Begins
  <2> HIDE DEF dir
  <2> QED
    BY <2>1, <2>2, PlainOrder
<1>11. ASSUME NEW j \in Ids, Format(j) \/ HearPrepared(j) \/ Backup(j) \/ Stage(j)
                              \/ Scan(j) \/ Restore(j)
       PROVE  PlaceInv'
  BY <1>11, FormatPlaces, HearPlaces, BackupPlaces, StagePlaces, ScanPlaces, RestorePlaces
<1>12. CASE UNCHANGED vars
  BY <1>1, <1>12 DEF vars, disks, files
<1> QED
  BY <1>2, <1>3, <1>4, <1>5, <1>6, <1>7, <1>8, <1>9, <1>10, <1>11, <1>12 DEF Next

LEMMA PlaceInvariant == Spec => [](VaultInv /\ PlaceInv)
<1>1. VaultInv /\ [Next]_vars => VaultInv'
  BY StepVault
<1> QED
  BY <1>1, InitVault, InitPlace, StepPlaces, PTL DEF Spec

\* What calm commands promise is part of where they are in the end.
LEMMA SnapshotInPlace == PlaceInv => SnapshotIsOnItsDrive
BY DEF PlaceInv, InPlace, SnapshotIsOnItsDrive, Reformatted, At

LEMMA PayloadInPlace == PlaceInv => StagedOnItsDrive
BY DEF PlaceInv, InPlace, StagedOnItsDrive, Restaged, At

-----------------------------------------------------------------------------

\* However many commands interleave, fail or are cut off by the end of the
\* wizard, a manifest that matches its archive vouches for a whole one
\* (CreateHostBackupWithProgress, read by RestoreHostFromBackup).
THEOREM ManifestVouches == Spec => []ManifestMeansWhole
<1>1. VaultInv /\ [Next]_vars => VaultInv'
  BY StepVault
<1> QED
  BY <1>1, InitVault, VouchedMeansWhole, PTL DEF Spec

\* A restoration that reports success has unpacked its snapshot, whole, onto
\* the root file system that the disk has then, however many restorations run
\* at once: a mounted root keeps every other one from formatting the disk
\* (RestoreHostFromBackup).
THEOREM SuccessIsRestored == Spec => RestoredIsWhole
<1>1. VaultInv /\ [Next]_vars => VaultInv'
  BY StepVault
<1>2. VaultInv /\ [Next]_vars
        => [\A j \in Ids : At(j, "restore", "extract") /\ jobs'[j].pc = "ok"
                             => jobs[j].what.arch \in host'.holds]_vars
  BY StepVault DEF Restored
<1> QED
  BY <1>1, <1>2, InitVault, PTL DEF Spec, RestoredIsWhole

\* A snapshot that succeeded with nothing else at the disks is whole, on the
\* drive the user chose, and is there until that drive is formatted again: the
\* wizard goes on to erase the host (backupFinishedMsg).
THEOREM SnapshotsStay == Spec => []SnapshotIsOnItsDrive
BY PlaceInvariant, SnapshotInPlace, PTL

\* A payload staged undisturbed from a whole source is on the drive it was
\* meant for, and whole until another staging overwrites it
\* (triggerUSBStagePayloadCmd).
THEOREM PayloadsStay == Spec => []StagedOnItsDrive
BY PlaceInvariant, PayloadInPlace, PTL
=============================================================================
