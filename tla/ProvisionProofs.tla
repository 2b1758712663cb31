--------------------------- MODULE ProvisionProofs ---------------------------
(***************************************************************************)
(* What Provision.tla promises of the disk, its partition table and the    *)
(* journal, for every kind of order, any number of runs and of failing     *)
(* writes, and deaths anywhere.                                            *)
(***************************************************************************)
EXTENDS Provision, TLAPS

-----------------------------------------------------------------------------
(***************************************************************************)
(* The inductive invariant.                                                *)
(***************************************************************************)

Names == {"image-download", "single-boot-wipe", "partition-shrink", "image-deploy",
          "bootloader-configure", "revert-engine", "uefi-set-boot-order", "grub-set-default"}

\* Steps with what their snapshots can hold.
DataShape == [kind : {"null", "absent", "saved"}, was : Nat]
StepShape ==
  {s \in [name : Names, status : Status, data : DataShape] :
     /\ s.data.kind = "saved" \/ s.data.was = 0
     /\ s.name = "partition-shrink" => s.data.was \in Tables
     /\ s.name = "grub-set-default" => s.data.was \in 0 .. Blank}
JournalShape == [paused : BOOLEAN, steps : Seq(StepShape)]

n == Len(mem.steps)
Idle == {"off", "hub"}
Working == pc \notin Idle \union {"open"}

Typed ==
  /\ firmware \in Firmwares /\ pc \in Phases /\ req \in Requests
  /\ uiLoaded \in BOOLEAN /\ onDisk \in BOOLEAN /\ faults \in 0 .. MaxFaults
  /\ mem \in JournalShape /\ ui \in JournalShape /\ disk \in JournalShape
  /\ host \in Host /\ before \in Host /\ delivered \in Tables
  /\ payload \in {"none", "asked", "other"} /\ result \in Results
  /\ runs \in 0 .. MaxRuns /\ base \in Nat
  /\ pos \in 0 .. n /\ (pc # "rollback" => pos = 0)
  /\ undone \subseteq DOMAIN mem.steps /\ (pc # "rollback" => undone = {})

\* A run writes one table; whatever else is written is guarded by the bound.
Uncut == {"open", "download", "fetch", "verify", "wipe", "wiping", "shrink", "backup", "carve"}
Counted ==
  /\ host.writes <= MaxRuns + runs
  /\ pc \in Uncut => host.writes < MaxRuns + runs
  /\ pc \notin Idle => runs > 0

\* The youngest step of its name, and one of this run.
HeldAt(k, name) ==
  /\ k \in DOMAIN mem.steps /\ k > base /\ mem.steps[k].name = name
  /\ \A m \in DOMAIN mem.steps : m > k => mem.steps[m].name # name

\* The step a phase holds is the last one, below it that of the guard.
Holds(p, k) ==
  /\ p \in {"fetch", "verify"} => HeldAt(k, "image-download")
  /\ p \in {"wiping", "wiped"} => HeldAt(k, "single-boot-wipe")
  /\ p \in {"backup", "carve", "carved", "fallback"} => HeldAt(k, "partition-shrink")
  /\ p \in {"deploying", "deployed"} => HeldAt(k, "image-deploy")
  /\ p \in {"configure", "configured"} => HeldAt(k, "bootloader-configure")
  /\ p \in {"guard", "entry"} => HeldAt(k, "revert-engine")
  /\ p = "order" => HeldAt(k, "uefi-set-boot-order")
  /\ p \in {"grub", "relined"} => HeldAt(k, "grub-set-default")
  /\ p \in {"order", "grub", "relined"} => HeldAt(k - 1, "revert-engine")
  /\ p = "close" => HeldAt(k, "revert-engine") \/ HeldAt(k - 1, "revert-engine")

Holding == Working => base <= n /\ Holds(pc, n)

\* The image that was verified is the one a later phase works with.
Verified ==
  {"wipe", "wiping", "wiped", "shrink", "backup", "carve", "carved", "fallback", "deploy", "deploying"}
Checked == pc \in Verified /\ req.sha => payload = "asked"

\* Which way the mode leads.
Routed ==
  /\ pc \in {"wipe", "wiping", "wiped"} => req.mode = "single"
  /\ pc \in {"shrink", "backup", "carve", "carved", "fallback"} => req.mode = "dual"

\* Until the disk is worked on the machine is what it was.
Untouched ==
  pc \in {"open", "download", "fetch", "verify", "wipe", "shrink", "backup", "carve"} => host = before

\* The journal in memory can bring the table of before the run back.
Backs(s) == s.name = "partition-shrink" /\ s.status \in Undoable /\ s.data = Saved(before.table)
Backed == \E i \in DOMAIN mem.steps : i > base /\ Backs(mem.steps[i])
Undoes ==
  /\ pc \in {"carve", "carved", "fallback"} => Backed
  /\ Working /\ req.mode = "dual" /\ (pc = "rollback" => pos = n) =>
       host.table = before.table \/ Backed

\* A carve of this run is what a run deploys on, unless it was told not to.
Carved ==
  /\ pc = "carved" => host.table > before.writes
  /\ pc \in {"deploy", "deploying"} /\ req.mode = "dual" => host.table > before.writes \/ mem.paused
  /\ pc = "open" /\ disk.paused => faults > 0
  /\ Working /\ mem.paused => faults > 0

\* The download is in the file, and a step that was handed out is running.
Recorded ==
  /\ pc = "fetch" => onDisk /\ disk = mem
  /\ pc \in {"fetch", "backup"} => mem.steps[n].status = "running"

\* RollbackAll: what has been undone, and what is left of it on the machine.
Restored == undone \cap Shrinks(mem)
Passed ==
  pc = "rollback" =>
    /\ \A i \in undone : i > pos
    /\ Restored # {} =>
         \/ \E i \in Shrinks(mem) :
              i > pos /\ mem.steps[i].status \in Undoable /\ mem.steps[i].data # Null
         \/ \E i \in Restored :
              /\ \A k \in Restored : i <= k
              /\ \/ host.table = mem.steps[i].data.was
                 \/ /\ host.table = host.writes
                    /\ \E k \in undone : k < i /\ mem.steps[k].name = "revert-engine"

ProvisionInv ==
  /\ Typed /\ Counted /\ Holding /\ Checked /\ Routed /\ Untouched
  /\ Undoes /\ Carved /\ Recorded /\ Passed

\* As long as no write of the journal fails: the wizard's journal is the one the
\* run found, a step in flight is one the run still has in hand, and no backup
\* that is recorded anywhere is older than the last success over no journal.
Sessions ==
  /\ pc = "open" => onDisk /\ disk = ui
  /\ Working => Len(ui.steps) = base

InHand(i) ==
  \/ pc = "rollback"
  \/ i = n /\ pc \in {"fetch", "verify", "wiping", "wiped", "backup", "carve", "carved",
                      "fallback", "deploying", "deployed", "configure", "configured",
                      "guard", "entry", "order", "grub", "relined"}
  \/ i = n - 1 /\ pc \in {"order", "grub", "relined"}
  \/ HeldAt(i, "revert-engine") /\ pc = "close"
Settled ==
  Working => \A i \in DOMAIN mem.steps : i > base /\ mem.steps[i].status \in InFlight => InHand(i)

Dated(j, oldest, newest) ==
  \A i \in DOMAIN j.steps :
    j.steps[i].name = "partition-shrink" /\ j.steps[i].data.kind = "saved" =>
      j.steps[i].data.was \in oldest .. newest
Dates ==
  /\ delivered <= host.table /\ host.table <= host.writes
  /\ Dated(mem, delivered, host.writes)
  /\ Dated(ui, delivered, host.writes) /\ Dated(disk, delivered, host.writes)

FaultlessInv == faults = 0 /\ Sessions /\ Settled /\ Dates

-----------------------------------------------------------------------------
(***************************************************************************)
(* Journals: what begins, and what is overwritten.                         *)
(***************************************************************************)

LEMMA Append1 ==
  ASSUME NEW S, NEW q \in Seq(S), NEW e \in S
  PROVE  /\ Append(q, e) \in Seq(S) /\ Len(Append(q, e)) = Len(q) + 1
         /\ DOMAIN Append(q, e) = 1 .. Len(q) + 1 /\ DOMAIN q = 1 .. Len(q) /\ Len(q) \in Nat
         /\ Append(q, e)[Len(q) + 1] = e
         /\ \A k \in 1 .. Len(q) : Append(q, e)[k] = q[k]
OBVIOUS

LEMMA Except1 ==
  ASSUME NEW S, NEW q \in Seq(S), NEW i \in DOMAIN q, NEW e \in S
  PROVE  LET r == [q EXCEPT ![i] = e] IN
         /\ r \in Seq(S) /\ Len(r) = Len(q) /\ DOMAIN r = DOMAIN q
         /\ r[i] = e /\ \A k \in DOMAIN q : k # i => r[k] = q[k]
OBVIOUS

LEMMA SeqMono ==
  ASSUME NEW S, NEW T, S \subseteq T, NEW q \in Seq(S)
  PROVE  q \in Seq(T)
OBVIOUS

LEMMA BegunShape == ASSUME NEW name \in Names PROVE Begun(name) \in StepShape
BY BoundsAssumption DEF Begun, StepShape, DataShape, Null, Data, Status, Tables, Blank

LEMMA JournalParts ==
  ASSUME NEW j \in JournalShape
  PROVE  /\ j = [paused |-> j.paused, steps |-> j.steps]
         /\ j.paused \in BOOLEAN /\ j.steps \in Seq(StepShape)
         /\ Len(j.steps) \in Nat /\ DOMAIN j.steps = 1 .. Len(j.steps)
         /\ \A i \in DOMAIN j.steps : j.steps[i] \in StepShape
<1>1. j = [paused |-> j.paused, steps |-> j.steps] /\ j.paused \in BOOLEAN /\ j.steps \in Seq(StepShape)
  BY DEF JournalShape
<1> QED
  BY <1>1

LEMMA FreshShape == Fresh \in JournalShape /\ Len(Fresh.steps) = 0 /\ DOMAIN Fresh.steps = {}
                      /\ ~ Fresh.paused
<1>1. << >> \in Seq(StepShape) /\ Len(<< >>) = 0
  OBVIOUS
<1> QED
  BY <1>1 DEF Fresh, JournalShape

LEMMA Longer ==
  ASSUME NEW j \in JournalShape, NEW name \in Names
  PROVE  LET r == WithStep(j, Begun(name)) IN
         /\ r \in JournalShape /\ r.paused = j.paused /\ Len(r.steps) = Len(j.steps) + 1
         /\ r.steps[Len(j.steps) + 1] = Begun(name)
         /\ \A k \in DOMAIN j.steps : r.steps[k] = j.steps[k]
<1> DEFINE q == Append(j.steps, Begun(name))
<1>1. j = [paused |-> j.paused, steps |-> j.steps] /\ j.paused \in BOOLEAN /\ j.steps \in Seq(StepShape)
  BY JournalParts
<1>2. /\ q \in Seq(StepShape) /\ Len(q) = Len(j.steps) + 1 /\ q[Len(j.steps) + 1] = Begun(name)
      /\ \A k \in DOMAIN j.steps : q[k] = j.steps[k]
  BY <1>1, BegunShape, Append1
<1>3. WithStep(j, Begun(name)) = [j EXCEPT !.steps = q]
  BY DEF WithStep
<1> HIDE DEF q
<1>4. WithStep(j, Begun(name)) = [paused |-> j.paused, steps |-> q]
  BY ONLY <1>1, <1>3
<1> QED
  BY ONLY <1>1, <1>2, <1>4 DEF JournalShape

\* A step after its status and its snapshot have been overwritten.
LEMMA StepIs ==
  ASSUME NEW s \in StepShape
  PROVE  /\ s = [name |-> s.name, status |-> s.status, data |-> s.data]
         /\ s.name \in Names /\ s.status \in Status /\ s.data \in DataShape
         /\ s.data.kind = "saved" \/ s.data.was = 0
         /\ s.name = "partition-shrink" => s.data.was \in Tables
         /\ s.name = "grub-set-default" => s.data.was \in 0 .. Blank
BY DEF StepShape

LEMMA Overwritten ==
  ASSUME NEW j \in JournalShape, NEW i \in DOMAIN j.steps, NEW e \in StepShape, NEW r,
         r = [paused |-> j.paused, steps |-> [j.steps EXCEPT ![i] = e]]
  PROVE  /\ r \in JournalShape /\ r.paused = j.paused /\ Len(r.steps) = Len(j.steps)
         /\ DOMAIN r.steps = DOMAIN j.steps /\ r.steps[i] = e
         /\ \A k \in DOMAIN j.steps : k # i => r.steps[k] = j.steps[k]
<1> DEFINE q == [j.steps EXCEPT ![i] = e]
<1>1. j.paused \in BOOLEAN /\ j.steps \in Seq(StepShape)
  BY JournalParts
<1>2. /\ q \in Seq(StepShape) /\ Len(q) = Len(j.steps) /\ DOMAIN q = DOMAIN j.steps /\ q[i] = e
      /\ \A k \in DOMAIN j.steps : k # i => q[k] = j.steps[k]
  BY <1>1, Except1
<1>3. r = [paused |-> j.paused, steps |-> q]
  OBVIOUS
<1> HIDE DEF q
<1> QED
  BY ONLY <1>1, <1>2, <1>3 DEF JournalShape

LEMMA StatusIs ==
  ASSUME NEW j \in JournalShape, NEW i \in DOMAIN j.steps, NEW st \in Status
  PROVE  LET r == WithStatus(j, i, st)
             e == [name |-> j.steps[i].name, status |-> st, data |-> j.steps[i].data]
         IN /\ r \in JournalShape /\ r.paused = j.paused /\ Len(r.steps) = Len(j.steps)
            /\ DOMAIN r.steps = DOMAIN j.steps /\ r.steps[i] = e
            /\ \A k \in DOMAIN j.steps : k # i => r.steps[k] = j.steps[k]
<1> DEFINE e == [name |-> j.steps[i].name, status |-> st, data |-> j.steps[i].data]
           q == [j.steps EXCEPT ![i] = e]
<1>1. j.steps[i] \in StepShape /\ j = [paused |-> j.paused, steps |-> j.steps]
  BY JournalParts
<1>2. e \in StepShape
  BY <1>1, StepIs DEF StepShape
<1>3. [j.steps[i] EXCEPT !.status = st] = e
  BY <1>1, StepIs
<1>4. [j.steps EXCEPT ![i] = [j.steps[i] EXCEPT !.status = st]] = q
  BY <1>3
<1>5. WithStatus(j, i, st)
        = [j EXCEPT !.steps = [j.steps EXCEPT ![i] = [j.steps[i] EXCEPT !.status = st]]]
  BY DEF WithStatus
<1> HIDE DEF q
<1>6. WithStatus(j, i, st) = [paused |-> j.paused, steps |-> q]
  BY ONLY <1>1, <1>4, <1>5
<1> USE DEF q
<1> HIDE DEF e
<1>7. WithStatus(j, i, st) = [paused |-> j.paused, steps |-> [j.steps EXCEPT ![i] = e]]
  BY <1>6
<1> QED
  BY <1>2, <1>7, Overwritten DEF e

LEMMA DataIs ==
  ASSUME NEW j \in JournalShape, NEW i \in DOMAIN j.steps, NEW d,
         [name |-> j.steps[i].name, status |-> j.steps[i].status, data |-> d] \in StepShape
  PROVE  LET r == WithData(j, i, d)
             e == [name |-> j.steps[i].name, status |-> j.steps[i].status, data |-> d]
         IN /\ r \in JournalShape /\ r.paused = j.paused /\ Len(r.steps) = Len(j.steps)
            /\ DOMAIN r.steps = DOMAIN j.steps /\ r.steps[i] = e
            /\ \A k \in DOMAIN j.steps : k # i => r.steps[k] = j.steps[k]
<1> DEFINE e == [name |-> j.steps[i].name, status |-> j.steps[i].status, data |-> d]
           q == [j.steps EXCEPT ![i] = e]
<1>1. j.steps[i] \in StepShape /\ j = [paused |-> j.paused, steps |-> j.steps]
  BY JournalParts
<1>2. [j.steps[i] EXCEPT !.data = d] = e
  BY <1>1, StepIs
<1>3. [j.steps EXCEPT ![i] = [j.steps[i] EXCEPT !.data = d]] = q
  BY <1>2
<1>4. WithData(j, i, d)
        = [j EXCEPT !.steps = [j.steps EXCEPT ![i] = [j.steps[i] EXCEPT !.data = d]]]
  BY DEF WithData
<1> HIDE DEF q
<1>5. WithData(j, i, d) = [paused |-> j.paused, steps |-> q]
  BY ONLY <1>1, <1>3, <1>4
<1> USE DEF q
<1> HIDE DEF e
<1>6. WithData(j, i, d) = [paused |-> j.paused, steps |-> [j.steps EXCEPT ![i] = e]]
  BY <1>5
<1> QED
  BY <1>6, Overwritten DEF e

LEMMA HeldIs ==
  ASSUME NEW k, NEW name, HeldAt(k, name), mem \in JournalShape
  PROVE  Held(name) = k
<1>1. DOMAIN mem.steps = 1 .. n /\ n \in Nat
  BY JournalParts DEF n
<1>2. \A i \in DOMAIN mem.steps :
        (/\ mem.steps[i].name = name
         /\ \A m \in DOMAIN mem.steps : mem.steps[m].name = name => m <= i) <=> i = k
  BY <1>1 DEF HeldAt
<1> QED
  BY <1>2 DEF Held, HeldAt

LEMMA BeginFacts ==
  ASSUME mem \in JournalShape, base \in Nat, base <= n, UNCHANGED <<base, before>>,
         NEW name \in Names, mem' = WithStep(mem, Begun(name))
  PROVE  /\ mem' \in JournalShape /\ mem'.paused = mem.paused /\ n \in Nat /\ n' = n + 1
         /\ base' <= n' /\ HeldAt(n, name)' /\ mem'.steps[n'] = Begun(name)
         /\ \A nm : HeldAt(n, nm) /\ nm # name => HeldAt(n - 1, nm)'
         /\ Backed => Backed'
         /\ DOMAIN mem.steps = 1 .. n /\ DOMAIN mem'.steps = 1 .. n'
         /\ \A k \in DOMAIN mem.steps : mem'.steps[k] = mem.steps[k]
<1>1. /\ mem' \in JournalShape /\ mem'.paused = mem.paused /\ n' = n + 1 /\ n \in Nat
      /\ mem'.steps[n'] = Begun(name)
      /\ \A k \in DOMAIN mem.steps : mem'.steps[k] = mem.steps[k]
  BY Longer, JournalParts DEF n
<1>2. DOMAIN mem.steps = 1 .. n /\ DOMAIN mem'.steps = 1 .. n'
  BY <1>1, JournalParts DEF n
<1>3. Begun(name).name = name
  BY DEF Begun
<1>4. HeldAt(n, name)'
  BY <1>1, <1>2, <1>3 DEF HeldAt
<1>5. ASSUME NEW nm, HeldAt(n, nm), nm # name PROVE HeldAt(n - 1, nm)'
  BY <1>1, <1>2, <1>3, <1>5 DEF HeldAt
<1>6. Backed => Backed'
  <2> SUFFICES ASSUME NEW i \in DOMAIN mem.steps, i > base, Backs(mem.steps[i])
               PROVE  i \in DOMAIN mem'.steps /\ Backs(mem.steps[i])'
    BY DEF Backed
  <2> QED
    BY <1>1, <1>2 DEF Backs
<1> QED
  BY <1>1, <1>2, <1>4, <1>5, <1>6

\* What one overwritten step leaves of the others.
Marks(k) ==
  /\ mem' \in JournalShape /\ mem'.paused = mem.paused /\ Len(mem'.steps) = Len(mem.steps)
  /\ DOMAIN mem'.steps = DOMAIN mem.steps /\ mem'.steps[k].name = mem.steps[k].name
  /\ \A i \in DOMAIN mem.steps : i # k => mem'.steps[i] = mem.steps[i]

LEMMA MarkFacts ==
  ASSUME mem \in JournalShape, NEW k \in DOMAIN mem.steps, Marks(k), UNCHANGED <<base, before>>
  PROVE  /\ n \in Nat /\ n' = n /\ DOMAIN mem.steps = 1 .. n /\ DOMAIN mem'.steps = 1 .. n
         /\ \A i, nm : HeldAt(i, nm) =>
              /\ i \in DOMAIN mem'.steps /\ i > base' /\ mem'.steps[i].name = nm
              /\ \A m \in DOMAIN mem'.steps : m > i => mem'.steps[m].name # nm
         /\ \A nm : HeldAt(n, nm) => HeldAt(n, nm)'
         /\ \A nm : HeldAt(n - 1, nm) => HeldAt(n - 1, nm)'
         /\ Backed /\ (Backs(mem.steps[k]) => Backs(mem.steps[k])') => Backed'
<1>1. n \in Nat /\ n' = n /\ DOMAIN mem.steps = 1 .. n /\ DOMAIN mem'.steps = 1 .. n
  BY JournalParts DEF n, Marks
<1>2. \A i \in DOMAIN mem.steps : mem'.steps[i].name = mem.steps[i].name
  BY DEF Marks
<1>3. ASSUME NEW i, NEW nm, HeldAt(i, nm)
      PROVE  /\ i \in DOMAIN mem'.steps /\ i > base' /\ mem'.steps[i].name = nm
             /\ \A m \in DOMAIN mem'.steps : m > i => mem'.steps[m].name # nm
  BY <1>1, <1>2, <1>3 DEF HeldAt
<1>4. ASSUME NEW nm, HeldAt(n, nm) PROVE HeldAt(n, nm)'
  BY <1>1, <1>3, <1>4 DEF HeldAt
<1>5. ASSUME NEW nm, HeldAt(n - 1, nm) PROVE HeldAt(n - 1, nm)'
  BY <1>1, <1>3, <1>5 DEF HeldAt
<1>6. ASSUME Backed, Backs(mem.steps[k]) => Backs(mem.steps[k])' PROVE Backed'
  <2>1. PICK i \in DOMAIN mem.steps : i > base /\ Backs(mem.steps[i])
    BY <1>6 DEF Backed
  <2>2. Backs(mem.steps[i])'
    <3>1. CASE i = k
      BY <1>6, <2>1, <3>1
    <3>2. CASE i # k
      BY <2>1, <3>2 DEF Marks, Backs
    <3> QED
      BY <3>1, <3>2
  <2> QED
    BY <1>1, <2>1, <2>2 DEF Backed
<1> QED
  BY <1>1, <1>3, <1>4, <1>5, <1>6

LEMMA StatusMarks ==
  ASSUME mem \in JournalShape, NEW k \in DOMAIN mem.steps, NEW st \in Status,
         mem' = WithStatus(mem, k, st), UNCHANGED before
  PROVE  /\ Marks(k) /\ mem'.steps[k].status = st /\ mem'.steps[k].data = mem.steps[k].data
         /\ st \in Undoable => (Backs(mem.steps[k]) => Backs(mem.steps[k])')
<1>1. /\ Marks(k)
      /\ mem'.steps[k] = [name |-> mem.steps[k].name, status |-> st, data |-> mem.steps[k].data]
  BY StatusIs DEF Marks
<1> QED
  BY <1>1 DEF Backs

\* A flush is typed, and only adds faults.
LEMMA Flushed ==
  ASSUME Typed, NEW j \in JournalShape, NEW ok \in BOOLEAN, Flush(ok, j)
  PROVE  /\ onDisk' \in BOOLEAN /\ disk' \in JournalShape /\ faults' \in 0 .. MaxFaults
         /\ faults' >= faults
         /\ \/ ok /\ onDisk' /\ disk' = j /\ faults' = faults
            \/ ~ ok /\ onDisk' = onDisk /\ disk' = disk /\ faults' > 0 /\ MaxFaults > 0
<1>1. MaxFaults \in Nat /\ faults \in 0 .. MaxFaults /\ onDisk \in BOOLEAN /\ disk \in JournalShape
  BY BoundsAssumption DEF Typed
<1>2. CASE ok
  BY <1>1, <1>2 DEF Flush
<1>3. CASE ~ ok
  <2>1. faults < MaxFaults /\ faults' = faults + 1 /\ UNCHANGED <<onDisk, disk>>
    BY <1>3 DEF Flush, Fault
  <2> QED
    BY <1>1, <1>3, <2>1
<1> QED
  BY <1>2, <1>3

LEMMA FlushedMaybe ==
  ASSUME Typed, NEW j \in JournalShape, FlushMaybe(j)
  PROVE  /\ onDisk' \in BOOLEAN /\ disk' \in JournalShape /\ faults' \in 0 .. MaxFaults
         /\ faults' >= faults
         /\ \/ onDisk' /\ disk' = j /\ faults' = faults
            \/ onDisk' = onDisk /\ disk' = disk /\ faults' > 0 /\ MaxFaults > 0
BY Flushed DEF FlushMaybe

-----------------------------------------------------------------------------
(***************************************************************************)
(* The engine goes on from one phase to the next.                          *)
(***************************************************************************)

Begins(from, name, to) ==
  \/ from = "download" /\ name = "image-download" /\ to = "fetch"
  \/ from = "wipe" /\ name = "single-boot-wipe" /\ to = "wiping"
  \/ from = "shrink" /\ name = "partition-shrink" /\ to = "backup"
  \/ from = "deploy" /\ name = "image-deploy" /\ to = "deploying"
  \/ from = "boot" /\ name = "bootloader-configure" /\ to = "configure"
  \/ from = "revert" /\ name = "revert-engine" /\ to = "guard"
  \/ from = "entry" /\ name = "uefi-set-boot-order" /\ to = "order"
  \/ from = "entry" /\ name = "grub-set-default" /\ to = "grub"

LEMMA BeginKeeps ==
  ASSUME ProvisionInv, NEW from, NEW name, NEW to, Begins(from, name, to), BeginAt(from, name, to)
  PROVE  ProvisionInv'
<1>1. /\ pc = from /\ pc' = to /\ mem' = WithStep(mem, Begun(name)) /\ Flush(TRUE, mem')
      /\ UNCHANGED <<firmware, req, uiLoaded, ui, runs, base, before, result, delivered,
                     pos, undone, host, payload>>
  BY DEF BeginAt, Go, run, outcome, wizard
<1>2. name \in Names /\ Typed /\ Working /\ base \in Nat /\ base <= n /\ mem \in JournalShape
  BY <1>1 DEF Begins, Names, ProvisionInv, Holding, Working, Idle, Typed
<1>3. /\ mem' \in JournalShape /\ mem'.paused = mem.paused /\ n \in Nat /\ n' = n + 1
      /\ base' <= n' /\ HeldAt(n, name)' /\ mem'.steps[n'] = Begun(name)
      /\ \A nm : HeldAt(n, nm) /\ nm # name => HeldAt(n - 1, nm)'
      /\ Backed => Backed'
      /\ DOMAIN mem.steps = 1 .. n /\ DOMAIN mem'.steps = 1 .. n'
  BY <1>1, <1>2, BeginFacts
<1>4. onDisk' /\ disk' = mem' /\ faults' = faults
  BY <1>1, <1>2, <1>3, Flushed
<1>5. Typed'
  BY <1>1, <1>3, <1>4 DEF ProvisionInv, Typed, Begins, Phases
<1>6. Counted' /\ Untouched' /\ Checked' /\ Routed'
  BY <1>1 DEF ProvisionInv, Counted, Untouched, Checked, Routed, Begins, Uncut, Verified, Idle
<1>7. Holding'
  BY <1>1, <1>3 DEF ProvisionInv, Holding, Holds, Begins, Working, Idle
<1>8. Undoes'
  BY <1>1, <1>3 DEF ProvisionInv, Undoes, Begins, Working, Idle
<1>9. Carved'
  BY <1>1, <1>3, <1>4 DEF ProvisionInv, Carved, Begins, Working, Idle
<1>10. Recorded' /\ Passed'
  BY <1>1, <1>3, <1>4 DEF Recorded, Passed, Begins, Begun
<1> QED
  BY <1>5, <1>6, <1>7, <1>8, <1>9, <1>10 DEF ProvisionInv

\* Rollback begins, with whatever the journal holds.
LEMMA RollBackKeeps ==
  ASSUME ProvisionInv, NEW from, RollBack(from, mem'), Working, pc # "rollback",
         mem' \in JournalShape, mem'.paused = mem.paused, base <= Len(mem'.steps),
         onDisk' \in BOOLEAN, disk' \in JournalShape, faults' \in 0 .. MaxFaults, faults' >= faults,
         payload' = payload, host' \in Host, host'.writes <= MaxRuns + runs,
         req.mode = "dual" => host'.table = before.table \/ Backed'
  PROVE  ProvisionInv'
<1>1. /\ pc' = "rollback" /\ pos' = n' /\ undone' = {}
      /\ UNCHANGED <<firmware, req, uiLoaded, ui, runs, base, before, result, delivered>>
  BY DEF RollBack, Go, run, outcome, wizard, n
<1>2. n' \in Nat
  BY JournalParts DEF n
<1>3. Typed'
  BY <1>1, <1>2 DEF ProvisionInv, Typed, Phases
<1>4. Counted' /\ Untouched' /\ Checked' /\ Routed'
  BY <1>1 DEF ProvisionInv, Counted, Untouched, Checked, Routed, Working, Uncut, Verified, Idle
<1>5. Holding'
  BY <1>1 DEF ProvisionInv, Holding, Holds, n
<1>6. Undoes' /\ Recorded'
  BY <1>1 DEF Undoes, Recorded
<1>7. Carved'
  BY <1>1 DEF ProvisionInv, Carved, Typed
<1>8. Passed'
  BY <1>1 DEF Passed, Restored
<1> QED
  BY <1>3, <1>4, <1>5, <1>6, <1>7, <1>8 DEF ProvisionInv

LEMMA BeginFailsKeeps ==
  ASSUME ProvisionInv, NEW from, NEW name, NEW to, Begins(from, name, to), BeginFailsAt(from, name)
  PROVE  ProvisionInv'
<1>1. /\ RollBack(from, mem') /\ mem' = WithStep(mem, Begun(name)) /\ Flush(FALSE, mem')
      /\ UNCHANGED <<base, before, host, payload>> /\ pc = from
  BY DEF BeginFailsAt, RollBack, Go, run
<1>2. name \in Names /\ Typed /\ Working /\ pc # "rollback" /\ base \in Nat /\ base <= n
      /\ mem \in JournalShape
  BY <1>1 DEF Begins, Names, ProvisionInv, Holding, Working, Idle, Typed
<1>3. /\ mem' \in JournalShape /\ mem'.paused = mem.paused /\ n' = n + 1 /\ n \in Nat
      /\ (Backed => Backed')
  BY <1>1, <1>2, BeginFacts
<1>4. onDisk' \in BOOLEAN /\ disk' \in JournalShape /\ faults' \in 0 .. MaxFaults /\ faults' >= faults
  BY <1>1, <1>2, <1>3, Flushed
<1>5. host' \in Host /\ host'.writes <= MaxRuns + runs
  BY <1>1 DEF ProvisionInv, Typed, Counted
<1>6. req.mode = "dual" => host'.table = before.table \/ Backed'
  BY <1>1, <1>2, <1>3 DEF ProvisionInv, Undoes
<1>7. base <= Len(mem'.steps)
  BY <1>2, <1>3 DEF n
<1> QED
  BY <1>1, <1>2, <1>3, <1>4, <1>5, <1>6, <1>7, RollBackKeeps

LEMMA BeginIgnoredKeeps ==
  ASSUME ProvisionInv, NEW from, NEW name, NEW to, BeginIgnoredAt(from, name, to),
         \/ from = "boot" /\ name = "bootloader-configure" /\ to \in {"revert", "unrecorded_boot"}
         \/ from = "entry" /\ name = "grub-set-default" /\ to = "unrecorded_grub"
  PROVE  ProvisionInv'
<1>1. /\ pc = from /\ pc' = to /\ mem' = WithStep(mem, Begun(name)) /\ Flush(FALSE, mem')
      /\ UNCHANGED <<firmware, req, uiLoaded, ui, runs, base, before, result, delivered,
                     pos, undone, host, payload>>
  BY DEF BeginIgnoredAt, Go, run, outcome, wizard
<1>2. name \in Names /\ Typed /\ Working /\ base \in Nat /\ base <= n /\ mem \in JournalShape
  BY <1>1 DEF Names, ProvisionInv, Holding, Working, Idle, Typed
<1>3. /\ mem' \in JournalShape /\ mem'.paused = mem.paused /\ n \in Nat /\ n' = n + 1
      /\ base' <= n' /\ (Backed => Backed')
      /\ DOMAIN mem.steps = 1 .. n /\ DOMAIN mem'.steps = 1 .. n'
  BY <1>1, <1>2, BeginFacts
<1>4. onDisk' \in BOOLEAN /\ disk' \in JournalShape /\ faults' \in 0 .. MaxFaults /\ faults' > 0
  BY <1>1, <1>2, <1>3, Flushed
<1>5. Typed'
  BY <1>1, <1>3, <1>4 DEF ProvisionInv, Typed, Phases
<1>6. Counted' /\ Untouched' /\ Checked' /\ Routed'
  BY <1>1 DEF ProvisionInv, Counted, Untouched, Checked, Routed, Uncut, Verified, Idle
<1>7. Holding'
  BY <1>1, <1>3 DEF Holding, Holds
<1>8. Undoes'
  BY <1>1, <1>3 DEF ProvisionInv, Undoes, Working, Idle
<1>9. Carved' /\ Recorded' /\ Passed'
  BY <1>1, <1>4 DEF Carved, Recorded, Passed
<1> QED
  BY <1>5, <1>6, <1>7, <1>8, <1>9 DEF ProvisionInv

Commits(from, name, to) ==
  \/ from = "verify" /\ name = "image-download" /\ to = Pipeline /\ (req.sha => payload = "asked")
  \/ from = "wiped" /\ name = "single-boot-wipe" /\ to = "deploy"
  \/ from = "carved" /\ name = "partition-shrink" /\ to = "deploy"
  \/ from = "deployed" /\ name = "image-deploy" /\ to \in {"revert", "boot"}
  \/ from = "configured" /\ name = "bootloader-configure" /\ to \in {"revert", "finalize"}
  \/ from = "relined" /\ name = "grub-set-default" /\ to = "close"
  \/ from = "close" /\ name = "revert-engine" /\ to = "finalize"

\* The step that is committed or has failed is the one in hand.
LEMMA InPlace ==
  ASSUME ProvisionInv, NEW from, NEW name, pc = from,
         \/ from \in {"fetch", "verify"} /\ name = "image-download"
         \/ from \in {"wiped"} /\ name = "single-boot-wipe"
         \/ from \in {"backup", "carved", "fallback"} /\ name = "partition-shrink"
         \/ from \in {"deploying", "deployed"} /\ name = "image-deploy"
         \/ from \in {"configure", "configured"} /\ name = "bootloader-configure"
         \/ from \in {"guard", "close"} /\ name = "revert-engine"
         \/ from \in {"order"} /\ name = "uefi-set-boot-order"
         \/ from \in {"grub", "relined"} /\ name = "grub-set-default"
  PROVE  /\ HeldAt(Held(name), name) /\ Held(name) \in DOMAIN mem.steps /\ mem.steps[Held(name)].name = name
         /\ from # "close" => Held(name) = n
         /\ Working /\ pc # "rollback"
<1>1. Working /\ pc # "rollback" /\ Holds(pc, n) /\ mem \in JournalShape
  BY DEF ProvisionInv, Holding, Working, Idle, Typed
<1>2. PICK k : HeldAt(k, name) /\ (from # "close" => k = n)
  BY <1>1 DEF Holds
<1>3. Held(name) = k
  BY <1>1, <1>2, HeldIs
<1> QED
  BY <1>1, <1>2, <1>3 DEF HeldAt

LEMMA CommitKeeps ==
  ASSUME ProvisionInv, NEW from, NEW name, NEW to, Commits(from, name, to), CommitAt(from, name, to)
  PROVE  ProvisionInv'
<1>1. /\ pc = from /\ pc' = to /\ mem' = WithStatus(mem, Held(name), "committed") /\ FlushMaybe(mem')
      /\ UNCHANGED <<firmware, req, uiLoaded, ui, runs, base, before, result, delivered,
                     pos, undone, host, payload>>
  BY DEF CommitAt, Go, run, outcome, wizard
<1> PICK k : k = Held(name)
  OBVIOUS
<1>2. k \in DOMAIN mem.steps /\ Working
  BY <1>1, InPlace DEF Commits
<1>3. mem \in JournalShape /\ Typed /\ base <= n /\ Holds(pc, n) /\ req.mode \in {"dual", "single"}
  BY <1>2, RequestsAssumption DEF ProvisionInv, Typed, Holding, RequestType
<1>4. /\ Marks(k) /\ (Backs(mem.steps[k]) => Backs(mem.steps[k])')
  BY <1>1, <1>2, <1>3, StatusMarks DEF Status, Undoable
<1>5. /\ n \in Nat /\ n' = n /\ DOMAIN mem.steps = 1 .. n /\ DOMAIN mem'.steps = 1 .. n
      /\ \A nm : HeldAt(n, nm) => HeldAt(n, nm)'
      /\ \A nm : HeldAt(n - 1, nm) => HeldAt(n - 1, nm)'
      /\ (Backed => Backed')
  BY <1>1, <1>2, <1>3, <1>4, MarkFacts
<1>6. mem' \in JournalShape /\ mem'.paused = mem.paused
  BY <1>4 DEF Marks
<1>7. onDisk' \in BOOLEAN /\ disk' \in JournalShape /\ faults' \in 0 .. MaxFaults /\ faults' >= faults
  BY <1>1, <1>3, <1>6, FlushedMaybe
<1>8. \/ from = "verify" /\ to \in {"wipe", "shrink", "deploy"} /\ (req.sha => payload = "asked")
         /\ (to = "wipe" => req.mode = "single") /\ (to = "shrink" => req.mode = "dual")
         /\ (to = "deploy" => mem.paused)
      \/ from \in {"wiped", "carved"} /\ to = "deploy"
      \/ from \in {"deployed", "configured"} /\ to \in {"revert", "boot", "finalize"}
      \/ from = "relined" /\ to = "close"
      \/ from = "close" /\ to = "finalize"
  BY <1>3 DEF Commits, Pipeline
<1> HIDE DEF Commits
<1>9. Typed'
  BY <1>1, <1>5, <1>6, <1>7, <1>8 DEF ProvisionInv, Typed, Phases
<1>10. Counted' /\ Untouched' /\ Checked' /\ Routed'
  BY <1>1, <1>8 DEF ProvisionInv, Counted, Untouched, Checked, Routed, Uncut, Verified, Idle
<1>11. Holding'
  BY <1>1, <1>3, <1>5, <1>8 DEF Holding, Holds
<1>12. Undoes'
  BY <1>1, <1>2, <1>5, <1>8 DEF ProvisionInv, Undoes, Working, Idle
<1>13. Carved'
  BY <1>1, <1>2, <1>3, <1>6, <1>7, <1>8 DEF ProvisionInv, Carved, Working, Idle, Routed, Typed
<1>14. Recorded' /\ Passed'
  BY <1>1, <1>8 DEF Recorded, Passed
<1> QED
  BY <1>9, <1>10, <1>11, <1>12, <1>13, <1>14 DEF ProvisionInv

\* What an action does to a step it has been handed: its snapshot, its status.
LEMMA DataMarks ==
  ASSUME mem \in JournalShape, NEW k \in DOMAIN mem.steps, NEW d \in DataShape,
         d.kind = "saved" \/ d.was = 0,
         mem.steps[k].name = "partition-shrink" => d.was \in Tables,
         mem.steps[k].name = "grub-set-default" => d.was \in 0 .. Blank
  PROVE  LET j == WithData(mem, k, d) IN
         /\ j \in JournalShape /\ j.paused = mem.paused /\ Len(j.steps) = Len(mem.steps)
         /\ DOMAIN j.steps = DOMAIN mem.steps /\ j.steps[k].name = mem.steps[k].name
         /\ j.steps[k].status = mem.steps[k].status /\ j.steps[k].data = d
         /\ \A i \in DOMAIN mem.steps : i # k => j.steps[i] = mem.steps[i]
<1>1. mem.steps[k] \in StepShape
  BY JournalParts
<1>2. [name |-> mem.steps[k].name, status |-> mem.steps[k].status, data |-> d] \in StepShape
  BY <1>1, StepIs DEF StepShape
<1> QED
  BY <1>2, DataIs

\* A snapshot and a status.
LEMMA NotedMarks ==
  ASSUME mem \in JournalShape, NEW k \in DOMAIN mem.steps, NEW d \in DataShape,
         d.kind = "saved" \/ d.was = 0,
         mem.steps[k].name = "partition-shrink" => d.was \in Tables,
         mem.steps[k].name = "grub-set-default" => d.was \in 0 .. Blank,
         NEW st \in Status, mem' = WithStatus(WithData(mem, k, d), k, st)
  PROVE  Marks(k) /\ mem'.steps[k].status = st /\ mem'.steps[k].data = d
<1> PICK j : j = WithData(mem, k, d)
  OBVIOUS
<1>1. /\ j \in JournalShape /\ j.paused = mem.paused /\ Len(j.steps) = Len(mem.steps)
      /\ DOMAIN j.steps = DOMAIN mem.steps /\ j.steps[k].name = mem.steps[k].name /\ j.steps[k].data = d
      /\ \A i \in DOMAIN mem.steps : i # k => j.steps[i] = mem.steps[i]
  BY DataMarks
<1>2. mem' = WithStatus(j, k, st) /\ k \in DOMAIN j.steps
  BY <1>1
<1>3. LET e == [name |-> j.steps[k].name, status |-> st, data |-> j.steps[k].data] IN
      /\ mem' \in JournalShape /\ mem'.paused = j.paused /\ Len(mem'.steps) = Len(j.steps)
      /\ DOMAIN mem'.steps = DOMAIN j.steps /\ mem'.steps[k] = e
      /\ \A i \in DOMAIN j.steps : i # k => mem'.steps[i] = j.steps[i]
  BY ONLY st \in Status, <1>1, <1>2, StatusIs
<1> QED
  BY <1>1, <1>3 DEF Marks

LEMMA FailKeeps ==
  ASSUME ProvisionInv, NEW from, NEW name, NEW j, FailAt(from, name, j),
         \/ from \in {"fetch", "verify"} /\ name = "image-download"
         \/ from \in {"backup", "fallback"} /\ name = "partition-shrink"
         \/ from = "deploying" /\ name = "image-deploy"
         \/ from = "configure" /\ name = "bootloader-configure"
         \/ from = "grub" /\ name = "grub-set-default",
         \/ j = mem
         \/ name = "grub-set-default" /\ \E d \in DataShape :
              /\ d.kind = "saved" \/ d.was = 0
              /\ d.was \in 0 .. Blank /\ j = WithData(mem, Held(name), d),
         host' \in Host, host'.table = host.table, host'.writes = host.writes
  PROVE  ProvisionInv'
<1>1. /\ RollBack(from, mem') /\ mem' = WithStatus(j, Held(name), "failed") /\ FlushMaybe(mem')
      /\ UNCHANGED <<base, before, payload>> /\ pc = from
  BY DEF FailAt, RollBack, Go, run
<1> PICK k : k = Held(name)
  OBVIOUS
<1>2. k \in DOMAIN mem.steps /\ mem.steps[k].name = name /\ Working /\ pc # "rollback"
  BY <1>1, InPlace
<1>3. mem \in JournalShape /\ Typed /\ base <= n
  BY <1>2 DEF ProvisionInv, Typed, Holding
<1>4. /\ j \in JournalShape /\ j.paused = mem.paused /\ Len(j.steps) = Len(mem.steps)
      /\ DOMAIN j.steps = DOMAIN mem.steps /\ j.steps[k].name = name
      /\ \A i \in DOMAIN mem.steps : i # k => j.steps[i] = mem.steps[i]
      /\ name = "partition-shrink" => j = mem
  BY <1>2, <1>3, DataMarks
<1>5. LET e == [name |-> j.steps[k].name, status |-> "failed", data |-> j.steps[k].data] IN
      /\ mem' \in JournalShape /\ mem'.paused = j.paused /\ Len(mem'.steps) = Len(j.steps)
      /\ DOMAIN mem'.steps = DOMAIN j.steps /\ mem'.steps[k] = e
      /\ \A i \in DOMAIN j.steps : i # k => mem'.steps[i] = j.steps[i]
  <2>1. mem' = WithStatus(j, k, "failed") /\ k \in DOMAIN j.steps /\ "failed" \in Status
    BY <1>1, <1>2, <1>4 DEF Status
  <2>2. j.steps[k].name = name /\ j \in JournalShape
    BY <1>4
  <2> QED
    BY ONLY <2>1, <2>2, StatusIs
<1>6. Marks(k) /\ (Backs(mem.steps[k]) => Backs(mem.steps[k])')
  BY <1>1, <1>2, <1>4, <1>5 DEF Marks, Backs, Undoable
<1>7. n' = n /\ (Backed => Backed')
  BY <1>1, <1>2, <1>3, <1>6, MarkFacts
<1>8. onDisk' \in BOOLEAN /\ disk' \in JournalShape /\ faults' \in 0 .. MaxFaults /\ faults' >= faults
  BY <1>1, <1>3, <1>5, FlushedMaybe
<1>9. host'.writes <= MaxRuns + runs
  BY DEF ProvisionInv, Counted
<1>10. req.mode = "dual" => host'.table = before.table \/ Backed'
  BY <1>2, <1>7 DEF ProvisionInv, Undoes
<1>11. base <= Len(mem'.steps)
  BY <1>3, <1>7 DEF n
<1>12. mem'.paused = mem.paused
  BY <1>4, <1>5
<1> QED
  BY <1>1, <1>2, <1>5, <1>8, <1>9, <1>10, <1>11, <1>12, RollBackKeeps

-----------------------------------------------------------------------------
(***************************************************************************)
(* The machine.                                                            *)
(***************************************************************************)

LEMMA HostParts ==
  ASSUME NEW h \in Host
  PROVE  /\ h = [table |-> h.table, writes |-> h.writes, esp |-> h.esp, line |-> h.line,
                 dropins |-> h.dropins, image |-> h.image, onto |-> h.onto]
         /\ h.table \in Tables /\ h.writes \in Tables /\ h.esp \in BOOLEAN
         /\ h.line \in 0 .. Blank /\ h.dropins \in SUBSET {"menu", "prober"}
         /\ h.image \in {"none", "asked", "other"} /\ h.onto \in Tables
BY DEF Host

LEMMA RepartitionedIs ==
  ASSUME NEW h \in Host, h.writes < 2 * MaxRuns
  PROVE  /\ Repartitioned(h) \in Host /\ Repartitioned(h).table = h.writes + 1
         /\ Repartitioned(h).writes = h.writes + 1
<1>1. h.writes + 1 \in Tables
  BY HostParts, BoundsAssumption DEF Tables
<1> QED
  BY <1>1, HostParts DEF Repartitioned, Host

LEMMA MachineIs ==
  ASSUME Typed
  PROVE  /\ Written \in Host /\ Written.table = host.table /\ Written.writes = host.writes
         /\ Configured \in Host /\ Configured.table = host.table /\ Configured.writes = host.writes
         /\ Relined \in Host /\ Relined.table = host.table /\ Relined.writes = host.writes
<1>1. host \in Host /\ payload \in {"none", "asked", "other"} /\ runs \in 0 .. Blank
  BY BoundsAssumption DEF Typed, Blank
<1>2. Written \in Host /\ Written.table = host.table /\ Written.writes = host.writes
  BY <1>1, HostParts DEF Written, Host
<1>3. Configured \in Host /\ Configured.table = host.table /\ Configured.writes = host.writes
  BY <1>1, HostParts DEF Configured, Host
<1>4. Relined \in Host /\ Relined.table = host.table /\ Relined.writes = host.writes
  BY <1>1, HostParts DEF Relined, Host
<1> QED
  BY <1>2, <1>3, <1>4

\* The run works on the machine, or looks at it; the journal stays.
Goes(from, to) ==
  \/ from = "fetch" /\ to = "verify" /\ host' = host
  \/ from = "wiping" /\ to = "wiped" /\ host' \in {host, Repartitioned(host)} /\ payload' = payload
  \/ from = "carve" /\ to = "carved" /\ host' = Repartitioned(host) /\ payload' = payload
  \/ from = "carve" /\ to = "fallback" /\ host' \in {host, Repartitioned(host)} /\ payload' = payload
  \/ from = "deploying" /\ to = "deployed" /\ host' = Written /\ payload' = payload
  \/ from = "configure" /\ to = "configured" /\ host' = Configured /\ payload' = payload
  \/ from = "entry" /\ to = "close" /\ host' = host /\ payload' = payload

LEMMA GoesKeeps ==
  ASSUME ProvisionInv, NEW from, NEW to, Go(from, to), Goes(from, to), payload' \in {"none", "asked", "other"},
         UNCHANGED <<file, mem, pos, undone>>
  PROVE  ProvisionInv'
<1>1. /\ pc = from /\ pc' = to
      /\ UNCHANGED <<firmware, req, uiLoaded, ui, runs, base, before, result, delivered,
                     pos, undone, mem, onDisk, disk, faults>>
  BY DEF Go, run, outcome, wizard, file
<1>2. /\ from \in {"fetch", "wiping", "carve", "deploying", "configure", "entry"}
      /\ to \in {"verify", "wiped", "carved", "fallback", "deployed", "configured", "close"}
  BY DEF Goes
<1>3. Working /\ base <= n /\ Holds(pc, n) /\ Typed /\ runs \in 0 .. MaxRuns /\ host \in Host
  BY <1>1, <1>2 DEF ProvisionInv, Holding, Working, Idle, Typed
<1>4. from \in {"wiping", "carve"} => host.writes < MaxRuns + runs /\ host.writes < 2 * MaxRuns
  BY <1>1, <1>3, HostParts, BoundsAssumption DEF ProvisionInv, Counted, Uncut, Tables
<1>5. /\ host' \in Host /\ host'.writes <= MaxRuns + runs
      /\ from \notin {"wiping", "carve"} => host'.table = host.table /\ host'.writes = host.writes
  <2>1. host.writes <= MaxRuns + runs
    BY DEF ProvisionInv, Counted
  <2>2. CASE host' = host
    BY <1>3, <2>1, <2>2
  <2>3. CASE host' = Repartitioned(host) /\ from \in {"wiping", "carve"}
    BY <1>3, <1>4, <2>3, RepartitionedIs, HostParts, BoundsAssumption DEF Tables
  <2>4. CASE host' \in {Written, Configured} /\ from \notin {"wiping", "carve"}
    BY <1>3, <2>1, <2>4, MachineIs
  <2> QED
    BY <2>2, <2>3, <2>4 DEF Goes
<1>6. n' = n /\ \A k, nm : HeldAt(k, nm)' <=> HeldAt(k, nm)
  BY <1>1 DEF n, HeldAt
<1>7. Backed' <=> Backed
  BY <1>1 DEF Backed, Backs
<1>8. Typed'
  BY <1>1, <1>2, <1>5 DEF ProvisionInv, Typed, Phases, n
<1>9. Counted'
  <2>1. to = "verify" => from = "fetch"
    BY DEF Goes
  <2>2. pc' \in Uncut => host'.writes < MaxRuns + runs
    BY <1>1, <1>2, <1>5, <2>1 DEF ProvisionInv, Counted, Uncut
  <2>3. runs > 0
    BY <1>1, <1>2 DEF ProvisionInv, Counted, Idle
  <2> QED
    BY <1>1, <1>5, <2>2, <2>3 DEF Counted
<1>10. Untouched' /\ Checked' /\ Routed'
  BY <1>1, <1>2 DEF ProvisionInv, Untouched, Checked, Routed, Verified, Goes
<1>11. Holding'
  <2>1. Holds(to, n) /\ base <= n
    BY <1>1, <1>3 DEF Holds, Goes
  <2>2. Holds(to, n)'
    BY <1>6, <2>1, <1>1 DEF Holds, HeldAt, n
  <2> QED
    BY <1>1, <1>3, <1>6, <2>1, <2>2 DEF Holding
<1>12. Undoes'
  <2>1. pc \in {"carve", "carved", "fallback"} => Backed
    BY DEF ProvisionInv, Undoes
  <2>2. from = "wiping" => req.mode = "single"
    BY <1>1 DEF ProvisionInv, Routed
  <2>3. req.mode = "dual" => host.table = before.table \/ Backed
    BY <1>1, <1>2, <1>3 DEF ProvisionInv, Undoes
  <2> QED
    BY <1>1, <1>2, <1>5, <1>7, <2>1, <2>2, <2>3 DEF Undoes, Goes
<1>13. Carved'
  <2>1. from = "carve" => host = before
    BY <1>1 DEF ProvisionInv, Untouched
  <2>2. to = "carved" => host'.table > before.writes
    BY <1>3, <1>4, <2>1, RepartitionedIs, HostParts DEF Goes, Tables
  <2> QED
    BY <1>1, <1>2, <1>3, <2>2 DEF ProvisionInv, Carved
<1>14. Recorded' /\ Passed'
  BY <1>1, <1>2 DEF Recorded, Passed
<1> QED
  BY <1>8, <1>9, <1>10, <1>11, <1>12, <1>13, <1>14 DEF ProvisionInv

-----------------------------------------------------------------------------
(***************************************************************************)
(* Steps that change what is recorded of a step in hand.                   *)
(***************************************************************************)

LEMMA SavedShape ==
  ASSUME NEW v \in Nat
  PROVE  Saved(v) \in DataShape /\ Saved(v).kind = "saved" /\ Saved(v).was = v
BY DEF Saved, Data, DataShape

LEMMA AbsentShape == Absent \in DataShape /\ Absent.was = 0 /\ Null.was = 0 /\ Absent # Null
BY DEF Absent, Null, Data, DataShape

\* A snapshot, or a status with it, and on.
LEMMA NotesKeeps ==
  ASSUME ProvisionInv, NEW from, NEW to, NEW k \in DOMAIN mem.steps, Go(from, to), Marks(k),
         \/ from = "backup" /\ to = "carve" /\ k = n /\ Backs(mem.steps[k])' /\ host' = host
         \/ from = "guard" /\ to = "entry" /\ host' = host /\ mem.steps[k].name # "partition-shrink"
         \/ from = "order" /\ to = "close" /\ host' = host /\ mem.steps[k].name # "partition-shrink"
         \/ from = "grub" /\ to = "relined" /\ host' = Relined /\ mem.steps[k].name # "partition-shrink",
         onDisk' \in BOOLEAN, disk' \in JournalShape, faults' \in 0 .. MaxFaults, faults' >= faults,
         UNCHANGED <<pos, undone, payload>>
  PROVE  ProvisionInv'
<1>1. /\ pc = from /\ pc' = to
      /\ UNCHANGED <<firmware, req, uiLoaded, ui, runs, base, before, result, delivered,
                     pos, undone, payload>>
  BY DEF Go, run, outcome, wizard
<1>2. from \in {"backup", "guard", "order", "grub"} /\ to \in {"carve", "entry", "close", "relined"}
  OBVIOUS
<1>3. Working /\ base <= n /\ base \in Nat /\ Holds(pc, n) /\ Typed /\ mem \in JournalShape /\ host \in Host
  BY <1>1, <1>2 DEF ProvisionInv, Holding, Working, Idle, Typed
<1>4. Backs(mem.steps[k]) => Backs(mem.steps[k])'
  BY DEF Backs
<1>5. /\ n \in Nat /\ n' = n /\ DOMAIN mem.steps = 1 .. n /\ DOMAIN mem'.steps = 1 .. n
      /\ \A nm : HeldAt(n, nm) => HeldAt(n, nm)'
      /\ \A nm : HeldAt(n - 1, nm) => HeldAt(n - 1, nm)'
      /\ (Backed => Backed')
  BY <1>1, <1>3, <1>4, MarkFacts
<1>6. mem' \in JournalShape /\ mem'.paused = mem.paused
  BY DEF Marks
<1>7. host' \in Host /\ host'.table = host.table /\ host'.writes = host.writes
  BY <1>3, MachineIs
<1>8. Typed'
  BY <1>1, <1>2, <1>5, <1>6, <1>7 DEF ProvisionInv, Typed, Phases
<1>9. Counted'
  BY <1>1, <1>2, <1>7 DEF ProvisionInv, Counted, Uncut, Idle
<1>10. Untouched' /\ Checked' /\ Routed'
  BY <1>1 DEF ProvisionInv, Untouched, Checked, Routed, Verified
<1>11. Holding'
  BY <1>1, <1>3, <1>5 DEF Holding, Holds
<1>12. to = "carve" => Backed'
  <2>1. from = "backup" => HeldAt(n, "partition-shrink")
    BY <1>1, <1>3 DEF Holds
  <2> QED
    BY <1>1, <1>2, <1>5, <2>1 DEF Backed, HeldAt
<1>13. Undoes'
  <2>1. req.mode = "dual" => host.table = before.table \/ Backed
    BY <1>1, <1>2, <1>3 DEF ProvisionInv, Undoes
  <2> QED
    BY <1>1, <1>2, <1>5, <1>7, <1>12, <2>1 DEF Undoes
<1>14. Carved'
  BY <1>1, <1>2, <1>3, <1>6 DEF ProvisionInv, Carved, Typed
<1>15. Recorded' /\ Passed'
  BY <1>1, <1>2 DEF Recorded, Passed
<1> QED
  BY <1>8, <1>9, <1>10, <1>11, <1>13, <1>14, <1>15 DEF ProvisionInv

-----------------------------------------------------------------------------
(***************************************************************************)
(* The end of a run and of the process, and the start of both.             *)
(***************************************************************************)

\* Between runs no more is known than the types and the bounds.
LEMMA RestKeeps ==
  ASSUME ProvisionInv, pc' \in Idle, pos' = 0, undone' = {}, mem' \in JournalShape,
         uiLoaded' \in BOOLEAN, ui' \in JournalShape,
         onDisk' \in BOOLEAN, disk' \in JournalShape, faults' \in 0 .. MaxFaults,
         host' \in Host, host'.writes <= MaxRuns + runs,
         payload' \in {"none", "asked", "other"}, result' \in Results, delivered' \in Tables,
         UNCHANGED <<firmware, req, runs, before>>, base' \in Nat
  PROVE  ProvisionInv'
<1>1. Typed'
  <2>1. n' \in Nat
    BY JournalParts DEF n
  <2> QED
    BY <2>1 DEF ProvisionInv, Typed, Phases, Idle
<1>2. Counted' /\ Untouched' /\ Checked' /\ Routed' /\ Recorded'
  BY DEF ProvisionInv, Counted, Untouched, Checked, Routed, Recorded, Uncut, Verified, Idle
<1>3. Holding' /\ Undoes' /\ Carved' /\ Passed'
  BY DEF Holding, Undoes, Carved, Passed, Working, Idle
<1> QED
  BY <1>1, <1>2, <1>3 DEF ProvisionInv

\* What RestKeeps asks for where nothing happens to it.
LEMMA AsBefore ==
  ASSUME ProvisionInv
  PROVE  /\ Typed /\ uiLoaded \in BOOLEAN /\ ui \in JournalShape /\ mem \in JournalShape
         /\ onDisk \in BOOLEAN /\ disk \in JournalShape /\ faults \in 0 .. MaxFaults
         /\ host \in Host /\ host.table \in Tables
         /\ host.writes <= MaxRuns + runs /\ runs \in 0 .. MaxRuns
         /\ payload \in {"none", "asked", "other"} /\ result \in Results /\ delivered \in Tables
         /\ base \in Nat /\ pos \in 0 .. n /\ undone \subseteq DOMAIN mem.steps
         /\ pc # "rollback" => pos = 0 /\ undone = {}
         /\ 0 \in Tables /\ Fresh \in JournalShape
<1>1. Typed /\ host \in Host /\ host.writes <= MaxRuns + runs
  BY DEF ProvisionInv, Typed, Counted
<1>2. host.table \in Tables /\ 0 \in Tables /\ Fresh \in JournalShape
  BY <1>1, HostParts, FreshShape, BoundsAssumption DEF Tables
<1> QED
  BY <1>1, <1>2 DEF Typed

LEMMA RemovedMaybe ==
  ASSUME Typed, RemoveMaybe
  PROVE  /\ onDisk' \in BOOLEAN /\ disk' \in JournalShape /\ faults' \in 0 .. MaxFaults
         /\ \/ disk' = Fresh /\ faults' = faults
            \/ disk' = disk /\ faults' > 0 /\ MaxFaults > 0
<1>1. MaxFaults \in Nat /\ faults \in 0 .. MaxFaults /\ onDisk \in BOOLEAN /\ disk \in JournalShape
  BY BoundsAssumption DEF Typed
<1>2. CASE onDisk' = FALSE /\ disk' = Fresh /\ UNCHANGED faults
  BY <1>1, <1>2, FreshShape
<1>3. CASE Fault
  BY <1>1, <1>3 DEF Fault
<1> QED
  BY <1>2, <1>3 DEF RemoveMaybe

LEMMA PanicKeeps ==
  ASSUME ProvisionInv, Panic, pc # "rollback", host' \in {host, Configured, Relined}, payload' = payload,
         onDisk' \in BOOLEAN, disk' \in JournalShape, faults' \in 0 .. MaxFaults
  PROVE  ProvisionInv'
<1>1. host' \in Host /\ host'.table = host.table /\ host'.writes = host.writes
  BY AsBefore, MachineIs
<1> QED
  BY <1>1, AsBefore, RestKeeps DEF Panic, Idle, Results

LEMMA FlagIs ==
  ASSUME NEW j \in JournalShape, NEW b \in BOOLEAN
  PROVE  [j EXCEPT !.paused = b] \in JournalShape /\ [j EXCEPT !.paused = b].paused = b
           /\ [j EXCEPT !.paused = b].steps = j.steps
BY DEF JournalShape

LEMMA PausedIs ==
  ASSUME NEW j \in JournalShape, NEW i \in DOMAIN j.steps
  PROVE  /\ WithPause(j, i) \in JournalShape /\ WithPause(j, i).paused
<1>1. "paused" \in Status
  BY DEF Status
<1> PICK r : r = WithStatus(j, i, "paused")
  OBVIOUS
<1>2. r \in JournalShape
  BY <1>1, StatusIs
<1>3. WithPause(j, i) = [r EXCEPT !.paused = TRUE]
  BY DEF WithPause
<1> QED
  BY <1>2, <1>3, FlagIs

LEMMA FetchPausedKeeps ==
  ASSUME ProvisionInv, FetchPaused
  PROVE  ProvisionInv' /\ host' = before /\ onDisk' /\ HasIncompleteSteps(disk')
<1>1. /\ pc = "fetch" /\ pc' = "hub" /\ result' = "paused" /\ mem' = Fresh
      /\ FlushMaybe(WithPause(mem, Held("image-download")))
      /\ UNCHANGED <<firmware, req, uiLoaded, ui, runs, base, before, pos, undone, host, payload, delivered>>
  BY DEF FetchPaused, run, wizard
<1> PICK k : k = Held("image-download")
  OBVIOUS
<1>2. k \in DOMAIN mem.steps /\ k = n /\ mem \in JournalShape
  BY <1>1, InPlace, AsBefore
<1>3. WithPause(mem, k) \in JournalShape /\ WithPause(mem, k).paused
  BY <1>2, PausedIs
<1>4. /\ onDisk' \in BOOLEAN /\ disk' \in JournalShape /\ faults' \in 0 .. MaxFaults
      /\ \/ onDisk' /\ disk' = WithPause(mem, k)
         \/ onDisk' = onDisk /\ disk' = disk
  BY <1>1, <1>3, AsBefore, FlushedMaybe
<1>5. ProvisionInv'
  BY <1>1, <1>4, AsBefore, RestKeeps DEF Idle, Results
<1>6. onDisk /\ disk = mem /\ mem.steps[n].status = "running" /\ host = before
  BY <1>1 DEF ProvisionInv, Recorded, Untouched
<1>7. onDisk' /\ HasIncompleteSteps(disk')
  BY <1>2, <1>3, <1>4, <1>6 DEF HasIncompleteSteps, InFlight
<1> QED
  BY <1>1, <1>5, <1>6, <1>7

LEMMA DoneKeeps ==
  ASSUME ProvisionInv, HandOff \/ Finalize \/ RollbackEnd
  PROVE  ProvisionInv'
<1>1. CASE HandOff
  BY <1>1, AsBefore, RestKeeps DEF HandOff, run, wizard, file, Idle, Results
<1>2. CASE Finalize
  <2>1. onDisk' \in BOOLEAN /\ disk' \in JournalShape /\ faults' \in 0 .. MaxFaults
    BY <1>2, AsBefore, RemovedMaybe DEF Finalize, file
  <2>2. delivered' \in Tables
    BY <1>2, AsBefore DEF Finalize
  <2> QED
    BY <1>2, <2>1, <2>2, AsBefore, RestKeeps DEF Finalize, run, wizard, Idle, Results
<1>3. CASE RollbackEnd
  <2>1. onDisk' \in BOOLEAN /\ disk' \in JournalShape /\ faults' \in 0 .. MaxFaults
    BY <1>3, AsBefore, FlushedMaybe DEF RollbackEnd
  <2> QED
    BY <1>3, <2>1, AsBefore, RestKeeps DEF RollbackEnd, run, wizard, Idle, Results
<1> QED
  BY <1>1, <1>2, <1>3

LEMMA ProcessKeeps ==
  ASSUME ProvisionInv, Launch \/ Die \/ Discard
  PROVE  ProvisionInv'
<1>1. CASE Launch
  BY <1>1, AsBefore, RestKeeps DEF Launch, file, outcome, Idle
<1>2. CASE Die
  BY <1>2, AsBefore, RestKeeps DEF Die, file, Idle, Results
<1>3. CASE Discard
  <2>1. onDisk' \in BOOLEAN /\ disk' \in JournalShape /\ faults' \in 0 .. MaxFaults
    BY <1>3, AsBefore, RemovedMaybe DEF Discard
  <2> QED
    BY <1>3, <2>1, AsBefore, RestKeeps DEF Discard, Idle, Results
<1> QED
  BY <1>1, <1>2, <1>3

\* The flag goes down in the file, or a write has failed.
LEMMA StartKeeps ==
  ASSUME ProvisionInv, NEW r \in Requests, StartAgain(r) \/ StartFirst(r)
  PROVE  ProvisionInv'
<1>1. /\ pc = "hub" /\ runs < MaxRuns /\ req' = r /\ runs' = runs + 1 /\ before' = host
      /\ UNCHANGED <<firmware, mem, pos, undone, host, payload, delivered, base>>
  BY DEF StartAgain, StartFirst, Ordered
<1>2. [ui EXCEPT !.paused = FALSE] \in JournalShape /\ ~ [ui EXCEPT !.paused = FALSE].paused
  BY AsBefore, FlagIs
<1>3. /\ ui' \in JournalShape /\ ~ ui'.paused /\ FlushMaybe(ui')
      /\ uiLoaded' \in BOOLEAN /\ pc' \in {"open", "off"} /\ result' \in Results
  <2>1. CASE StartAgain(r)
    BY <1>2, <2>1, AsBefore DEF StartAgain
  <2>2. CASE StartFirst(r)
    BY <2>2, AsBefore, FreshShape DEF StartFirst, FlushMaybe, Results
  <2> QED
    BY <2>1, <2>2
<1>4. /\ onDisk' \in BOOLEAN /\ disk' \in JournalShape /\ faults' \in 0 .. MaxFaults
      /\ disk'.paused => faults' > 0
  BY <1>3, AsBefore, FlushedMaybe
<1>5. Typed'
  <2>1. runs' \in 0 .. MaxRuns /\ n' = n /\ base' \in Nat /\ req' \in Requests /\ before' \in Host
    BY <1>1, AsBefore, BoundsAssumption DEF n
  <2>2. pos' = 0 /\ undone' = {} /\ mem' \in JournalShape /\ n \in Nat
    BY <1>1, AsBefore, JournalParts DEF n
  <2>3. firmware' \in Firmwares /\ pc' \in Phases /\ host' \in Host /\ delivered' \in Tables
          /\ payload' \in {"none", "asked", "other"}
    BY <1>1, <1>3, AsBefore DEF ProvisionInv, Typed, Phases
  <2> QED
    BY <1>3, <1>4, <2>1, <2>2, <2>3 DEF Typed
<1>6. Counted'
  BY <1>1, <1>3, AsBefore, HostParts, BoundsAssumption DEF Counted, Idle, Tables
<1>7. Untouched' /\ Carved' /\ Holding' /\ Undoes'
  BY <1>1, <1>3, <1>4 DEF Untouched, Carved, Holding, Undoes, Working, Idle
<1>8. Checked' /\ Routed' /\ Recorded' /\ Passed'
  BY <1>3 DEF Checked, Routed, Recorded, Passed, Verified
<1> QED
  BY <1>5, <1>6, <1>7, <1>8 DEF ProvisionInv

LEMMA OpenKeeps ==
  ASSUME ProvisionInv, OpenJournal
  PROVE  ProvisionInv'
<1>1. /\ pc = "open" /\ base' = Len(mem'.steps) /\ payload' = "none"
      /\ UNCHANGED <<firmware, req, uiLoaded, ui, pos, undone, host, delivered, runs, before>>
  BY DEF OpenJournal, wizard
<1>2. /\ mem' \in JournalShape
      /\ mem'.paused => faults' > 0
      /\ onDisk' \in BOOLEAN /\ disk' \in JournalShape /\ faults' \in 0 .. MaxFaults
      /\ pc' \in {"download", "hub"} /\ result' \in Results
  <2>1. CASE onDisk /\ mem' = disk /\ pc' = "download" /\ UNCHANGED <<file, result>>
    BY <1>1, <2>1, AsBefore DEF file, ProvisionInv, Carved
  <2>2. CASE mem' = Fresh /\ pc' \in {"download", "hub"} /\ result' \in Results /\ FlushMaybe(Fresh)
    BY <2>2, FreshShape, AsBefore, FlushedMaybe
  <2> QED
    BY <2>1, <2>2, AsBefore DEF OpenJournal, FlushMaybe, Results
<1>3. n' \in Nat /\ base' \in Nat /\ base' = n'
  BY <1>1, <1>2, JournalParts DEF n
<1> /\ pos' = 0 /\ undone' = {} /\ payload' \in {"none", "asked", "other"}
    /\ uiLoaded' \in BOOLEAN /\ ui' \in JournalShape /\ host' \in Host /\ delivered' \in Tables
    /\ host'.writes <= MaxRuns + runs /\ runs' \in 0 .. MaxRuns
  BY <1>1, AsBefore
<1>4. CASE pc' = "hub"
  BY <1>1, <1>2, <1>3, <1>4, RestKeeps DEF Idle
<1>5. CASE pc' = "download"
  <2>1. Typed'
    <3>1. firmware' \in Firmwares /\ req' \in Requests /\ before' \in Host /\ pc' \in Phases
      BY <1>1, <1>5 DEF ProvisionInv, Typed, Phases
    <3> QED
      BY <1>2, <1>3, <3>1 DEF Typed
  <2>2. Counted' /\ Untouched' /\ Checked' /\ Routed'
    BY <1>1, <1>5 DEF ProvisionInv, Counted, Untouched, Checked, Routed, Uncut, Verified, Idle
  <2>3. Holding'
    BY <1>3, <1>5 DEF Holding, Holds
  <2>4. Undoes'
    BY <1>1, <1>5 DEF ProvisionInv, Undoes, Untouched
  <2>5. Carved'
    BY <1>2, <1>5 DEF Carved
  <2>6. Recorded' /\ Passed'
    BY <1>5 DEF Recorded, Passed
  <2> QED
    BY <2>1, <2>2, <2>3, <2>4, <2>5, <2>6 DEF ProvisionInv
<1> QED
  BY <1>2, <1>4, <1>5

-----------------------------------------------------------------------------
(***************************************************************************)
(* RollbackAll.                                                            *)
(***************************************************************************)

\* What a handler makes of the table.
LEMMA UndoneIs ==
  ASSUME ProvisionInv, NEW s \in StepShape, s.name \in Handled, NEW h \in Undone(s)
  PROVE  /\ h \in Host /\ h.writes >= host.writes /\ h.writes <= MaxRuns + runs
         /\ s.name = "partition-shrink" => h.table = s.data.was
         /\ s.name # "partition-shrink" =>
              \/ h.table = host.table /\ h.writes = host.writes
              \/ s.name = "revert-engine" /\ h.table = host.writes + 1 /\ h.table = h.writes
<1>1. host \in Host /\ host.writes <= MaxRuns + runs /\ runs \in 0 .. MaxRuns
  BY AsBefore
<1>2. host.writes \in Nat /\ MaxRuns \in Nat
  BY <1>1, HostParts, BoundsAssumption DEF Tables
<1>3. CASE s.name = "partition-shrink"
  <2>1. h = [host EXCEPT !.table = s.data.was]
    BY <1>3 DEF Undone
  <2>2. s.data.was \in Tables
    BY <1>3, StepIs
  <2> QED
    BY <1>1, <1>2, <1>3, <2>1, <2>2, HostParts DEF Host
<1>4. CASE s.name = "uefi-set-boot-order"
  <2>1. h = host
    BY <1>4 DEF Undone
  <2> QED
    BY <1>1, <1>2, <1>4, <2>1
<1>5. CASE s.name = "grub-set-default"
  <2>1. PICK v : v = IF s.data = Null THEN Blank ELSE s.data.was
    OBVIOUS
  <2>2. h = [host EXCEPT !.line = v]
    BY <1>5, <2>1 DEF Undone
  <2>3. v \in 0 .. Blank
    BY <1>5, <2>1, StepIs, BoundsAssumption DEF Blank
  <2> QED
    BY <1>1, <1>2, <1>5, <2>2, <2>3, HostParts DEF Host
<1>6. CASE s.name = "revert-engine"
  <2>1. h \in Reverted(s)
    BY <1>6 DEF Undone
  <2> DEFINE cleaned == [host EXCEPT !.dropins = @ \ {"prober"}]
             purged == [cleaned EXCEPT !.esp = @ /\ firmware = "bios"]
             room == host.writes < MaxRuns + runs
  <2>2. h \in {cleaned, purged} \/ (room /\ h = Repartitioned(purged))
    BY <2>1 DEF Reverted
  <2>3. /\ cleaned \in Host /\ cleaned.table = host.table /\ cleaned.writes = host.writes
    BY <1>1, HostParts DEF Host
  <2> HIDE DEF cleaned
  <2>4. /\ purged \in Host /\ purged.table = host.table /\ purged.writes = host.writes
    BY <2>3, HostParts DEF Host
  <2> HIDE DEF purged
  <2>5. room => /\ Repartitioned(purged) \in Host /\ Repartitioned(purged).table = host.writes + 1
                /\ Repartitioned(purged).writes = host.writes + 1
    BY <1>1, <1>2, <2>4, RepartitionedIs
  <2>6. room => host.writes + 1 <= MaxRuns + runs
    BY <1>1, <1>2
  <2> HIDE DEF room
  <2> QED
    BY <1>1, <1>2, <1>6, <2>2, <2>3, <2>4, <2>5, <2>6
<1> QED
  BY <1>3, <1>4, <1>5, <1>6 DEF Handled

\* One turn of the loop: all but the property of what it has restored.
LEMMA TurnKeeps ==
  ASSUME ProvisionInv, pc = "rollback", pc' = "rollback", pos > 0, pos' = pos - 1,
         UNCHANGED <<run, outcome, file, payload>>, mem' = mem \/ Marks(pos),
         undone' = undone \/ undone' = undone \union {pos},
         host' \in Host, host'.writes <= MaxRuns + runs, Passed'
  PROVE  ProvisionInv' /\ n' = n /\ pos \in DOMAIN mem.steps
<1>1. /\ mem \in JournalShape /\ mem' \in JournalShape /\ mem'.paused = mem.paused /\ n' = n /\ n \in Nat
      /\ DOMAIN mem.steps = 1 .. n /\ DOMAIN mem'.steps = 1 .. n
  BY AsBefore, JournalParts DEF Marks, n
<1>2. pos \in 1 .. n /\ pos' \in 0 .. n /\ pos' # n
  BY <1>1, AsBefore
<1>3. UNCHANGED <<firmware, req, uiLoaded, ui, runs, base, before, result, delivered,
                  onDisk, disk, faults, payload>>
  BY DEF run, outcome, file, wizard
<1>4. undone' \subseteq DOMAIN mem'.steps
  BY <1>1, <1>2, AsBefore
<1>5. Typed'
  BY <1>1, <1>2, <1>3, <1>4 DEF ProvisionInv, Typed
<1>6. Counted' /\ Untouched' /\ Checked' /\ Routed'
  BY <1>3 DEF ProvisionInv, Counted, Untouched, Checked, Routed, Uncut, Verified, Idle
<1>7. Holding' /\ Carved'
  BY <1>1, <1>3 DEF ProvisionInv, Holding, Holds, Carved, Working, Idle
<1>8. Undoes' /\ Recorded'
  BY <1>1, <1>2 DEF Undoes, Recorded
<1> QED
  BY <1>1, <1>2, <1>5, <1>6, <1>7, <1>8 DEF ProvisionInv

\* A step that was passed over: skipped, or its handler failed.
LEMMA PassKeeps ==
  ASSUME ProvisionInv, RollbackSkip \/ RollbackFails
  PROVE  ProvisionInv'
<1>1. /\ pc = "rollback" /\ pc' = "rollback" /\ pos > 0 /\ pos' = pos - 1 /\ mem' = mem /\ undone' = undone
      /\ UNCHANGED <<run, outcome, file, payload>>
  BY DEF RollbackSkip, RollbackFails, HandlerFails, Rolling
<1>2. /\ mem \in JournalShape /\ pos \in DOMAIN mem.steps /\ mem.steps[pos] \in StepShape /\ pos \in Nat
      /\ undone \subseteq DOMAIN mem.steps /\ DOMAIN mem.steps \subseteq Nat
  BY <1>1, AsBefore, JournalParts DEF n
<1>3. \/ host' = host
      \/ /\ mem.steps[pos].name \in Handled /\ mem.steps[pos].status \in Undoable
         /\ host' \in Undone(mem.steps[pos]) /\ mem.steps[pos].name # "revert-engine"
         /\ mem.steps[pos].name = "partition-shrink" => mem.steps[pos].data # Null
  BY DEF RollbackSkip, RollbackFails, HandlerFails, Undoing, Current, CanUndo
<1>4. /\ host' \in Host /\ host'.writes <= MaxRuns + runs
      /\ \/ host'.table = host.table /\ host'.writes = host.writes
         \/ /\ mem.steps[pos].name = "partition-shrink" /\ mem.steps[pos].status \in Undoable
            /\ mem.steps[pos].data # Null
  BY <1>2, <1>3, UndoneIs, AsBefore
<1>5. Passed'
  <2>1. Shrinks(mem)' = Shrinks(mem) /\ Restored' = Restored
    BY <1>1 DEF Shrinks, Restored
  <2>2. \A i \in undone' : i > pos'
    <3>1. \A i \in undone : i > pos
      BY <1>1 DEF ProvisionInv, Passed
    <3> QED
      BY <1>1, <1>2, <3>1
  <2>3. CASE ~ (host'.table = host.table /\ host'.writes = host.writes)
    <3>1. pos \in Shrinks(mem) /\ pos > pos'
      BY <1>1, <1>2, <1>4, <2>3 DEF Shrinks
    <3> QED
      BY <1>1, <1>4, <2>1, <2>2, <2>3, <3>1 DEF Passed
  <2>4. CASE host'.table = host.table /\ host'.writes = host.writes
    <3>1. CASE \E i \in Shrinks(mem) :
                 i > pos /\ mem.steps[i].status \in Undoable /\ mem.steps[i].data # Null
      <4>1. PICK i \in Shrinks(mem) :
              i > pos /\ mem.steps[i].status \in Undoable /\ mem.steps[i].data # Null
        BY <3>1
      <4>2. i > pos'
        <5>1. i \in Nat
          BY <1>2 DEF Shrinks
        <5> QED
          BY <1>1, <1>2, <4>1, <5>1
      <4> QED
        BY <1>1, <2>1, <2>2, <4>1, <4>2 DEF Passed
    <3>2. CASE Restored = {}
      BY <2>1, <2>2, <3>2 DEF Passed
    <3>3. CASE \E i \in Restored :
                 /\ \A k \in Restored : i <= k
                 /\ \/ host.table = mem.steps[i].data.was
                    \/ /\ host.table = host.writes
                       /\ \E k \in undone : k < i /\ mem.steps[k].name = "revert-engine"
      BY <1>1, <2>1, <2>2, <2>4, <3>3 DEF Passed
    <3> QED
      BY <1>1, <3>1, <3>2, <3>3 DEF ProvisionInv, Passed
  <2> QED
    BY <2>3, <2>4
<1> QED
  BY <1>1, <1>4, <1>5, TurnKeeps

LEMMA UndoKeeps ==
  ASSUME ProvisionInv, RollbackUndoes
  PROVE  ProvisionInv'
<1>1. /\ pc = "rollback" /\ pc' = "rollback" /\ pos > 0 /\ pos' = pos - 1
      /\ mem' = WithStatus(mem, pos, "rolled_back") /\ undone' = undone \union {pos}
      /\ mem.steps[pos].name \in Handled /\ host' \in Undone(mem.steps[pos])
      /\ UNCHANGED <<run, outcome, file, payload>>
  BY DEF RollbackUndoes, Rolling, Undoing, Current
<1> PICK p : p = pos
  OBVIOUS
<1>2. mem \in JournalShape /\ p \in DOMAIN mem.steps /\ mem.steps[p] \in StepShape /\ p \in Nat
  BY <1>1, AsBefore, JournalParts DEF n
<1>3. /\ host' \in Host /\ host'.writes <= MaxRuns + runs
      /\ mem.steps[p].name = "partition-shrink" => host'.table = mem.steps[p].data.was
      /\ mem.steps[p].name # "partition-shrink" =>
           \/ host'.table = host.table /\ host'.writes = host.writes
           \/ mem.steps[p].name = "revert-engine" /\ host'.table = host'.writes
  BY <1>1, <1>2, UndoneIs
<1>4. Marks(p) /\ mem'.steps[p].data = mem.steps[p].data /\ before' = before
  BY <1>1, <1>2, StatusMarks DEF Status, run
<1>5. /\ DOMAIN mem'.steps = DOMAIN mem.steps
      /\ \A i \in DOMAIN mem.steps : mem'.steps[i].name = mem.steps[i].name /\ mem'.steps[i].data = mem.steps[i].data
      /\ \A i \in DOMAIN mem.steps : i # p => mem'.steps[i] = mem.steps[i]
  BY <1>4 DEF Marks
<1>6. Shrinks(mem') = Shrinks(mem) /\ Shrinks(mem) \subseteq DOMAIN mem.steps
  BY <1>5 DEF Shrinks
<1>7. undone \subseteq DOMAIN mem.steps /\ DOMAIN mem.steps \subseteq Nat /\ \A i \in undone : i > p
  BY <1>1, <1>2, AsBefore, JournalParts DEF ProvisionInv, Passed
<1>8. \A i \in undone' : i > pos'
  BY <1>1, <1>2, <1>7
<1>9. Passed'
  <2>1. CASE mem.steps[p].name = "partition-shrink"
    <3>1. p \in Restored' /\ \A k \in Restored' : p <= k
      BY <1>1, <1>2, <1>6, <1>7, <2>1 DEF Restored, Shrinks
    <3>2. host'.table = mem'.steps[p].data.was
      BY <1>2, <1>3, <1>5, <2>1
    <3> QED
      BY <1>8, <3>1, <3>2 DEF Passed
  <2>2. CASE mem.steps[p].name # "partition-shrink"
    <3>1. Restored' = Restored
      BY <1>1, <1>2, <1>6, <2>2 DEF Restored, Shrinks
    <3>2. CASE Restored = {}
      BY <1>8, <3>1, <3>2 DEF Passed
    <3>3. CASE \E i \in Shrinks(mem) :
                 i > p /\ mem.steps[i].status \in Undoable /\ mem.steps[i].data # Null
      <4>1. PICK i \in Shrinks(mem) :
              i > p /\ mem.steps[i].status \in Undoable /\ mem.steps[i].data # Null
        BY <3>3
      <4>2. i > pos' /\ mem'.steps[i] = mem.steps[i]
        BY <1>1, <1>2, <1>5, <1>6, <1>7, <4>1
      <4> QED
        BY <1>6, <1>8, <4>1, <4>2 DEF Passed
    <3>4. ASSUME NEW i \in Restored, \A k \in Restored : i <= k,
                 \/ host.table = mem.steps[i].data.was
                 \/ /\ host.table = host.writes
                    /\ \E k \in undone : k < i /\ mem.steps[k].name = "revert-engine"
          PROVE  Passed'
      <4>1. i \in undone /\ i \in DOMAIN mem.steps /\ p < i
        BY <1>6, <1>7, <3>4 DEF Restored
      <4>2. CASE host'.table = host.table /\ host'.writes = host.writes
        <5>1. \/ host'.table = mem'.steps[i].data.was
              \/ /\ host'.table = host'.writes
                 /\ \E k \in undone' : k < i /\ mem'.steps[k].name = "revert-engine"
          BY <1>1, <1>5, <1>7, <3>4, <4>1, <4>2
        <5> QED
          BY <1>8, <3>1, <3>4, <5>1 DEF Passed
      <4>3. CASE mem.steps[p].name = "revert-engine" /\ host'.table = host'.writes
        <5>1. p \in undone' /\ p < i /\ mem'.steps[p].name = "revert-engine"
          BY <1>1, <1>2, <1>5, <4>1, <4>3
        <5> QED
          BY <1>8, <3>1, <3>4, <4>3, <5>1 DEF Passed
      <4> QED
        BY <1>3, <2>2, <4>2, <4>3
    <3> QED
      BY <1>1, <3>2, <3>3, <3>4 DEF ProvisionInv, Passed
  <2> QED
    BY <2>1, <2>2
<1> QED
  BY <1>1, <1>3, <1>4, <1>9, TurnKeeps

-----------------------------------------------------------------------------
(***************************************************************************)
(* Every action.                                                           *)
(***************************************************************************)

LEMMA PayloadKeeps ==
  ASSUME ProvisionInv, BeginDownload \/ Fetch \/ FetchPaused \/ FetchFails \/ Verify
  PROVE  ProvisionInv'
<1>1. CASE BeginDownload
  BY <1>1, BeginKeeps, BeginFailsKeeps DEF BeginDownload, Begins
<1>2. CASE Fetch
  BY <1>2, GoesKeeps DEF Fetch, Goes
<1>3. CASE FetchPaused
  BY <1>3, FetchPausedKeeps
<1>4. CASE FetchFails
  BY <1>4, AsBefore, FailKeeps DEF FetchFails
<1>5. CASE Verify
  <2>1. CASE (~ req.sha \/ payload = "asked") /\ CommitAt("verify", "image-download", Pipeline)
    BY <2>1, CommitKeeps DEF Commits
  <2>2. CASE FailAt("verify", "image-download", mem) /\ UNCHANGED host
    BY <2>2, AsBefore, FailKeeps
  <2> QED
    BY <1>5, <2>1, <2>2 DEF Verify
<1> QED
  BY <1>1, <1>2, <1>3, <1>4, <1>5

LEMMA BackupKeeps ==
  ASSUME ProvisionInv, Backup
  PROVE  ProvisionInv'
<1>1. CASE FailAt("backup", "partition-shrink", mem) /\ UNCHANGED host
  BY <1>1, AsBefore, FailKeeps
<1>2. CASE /\ Go("backup", "carve")
           /\ mem' = WithData(mem, Held("partition-shrink"), Saved(host.table))
           /\ UNCHANGED <<file, pos, undone, host, payload>>
  <2> PICK k : k = Held("partition-shrink")
    OBVIOUS
  <2>1. /\ pc = "backup" /\ before' = before
        /\ mem' = WithData(mem, k, Saved(host.table))
        /\ UNCHANGED <<onDisk, disk, faults, pos, undone, host, payload>>
    BY <1>2 DEF Go, run, file
  <2>2. k \in DOMAIN mem.steps /\ mem.steps[k].name = "partition-shrink" /\ k = n /\ mem \in JournalShape
    BY <2>1, InPlace, AsBefore
  <2>3. host.table \in Tables /\ host.table \in Nat /\ host = before
    BY <2>1, AsBefore, BoundsAssumption DEF ProvisionInv, Untouched, Tables
  <2>4. Marks(k) /\ mem'.steps[k].data = Saved(host.table) /\ mem'.steps[k].status = mem.steps[k].status
    BY <2>1, <2>2, <2>3, SavedShape, DataMarks DEF Marks
  <2>5. mem.steps[k].status \in Undoable
    BY <2>1, <2>2 DEF ProvisionInv, Recorded, Undoable
  <2>6. Backs(mem.steps[k])'
    BY <2>1, <2>2, <2>3, <2>4, <2>5 DEF Backs, Marks
  <2> QED
    BY <1>2, <2>1, <2>2, <2>4, <2>6, AsBefore, NotesKeeps
<1> QED
  BY <1>1, <1>2 DEF Backup

LEMMA DiskKeeps ==
  ASSUME ProvisionInv,
         \/ BeginWipe \/ Wipe \/ CommitWipe \/ BeginShrink \/ Carve \/ CommitCarve \/ FallbackFails
         \/ BeginDeploy \/ Deploy \/ CommitDeploy
  PROVE  ProvisionInv'
<1>1. CASE BeginWipe
  BY <1>1, BeginKeeps, BeginFailsKeeps DEF BeginWipe, Begins
<1>2. CASE Wipe
  BY <1>2, AsBefore, GoesKeeps DEF Wipe, Goes
<1>3. CASE CommitWipe
  BY <1>3, CommitKeeps DEF CommitWipe, Commits
<1>4. CASE BeginShrink
  BY <1>4, BeginKeeps, BeginFailsKeeps DEF BeginShrink, Begins
<1>5. CASE Carve
  BY <1>5, AsBefore, GoesKeeps DEF Carve, Goes
<1>6. CASE CommitCarve
  BY <1>6, CommitKeeps DEF CommitCarve, Commits
<1>7. CASE FallbackFails
  BY <1>7, AsBefore, FailKeeps DEF FallbackFails
<1>8. CASE BeginDeploy
  BY <1>8, BeginKeeps, BeginFailsKeeps DEF BeginDeploy, Begins
<1>9. CASE Deploy
  <2>1. CASE /\ Go("deploying", "deployed") /\ host' = Written
             /\ UNCHANGED <<file, mem, pos, undone, payload>>
    BY <2>1, AsBefore, GoesKeeps DEF Goes
  <2>2. CASE FailAt("deploying", "image-deploy", mem) /\ host' \in {host, Written}
    BY <2>2, AsBefore, MachineIs, FailKeeps
  <2> QED
    BY <1>9, <2>1, <2>2 DEF Deploy
<1>10. CASE CommitDeploy
  BY <1>10, CommitKeeps DEF CommitDeploy, Commits
<1> QED
  BY <1>1, <1>2, <1>3, <1>4, <1>5, <1>6, <1>7, <1>8, <1>9, <1>10

LEMMA BootKeeps ==
  ASSUME ProvisionInv,
         \/ BeginBoot \/ Configure \/ ConfigureUnrecorded \/ CommitBoot
         \/ BeginRevert \/ Guard \/ WindowsEntryFails
  PROVE  ProvisionInv'
<1>1. CASE BeginBoot
  <2>1. CASE BeginAt("boot", "bootloader-configure", "configure")
    BY <2>1, BeginKeeps DEF Begins
  <2>2. CASE BeginIgnoredAt("boot", "bootloader-configure",
                            IF req.mode = "dual" THEN "revert" ELSE "unrecorded_boot")
    BY <2>2, BeginIgnoredKeeps
  <2> QED
    BY <1>1, <2>1, <2>2 DEF BeginBoot
<1>2. CASE Configure
  <2>1. CASE /\ Go("configure", "configured") /\ host' = Configured
             /\ UNCHANGED <<file, mem, pos, undone, payload>>
    BY <2>1, AsBefore, GoesKeeps DEF Goes
  <2>2. CASE FailAt("configure", "bootloader-configure", mem) /\ host' = Configured
    BY <2>2, AsBefore, MachineIs, FailKeeps
  <2> QED
    BY <1>2, <2>1, <2>2 DEF Configure
<1>3. CASE ConfigureUnrecorded
  BY <1>3, AsBefore, PanicKeeps DEF ConfigureUnrecorded, file
<1>4. CASE CommitBoot
  BY <1>4, CommitKeeps DEF CommitBoot, Commits
<1>5. CASE BeginRevert
  <2>1. CASE BeginAt("revert", "revert-engine", "guard")
    BY <2>1, BeginKeeps DEF Begins
  <2>2. CASE pc = "revert" /\ Flush(FALSE, mem) /\ Panic /\ UNCHANGED <<host, payload>>
    BY <2>2, AsBefore, Flushed, PanicKeeps
  <2> QED
    BY <1>5, <2>1, <2>2 DEF BeginRevert
<1>6. CASE Guard
  <2> PICK k : k = Held("revert-engine")
    OBVIOUS
  <2>1. /\ pc = "guard" /\ Go("guard", "entry") /\ mem' = WithData(mem, k, Saved(0))
        /\ UNCHANGED <<onDisk, disk, faults, pos, undone, host, payload>>
    BY <1>6 DEF Guard, Go, file
  <2>2. k \in DOMAIN mem.steps /\ mem.steps[k].name = "revert-engine" /\ mem \in JournalShape
    BY <2>1, InPlace, AsBefore
  <2>3. Marks(k)
    BY <2>1, <2>2, SavedShape, DataMarks DEF Marks
  <2> QED
    BY <2>1, <2>2, <2>3, AsBefore, NotesKeeps
<1>7. CASE WindowsEntryFails
  <2>1. /\ pc = "entry" /\ RollBack("entry", mem') /\ mem' = mem
        /\ UNCHANGED <<onDisk, disk, faults, host, payload, base, before>>
    BY <1>7 DEF WindowsEntryFails, RollBack, Go, run, file
  <2>2. Working /\ pc # "rollback" /\ base <= n
    BY <2>1 DEF ProvisionInv, Holding, Working, Idle
  <2>3. req.mode = "dual" => host'.table = before.table \/ Backed'
    BY <2>1, <2>2 DEF ProvisionInv, Undoes, Backed, Backs
  <2>4. faults' >= faults /\ base <= Len(mem'.steps)
    BY <2>1, <2>2, AsBefore, BoundsAssumption DEF n
  <2> QED
    BY <2>1, <2>2, <2>3, <2>4, AsBefore, RollBackKeeps
<1> QED
  BY <1>1, <1>2, <1>3, <1>4, <1>5, <1>6, <1>7

LEMMA EntryKeeps ==
  ASSUME ProvisionInv,
         BeginOrder \/ SetOrder \/ BeginGrub \/ SetGrub \/ CommitGrub \/ SetGrubUnrecorded \/ Close
  PROVE  ProvisionInv'
<1>1. CASE BeginOrder
  <2>1. CASE Go("entry", "close") /\ UNCHANGED <<file, mem, pos, undone, host, payload>>
    BY <2>1, AsBefore, GoesKeeps DEF Goes
  <2>2. CASE BeginAt("entry", "uefi-set-boot-order", "order")
    BY <2>2, BeginKeeps DEF Begins
  <2>3. CASE pc = "entry" /\ Flush(FALSE, mem) /\ Panic /\ UNCHANGED <<host, payload>>
    BY <2>3, AsBefore, Flushed, PanicKeeps
  <2> QED
    BY <1>1, <2>1, <2>2, <2>3 DEF BeginOrder
<1>2. CASE SetOrder
  <2> PICK k : k = Held("uefi-set-boot-order")
    OBVIOUS
  <2>1. PICK d \in {Saved(0), Absent}, status \in {"committed", "failed"} :
          /\ pc = "order" /\ Go("order", "close")
          /\ mem' = WithStatus(WithData(mem, k, d), k, status) /\ FlushMaybe(mem')
          /\ UNCHANGED <<pos, undone, host, payload>>
    BY <1>2 DEF SetOrder, Go
  <2>2. k \in DOMAIN mem.steps /\ mem.steps[k].name = "uefi-set-boot-order" /\ mem \in JournalShape
    BY <2>1, InPlace, AsBefore
  <2>3. d \in DataShape /\ (d.kind = "saved" \/ d.was = 0)
    BY SavedShape, AbsentShape
  <2>4. Marks(k)
    BY <2>1, <2>2, <2>3, NotedMarks DEF Status
  <2>5. onDisk' \in BOOLEAN /\ disk' \in JournalShape /\ faults' \in 0 .. MaxFaults /\ faults' >= faults
    BY <2>1, <2>4, AsBefore, FlushedMaybe DEF Marks
  <2> QED
    BY <2>1, <2>2, <2>4, <2>5, NotesKeeps
<1>3. CASE BeginGrub
  BY <1>3, BeginKeeps, BeginIgnoredKeeps DEF BeginGrub, Begins
<1>4. CASE SetGrub
  <2> PICK k : k = Held("grub-set-default")
    OBVIOUS
  <2>1. pc = "grub"
    BY <1>4 DEF SetGrub, Go, FailAt, RollBack
  <2>2. k \in DOMAIN mem.steps /\ mem.steps[k].name = "grub-set-default" /\ mem \in JournalShape
    BY <2>1, InPlace, AsBefore
  <2>3. host.line \in Nat /\ host.line \in 0 .. Blank
    BY AsBefore, HostParts
  <2>4. Saved(host.line) \in DataShape /\ Saved(host.line).kind = "saved" /\ Saved(host.line).was = host.line
    BY <2>3, SavedShape
  <2>5. 0 \in 0 .. Blank
    BY BoundsAssumption DEF Blank
  <2>6. CASE /\ Go("grub", "relined") /\ host' = Relined /\ mem' = WithData(mem, k, Saved(host.line))
             /\ UNCHANGED <<file, pos, undone, payload>>
    <3>1. Marks(k)
      BY <2>2, <2>3, <2>4, <2>6, DataMarks DEF Marks
    <3>2. UNCHANGED <<onDisk, disk, faults, pos, undone, payload>> /\ faults' >= faults
      BY <2>6, AsBefore, BoundsAssumption DEF file
    <3> QED
      BY <2>2, <2>6, <3>1, <3>2, AsBefore, NotesKeeps
  <2>7. CASE FailAt("grub", "grub-set-default", WithData(mem, k, Absent)) /\ UNCHANGED host
    <3>1. host' \in Host /\ host'.table = host.table /\ host'.writes = host.writes
      BY <2>7, AsBefore
    <3> QED
      BY <2>5, <2>7, <3>1, AbsentShape, FailKeeps
  <2>8. CASE FailAt("grub", "grub-set-default", WithData(mem, k, Saved(host.line))) /\ host' \in {host, Relined}
    <3>1. host' \in Host /\ host'.table = host.table /\ host'.writes = host.writes
      BY <2>8, AsBefore, MachineIs
    <3> QED
      BY <2>3, <2>4, <2>8, <3>1, FailKeeps
  <2> QED
    BY <1>4, <2>6, <2>7, <2>8 DEF SetGrub
<1>5. CASE CommitGrub
  BY <1>5, CommitKeeps DEF CommitGrub, Commits
<1>6. CASE SetGrubUnrecorded
  BY <1>6, AsBefore, PanicKeeps DEF SetGrubUnrecorded, file
<1>7. CASE Close
  BY <1>7, CommitKeeps DEF Close, Commits
<1> QED
  BY <1>1, <1>2, <1>3, <1>4, <1>5, <1>6, <1>7

LEMMA StutterKeeps == ProvisionInv /\ UNCHANGED vars => ProvisionInv'
<1> SUFFICES ASSUME ProvisionInv, UNCHANGED vars PROVE ProvisionInv'
  OBVIOUS
<1> USE DEF ProvisionInv, vars
<1>1. Typed'
  BY DEF Typed, n
<1>2. Counted' /\ Untouched' /\ Checked' /\ Routed' /\ Recorded'
  BY DEF Counted, Untouched, Checked, Routed, Recorded, n
<1>3. Holding'
  BY DEF Holding, Holds, HeldAt, Working, n
<1>4. Undoes' /\ Carved'
  BY DEF Undoes, Carved, Backed, Backs, Working, n
<1>5. Passed'
  BY DEF Passed, Restored, Shrinks
<1> QED
  BY <1>1, <1>2, <1>3, <1>4, <1>5

LEMMA ProvisionStep == ProvisionInv /\ [Next]_vars => ProvisionInv'
<1> SUFFICES ASSUME ProvisionInv, [Next]_vars PROVE ProvisionInv'
  OBVIOUS
<1>1. CASE Engine
  BY <1>1, OpenKeeps, PayloadKeeps, BackupKeeps, DiskKeeps, DoneKeeps, BootKeeps, EntryKeeps,
     PassKeeps, UndoKeeps DEF Engine
<1>2. CASE Wizard
  BY <1>2, ProcessKeeps, StartKeeps DEF Wizard
<1> QED
  BY <1>1, <1>2, StutterKeeps DEF Next

LEMMA ProvisionInit == Init => ProvisionInv
<1> SUFFICES ASSUME Init PROVE ProvisionInv
  OBVIOUS
<1>1. /\ Fresh \in JournalShape /\ Len(Fresh.steps) = 0 /\ n = 0 /\ Original \in Host
      /\ 0 \in Tables /\ 0 \in 0 .. MaxFaults /\ 0 \in 0 .. MaxRuns
  BY FreshShape, BoundsAssumption DEF Init, n, Original, Host, Tables, Blank
<1>2. Typed
  <2>1. uiLoaded \in BOOLEAN /\ onDisk \in BOOLEAN /\ pc \in Phases /\ result \in Results
    BY DEF Init, Phases, Results
  <2>2. /\ firmware \in Firmwares /\ req \in Requests /\ mem \in JournalShape /\ ui \in JournalShape
        /\ disk \in JournalShape /\ host \in Host /\ before \in Host /\ payload \in {"none", "asked", "other"}
    BY <1>1 DEF Init
  <2>3. /\ faults \in 0 .. MaxFaults /\ delivered \in Tables /\ runs \in 0 .. MaxRuns
        /\ base \in Nat /\ pos \in 0 .. n /\ pos = 0 /\ undone = {}
    BY <1>1 DEF Init
  <2> QED
    BY <2>1, <2>2, <2>3 DEF Typed
<1>3. Counted
  BY <1>1, BoundsAssumption DEF Init, Counted, Original, Uncut, Idle
<1> QED
  BY <1>2, <1>3 DEF Init, ProvisionInv, Holding, Checked, Routed, Untouched, Undoes, Carved,
     Recorded, Passed, Working, Idle, Verified

LEMMA ProvisionInvariant == Spec => []ProvisionInv
<1> QED
  BY ProvisionInit, ProvisionStep, PTL DEF Spec

-----------------------------------------------------------------------------
(***************************************************************************)
(* Where no write of the journal fails: the age of what is recorded.       *)
(***************************************************************************)

LEMMA DatedLonger ==
  ASSUME NEW j \in JournalShape, NEW name \in Names, NEW lo, NEW hi, Dated(j, lo, hi)
  PROVE  Dated(WithStep(j, Begun(name)), lo, hi)
<1> PICK r : r = WithStep(j, Begun(name))
  OBVIOUS
<1>1. /\ r \in JournalShape /\ Len(r.steps) = Len(j.steps) + 1
      /\ r.steps[Len(j.steps) + 1] = Begun(name)
      /\ \A k \in DOMAIN j.steps : r.steps[k] = j.steps[k]
  BY Longer
<1>2. DOMAIN r.steps = DOMAIN j.steps \union {Len(j.steps) + 1}
  BY <1>1, JournalParts
<1>3. Begun(name).data.kind # "saved"
  BY DEF Begun, Null, Data
<1> QED
  BY <1>1, <1>2, <1>3 DEF Dated

LEMMA DatedMarks ==
  ASSUME NEW k \in DOMAIN mem.steps, Marks(k), NEW lo, NEW hi, Dated(mem, lo, hi),
         \/ mem.steps[k].name # "partition-shrink"
         \/ mem'.steps[k].data = mem.steps[k].data
         \/ mem'.steps[k].data.was \in lo .. hi
  PROVE  Dated(mem', lo, hi)
BY DEF Dated, Marks

\* The same steps, or a machine with more tables behind it.
LEMMA DatedStill ==
  ASSUME NEW j, NEW r, r.steps = j.steps, NEW lo \in Nat, NEW hi \in Nat, NEW later \in Nat,
         hi <= later, Dated(j, lo, hi)
  PROVE  Dated(r, lo, later)
BY DEF Dated

LEMMA DatedFresh ==
  ASSUME NEW lo, NEW hi
  PROVE  Dated(Fresh, lo, hi)
BY FreshShape DEF Dated

\* The numbers of the tables, and what they are after a step that writes none.
LEMMA TablesAre ==
  ASSUME ProvisionInv, Dates
  PROVE  /\ delivered \in Nat /\ host.table \in Nat /\ host.writes \in Nat
         /\ host.table \in delivered .. host.writes
         /\ Written.table = host.table /\ Written.writes = host.writes
         /\ Configured.table = host.table /\ Configured.writes = host.writes
         /\ Relined.table = host.table /\ Relined.writes = host.writes
<1>1. delivered \in Nat /\ host.table \in Nat /\ host.writes \in Nat
  BY AsBefore, HostParts, BoundsAssumption DEF Tables
<1> QED
  BY <1>1, AsBefore, MachineIs DEF Dates

\* A flush goes through.
LEMMA Written1 ==
  ASSUME ProvisionInv, faults' = 0, NEW j \in JournalShape
  PROVE  /\ \A ok \in BOOLEAN : Flush(ok, j) => ok /\ onDisk' /\ disk' = j
         /\ FlushMaybe(j) => onDisk' /\ disk' = j
         /\ RemoveMaybe => disk' = Fresh
<1>1. Typed /\ ~ faults' > 0
  BY AsBefore
<1>2. \A ok \in BOOLEAN : Flush(ok, j) => ok /\ onDisk' /\ disk' = j
  BY <1>1, Flushed
<1>3. RemoveMaybe => disk' = Fresh
  BY <1>1, RemovedMaybe
<1> QED
  BY <1>2, <1>3 DEF FlushMaybe

\* The run goes on.
LEMMA RunQuiet ==
  ASSUME ProvisionInv, FaultlessInv, ProvisionInv', faults' = 0, Working, pc' # "open", Settled',
         UNCHANGED <<run, outcome>>, disk' \in {disk, mem'},
         Dated(mem', delivered, host'.writes),
         host'.writes >= host.writes, host'.table \in delivered .. host'.writes
  PROVE  FaultlessInv'
<1>1. UNCHANGED <<base, ui, delivered>>
  BY DEF run, outcome, wizard
<1>2. delivered \in Nat /\ host.writes \in Nat /\ host'.writes \in Nat
  BY <1>1, AsBefore, HostParts, BoundsAssumption DEF ProvisionInv, Typed, Tables
<1>3. Dated(ui, delivered, host'.writes) /\ Dated(disk, delivered, host'.writes)
  BY <1>2, DatedStill DEF FaultlessInv, Dates
<1>4. Dates'
  BY <1>1, <1>2, <1>3 DEF Dates
<1>5. Sessions'
  BY <1>1 DEF FaultlessInv, Sessions
<1> QED
  BY <1>4, <1>5 DEF FaultlessInv

LEMMA BeginQuiet ==
  ASSUME ProvisionInv, FaultlessInv, ProvisionInv', faults' = 0, NEW from, NEW name, NEW to,
         Begins(from, name, to), BeginAt(from, name, to)
  PROVE  FaultlessInv'
<1>1. /\ pc = from /\ pc' = to /\ mem' = WithStep(mem, Begun(name)) /\ Flush(TRUE, mem')
      /\ UNCHANGED <<run, outcome, host>> /\ UNCHANGED <<base, before>>
  BY DEF BeginAt, Go, run
<1>2. name \in Names /\ Working /\ base \in Nat /\ base <= n /\ mem \in JournalShape /\ pc' # "open"
  BY <1>1, AsBefore DEF Begins, Names, ProvisionInv, Holding, Working, Idle
<1>3. /\ mem' \in JournalShape /\ n \in Nat /\ n' = n + 1
      /\ \A nm : HeldAt(n, nm) /\ nm # name => HeldAt(n - 1, nm)'
      /\ DOMAIN mem.steps = 1 .. n /\ DOMAIN mem'.steps = 1 .. n'
      /\ \A k \in DOMAIN mem.steps : mem'.steps[k] = mem.steps[k]
  BY <1>1, <1>2, BeginFacts
<1>4. disk' = mem'
  BY <1>1, <1>3, Written1 DEF FaultlessInv
<1>5. Dated(mem', delivered, host.writes)
  BY <1>1, <1>2, DatedLonger DEF FaultlessInv, Dates
<1>6. ASSUME NEW i \in DOMAIN mem'.steps, i > base', mem'.steps[i].status \in InFlight
      PROVE  InHand(i)'
  <2>1. CASE i = n'
    BY <1>1, <2>1 DEF InHand, Begins
  <2>2. CASE i # n'
    <3>1. i \in DOMAIN mem.steps /\ i > base /\ mem.steps[i].status \in InFlight
      BY <1>1, <1>3, <1>6, <2>2
    <3>2. InHand(i)
      BY <1>2, <3>1 DEF FaultlessInv, Settled
    <3>3. from = "entry" /\ i = n /\ to \in {"order", "grub"}
      BY <1>1, <3>2 DEF InHand, Begins
    <3> QED
      BY <1>1, <1>3, <3>3 DEF InHand
  <2> QED
    BY <2>1, <2>2
<1>7. Settled'
  BY <1>6 DEF Settled
<1> QED
  BY <1>1, <1>2, <1>4, <1>5, <1>7, TablesAre, RunQuiet DEF FaultlessInv

\* A step that is in flight after one in hand was marked was so before.
LEMMA MarkedSettled ==
  ASSUME ProvisionInv, FaultlessInv, NEW k \in DOMAIN mem.steps, Marks(k), Working,
         UNCHANGED <<base, before>>,
         NEW i \in DOMAIN mem'.steps, i > base', mem'.steps[i].status \in InFlight,
         mem'.steps[k].status \in InFlight => mem'.steps[k].status = mem.steps[k].status
  PROVE  /\ InHand(i) /\ n' = n /\ n \in Nat
         /\ i = k => mem'.steps[k].status \in InFlight
         /\ \A nm : HeldAt(i, nm) => HeldAt(i, nm)'
<1>1. n \in Nat /\ n' = n /\ DOMAIN mem.steps = 1 .. n /\ DOMAIN mem'.steps = 1 .. n
  BY AsBefore, MarkFacts
<1>2. i \in DOMAIN mem.steps /\ i > base /\ mem.steps[i].status \in InFlight
  BY <1>1 DEF Marks
<1>3. InHand(i)
  BY <1>2 DEF FaultlessInv, Settled
<1>4. \A nm : HeldAt(i, nm) => HeldAt(i, nm)'
  <2>1. \A m \in DOMAIN mem.steps : mem'.steps[m].name = mem.steps[m].name
    BY DEF Marks
  <2> QED
    BY <1>1, <2>1 DEF HeldAt
<1> QED
  BY <1>1, <1>3, <1>4

LEMMA CommitQuiet ==
  ASSUME ProvisionInv, FaultlessInv, ProvisionInv', faults' = 0, NEW from, NEW name, NEW to,
         Commits(from, name, to), CommitAt(from, name, to)
  PROVE  FaultlessInv'
<1>1. /\ pc = from /\ pc' = to /\ mem' = WithStatus(mem, Held(name), "committed") /\ FlushMaybe(mem')
      /\ UNCHANGED <<run, outcome, host>> /\ UNCHANGED <<base, before>>
  BY DEF CommitAt, Go, run
<1> PICK k : k = Held(name)
  OBVIOUS
<1>2. k \in DOMAIN mem.steps /\ HeldAt(k, name) /\ (from # "close" => k = n) /\ Working
  BY <1>1, InPlace DEF Commits
<1>3. mem \in JournalShape /\ Holds(pc, n)
  BY <1>2, AsBefore DEF ProvisionInv, Holding
<1>4. Marks(k) /\ mem'.steps[k].status = "committed" /\ mem'.steps[k].data = mem.steps[k].data
  BY <1>1, <1>2, <1>3, StatusMarks DEF Status
<1>5. disk' = mem'
  BY <1>1, <1>4, Written1 DEF FaultlessInv, Marks
<1>6. Dated(mem', delivered, host.writes)
  BY <1>2, <1>4, DatedMarks DEF FaultlessInv, Dates
<1>7. /\ to \in {"wipe", "shrink", "deploy", "revert", "boot", "finalize", "close"}
      /\ to = "close" <=> from = "relined"
  BY DEF Commits, Pipeline
<1>8. ASSUME NEW i \in DOMAIN mem'.steps, i > base', mem'.steps[i].status \in InFlight
      PROVE  InHand(i)'
  <2>1. InHand(i) /\ n' = n /\ n \in Nat /\ i # k /\ \A nm : HeldAt(i, nm) => HeldAt(i, nm)'
    BY <1>1, <1>2, <1>4, <1>8, MarkedSettled DEF InFlight
  <2>2. CASE from = "close"
    <3>1. HeldAt(i, "revert-engine") /\ name = "revert-engine"
      BY <1>1, <2>1, <2>2 DEF InHand, Commits
    <3>2. i = Held(name) /\ k = Held(name)
      BY <1>2, <1>3, <3>1, HeldIs
    <3> QED
      BY <2>1, <3>2
  <2>3. CASE from # "close"
    <3>1. from = "relined" /\ i = n - 1
      BY <1>1, <1>2, <2>1, <2>3 DEF InHand, Commits
    <3>2. HeldAt(i, "revert-engine")
      BY <1>1, <1>3, <3>1 DEF Holds
    <3> QED
      BY <1>1, <1>7, <2>1, <3>1, <3>2 DEF InHand
  <2> QED
    BY <2>2, <2>3
<1>9. Settled'
  BY <1>8 DEF Settled
<1>10. pc' # "open"
  BY <1>1, <1>7
<1> QED
  BY <1>1, <1>2, <1>5, <1>6, <1>9, <1>10, TablesAre, RunQuiet DEF FaultlessInv

\* The run goes into its rollback.
LEMMA RollBackQuiet ==
  ASSUME ProvisionInv, FaultlessInv, ProvisionInv', faults' = 0, NEW from, RollBack(from, mem'), Working,
         disk' \in {disk, mem'}, Dated(mem', delivered, host.writes),
         host'.table = host.table, host'.writes = host.writes
  PROVE  FaultlessInv'
<1>1. pc' = "rollback" /\ UNCHANGED <<run, outcome>>
  BY DEF RollBack, Go
<1>2. Settled'
  BY <1>1 DEF Settled, InHand
<1>3. Dated(mem', delivered, host'.writes) /\ host'.writes >= host.writes
        /\ host'.table \in delivered .. host'.writes
  BY TablesAre DEF FaultlessInv
<1> QED
  BY <1>1, <1>2, <1>3, RunQuiet

LEMMA FailQuiet ==
  ASSUME ProvisionInv, FaultlessInv, ProvisionInv', faults' = 0, NEW from, NEW name, NEW j, FailAt(from, name, j),
         \/ from \in {"fetch", "verify"} /\ name = "image-download"
         \/ from \in {"backup", "fallback"} /\ name = "partition-shrink"
         \/ from = "deploying" /\ name = "image-deploy"
         \/ from = "configure" /\ name = "bootloader-configure"
         \/ from = "grub" /\ name = "grub-set-default",
         \/ j = mem
         \/ name = "grub-set-default" /\ \E d \in DataShape :
              /\ d.kind = "saved" \/ d.was = 0
              /\ d.was \in 0 .. Blank /\ j = WithData(mem, Held(name), d),
         host'.table = host.table, host'.writes = host.writes
  PROVE  FaultlessInv'
<1>1. /\ RollBack(from, mem') /\ mem' = WithStatus(j, Held(name), "failed") /\ FlushMaybe(mem') /\ pc = from
  BY DEF FailAt, RollBack, Go
<1> PICK k : k = Held(name)
  OBVIOUS
<1>2. k \in DOMAIN mem.steps /\ mem.steps[k].name = name /\ Working
  BY <1>1, InPlace
<1>3. mem \in JournalShape /\ Dated(mem, delivered, host.writes)
  BY AsBefore DEF FaultlessInv, Dates
<1>4. /\ j \in JournalShape /\ k \in DOMAIN j.steps /\ DOMAIN j.steps = DOMAIN mem.steps
      /\ j.paused = mem.paused /\ Len(j.steps) = Len(mem.steps)
      /\ j.steps[k].name = name
      /\ \A i \in DOMAIN mem.steps : i # k => j.steps[i] = mem.steps[i]
      /\ name = "partition-shrink" => j = mem
  BY <1>2, <1>3, DataMarks
<1>5. LET e == [name |-> j.steps[k].name, status |-> "failed", data |-> j.steps[k].data] IN
      /\ mem' \in JournalShape /\ mem'.paused = j.paused /\ Len(mem'.steps) = Len(j.steps)
      /\ DOMAIN mem'.steps = DOMAIN j.steps /\ mem'.steps[k] = e
      /\ \A i \in DOMAIN j.steps : i # k => mem'.steps[i] = j.steps[i]
  <2>1. mem' = WithStatus(j, k, "failed") /\ "failed" \in Status
    BY <1>1 DEF Status
  <2> QED
    BY ONLY <1>4, <2>1, StatusIs
<1>6. Marks(k) /\ (name = "partition-shrink" => mem'.steps[k].data = mem.steps[k].data)
  BY <1>2, <1>4, <1>5 DEF Marks
<1>7. Dated(mem', delivered, host.writes)
  BY <1>2, <1>3, <1>6, DatedMarks
<1>8. disk' = mem'
  BY <1>1, <1>5, Written1 DEF FaultlessInv
<1> QED
  BY <1>1, <1>2, <1>7, <1>8, RollBackQuiet

LEMMA NotesQuiet ==
  ASSUME ProvisionInv, FaultlessInv, ProvisionInv', faults' = 0, NEW from, NEW to, NEW k \in DOMAIN mem.steps,
         Go(from, to), Marks(k),
         \/ /\ from = "backup" /\ to = "carve" /\ host' = host
            /\ mem'.steps[k].data = Saved(host.table)
         \/ from = "guard" /\ to = "entry" /\ host' = host /\ mem.steps[k].name # "partition-shrink"
         \/ from = "order" /\ to = "close" /\ host' = host /\ mem.steps[k].name # "partition-shrink"
         \/ from = "grub" /\ to = "relined" /\ host' = Relined /\ mem.steps[k].name # "partition-shrink",
         k = n, disk' \in {disk, mem'},
         IF from = "order" THEN mem'.steps[k].status \notin InFlight
                           ELSE mem'.steps[k].status = mem.steps[k].status
  PROVE  FaultlessInv'
<1>1. /\ pc = from /\ pc' = to /\ UNCHANGED <<run, outcome>> /\ UNCHANGED <<base, before>>
      /\ from \in {"backup", "guard", "order", "grub"} /\ to \in {"carve", "entry", "close", "relined"}
  BY DEF Go, run
<1>2. Working /\ Holds(pc, n)
  BY <1>1 DEF ProvisionInv, Holding, Working, Idle
<1>3. Saved(host.table).was \in delivered .. host.writes
  BY TablesAre, SavedShape DEF FaultlessInv
<1>4. Dated(mem', delivered, host.writes)
  BY <1>3, DatedMarks DEF FaultlessInv, Dates
<1>5. host'.table = host.table /\ host'.writes = host.writes
  BY TablesAre DEF FaultlessInv
<1>6. ASSUME NEW i \in DOMAIN mem'.steps, i > base', mem'.steps[i].status \in InFlight
      PROVE  InHand(i)'
  <2>1. /\ InHand(i) /\ n' = n /\ n \in Nat /\ (i = k => mem'.steps[k].status \in InFlight)
        /\ \A nm : HeldAt(i, nm) => HeldAt(i, nm)'
    BY <1>1, <1>2, <1>6, MarkedSettled
  <2>2. CASE from = "order"
    <3>1. i = n - 1 /\ to = "close"
      BY <1>1, <2>1, <2>2 DEF InHand
    <3>2. HeldAt(i, "revert-engine")
      BY <1>1, <1>2, <2>2, <3>1 DEF Holds
    <3> QED
      BY <1>1, <2>1, <3>1, <3>2 DEF InHand
  <2>3. CASE from # "order"
    BY <1>1, <2>1, <2>3 DEF InHand
  <2> QED
    BY <2>2, <2>3
<1>7. Settled'
  BY <1>6 DEF Settled
<1> QED
  BY <1>1, <1>2, <1>4, <1>5, <1>7, TablesAre, RunQuiet DEF FaultlessInv

LEMMA GoesQuiet ==
  ASSUME ProvisionInv, FaultlessInv, ProvisionInv', faults' = 0, NEW from, NEW to, Go(from, to), Goes(from, to),
         UNCHANGED <<file, mem>>
  PROVE  FaultlessInv'
<1>1. /\ pc = from /\ pc' = to /\ UNCHANGED <<run, outcome>> /\ UNCHANGED <<base, mem, disk>>
      /\ from \in {"fetch", "wiping", "carve", "deploying", "configure", "entry"}
      /\ to \in {"verify", "wiped", "carved", "fallback", "deployed", "configured", "close"}
      /\ to = "close" <=> from = "entry"
  BY DEF Go, run, file, Goes
<1>2. Working /\ Holds(pc, n)
  BY <1>1 DEF ProvisionInv, Holding, Working, Idle
<1>3. host'.writes >= host.writes /\ host'.table \in delivered .. host'.writes
  <2>1. CASE from \in {"wiping", "carve"} /\ host' = Repartitioned(host)
    <3>1. host.writes < 2 * MaxRuns
      BY <1>1, <2>1, AsBefore, HostParts, BoundsAssumption DEF ProvisionInv, Counted, Uncut, Tables
    <3> QED
      BY <2>1, <3>1, AsBefore, RepartitionedIs, TablesAre DEF FaultlessInv
  <2>2. CASE host'.table = host.table /\ host'.writes = host.writes
    BY <2>2, TablesAre DEF FaultlessInv
  <2> QED
    BY <2>1, <2>2, TablesAre DEF Goes, FaultlessInv
<1>4. Dated(mem', delivered, host'.writes)
  <2>1. host'.writes \in Nat /\ host.writes \in Nat /\ delivered \in Nat
    BY TablesAre, AsBefore, HostParts, BoundsAssumption DEF FaultlessInv, ProvisionInv, Typed, Tables
  <2> QED
    BY <1>1, <1>3, <2>1, DatedStill DEF FaultlessInv, Dates
<1>5. ASSUME NEW i \in DOMAIN mem.steps, i > base, mem.steps[i].status \in InFlight
      PROVE  InHand(i)'
  <2>1. InHand(i) /\ n' = n /\ i = n
    BY <1>1, <1>2, <1>5 DEF FaultlessInv, Settled, InHand, n
  <2>2. to = "close" => HeldAt(i, "revert-engine")'
    BY <1>1, <1>2, <2>1 DEF Holds, HeldAt
  <2> QED
    BY <1>1, <2>1, <2>2 DEF InHand
<1>6. Settled'
  BY <1>1, <1>5 DEF Settled
<1> QED
  BY <1>1, <1>2, <1>3, <1>4, <1>6, RunQuiet

\* The process is left without a run.
LEMMA RestQuiet ==
  ASSUME ProvisionInv, FaultlessInv, ProvisionInv', faults' = 0, pc' \in Idle, delivered' = delivered,
         mem' \in {mem, Fresh}, ui' \in {ui, disk, Fresh},
         Dated(disk', delivered, host.writes),
         host'.table = host.table, host'.writes = host.writes
  PROVE  FaultlessInv'
<1>1. Sessions' /\ Settled'
  BY DEF Sessions, Settled, Working, Idle
<1>2. Dates'
  BY DatedFresh DEF FaultlessInv, Dates
<1> QED
  BY <1>1, <1>2 DEF FaultlessInv

LEMMA PanicQuiet ==
  ASSUME ProvisionInv, FaultlessInv, ProvisionInv', faults' = 0, Panic, host' \in {host, Configured, Relined}, disk' = disk
  PROVE  FaultlessInv'
<1>1. pc' \in Idle /\ mem' = Fresh /\ ui' = Fresh /\ delivered' = delivered
  BY DEF Panic, Idle
<1>2. host'.table = host.table /\ host'.writes = host.writes
  BY TablesAre DEF FaultlessInv
<1> QED
  BY <1>1, <1>2, RestQuiet DEF FaultlessInv, Dates

LEMMA FetchPausedQuiet ==
  ASSUME ProvisionInv, FaultlessInv, ProvisionInv', faults' = 0, FetchPaused
  PROVE  FaultlessInv'
<1>1. /\ pc = "fetch" /\ pc' = "hub" /\ mem' = Fresh
      /\ FlushMaybe(WithPause(mem, Held("image-download")))
      /\ UNCHANGED <<ui, host, delivered>>
  BY DEF FetchPaused, run, wizard
<1> PICK k : k = Held("image-download")
  OBVIOUS
<1>2. k \in DOMAIN mem.steps /\ mem \in JournalShape /\ Dated(mem, delivered, host.writes)
  BY <1>1, InPlace, AsBefore DEF FaultlessInv, Dates
<1> PICK r : r = WithStatus(mem, k, "paused")
  OBVIOUS
<1>3. /\ r \in JournalShape /\ DOMAIN r.steps = DOMAIN mem.steps
      /\ r.steps[k].name = mem.steps[k].name /\ r.steps[k].data = mem.steps[k].data
      /\ \A i \in DOMAIN mem.steps : i # k => r.steps[i] = mem.steps[i]
  <2>1. "paused" \in Status /\ r = WithStatus(mem, k, "paused")
    BY DEF Status
  <2>2. LET e == [name |-> mem.steps[k].name, status |-> "paused", data |-> mem.steps[k].data] IN
        /\ r \in JournalShape /\ DOMAIN r.steps = DOMAIN mem.steps /\ r.steps[k] = e
        /\ \A i \in DOMAIN mem.steps : i # k => r.steps[i] = mem.steps[i]
    BY ONLY <1>2, <2>1, StatusIs
  <2> QED
    BY <2>2
<1>4. Dated(r, delivered, host.writes)
  BY <1>2, <1>3 DEF Dated
<1> PICK p : p = WithPause(mem, k)
  OBVIOUS
<1>5. p = [r EXCEPT !.paused = TRUE]
  BY DEF WithPause
<1>6. p \in JournalShape /\ p.steps = r.steps
  BY ONLY <1>3, <1>5, FlagIs
<1>7. Dated(p, delivered, host.writes)
  BY <1>4, <1>6 DEF Dated
<1>8. disk' = p
  BY <1>1, <1>6, Written1 DEF FaultlessInv
<1> QED
  BY <1>1, <1>7, <1>8, RestQuiet DEF Idle

\* A success leaves no step in flight, so Finalize removes the file.
LEMMA FinalizeQuiet ==
  ASSUME ProvisionInv, FaultlessInv, ProvisionInv', faults' = 0, Finalize
  PROVE  FaultlessInv'
<1>1. /\ pc = "finalize" /\ pc' = "hub" /\ mem' = Fresh /\ UNCHANGED <<ui, host>>
      /\ IF HasIncompleteSteps(mem) THEN UNCHANGED file ELSE RemoveMaybe
      /\ delivered' = IF base = 0 THEN host.table ELSE 0
  BY DEF Finalize, run, wizard
<1>2. Sessions' /\ Settled'
  BY <1>1 DEF Sessions, Settled, Working, Idle
<1>3. host'.writes = host.writes /\ host'.table = host.table
  BY <1>1
<1>4. host.table \in Nat /\ host.writes \in Nat /\ delivered \in Nat /\ host.table <= host.writes
  BY TablesAre DEF FaultlessInv
<1>5. CASE base = 0
  <2>1. Working /\ DOMAIN ui.steps = {} /\ faults = 0
    BY <1>1, <1>5, AsBefore, JournalParts, BoundsAssumption DEF FaultlessInv, Sessions, Working, Idle
  <2>2. ~ mem.paused
    BY <2>1 DEF ProvisionInv, Carved
  <2>3. \A i \in DOMAIN mem.steps : mem.steps[i].status \notin InFlight
    BY <1>1, <1>5, <2>1, AsBefore, JournalParts DEF FaultlessInv, Settled, InHand
  <2>4. disk' = Fresh
    BY <1>1, <2>2, <2>3, FreshShape, Written1 DEF HasIncompleteSteps, FaultlessInv
  <2>5. Dates'
    BY <1>1, <1>3, <1>4, <1>5, <2>1, <2>4, DatedFresh DEF Dates, Dated
  <2> QED
    BY <1>2, <2>5 DEF FaultlessInv
<1>6. CASE base # 0
  <2>1. delivered' = 0
    BY <1>1, <1>6
  <2>2. Dated(ui, 0, host.writes) /\ Dated(disk, 0, host.writes)
    BY <1>4 DEF FaultlessInv, Dates, Dated
  <2>3. disk' \in {disk, Fresh}
    BY <1>1, FreshShape, Written1 DEF file, FaultlessInv
  <2>4. Dates'
    BY <1>1, <1>3, <1>4, <2>1, <2>2, <2>3, DatedFresh DEF Dates
  <2> QED
    BY <1>2, <2>4 DEF FaultlessInv
<1> QED
  BY <1>5, <1>6

LEMMA ProcessQuiet ==
  ASSUME ProvisionInv, FaultlessInv, ProvisionInv', faults' = 0, Launch \/ Die \/ Discard \/ HandOff \/ RollbackEnd
  PROVE  FaultlessInv'
<1>1. Dated(mem, delivered, host.writes) /\ Dated(disk, delivered, host.writes)
  BY DEF FaultlessInv, Dates
<1>2. disk' \in {disk, mem, Fresh}
  BY AsBefore, Written1 DEF Launch, Die, Discard, HandOff, RollbackEnd, file, FaultlessInv
<1>3. /\ pc' \in Idle /\ delivered' = delivered /\ mem' \in {mem, Fresh} /\ ui' \in {ui, disk, Fresh}
      /\ host' = host
  BY DEF Launch, Die, Discard, HandOff, RollbackEnd, file, run, wizard, outcome, Idle
<1> QED
  BY <1>1, <1>2, <1>3, DatedFresh, RestQuiet

\* The wizard's journal is what the run will find.
LEMMA StartQuiet ==
  ASSUME ProvisionInv, FaultlessInv, ProvisionInv', faults' = 0, NEW r \in Requests, StartAgain(r) \/ StartFirst(r)
  PROVE  FaultlessInv'
<1>1. UNCHANGED <<mem, host, delivered>>
  BY DEF StartAgain, StartFirst, Ordered
<1>2. [ui EXCEPT !.paused = FALSE] \in JournalShape /\ [ui EXCEPT !.paused = FALSE].steps = ui.steps
  BY AsBefore, FlagIs
<1>3. ui' \in JournalShape /\ Dated(ui', delivered, host.writes) /\ pc' \in {"open", "off"}
  <2>1. CASE StartAgain(r)
    BY <1>2, <2>1 DEF StartAgain, FaultlessInv, Dates, Dated
  <2>2. CASE StartFirst(r)
    BY <2>2, FreshShape, DatedFresh DEF StartFirst
  <2> QED
    BY <2>1, <2>2
<1>4. FlushMaybe(ui')
  BY DEF StartAgain, StartFirst, FlushMaybe
<1>5. onDisk' /\ disk' = ui'
  BY <1>3, <1>4, Written1 DEF FaultlessInv
<1>6. Dates'
  BY <1>1, <1>3, <1>5 DEF FaultlessInv, Dates
<1>7. Sessions' /\ Settled'
  BY <1>3, <1>5 DEF Sessions, Settled, Working, Idle
<1> QED
  BY <1>6, <1>7 DEF FaultlessInv

LEMMA OpenQuiet ==
  ASSUME ProvisionInv, FaultlessInv, ProvisionInv', faults' = 0, OpenJournal
  PROVE  FaultlessInv'
<1>1. pc = "open" /\ onDisk /\ disk = ui /\ ui \in JournalShape
  BY AsBefore DEF OpenJournal, FaultlessInv, Sessions
<1>2. /\ mem' = disk /\ pc' = "download" /\ base' = Len(mem'.steps)
      /\ UNCHANGED <<ui, disk, host, delivered>>
  BY <1>1 DEF OpenJournal, file, wizard
<1>3. Sessions'
  BY <1>1, <1>2 DEF Sessions
<1>4. Settled'
  BY <1>1, <1>2, JournalParts DEF Settled
<1>5. Dates'
  BY <1>2 DEF FaultlessInv, Dates
<1> QED
  BY <1>3, <1>4, <1>5 DEF FaultlessInv

\* What a rollback restores is no older than the last success.
LEMMA UndoneQuiet ==
  ASSUME ProvisionInv, FaultlessInv, NEW i \in DOMAIN mem.steps, mem.steps[i].name \in Handled,
         CanUndo(mem.steps[i]), NEW h \in Undone(mem.steps[i])
  PROVE  /\ h.writes >= host.writes /\ h.table \in delivered .. h.writes
         /\ h.writes \in Nat /\ host.writes \in Nat /\ delivered \in Nat
<1>1. mem.steps[i] \in StepShape
  BY AsBefore, JournalParts
<1>2. /\ h \in Host /\ h.writes >= host.writes
      /\ mem.steps[i].name = "partition-shrink" => h.table = mem.steps[i].data.was
      /\ mem.steps[i].name # "partition-shrink" =>
           h.table = host.table \/ (h.table = host.writes + 1 /\ h.table = h.writes)
  BY <1>1, UndoneIs
<1>3. h.writes \in Nat /\ h.table \in Nat
  BY <1>2, HostParts, BoundsAssumption DEF Tables
<1>4. mem.steps[i].name = "partition-shrink" => mem.steps[i].data.kind = "saved"
  <2>1. /\ mem.steps[i].data = [kind |-> mem.steps[i].data.kind, was |-> mem.steps[i].data.was]
        /\ mem.steps[i].data.kind \in {"null", "absent", "saved"}
        /\ mem.steps[i].data.kind = "saved" \/ mem.steps[i].data.was = 0
    BY <1>1, StepIs DEF DataShape
  <2> QED
    BY <2>1 DEF CanUndo, Absent, Null, Data
<1>5. mem.steps[i].name = "partition-shrink" => mem.steps[i].data.was \in delivered .. host.writes
  BY <1>4 DEF FaultlessInv, Dates, Dated
<1> QED
  BY <1>2, <1>3, <1>5, TablesAre DEF FaultlessInv

\* RollbackAll restores a backup, and every backup is dated.
LEMMA RollbackQuiet ==
  ASSUME ProvisionInv, FaultlessInv, ProvisionInv', faults' = 0, RollbackSkip \/ RollbackFails \/ RollbackUndoes
  PROVE  FaultlessInv'
<1>1. /\ pc = "rollback" /\ pc' = "rollback" /\ pos > 0
      /\ UNCHANGED <<run, outcome, file>> /\ disk' = disk /\ before' = before
  BY DEF RollbackSkip, RollbackFails, RollbackUndoes, HandlerFails, Rolling, file, run
<1> PICK p : p = pos
  OBVIOUS
<1>2. p \in DOMAIN mem.steps /\ mem \in JournalShape /\ Working
  BY <1>1, AsBefore, JournalParts DEF n, Working, Idle
<1>3. \/ host' = host
      \/ mem.steps[p].name \in Handled /\ CanUndo(mem.steps[p]) /\ host' \in Undone(mem.steps[p])
  BY DEF RollbackSkip, RollbackFails, RollbackUndoes, HandlerFails, Undoing, Current
<1>4. /\ host'.writes >= host.writes /\ host'.table \in delivered .. host'.writes
      /\ host'.writes \in Nat /\ host.writes \in Nat /\ delivered \in Nat
  BY <1>2, <1>3, TablesAre, UndoneQuiet DEF FaultlessInv
<1>5. mem' = mem \/ mem' = WithStatus(mem, p, "rolled_back")
  BY DEF RollbackSkip, RollbackFails, RollbackUndoes, HandlerFails, Current
<1>6. Dated(mem', delivered, host.writes) /\ mem' \in JournalShape
  <2>1. CASE mem' = mem
    BY <1>2, <2>1 DEF FaultlessInv, Dates
  <2>2. CASE mem' = WithStatus(mem, p, "rolled_back")
    <3>1. Marks(p) /\ mem'.steps[p].data = mem.steps[p].data
      BY <1>1, <1>2, <2>2, StatusMarks DEF Status
    <3> QED
      BY <1>2, <3>1, DatedMarks DEF FaultlessInv, Dates, Marks
  <2> QED
    BY <1>5, <2>1, <2>2
<1>7. Dated(mem', delivered, host'.writes)
  BY <1>4, <1>6, DatedStill
<1>8. Settled'
  BY <1>1 DEF Settled, InHand
<1> QED
  BY <1>1, <1>2, <1>4, <1>7, <1>8, RunQuiet

\* Every action, as long as no write fails.
LEMMA EngineQuiet ==
  ASSUME ProvisionInv, FaultlessInv, ProvisionInv', faults' = 0, Engine
  PROVE  FaultlessInv'
<1>1. \A j \in JournalShape : ~ Flush(FALSE, j)
  BY Written1 DEF FaultlessInv
<1>2. \A name \in Names : WithStep(mem, Begun(name)) \in JournalShape
  BY AsBefore, Longer
<1>3. /\ \A from, to : \A name \in Names : ~ BeginFailsAt(from, name) /\ ~ BeginIgnoredAt(from, name, to)
      /\ ~ Flush(FALSE, mem)
  BY <1>1, <1>2, AsBefore DEF BeginFailsAt, BeginIgnoredAt, RollBack
<1>4. CASE \/ BeginDownload \/ BeginWipe \/ BeginShrink \/ BeginDeploy \/ BeginBoot
           \/ BeginRevert \/ BeginOrder \/ BeginGrub
  <2>1. CASE BeginDownload \/ BeginWipe \/ BeginShrink
    BY <1>3, <2>1, BeginQuiet DEF BeginDownload, BeginWipe, BeginShrink, Begins, Names
  <2>2. CASE BeginDeploy \/ BeginBoot \/ BeginRevert
    BY <1>3, <2>2, BeginQuiet DEF BeginDeploy, BeginBoot, BeginRevert, Begins, Names
  <2>3. CASE BeginGrub
    BY <1>3, <2>3, BeginQuiet DEF BeginGrub, Begins, Names
  <2>4. CASE BeginOrder
    BY <1>3, <2>4, BeginQuiet, GoesQuiet DEF BeginOrder, Begins, Goes
  <2> QED
    BY <1>4, <2>1, <2>2, <2>3, <2>4
<1>5. CASE CommitWipe \/ CommitCarve \/ CommitDeploy \/ CommitBoot \/ CommitGrub \/ Close
  <2>1. PICK from, name, to : Commits(from, name, to) /\ CommitAt(from, name, to)
    BY <1>5 DEF CommitWipe, CommitCarve, CommitDeploy, CommitBoot, CommitGrub, Close, Commits
  <2> QED
    BY <2>1, CommitQuiet
<1>6. CASE FetchFails \/ Verify \/ FallbackFails
  <2>1. CASE (~ req.sha \/ payload = "asked") /\ CommitAt("verify", "image-download", Pipeline)
    BY <2>1, CommitQuiet DEF Commits
  <2>2. CASE \/ FailAt("verify", "image-download", mem) /\ UNCHANGED host
             \/ FetchFails \/ FallbackFails
    BY <2>2, FailQuiet DEF FetchFails, FallbackFails
  <2> QED
    BY <1>6, <2>1, <2>2 DEF Verify
<1>7. CASE Fetch \/ Wipe \/ Carve
  BY <1>7, GoesQuiet DEF Fetch, Wipe, Carve, Goes
<1>8. CASE Deploy \/ Configure
  <2>1. host'.table = host.table /\ host'.writes = host.writes
    BY <1>8, TablesAre DEF Deploy, Configure, FaultlessInv
  <2>2. CASE \/ Go("deploying", "deployed") /\ host' = Written /\ UNCHANGED <<file, mem, payload>>
             \/ Go("configure", "configured") /\ host' = Configured /\ UNCHANGED <<file, mem, payload>>
    BY <2>2, GoesQuiet DEF Goes
  <2>3. CASE \/ FailAt("deploying", "image-deploy", mem)
             \/ FailAt("configure", "bootloader-configure", mem)
    BY <2>1, <2>3, FailQuiet
  <2> QED
    BY <1>8, <2>2, <2>3 DEF Deploy, Configure
<1>9. CASE Backup \/ Guard
  <2>1. CASE FailAt("backup", "partition-shrink", mem) /\ UNCHANGED host
    BY <2>1, FailQuiet
  <2>2. CASE \E from, name, to, v :
               /\ \/ from = "backup" /\ name = "partition-shrink" /\ to = "carve" /\ v = host.table
                  \/ from = "guard" /\ name = "revert-engine" /\ to = "entry" /\ v = 0
               /\ Go(from, to) /\ mem' = WithData(mem, Held(name), Saved(v)) /\ UNCHANGED <<file, host>>
    <3>1. PICK from, name, to, v :
            /\ \/ from = "backup" /\ name = "partition-shrink" /\ to = "carve" /\ v = host.table
               \/ from = "guard" /\ name = "revert-engine" /\ to = "entry" /\ v = 0
            /\ Go(from, to) /\ mem' = WithData(mem, Held(name), Saved(v)) /\ UNCHANGED <<file, host>>
      BY <2>2
    <3> PICK k : k = Held(name)
      OBVIOUS
    <3>2. /\ pc = from /\ k \in DOMAIN mem.steps /\ mem.steps[k].name = name /\ k = n
          /\ mem \in JournalShape /\ disk' = disk /\ host' = host
      BY <3>1, InPlace, AsBefore DEF Go, file
    <3>3. v \in Nat /\ v \in Tables /\ Saved(v) \in DataShape /\ Saved(v).kind = "saved" /\ Saved(v).was = v
      BY <3>1, AsBefore, TablesAre, SavedShape DEF FaultlessInv
    <3>4. Marks(k) /\ mem'.steps[k].data = Saved(v) /\ mem'.steps[k].status = mem.steps[k].status
      BY <3>1, <3>2, <3>3, DataMarks DEF Marks
    <3>5. CASE from = "backup"
      <4>1. Go("backup", "carve") /\ mem'.steps[k].data = Saved(host.table)
        BY <3>1, <3>4, <3>5
      <4> QED
        BY ONLY ProvisionInv, FaultlessInv, ProvisionInv', faults' = 0, <3>2, <3>4, <4>1, NotesQuiet
    <3>6. CASE from = "guard"
      <4>1. Go("guard", "entry") /\ mem.steps[k].name # "partition-shrink"
        BY <3>1, <3>2, <3>6
      <4> QED
        BY ONLY ProvisionInv, FaultlessInv, ProvisionInv', faults' = 0, <3>2, <3>4, <4>1, NotesQuiet
    <3> QED
      BY <3>1, <3>5, <3>6
  <2> QED
    BY <1>9, <2>1, <2>2 DEF Backup, Guard
<1>10. CASE SetOrder
  <2> PICK k : k = Held("uefi-set-boot-order")
    OBVIOUS
  <2>1. PICK d \in {Saved(0), Absent}, status \in {"committed", "failed"} :
          /\ pc = "order" /\ Go("order", "close")
          /\ mem' = WithStatus(WithData(mem, k, d), k, status) /\ FlushMaybe(mem') /\ host' = host
    BY <1>10 DEF SetOrder, Go
  <2>2. k \in DOMAIN mem.steps /\ mem.steps[k].name = "uefi-set-boot-order" /\ k = n /\ mem \in JournalShape
    BY <2>1, InPlace, AsBefore
  <2>3. d \in DataShape /\ (d.kind = "saved" \/ d.was = 0)
    BY SavedShape, AbsentShape
  <2>4. Marks(k) /\ mem'.steps[k].status = status
    BY <2>1, <2>2, <2>3, NotedMarks DEF Status
  <2>5. disk' = mem'
    BY <2>1, <2>4, Written1 DEF Marks, FaultlessInv
  <2> QED
    BY <2>1, <2>2, <2>4, <2>5, NotesQuiet DEF InFlight
<1>11. CASE SetGrub
  <2> PICK k : k = Held("grub-set-default")
    OBVIOUS
  <2>1. pc = "grub" /\ host' \in {host, Relined}
    BY <1>11 DEF SetGrub, Go, FailAt, RollBack
  <2>2. k \in DOMAIN mem.steps /\ mem.steps[k].name = "grub-set-default" /\ k = n /\ mem \in JournalShape
    BY <2>1, InPlace, AsBefore
  <2>3. /\ host.line \in 0 .. Blank /\ 0 \in 0 .. Blank
        /\ Saved(host.line) \in DataShape /\ Saved(host.line).kind = "saved" /\ Saved(host.line).was = host.line
    BY AsBefore, HostParts, SavedShape, BoundsAssumption DEF Blank
  <2>4. host'.table = host.table /\ host'.writes = host.writes
    BY <2>1, TablesAre DEF FaultlessInv
  <2>5. CASE Go("grub", "relined") /\ host' = Relined /\ mem' = WithData(mem, k, Saved(host.line)) /\ UNCHANGED file
    <3>1. Marks(k) /\ mem'.steps[k].status = mem.steps[k].status
      BY <2>2, <2>3, <2>5, DataMarks DEF Marks
    <3>2. disk' = disk
      BY <2>5 DEF file
    <3>3. Go("grub", "relined") /\ host' = Relined
      BY <2>5
    <3> QED
      BY ONLY ProvisionInv, FaultlessInv, ProvisionInv', faults' = 0, <2>2, <3>1, <3>2, <3>3, NotesQuiet
  <2>6. CASE FailAt("grub", "grub-set-default", WithData(mem, k, Absent))
    BY <2>3, <2>4, <2>6, AbsentShape, FailQuiet
  <2>7. CASE FailAt("grub", "grub-set-default", WithData(mem, k, Saved(host.line)))
    BY <2>3, <2>4, <2>7, FailQuiet
  <2> QED
    BY <1>11, <2>5, <2>6, <2>7 DEF SetGrub
<1>12. CASE WindowsEntryFails
  <2>1. pc = "entry" /\ RollBack("entry", mem') /\ mem' = mem /\ host' = host /\ disk' = disk
    BY <1>12 DEF WindowsEntryFails, RollBack, Go, run, file
  <2>2. Working /\ Dated(mem, delivered, host.writes)
    BY <2>1 DEF Working, Idle, FaultlessInv, Dates
  <2> QED
    BY <2>1, <2>2, RollBackQuiet
<1>13. CASE ConfigureUnrecorded \/ SetGrubUnrecorded
  BY <1>13, PanicQuiet DEF ConfigureUnrecorded, SetGrubUnrecorded, file
<1> QED
  BY <1>4, <1>5, <1>6, <1>7, <1>8, <1>9, <1>10, <1>11, <1>12, <1>13, FetchPausedQuiet, FinalizeQuiet,
     ProcessQuiet, OpenQuiet, RollbackQuiet DEF Engine

\* As long as no write has failed.
Faultless == faults = 0 => FaultlessInv

LEMMA FaultlessInit == Init => Faultless
<1> SUFFICES ASSUME Init PROVE FaultlessInv
  BY DEF Faultless
<1>1. DOMAIN Fresh.steps = {} /\ mem = Fresh /\ ui = Fresh /\ disk = Fresh
  BY FreshShape DEF Init
<1>2. faults = 0 /\ Sessions /\ Settled
  BY DEF Init, Sessions, Settled, Working, Idle
<1>3. Dates
  BY <1>1, DatedFresh DEF Init, Dates, Original
<1> QED
  BY <1>2, <1>3 DEF FaultlessInv

\* Failures are only ever counted up.
LEMMA FaultsAccrue == ProvisionInv /\ [Next]_vars /\ faults' = 0 => faults = 0
<1> SUFFICES ASSUME ProvisionInv, [Next]_vars, ~ UNCHANGED faults PROVE Fault
  BY AsBefore, BoundsAssumption DEF Fault
<1>1. \A ok, j : Flush(ok, j) => Fault
  BY DEF Flush
<1>2. RemoveMaybe => Fault
  BY DEF RemoveMaybe
<1>3. /\ \A j : FlushMaybe(j) => Fault
      /\ \A from, name, to : BeginAt(from, name, to) => Fault
      /\ \A from, name : BeginFailsAt(from, name) => Fault
      /\ \A from, name, to : BeginIgnoredAt(from, name, to) => Fault
      /\ \A from, name, to : CommitAt(from, name, to) => Fault
      /\ \A from, name, j : FailAt(from, name, j) => Fault
  BY <1>1 DEF FlushMaybe, BeginAt, BeginFailsAt, BeginIgnoredAt, CommitAt, FailAt
<1>4. CASE Wizard
  BY <1>1, <1>2, <1>3, <1>4 DEF Wizard, Launch, Die, Discard, StartAgain, StartFirst, file
<1>5. CASE \/ BeginDownload \/ BeginWipe \/ BeginShrink \/ BeginDeploy \/ BeginBoot \/ BeginRevert
           \/ BeginOrder \/ BeginGrub
  BY <1>1, <1>3, <1>5 DEF BeginDownload, BeginWipe, BeginShrink, BeginDeploy, BeginBoot, BeginRevert,
     BeginOrder, BeginGrub, file
<1>6. CASE CommitWipe \/ CommitCarve \/ CommitDeploy \/ CommitBoot \/ CommitGrub \/ Close
  BY <1>3, <1>6 DEF CommitWipe, CommitCarve, CommitDeploy, CommitBoot, CommitGrub, Close
<1>7. CASE FetchFails \/ FallbackFails \/ Verify \/ Backup \/ Deploy \/ Configure
  BY <1>3, <1>7 DEF FetchFails, FallbackFails, Verify, Backup, Deploy, Configure, file
<1>8. CASE OpenJournal \/ FetchPaused
  BY <1>1, <1>3, <1>8 DEF OpenJournal, FetchPaused, file
<1>9. CASE SetOrder \/ SetGrub
  BY <1>3, <1>9 DEF SetOrder, SetGrub, file
<1>10. CASE \/ Fetch \/ Wipe \/ Carve \/ HandOff \/ ConfigureUnrecorded \/ Guard \/ WindowsEntryFails
            \/ SetGrubUnrecorded
  BY <1>10 DEF Fetch, Wipe, Carve, HandOff, ConfigureUnrecorded, Guard, WindowsEntryFails,
     SetGrubUnrecorded, file
<1>11. CASE Finalize \/ RollbackSkip \/ RollbackFails \/ RollbackUndoes \/ RollbackEnd
  BY <1>2, <1>3, <1>11 DEF Finalize, RollbackSkip, RollbackFails, HandlerFails, RollbackUndoes,
     RollbackEnd, file
<1>12. ~ UNCHANGED vars
  BY DEF vars
<1> QED
  BY <1>4, <1>5, <1>6, <1>7, <1>8, <1>9, <1>10, <1>11, <1>12 DEF Next, Engine

LEMMA FaultlessStep == ProvisionInv /\ ProvisionInv' /\ Faultless /\ [Next]_vars => Faultless'
<1> SUFFICES ASSUME ProvisionInv, ProvisionInv', Faultless, [Next]_vars, faults' = 0 PROVE FaultlessInv'
  BY DEF Faultless
<1>1. FaultlessInv
  BY FaultsAccrue DEF Faultless
<1>2. CASE UNCHANGED vars
  BY <1>1, <1>2 DEF vars, FaultlessInv, Sessions, Settled, Dates, Working, InHand, HeldAt, n, Dated
<1> QED
  BY <1>1, <1>2, EngineQuiet, ProcessQuiet, StartQuiet DEF Next, Wizard

LEMMA FaultlessInvariant == Spec => []Faultless
<1> QED
  BY FaultlessInit, FaultlessStep, ProvisionInvariant, PTL DEF Spec

-----------------------------------------------------------------------------

\* Type correctness: every journal holds steps with the names, the status and
\* the rollback data the code knows, and RollbackAll's index stays inside it.
THEOREM ProvisionTypes == Spec => []TypeOK
<1>1. ASSUME NEW j \in JournalShape PROVE j \in JournalType
  <2>1. StepShape \subseteq StepType
    BY DEF StepShape, StepType, Names, DataShape
  <2>2. j = [paused |-> j.paused, steps |-> j.steps] /\ j.paused \in BOOLEAN /\ j.steps \in Seq(StepShape)
    BY JournalParts
  <2>3. j.steps \in Seq(StepType)
    BY ONLY <2>1, <2>2, SeqMono
  <2> QED
    BY ONLY <2>2, <2>3 DEF JournalType
<1>2. ProvisionInv => TypeOK
  BY <1>1 DEF ProvisionInv, Typed, n, TypeOK
<1> QED
  BY <1>2, ProvisionInvariant, PTL

\* Where a checksum is known no disk is wiped, carved or written before the
\* image at hand has passed it, in whichever mode and after whatever runs.
THEOREM ChecksumGuards == Spec => []ChecksumGuardsTheDisk
<1>1. ProvisionInv => ChecksumGuardsTheDisk
  BY DEF ProvisionInv, Checked, Verified, ChecksumGuardsTheDisk
<1> QED
  BY <1>1, ProvisionInvariant, PTL

\* The backup of the table precedes the carve and no later step of the run
\* drops it: RollbackAll begins with the means to bring the table back.
THEOREM CarvesAreUndoable == Spec => []CarveIsUndoable
<1>1. ProvisionInv => CarveIsUndoable
  <2> SUFFICES ASSUME ProvisionInv, req.mode = "dual", host.table # before.table,
                      pc \notin {"off", "hub", "open"}, pc = "rollback" => pos = Len(mem.steps)
               PROVE  \E i \in Shrinks(mem) :
                        /\ i > base /\ mem.steps[i].status \in Undoable
                        /\ mem.steps[i].data = Saved(before.table)
    BY DEF CarveIsUndoable
  <2>1. Backed
    BY DEF ProvisionInv, Undoes, Working, Idle, n
  <2> QED
    BY <2>1 DEF Backed, Backs, Shrinks
<1> QED
  BY <1>1, ProvisionInvariant, PTL

\* RollbackAll over the carves of several runs ends with the oldest table it
\* could restore, although it restores the younger ones on its way.
THEOREM OldestTableStays == Spec => []OldestTableWins
<1>1. ProvisionInv => OldestTableWins
  <2> SUFFICES ASSUME ProvisionInv, pc = "rollback", pos = 0, Restored # {},
                      \A i \in Shrinks(mem) : mem.steps[i].status \in Undoable => mem.steps[i].data = Null
               PROVE  \E i \in Restored :
                        /\ \A k \in Restored : i <= k
                        /\ \/ host.table = mem.steps[i].data.was
                           \/ /\ host.table = host.writes
                              /\ \E k \in undone : k < i /\ mem.steps[k].name = "revert-engine"
    BY DEF OldestTableWins, Restored
  <2> QED
    BY DEF ProvisionInv, Passed
<1> QED
  BY <1>1, ProvisionInvariant, PTL

\* Beside the host system an image is written only to a partition of a table
\* this run has made, unless a write of the journal was lost before it.
THEOREM OwnPartition == Spec => []DeploysOnOwnPartition
<1>1. ProvisionInv => DeploysOnOwnPartition
  BY DEF ProvisionInv, Carved, Working, Idle, DeploysOnOwnPartition
<1> QED
  BY <1>1, ProvisionInvariant, PTL

\* As long as no write of the journal has failed, a rollback never brings back
\* a table from before a success that had found no journal: Finalize removes
\* what such a run has recorded, and neither journal object keeps any of it.
THEOREM SuccessesStay == Spec => SuccessIsNotUndone
<1>1. ProvisionInv /\ Faultless /\ [Next]_vars =>
        [pc = "rollback" /\ delivered > 0 /\ faults = 0 => host'.table >= delivered]_vars
  <2> SUFFICES ASSUME ProvisionInv, FaultlessInv, Next, pc = "rollback"
               PROVE  host'.table >= delivered
    BY DEF Faultless
  <2>1. \/ RollbackSkip \/ RollbackFails \/ RollbackUndoes \/ RollbackEnd \/ Die
    BY DEF Next, Engine, Wizard, OpenJournal, BeginDownload, Fetch, FetchPaused, FetchFails, Verify,
           BeginWipe, Wipe, CommitWipe, BeginShrink, Backup, Carve, CommitCarve, FallbackFails,
           HandOff, BeginDeploy, Deploy, CommitDeploy, BeginBoot, Configure, ConfigureUnrecorded,
           CommitBoot, BeginRevert, Guard, WindowsEntryFails, BeginOrder, SetOrder, BeginGrub,
           SetGrub, CommitGrub, SetGrubUnrecorded, Close, Finalize, Launch, Discard, StartAgain,
           StartFirst, Ordered, BeginAt, BeginFailsAt, BeginIgnoredAt, CommitAt, FailAt, RollBack, Go
  <2>2. CASE RollbackEnd \/ Die
    BY <2>2, TablesAre DEF RollbackEnd, Die, FaultlessInv
  <2>3. CASE RollbackSkip \/ RollbackFails \/ RollbackUndoes
    <3>1. UNCHANGED <<delivered, faults>> /\ ProvisionInv'
      BY <2>3, ProvisionStep DEF RollbackSkip, RollbackFails, HandlerFails, RollbackUndoes, outcome, file
    <3>2. FaultlessInv'
      BY <2>3, <3>1, RollbackQuiet DEF FaultlessInv
    <3> QED
      BY <3>1, <3>2, TablesAre DEF FaultlessInv, Dates
  <2> QED
    BY <2>1, <2>2, <2>3
<1> QED
  BY <1>1, ProvisionInvariant, FaultlessInvariant, PTL DEF Spec, SuccessIsNotUndone

\* A pause has touched nothing but the journal, and a new process finds there
\* what it needs to offer the session again, even if the pause's write failed.
THEOREM PausesAreHarmless == Spec => PauseIsHarmless
<1>1. ProvisionInv /\ [Next]_vars =>
        [pc = "fetch" /\ pc' = "hub" => host' = before /\ onDisk' /\ HasIncompleteSteps(disk')]_vars
  <2> SUFFICES ASSUME ProvisionInv, Next, pc = "fetch", pc' = "hub"
               PROVE  host' = before /\ onDisk' /\ HasIncompleteSteps(disk')
    OBVIOUS
  <2>1. FetchPaused
    BY DEF Next, Engine, Wizard, OpenJournal, BeginDownload, Fetch, FetchFails, Verify,
           BeginWipe, Wipe, CommitWipe, BeginShrink, Backup, Carve, CommitCarve, FallbackFails,
           HandOff, BeginDeploy, Deploy, CommitDeploy, BeginBoot, Configure, ConfigureUnrecorded,
           CommitBoot, BeginRevert, Guard, WindowsEntryFails, BeginOrder, SetOrder, BeginGrub,
           SetGrub, CommitGrub, SetGrubUnrecorded, Close, Finalize, RollbackSkip, RollbackFails,
           HandlerFails, RollbackUndoes, Rolling, RollbackEnd, Launch, Die, Discard, StartAgain,
           StartFirst, Ordered, BeginAt, BeginFailsAt, BeginIgnoredAt, CommitAt, FailAt, RollBack,
           Go, Panic
  <2> QED
    BY <2>1, FetchPausedKeeps
<1> QED
  BY <1>1, ProvisionInvariant, PTL DEF Spec, PauseIsHarmless

=============================================================================
