-------------------------------- MODULE Carve --------------------------------
(***************************************************************************)
(* Where the new system's partition comes from (engine/partition.go):      *)
(* CarveHardwarePartitionAtBoundary takes free space when there is enough  *)
(* of it, else the partition that is physically last when it is swap or    *)
(* has the number 3, else what is left behind the last partition.          *)
(* ShrinkAndAllocate first shrinks a file system.  The callers save the    *)
(* partition table before and write it back when something fails.          *)
(*                                                                         *)
(* The disk is a row of units; a table gives some numbers a region of it.  *)
(* The tools (parted, mkfs, resize2fs) are external: they refuse, fail, or *)
(* do what the code asks of them.                                          *)
(***************************************************************************)
EXTENDS Integers, FiniteSets

CONSTANTS
  DiskEnd,       \* the last unit a partition may use
  Numbers,       \* partition numbers the table has room for
  FallbackEnd,   \* end of the disk when its size cannot be read
  Targets,       \* sizes that are asked for; 0 stands for all that is left
  MaxCarves      \* bound: calls

ASSUME DiskAssumption == DiskEnd \in Nat \ {0} /\ FallbackEnd \in Nat
ASSUME NumbersAssumption == Numbers \subseteq Nat \ {0} /\ IsFiniteSet(Numbers)
ASSUME TargetsAssumption == Targets \subseteq Nat
ASSUME MaxCarvesAssumption == MaxCarves \in Nat

Units == 1 .. DiskEnd
Kinds == {"fs", "swap", "new", "none"}
Regions == {r \in [first : Units, last : Units] : r.first <= r.last}
Span(r) == r.first .. r.last
Length(r) == r.last - r.first + 1
Overlap(r, s) == r.first <= s.last /\ s.first <= r.last

Tables == UNION {[ns -> Regions] : ns \in SUBSET Numbers}
Disjoint(t) == \A m, n \in DOMAIN t : m # n => ~ Overlap(t[m], t[n])

VARIABLES
  label,    \* "gpt" or "msdos"
  table,    \* the partition table
  data,     \* what was written to each unit, by the file system it belongs to
  mounted,  \* partitions in use
  fsEnd,    \* the unit where a file system ends that was shrunk; 0 without one
  source,   \* ShrinkAndAllocate's source partition; 0 without one
  pc,       \* where the call is
  want,     \* its target size
  listed,   \* the table as it read it
  node,     \* the partition it will format
  saved,    \* the table that BackupPartitionTable read
  before,   \* ghost: what every partition held when the call began
  calls

disk == <<label, table, data, mounted, fsEnd>>
vars == <<label, table, data, mounted, fsEnd, source, pc, want, listed, node,
          saved, before, calls>>

TypeOK ==
  /\ label \in {"gpt", "msdos"} /\ table \in Tables /\ data \in [Units -> Kinds]
  /\ mounted \subseteq Numbers /\ fsEnd \in Nat /\ source \in Numbers \union {0}
  /\ pc \in {"idle", "shrink", "look", "remove", "remake", "free", "format",
             "ok", "failed"}
  /\ want \in Nat /\ listed \in Tables /\ node \in Nat /\ saved \in Tables
  /\ before \in [Units -> Kinds] /\ calls \in 0 .. MaxCarves

\* What a listing shows: the order on the disk, the numbers, the free space.
Last(t) == {n \in DOMAIN t : \A m \in DOMAIN t : t[m].first <= t[n].first}
End(t) == {t[n].last : n \in Last(t)} \union {e \in {0} : DOMAIN t = {}}
Highest(t) == {h \in DOMAIN t \union {0} : \A n \in DOMAIN t : n <= h}
Without(t, n) == [m \in DOMAIN t \ {n} |-> t[m]]
Taken(t) == UNION {Span(t[n]) : n \in DOMAIN t}

\* CheckUnallocatedHeadroom finds room for a partition anywhere on the disk;
\* without an answer there is none.
Headroom(size) ==
  \E first \in Units : /\ first + size - 1 \in Units
                       /\ \A u \in first .. first + size - 1 : u \notin Taken(table)

\* Any disk: swap is never in use, swapoff -a sees to it first.
Init ==
  /\ label \in {"gpt", "msdos"}
  /\ table \in Tables /\ Disjoint(table)
  /\ label = "msdos" => DOMAIN table \subseteq 1 .. 4
  /\ \E kind \in [DOMAIN table -> {"fs", "swap"}] :
       /\ data = [u \in Units |-> IF \E n \in DOMAIN table : u \in Span(table[n])
                                  THEN kind[CHOOSE n \in DOMAIN table : u \in Span(table[n])]
                                  ELSE "none"]
       /\ mounted \in SUBSET {n \in DOMAIN table : kind[n] # "swap"}
  /\ source = 0 /\ fsEnd = 0 /\ pc = "idle" /\ want = 0 /\ node = 0 /\ calls = 0
  /\ listed = table /\ saved = table /\ before = data

Idle == pc \in {"idle", "ok", "failed"}
Go(to) == pc' = to

\* The trailing partition, when it is swap or taken for it.
Trailing(t, d) == {n \in Last(t) : d[t[n].first] = "swap" \/ n = 3}

\* The partitions of a table that no call may touch.
Safe(t, d) == DOMAIN t \ (Trailing(t, d) \ mounted)

-----------------------------------------------------------------------------
(* The tools.                                                               *)

\* mkpart without a look at the end of the disk.
MakesAnywhere(first, last) ==
  /\ first <= last /\ first .. last \intersect Taken(table) = {}
  /\ \E new \in Numbers \ DOMAIN table :
       /\ \A n \in Numbers \ DOMAIN table : new <= n
       /\ table' = [n \in DOMAIN table \union {new} |->
                      IF n = new THEN [first |-> first, last |-> last] ELSE table[n]]

\* mkpart wants a region that is free and a number, and takes the lowest.
Makes(first, last) ==
  /\ first \in Units /\ last \in Units /\ first <= last
  /\ first .. last \intersect Taken(table) = {}
  /\ \E new \in Numbers \ DOMAIN table :
       /\ \A n \in Numbers \ DOMAIN table : new <= n
       /\ table' = [n \in DOMAIN table \union {new} |->
                      IF n = new THEN [first |-> first, last |-> last] ELSE table[n]]

\* mkfs wants a partition that exists and is not mounted.
Formats(n) ==
  /\ n \in DOMAIN table /\ n \notin mounted
  /\ data' = [u \in Units |-> IF u \in Span(table[n]) THEN "new" ELSE data[u]]

-----------------------------------------------------------------------------
(* The calls.                                                               *)

\* The caller's BackupPartitionTable comes first.
Call(from, to) ==
  /\ Idle /\ calls < MaxCarves
  /\ calls' = calls + 1 /\ source' = from /\ Go(to)
  /\ want' \in Targets
  /\ saved' = table /\ before' = data
  /\ UNCHANGED <<disk, listed, node>>

\* RunProvision's CarveHardwarePartitionAtBoundary: swapoff -a, then look.
CallCarve == Call(0, "look")

\* ShrinkAndAllocate.
CallShrink == \E n \in DOMAIN table : data[table[n].first] # "swap" /\ Call(n, "shrink")

\* PlanShrink and ApplyShrink: the file system of a partition that is not
\* mounted ends earlier, the partition does not.  Every failure is only
\* logged.
Shrink ==
  /\ pc = "shrink" /\ Go("look")
  /\ \/ source \notin mounted /\ fsEnd' \in table[source].first .. table[source].last - 1
     \/ UNCHANGED fsEnd
  /\ UNCHANGED <<label, table, data, mounted, source, want, listed, node, saved,
                 before, calls>>

\* The choice.  targetBytes = 0 never counts as headroom.
Look ==
  /\ pc = "look" /\ listed' = table
  /\ \/ want > 0 /\ Headroom(want) /\ Go("free") /\ UNCHANGED node
     \/ /\ Cardinality(DOMAIN table) >= 2
        /\ node' \in Trailing(table, data)
        /\ IF want > 0 /\ Length(table[node']) < want THEN Go("failed") ELSE Go("remove")
     \/ /\ Cardinality(DOMAIN table) < 2 \/ Trailing(table, data) = {}
        /\ Go("free") /\ UNCHANGED node
  /\ UNCHANGED <<disk, source, want, saved, before, calls>>

\* The look at a disk whose listing cannot be read.
Unreadable ==
  /\ pc \in {"look", "free"} /\ Go("failed")
  /\ UNCHANGED <<disk, source, want, listed, node, saved, before, calls>>

\* parted rm, whose failure is ignored: a mounted partition is refused.
Remove ==
  /\ pc = "remove" /\ Go("remake")
  /\ \/ node \notin mounted /\ table' = Without(table, node)
     \/ UNCHANGED table
  /\ UNCHANGED <<label, data, mounted, fsEnd, source, want, listed, node, saved,
                 before, calls>>

\* From behind the partition before it to the end of the disk.
Remake ==
  /\ pc = "remake"
  /\ \/ \E prev \in End(Without(listed, node)), end \in {DiskEnd, FallbackEnd} :
          Makes(prev + 1, end) /\ Go("format")
     \/ Go("failed") /\ UNCHANGED table
  /\ UNCHANGED <<label, data, mounted, fsEnd, source, want, listed, node, saved,
                 before, calls>>

\* A carve that counts the partitions instead of reading their numbers.
FreeByCount ==
  /\ pc = "free" /\ listed' = table
  /\ node' = Cardinality(DOMAIN table) + 1
  /\ \/ /\ label = "msdos" => node' <= 4
        /\ \E prev \in End(table) : \E end \in {DiskEnd, prev + want, want} :
             Makes(prev + 1, end)
        /\ IF node' \in DOMAIN table' THEN Go("format") ELSE Go("failed")
     \/ Go("failed") /\ UNCHANGED table
  /\ UNCHANGED <<label, data, mounted, fsEnd, source, want, saved, before, calls>>

\* CarvePartitionInFreeSpace.  parted takes "+<n>GB" for a distance or for a
\* place on the disk; when it refuses it, the partition goes to the end.  The
\* node to format is named after the highest number, not after the one made.
Free ==
  /\ pc = "free" /\ listed' = table
  /\ \E highest \in Highest(table) : node' = highest + 1
  /\ \/ /\ label = "msdos" => node' <= 4
        /\ \E prev \in End(table) : \E end \in {DiskEnd, prev + want, want} :
             Makes(prev + 1, end)
        /\ IF node' \in DOMAIN table' THEN Go("format") ELSE Go("failed")
     \/ Go("failed") /\ UNCHANGED table
  /\ UNCHANGED <<label, data, mounted, fsEnd, source, want, saved, before, calls>>

\* A carve that reports its partition whatever mkfs says.
FormatAnyway ==
  /\ pc = "format" /\ Go("ok")
  /\ Formats(node) \/ UNCHANGED data
  /\ UNCHANGED <<label, table, mounted, fsEnd, source, want, listed, node, saved,
                 before, calls>>

Format ==
  /\ pc = "format"
  /\ \/ Formats(node) /\ Go("ok")
     \/ Go("failed") /\ UNCHANGED data
  /\ UNCHANGED <<label, table, mounted, fsEnd, source, want, listed, node, saved,
                 before, calls>>

\* RollbackPartitionShrink, for a call that failed or a run that failed later.
Rollback ==
  /\ pc \in {"ok", "failed"} /\ table # saved
  /\ table' = saved /\ Go("idle")
  /\ UNCHANGED <<label, data, mounted, fsEnd, source, want, listed, node, saved,
                 before, calls>>

Next ==
  \/ CallCarve \/ CallShrink \/ Shrink \/ Look \/ Unreadable
  \/ Remove \/ Remake \/ Free \/ Format \/ Rollback

Spec == Init /\ [][Next]_vars

-----------------------------------------------------------------------------

\* Whatever a call meets and however it ends, a partition that is in use,
\* that is not physically last, or that is neither swap nor number 3, keeps
\* its number, its place and every block of its data.
NeighboursSurvive ==
  \A n \in Safe(saved, before) :
    /\ n \in DOMAIN table /\ table[n] = saved[n]
    /\ \A u \in Span(saved[n]) : data[u] = before[u]

\* A partition that is handed to the deployment was made by this call, holds
\* nothing but its new file system and shares no unit with another one.
ResultIsItsOwn ==
  pc = "ok" =>
    /\ node \in DOMAIN table /\ node \notin Safe(saved, before)
    /\ \A u \in Span(table[node]) : data[u] = "new"
    /\ Disjoint(table)

\* engine/partition.go:1 calls this a non-destructive engine, and the comment
\* at 235 says what it takes: trailing swap.
NonDestructive ==
  \A n \in DOMAIN saved : before[saved[n].first] # "swap" =>
    \A u \in Span(saved[n]) : data[u] = before[u]
=============================================================================
