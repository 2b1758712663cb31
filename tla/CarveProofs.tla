----------------------------- MODULE CarveProofs -----------------------------
(***************************************************************************)
(* Machine-checked proofs about Carve, for disks of every size, every      *)
(* table on them and every outcome of the tools: what a call may take, and *)
(* that what it hands over is its own.                                     *)
(***************************************************************************)
EXTENDS Carve, TLAPS

(***************************************************************************)
(* Lemmas about tables.                                                    *)
(***************************************************************************)

\* A table gives regions to some of the numbers ...
LEMMA TableParts ==
  ASSUME NEW t \in Tables
  PROVE  /\ DOMAIN t \subseteq Numbers
         /\ t = [n \in DOMAIN t |-> t[n]]
         /\ \A n \in DOMAIN t :
              t[n] \in Regions /\ t[n].first \in Nat /\ t[n].last \in Nat /\ Span(t[n]) \subseteq Units
<1>1. PICK ns \in SUBSET Numbers : t \in [ns -> Regions]
  BY DEF Tables
<1>2. DOMAIN t = ns /\ t = [n \in DOMAIN t |-> t[n]] /\ \A n \in DOMAIN t : t[n] \in Regions
  BY <1>1
<1>3. ASSUME NEW r \in Regions
      PROVE  r.first \in Nat /\ r.last \in Nat /\ Span(r) \subseteq Units
  <2>1. r.first \in 1 .. DiskEnd /\ r.last \in 1 .. DiskEnd
    BY <1>3 DEF Regions, Units
  <2>2. QED
    BY <2>1, DiskAssumption DEF Span, Units
<1>4. QED
  BY <1>2, <1>3

\* ... and every such function is one.
LEMMA TableOf ==
  ASSUME NEW ns \in SUBSET Numbers, NEW f, f \in [ns -> Regions]
  PROVE  f \in Tables
BY DEF Tables

\* Two regions overlap exactly if they share a unit.
LEMMA OverlapShares ==
  ASSUME NEW r \in Regions, NEW s \in Regions
  PROVE  Overlap(r, s) <=> Span(r) \intersect Span(s) # {}
<1>1. r.first \in Nat /\ r.last \in Nat /\ s.first \in Nat /\ s.last \in Nat
      /\ r.first <= r.last /\ s.first <= s.last
  BY DiskAssumption DEF Regions, Units
<1>2. CASE Overlap(r, s)
  <2>1. CASE r.first <= s.first
    BY <1>1, <1>2, <2>1 DEF Overlap, Span
  <2>2. CASE s.first <= r.first
    BY <1>1, <1>2, <2>2 DEF Overlap, Span
  <2>3. QED
    BY <1>1, <2>1, <2>2
<1>3. CASE ~ Overlap(r, s)
  BY <1>1, <1>3 DEF Overlap, Span
<1>4. QED
  BY <1>2, <1>3

\* Taking a partition out of a table leaves a table, disjoint if it was, with
\* the other partitions as they were.
LEMMA WithoutProperties ==
  ASSUME NEW t \in Tables, NEW n
  PROVE  /\ Without(t, n) \in Tables
         /\ DOMAIN Without(t, n) = DOMAIN t \ {n}
         /\ \A m \in DOMAIN t \ {n} : Without(t, n)[m] = t[m]
         /\ Disjoint(t) => Disjoint(Without(t, n))
<1>1. /\ DOMAIN Without(t, n) = DOMAIN t \ {n}
      /\ \A m \in DOMAIN t \ {n} : Without(t, n)[m] = t[m]
  BY DEF Without
<1>2. Without(t, n) \in Tables
  <2>1. Without(t, n) \in [DOMAIN t \ {n} -> Regions]
    BY TableParts DEF Without
  <2>2. DOMAIN t \ {n} \in SUBSET Numbers
    BY TableParts
  <2>3. QED
    BY <2>1, <2>2, TableOf
<1>3. Disjoint(t) => Disjoint(Without(t, n))
  BY <1>1 DEF Disjoint
<1>4. QED
  BY <1>1, <1>2, <1>3

\* mkpart adds one partition to a table, on units nobody had, under a number
\* nobody had, and leaves the others alone.
LEMMA MakesProperties ==
  ASSUME table \in Tables, NEW first, NEW last, Makes(first, last)
  PROVE  /\ table' \in Tables
         /\ DOMAIN table \subseteq DOMAIN table'
         /\ \A n \in DOMAIN table : table'[n] = table[n]
         /\ Disjoint(table) => Disjoint(table')
<1>1. /\ first \in Units /\ last \in Units /\ first <= last
      /\ first .. last \intersect Taken(table) = {}
  BY DEF Makes
<1> DEFINE r == [first |-> first, last |-> last]
<1>2. PICK new \in Numbers \ DOMAIN table :
        table' = [n \in DOMAIN table \union {new} |-> IF n = new THEN r ELSE table[n]]
  BY DEF Makes
<1>3. r \in Regions /\ Span(r) = first .. last
  BY <1>1 DEF Regions, Span
<1>4. /\ DOMAIN table' = DOMAIN table \union {new} /\ table'[new] = r
      /\ \A n \in DOMAIN table : table'[n] = table[n]
  BY <1>2
<1>5. /\ DOMAIN table \subseteq Numbers
      /\ \A n \in DOMAIN table : table[n] \in Regions /\ Span(table[n]) \subseteq Taken(table)
  BY TableParts DEF Taken
<1> HIDE DEF r
<1>6. table' \in Tables
  <2>1. table' \in [DOMAIN table \union {new} -> Regions]
    BY <1>2, <1>3, <1>5
  <2>2. QED
    BY <2>1, <1>2, <1>5, TableOf
<1>7. ASSUME NEW n \in DOMAIN table
      PROVE  ~ Overlap(table[n], r) /\ ~ Overlap(r, table[n])
  <2>1. Span(table[n]) \intersect Span(r) = {}
    BY <1>1, <1>3, <1>5
  <2>2. QED
    BY <2>1, <1>3, <1>5, OverlapShares
<1>8. Disjoint(table) => Disjoint(table')
  BY <1>4, <1>7 DEF Disjoint
<1>9. QED
  BY <1>4, <1>6, <1>8

-----------------------------------------------------------------------------
(***************************************************************************)
(* The inductive invariant.  Until a call changes the table, it is the one *)
(* that was saved; what it takes out is the trailing partition of that     *)
(* table; and what it formats is a partition it may take, unless it is in  *)
(* use and mkfs refuses it.                                                *)
(***************************************************************************)

Untouched == pc \in {"shrink", "look", "remove", "free"} => table = saved /\ data = before
ShrinksItsOwn == pc = "shrink" => source \in DOMAIN table
TakesTrailing == pc \in {"remove", "remake"} => node \in Trailing(saved, before)
FormatsNoSafe == pc = "format" /\ node \notin mounted => node \notin Safe(saved, before)

CarveInv ==
  /\ TypeOK /\ Disjoint(table) /\ Disjoint(saved)
  /\ Untouched /\ ShrinksItsOwn /\ TakesTrailing /\ FormatsNoSafe
  /\ NeighboursSurvive /\ ResultIsItsOwn

\* A number in use never is one a call may touch.
LEMMA MountedIsSafe ==
  ASSUME NEW t, NEW d, NEW n \in DOMAIN t, n \in mounted
  PROVE  n \in Safe(t, d)
BY DEF Safe

\* A table that keeps the safe partitions, with their data.
LEMMA KeepsSafe ==
  ASSUME NeighboursSurvive, data' = data, UNCHANGED <<saved, before, mounted>>,
         \A n \in Safe(saved, before) :
           n \in DOMAIN table => n \in DOMAIN table' /\ table'[n] = table[n]
  PROVE  NeighboursSurvive'
BY DEF NeighboursSurvive, Safe, Trailing, Last

LEMMA CarveInit == Init => CarveInv
<1> SUFFICES ASSUME Init PROVE CarveInv
  OBVIOUS
<1>1. TypeOK
  <2>1. PICK kind \in [DOMAIN table -> {"fs", "swap"}] :
          /\ data = [u \in Units |-> IF \E n \in DOMAIN table : u \in Span(table[n])
                                  THEN kind[CHOOSE n \in DOMAIN table : u \in Span(table[n])]
                                  ELSE "none"]
          /\ mounted \in SUBSET {n \in DOMAIN table : kind[n] # "swap"}
    BY DEF Init
  <2>2. data \in [Units -> Kinds]
    BY <2>1 DEF Kinds
  <2>3. table \in Tables /\ mounted \subseteq Numbers
    BY <2>1, TableParts DEF Init
  <2>4. QED
    BY <2>2, <2>3, MaxCarvesAssumption DEF Init, TypeOK
<1>2. NeighboursSurvive
  BY DEF Init, NeighboursSurvive, Safe
<1>3. QED
  BY <1>1, <1>2 DEF Init, CarveInv, Untouched, ShrinksItsOwn, TakesTrailing, FormatsNoSafe, ResultIsItsOwn

LEMMA CallKeeps ==
  ASSUME CarveInv, NEW from \in Numbers \union {0}, NEW to \in {"shrink", "look"}, Call(from, to),
         to = "shrink" => from \in DOMAIN table
  PROVE  CarveInv'
<1>1. TypeOK'
  BY TargetsAssumption, MaxCarvesAssumption DEF CarveInv, TypeOK, Call, Go, disk
<1>2. /\ table' = table /\ data' = data /\ saved' = table' /\ before' = data'
      /\ pc' \in {"shrink", "look"} /\ (pc' = "shrink" => source' \in DOMAIN table')
  BY DEF Call, Go, disk
<1>3. NeighboursSurvive'
  BY <1>2 DEF NeighboursSurvive, Safe
<1>4. QED
  BY <1>1, <1>2, <1>3 DEF CarveInv, Untouched, ShrinksItsOwn, TakesTrailing, FormatsNoSafe,
                          ResultIsItsOwn, Disjoint

LEMMA ShrinkKeeps == CarveInv /\ Shrink => CarveInv'
<1> SUFFICES ASSUME CarveInv, Shrink PROVE CarveInv'
  OBVIOUS
<1>1. fsEnd' \in Nat
  <2>1. CASE fsEnd' \in table[source].first .. table[source].last - 1
    <3>1. source \in DOMAIN table
      BY DEF CarveInv, ShrinksItsOwn, Shrink
    <3>2. QED
      BY <2>1, <3>1, TableParts DEF CarveInv, TypeOK
  <2>2. QED
    BY <2>1 DEF CarveInv, TypeOK, Shrink
<1>2. TypeOK'
  BY <1>1 DEF CarveInv, TypeOK, Shrink, Go
<1>3. NeighboursSurvive'
  BY KeepsSafe DEF CarveInv, Shrink
<1>4. QED
  BY <1>2, <1>3 DEF CarveInv, Untouched, ShrinksItsOwn, TakesTrailing, FormatsNoSafe,
                    ResultIsItsOwn, Shrink, Go

LEMMA LookKeeps == CarveInv /\ Look => CarveInv'
<1> SUFFICES ASSUME CarveInv, Look PROVE CarveInv'
  OBVIOUS
<1>1. /\ table = saved /\ data = before
      /\ pc' \in {"free", "remove", "failed"}
      /\ UNCHANGED <<disk, source, want, saved, before, calls>> /\ listed' = table
      /\ node' = node \/ node' \in Trailing(table, data)
      /\ pc' = "remove" => node' \in Trailing(table, data)
  BY DEF CarveInv, Untouched, Look, Go
<1>2. TypeOK'
  <2>1. DOMAIN table \subseteq Nat
    BY TableParts, NumbersAssumption DEF CarveInv, TypeOK
  <2>2. node' \in Nat
    BY <1>1, <2>1 DEF CarveInv, TypeOK, Trailing, Last
  <2>3. QED
    BY <1>1, <2>2 DEF CarveInv, TypeOK, disk
<1>3. NeighboursSurvive'
  BY <1>1, KeepsSafe DEF CarveInv, disk
<1>4. QED
  BY <1>1, <1>2, <1>3 DEF CarveInv, Untouched, ShrinksItsOwn, TakesTrailing, FormatsNoSafe,
                          ResultIsItsOwn, disk

LEMMA UnreadableKeeps == CarveInv /\ Unreadable => CarveInv'
<1> SUFFICES ASSUME CarveInv, Unreadable PROVE CarveInv'
  OBVIOUS
<1>1. NeighboursSurvive'
  BY KeepsSafe DEF CarveInv, Unreadable, disk
<1>2. QED
  BY <1>1 DEF CarveInv, TypeOK, Untouched, ShrinksItsOwn, TakesTrailing, FormatsNoSafe,
              ResultIsItsOwn, Unreadable, Go, disk

LEMMA RemoveKeeps == CarveInv /\ Remove => CarveInv'
<1> SUFFICES ASSUME CarveInv, Remove PROVE CarveInv'
  OBVIOUS
<1>1. node \in Trailing(saved, before) /\ table = saved
  BY DEF CarveInv, TakesTrailing, Untouched, Remove
<1>2. /\ pc' = "remake"
      /\ UNCHANGED <<label, data, mounted, fsEnd, source, want, listed, node, saved,
                     before, calls>>
  BY DEF Remove, Go
<1>3. table' = table \/ (node \notin mounted /\ table' = Without(table, node))
  BY DEF Remove
<1>4. table' \in Tables /\ Disjoint(table')
  BY <1>3, WithoutProperties DEF CarveInv, TypeOK
<1>5. ASSUME NEW n \in Safe(saved, before), n \in DOMAIN table
      PROVE  n \in DOMAIN table' /\ table'[n] = table[n]
  <2>1. node \notin mounted => n # node
    BY <1>1, <1>5 DEF Safe
  <2>2. /\ DOMAIN Without(table, node) = DOMAIN table \ {node}
        /\ \A m \in DOMAIN table \ {node} : Without(table, node)[m] = table[m]
    BY WithoutProperties DEF CarveInv, TypeOK
  <2>3. CASE node \notin mounted /\ table' = Without(table, node)
    <3>1. n \in DOMAIN table \ {node}
      BY <1>5, <2>1, <2>3
    <3>2. QED
      BY <2>2, <2>3, <3>1
  <2>4. QED
    BY <1>3, <1>5, <2>3
<1>6. NeighboursSurvive'
  BY <1>2, <1>5, KeepsSafe DEF CarveInv
<1>7. TypeOK'
  BY <1>2, <1>4 DEF CarveInv, TypeOK
<1>8. QED
  BY <1>1, <1>2, <1>4, <1>6, <1>7 DEF CarveInv, Untouched, ShrinksItsOwn, TakesTrailing,
                                      FormatsNoSafe, ResultIsItsOwn

LEMMA RemakeKeeps == CarveInv /\ Remake => CarveInv'
<1> SUFFICES ASSUME CarveInv, Remake PROVE CarveInv'
  OBVIOUS
<1>1. node \in Trailing(saved, before)
  BY DEF CarveInv, TakesTrailing, Remake
<1>2. /\ pc' \in {"format", "failed"}
      /\ UNCHANGED <<label, data, mounted, fsEnd, source, want, listed, node, saved,
                     before, calls>>
  BY DEF Remake, Go
<1>3. table' = table \/ \E first, last : Makes(first, last)
  BY DEF Remake
<1>4. /\ table' \in Tables /\ Disjoint(table') /\ DOMAIN table \subseteq DOMAIN table'
      /\ \A n \in DOMAIN table : table'[n] = table[n]
  BY <1>3, MakesProperties DEF CarveInv, TypeOK
<1>5. NeighboursSurvive'
  BY <1>2, <1>4, KeepsSafe DEF CarveInv
<1>6. TypeOK'
  BY <1>2, <1>4 DEF CarveInv, TypeOK
<1>7. FormatsNoSafe'
  BY <1>1, <1>2 DEF FormatsNoSafe, Safe
<1>8. QED
  BY <1>2, <1>4, <1>5, <1>6, <1>7 DEF CarveInv, Untouched, ShrinksItsOwn, TakesTrailing,
                                      ResultIsItsOwn

LEMMA FreeKeeps == CarveInv /\ Free => CarveInv'
<1> SUFFICES ASSUME CarveInv, Free PROVE CarveInv'
  OBVIOUS
<1>1. table = saved
  BY DEF CarveInv, Untouched, Free
<1>2. /\ pc' \in {"format", "failed"} /\ listed' = table
      /\ UNCHANGED <<label, data, mounted, fsEnd, source, want, saved, before, calls>>
  BY DEF Free, Go
<1>3. table' = table \/ \E first, last : Makes(first, last)
  BY DEF Free
<1>4. /\ table' \in Tables /\ Disjoint(table') /\ DOMAIN table \subseteq DOMAIN table'
      /\ \A n \in DOMAIN table : table'[n] = table[n]
  BY <1>3, MakesProperties DEF CarveInv, TypeOK
<1>5. node' \in Nat /\ node' \notin DOMAIN saved
  <2>1. PICK highest \in Highest(table) : node' = highest + 1
    BY DEF Free
  <2>2. DOMAIN table \subseteq Nat
    BY TableParts, NumbersAssumption DEF CarveInv, TypeOK
  <2>3. highest \in Nat /\ \A n \in DOMAIN table : n <= highest
    BY <2>1, <2>2 DEF Highest
  <2>4. QED
    BY <1>1, <2>1, <2>2, <2>3
<1>6. NeighboursSurvive'
  BY <1>2, <1>4, KeepsSafe DEF CarveInv
<1>7. TypeOK'
  BY <1>2, <1>4, <1>5 DEF CarveInv, TypeOK
<1>8. FormatsNoSafe'
  BY <1>2, <1>5 DEF FormatsNoSafe, Safe
<1>9. QED
  BY <1>2, <1>4, <1>6, <1>7, <1>8 DEF CarveInv, Untouched, ShrinksItsOwn, TakesTrailing,
                                      ResultIsItsOwn

LEMMA FormatKeeps == CarveInv /\ Format => CarveInv'
<1> SUFFICES ASSUME CarveInv, Format PROVE CarveInv'
  OBVIOUS
<1>1. /\ pc' \in {"ok", "failed"}
      /\ UNCHANGED <<label, table, mounted, fsEnd, source, want, listed, node, saved,
                     before, calls>>
      /\ pc' = "ok" => Formats(node)
      /\ data' = data \/ Formats(node)
  BY DEF Format, Go
<1>2. ASSUME Formats(node)
      PROVE  /\ data' \in [Units -> Kinds]
             /\ node \in DOMAIN table /\ node \notin Safe(saved, before)
             /\ \A u \in Span(table[node]) : data'[u] = "new"
             /\ \A n \in DOMAIN table : n # node => \A u \in Span(table[n]) : data'[u] = data[u]
  <2>1. /\ node \in DOMAIN table /\ node \notin mounted
        /\ data' = [u \in Units |-> IF u \in Span(table[node]) THEN "new" ELSE data[u]]
    BY <1>2 DEF Formats
  <2>2. \A n \in DOMAIN table : Span(table[n]) \subseteq Units /\ table[n] \in Regions
    BY TableParts DEF CarveInv, TypeOK
  <2>3. data' \in [Units -> Kinds] /\ \A u \in Span(table[node]) : data'[u] = "new"
    BY <2>1, <2>2 DEF CarveInv, TypeOK, Kinds
  <2>4. ASSUME NEW n \in DOMAIN table, n # node, NEW u \in Span(table[n])
        PROVE  data'[u] = data[u]
    <3>1. ~ Overlap(table[n], table[node])
      BY <2>1, <2>4 DEF CarveInv, Disjoint
    <3>2. u \notin Span(table[node])
      BY <2>1, <2>2, <2>4, <3>1, OverlapShares
    <3>3. QED
      BY <2>1, <2>2, <2>4, <3>2
  <2>5. node \notin Safe(saved, before)
    BY <2>1 DEF CarveInv, FormatsNoSafe, Format
  <2>6. QED
    BY <2>1, <2>3, <2>4, <2>5
<1>3. TypeOK'
  BY <1>1, <1>2 DEF CarveInv, TypeOK
<1>4. NeighboursSurvive'
  <2>1. Safe(saved, before)' = Safe(saved, before)
    BY <1>1 DEF Safe, Trailing, Last
  <2>2. ASSUME NEW n \in Safe(saved, before)
        PROVE  /\ n \in DOMAIN table /\ table[n] = saved[n]
               /\ \A u \in Span(saved[n]) : data'[u] = before[u]
    <3>1. /\ n \in DOMAIN table /\ table[n] = saved[n]
          /\ \A u \in Span(saved[n]) : data[u] = before[u]
      BY <2>2 DEF CarveInv, NeighboursSurvive
    <3>2. QED
      BY <1>1, <1>2, <2>2, <3>1
  <2>3. QED
    BY <1>1, <2>1, <2>2 DEF NeighboursSurvive
<1>5. ResultIsItsOwn'
  BY <1>1, <1>2 DEF CarveInv, ResultIsItsOwn, Safe, Trailing, Last, Disjoint
<1>6. QED
  BY <1>1, <1>3, <1>4, <1>5 DEF CarveInv, Untouched, ShrinksItsOwn, TakesTrailing, FormatsNoSafe

LEMMA RollbackKeeps == CarveInv /\ Rollback => CarveInv'
<1> SUFFICES ASSUME CarveInv, Rollback PROVE CarveInv'
  OBVIOUS
<1>1. /\ table' = saved /\ pc' = "idle"
      /\ UNCHANGED <<label, data, mounted, fsEnd, source, want, listed, node, saved,
                     before, calls>>
  BY DEF Rollback, Go
<1>2. NeighboursSurvive'
  BY <1>1 DEF CarveInv, NeighboursSurvive, Safe, Trailing, Last
<1>3. QED
  BY <1>1, <1>2 DEF CarveInv, TypeOK, Untouched, ShrinksItsOwn, TakesTrailing, FormatsNoSafe,
                    ResultIsItsOwn

LEMMA CarveStep == CarveInv /\ [Next]_vars => CarveInv'
<1> SUFFICES ASSUME CarveInv, [Next]_vars PROVE CarveInv'
  OBVIOUS
<1>1. CASE CallCarve
  BY <1>1, CallKeeps DEF CallCarve
<1>2. CASE CallShrink
  <2>1. PICK n \in DOMAIN table : Call(n, "shrink")
    BY <1>2 DEF CallShrink
  <2>2. n \in Numbers
    BY TableParts DEF CarveInv, TypeOK
  <2>3. QED
    BY <2>1, <2>2, CallKeeps
<1>3. CASE UNCHANGED vars
  BY <1>3 DEF vars, CarveInv, TypeOK, Untouched, ShrinksItsOwn, TakesTrailing, FormatsNoSafe,
              NeighboursSurvive, ResultIsItsOwn, Safe, Trailing, Last, Disjoint
<1>4. QED
  BY <1>1, <1>2, <1>3, ShrinkKeeps, LookKeeps, UnreadableKeeps, RemoveKeeps, RemakeKeeps,
     FreeKeeps, FormatKeeps, RollbackKeeps DEF Next

-----------------------------------------------------------------------------

\* The invariant holds for every disk, every table and every outcome of the
\* tools that partition.go runs.
LEMMA CarveInvariant == Spec => []CarveInv
BY CarveInit, CarveStep, PTL DEF Spec

\* Every variable keeps its type: a table gives regions of the disk to
\* numbers, whatever parted is asked for.
THEOREM CarveTypes == Spec => []TypeOK
<1>1. CarveInv => TypeOK
  BY DEF CarveInv
<1>2. QED
  BY <1>1, CarveInvariant, PTL

\* CarveHardwarePartitionAtBoundary and ShrinkAndAllocate leave every
\* partition alone that is in use, is not physically last, or is neither
\* swap nor number 3.
THEOREM NeighboursAreSafe == Spec => []NeighboursSurvive
<1>1. CarveInv => NeighboursSurvive
  BY DEF CarveInv
<1>2. QED
  BY <1>1, CarveInvariant, PTL

\* The partition a successful call names was made by it, holds only its new
\* file system and overlaps no other.
THEOREM ResultIsOwn == Spec => []ResultIsItsOwn
<1>1. CarveInv => ResultIsItsOwn
  BY DEF CarveInv
<1>2. QED
  BY <1>1, CarveInvariant, PTL
=============================================================================
