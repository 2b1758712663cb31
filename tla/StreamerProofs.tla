--------------------------- MODULE StreamerProofs ---------------------------
(***************************************************************************)
(* Machine-checked proofs about Streamer, for any images, sizes, mirrors   *)
(* and orders: what is delivered, with and without a checksum, who pauses  *)
(* a call, and that no body overruns the image it is appended to.          *)
(***************************************************************************)
EXTENDS Streamer, TLAPS, WellFoundedInduction

(***************************************************************************)
(* Lemmas about contents.                                                  *)
(***************************************************************************)

\* n blocks of one image.
Run(n, image) == [i \in 1 .. n |-> image]

\* Receiving a block of a body of one image keeps the file and the rest of
\* the body apart at the place they were divided at.
LEMMA RunGrows ==
  ASSUME NEW image, NEW n \in Nat, NEW k \in Nat, k > 0
  PROVE  /\ Append(Run(n, image), Head(Run(k, image))) = Run(n + 1, image)
         /\ Tail(Run(k, image)) = Run(k - 1, image)
<1>1. Run(n, image) \in Seq({image}) /\ Len(Run(n, image)) = n
  BY DEF Run
<1>2. Run(k, image) \in Seq({image}) /\ Len(Run(k, image)) = k
  BY DEF Run
<1>3. Head(Run(k, image)) = image
  BY <1>2 DEF Run
<1>4. Append(Run(n, image), image) = Run(n + 1, image)
  BY <1>1 DEF Run
<1>5. Tail(Run(k, image)) = Run(k - 1, image)
  BY <1>2 DEF Run
<1>6. QED
  BY <1>3, <1>4, <1>5

\* A body is at its end where nothing of its run is left.
LEMMA RunEnds ==
  ASSUME NEW image, NEW k \in Nat, Run(k, image) = << >>
  PROVE  k = 0
<1>1. Len(Run(k, image)) = k
  BY DEF Run
<1>2. QED
  BY <1>1

-----------------------------------------------------------------------------
(***************************************************************************)
(* The inductive invariant.                                                *)
(***************************************************************************)

\* Results are seen between calls only.
Between == pc # "idle" => result = "none"

\* A body that begins the file is all of one image, also where it is divided
\* into what is written and what is to come.
Divided ==
  pc = "stream" /\ ~resumed =>
    \E n \in 0 .. Size : part = Run(n, Kind.image) /\ coming = Run(Size - n, Kind.image)

\* One that was delimited is whole when it ends.
Ends == pc = "check" /\ ~resumed /\ Kind.sized => part = Whole(Kind.image)

\* A pause is remembered only of a cancelled context.
Remembered == lastErr = "paused" => cancelled

StreamerInv ==
  /\ Between /\ Divided /\ Ends /\ Remembered
  /\ VerifiedDelivery /\ WholeUnlessResumed /\ PauseIsTheUsers

LEMMA StreamerInit == Init => StreamerInv
BY DEF Init, StreamerInv, Between, Divided, Ends, Remembered,
       VerifiedDelivery, WholeUnlessResumed, PauseIsTheUsers
-----------------------------------------------------------------------------
(***************************************************************************)
(* Every step preserves it.                                                *)
(***************************************************************************)

\* What the client and its environment do: between calls, or to the context.
LEMMA EnvironmentKeeps ==
  ASSUME StreamerInv, Environment
  PROVE  StreamerInv'
<1> USE DEF StreamerInv, Between, Divided, Ends, Remembered, VerifiedDelivery,
            WholeUnlessResumed, PauseIsTheUsers, call, files, stream, Kind
<1>1. ASSUME NEW o \in Orders, Call(o)
      PROVE  StreamerInv'
  BY <1>1 DEF Call
<1>2. CASE Consume \/ CleanUp \/ Leave
  BY <1>2 DEF Consume, CleanUp, Leave
<1>3. CASE Cancel
  BY <1>3 DEF Cancel
<1>4. CASE Crash
  BY <1>4 DEF Crash
<1>5. QED
  BY <1>1, <1>2, <1>3, <1>4 DEF Environment

\* A call that returns without a payload, or goes on to its next mirror.
LEMMA ReturnKeeps ==
  ASSUME StreamerInv, pc # "idle", UNCHANGED files, UNCHANGED hit,
         NEW r \in {"failed", "paused"}, Return(r), r = "paused" => cancelled
  PROVE  StreamerInv'
BY DEF StreamerInv, Between, Divided, Ends, Remembered, VerifiedDelivery,
       WholeUnlessResumed, PauseIsTheUsers, Return, files

LEMMA GoOnKeeps ==
  ASSUME StreamerInv, pc # "idle", NEW err, GoOn(err), err = "paused" => cancelled
  PROVE  StreamerInv'
BY DEF StreamerInv, Between, Divided, Ends, Remembered, VerifiedDelivery,
       WholeUnlessResumed, PauseIsTheUsers, GoOn, call

\* The way to a response.
LEMMA SearchKeeps ==
  ASSUME StreamerInv, CacheHit \/ CacheMiss \/ Probe \/ Try
  PROVE  StreamerInv'
<1> USE DEF StreamerInv, Between, Divided, Ends, Remembered, VerifiedDelivery,
            WholeUnlessResumed, PauseIsTheUsers, call, files, stream, Kind
<1>1. CASE CacheHit
  BY <1>1 DEF CacheHit, Return, Acceptable
<1>2. CASE CacheMiss \/ Probe
  BY <1>2 DEF CacheMiss, Probe
<1>3. CASE Try
  BY <1>3 DEF Try
<1>4. QED
  BY <1>1, <1>2, <1>3

\* A body begins: the file anew, or where .part ends and so not checked here.
LEMMA BeginKeeps ==
  ASSUME StreamerInv, OpenLocal \/ PartialContent \/ OkContent
  PROVE  StreamerInv'
<1>1. /\ pc = "connect" /\ pc' = "stream"
      /\ UNCHANGED <<call, queue, mirror, dest, lastErr>>
  BY DEF OpenLocal, PartialContent, OkContent, Streaming
<1>2. Divided'
  <2>1. CASE OpenLocal \/ OkContent
    <3>1. part' = << >> /\ coming' = Whole(Kind.image) /\ Kind' = Kind
      BY <1>1, <2>1 DEF OpenLocal, OkContent, Streaming, Kind
    <3>2. Run(0, Kind.image) = << >> /\ Run(Size - 0, Kind.image) = Whole(Kind.image)
      BY SizesAssumption DEF Run, Whole
    <3>3. QED
      BY <3>1, <3>2, SizesAssumption DEF Divided
  <2>2. CASE PartialContent
    BY <2>2 DEF PartialContent, Streaming, Divided
  <2>3. QED
    BY <2>1, <2>2
<1>3. (Between /\ Ends /\ Remembered /\ VerifiedDelivery /\ WholeUnlessResumed
        /\ PauseIsTheUsers)'
  BY <1>1 DEF StreamerInv, Between, Ends, Remembered, VerifiedDelivery,
              WholeUnlessResumed, PauseIsTheUsers, call
<1>4. QED
  BY <1>2, <1>3 DEF StreamerInv

\* The body arrives and ends.
LEMMA ReceiveKeeps ==
  ASSUME StreamerInv, Receive
  PROVE  StreamerInv'
<1>1. /\ pc = "stream" /\ coming # << >> /\ pc' = pc
      /\ part' = Append(part, Head(coming)) /\ coming' = Tail(coming)
      /\ UNCHANGED <<call, queue, mirror, resumed, dest, lastErr>>
  BY DEF Receive
<1>2. Divided'
  <2>1. SUFFICES ASSUME ~resumed
                 PROVE  \E n \in 0 .. Size : part' = Run(n, Kind.image)
                                             /\ coming' = Run(Size - n, Kind.image)
    BY <1>1 DEF Divided, Kind
  <2>2. PICK n \in 0 .. Size : part = Run(n, Kind.image) /\ coming = Run(Size - n, Kind.image)
    BY <1>1, <2>1 DEF StreamerInv, Divided
  <2>3. n < Size
    <3>1. Run(0, Kind.image) = << >>
      BY DEF Run
    <3>2. n = Size => Size - n = 0
      BY <2>2, SizesAssumption
    <3>3. n # Size
      BY <1>1, <2>2, <3>1, <3>2
    <3>4. QED
      BY <3>3, SizesAssumption
  <2>4. n \in Nat /\ Size - n \in Nat /\ Size - n > 0
    BY <2>3, SizesAssumption
  <2>5. part' = Run(n + 1, Kind.image) /\ coming' = Run((Size - n) - 1, Kind.image)
    BY <1>1, <2>2, <2>4, RunGrows
  <2>6. n + 1 \in 0 .. Size /\ (Size - n) - 1 = Size - (n + 1)
    BY <2>3, SizesAssumption
  <2>7. QED
    BY <2>5, <2>6
<1>3. (Between /\ Ends /\ Remembered /\ VerifiedDelivery /\ WholeUnlessResumed
        /\ PauseIsTheUsers)'
  BY <1>1 DEF StreamerInv, Between, Ends, Remembered, VerifiedDelivery,
              WholeUnlessResumed, PauseIsTheUsers, call
<1>4. QED
  BY <1>2, <1>3 DEF StreamerInv

LEMMA EndOfBodyKeeps ==
  ASSUME StreamerInv, EndOfBody
  PROVE  StreamerInv'
<1>1. /\ pc = "stream" /\ pc' = "check" /\ Kind' = Kind
      /\ coming = << >> \/ ~Kind.sized
      /\ UNCHANGED <<call, queue, mirror, resumed, files, lastErr>>
  BY DEF EndOfBody, Kind
<1>2. Ends'
  <2>1. SUFFICES ASSUME ~resumed, coming = << >>
                 PROVE  part = Whole(Kind.image)
    BY <1>1 DEF Ends, files
  <2>2. PICK n \in 0 .. Size : part = Run(n, Kind.image) /\ coming = Run(Size - n, Kind.image)
    BY <1>1, <2>1 DEF StreamerInv, Divided
  <2>3. Size - n = 0
    BY <2>1, <2>2, RunEnds, SizesAssumption
  <2>4. QED
    BY <2>2, <2>3, SizesAssumption DEF Run, Whole
<1>3. (Between /\ Divided /\ Remembered /\ VerifiedDelivery /\ WholeUnlessResumed
        /\ PauseIsTheUsers)'
  BY <1>1 DEF StreamerInv, Between, Divided, Remembered, VerifiedDelivery,
              WholeUnlessResumed, PauseIsTheUsers, call, files
<1>4. QED
  BY <1>2, <1>3 DEF StreamerInv

\* The file is delivered, or is not what was ordered.
LEMMA CheckKeeps ==
  ASSUME StreamerInv, Mismatch \/ CommitFails \/ Commit
  PROVE  StreamerInv'
<1>1. CASE Mismatch
  BY <1>1, GoOnKeeps DEF Mismatch
<1>2. CASE CommitFails
  BY <1>2, GoOnKeeps, ReturnKeeps DEF CommitFails
<1>3. CASE Commit
  <2>1. /\ pc = "check" /\ Matches /\ pc' = "idle" /\ result' = "ok" /\ dest' = part
        /\ UNCHANGED <<order, hit, cancelled, mirror, resumed, lastErr>>
    BY <1>3 DEF Commit, Return
  <2>2. VerifiedDelivery'
    BY <2>1 DEF Matches, VerifiedDelivery, Whole
  <2>3. WholeUnlessResumed'
    BY <2>1 DEF StreamerInv, Ends, WholeUnlessResumed, Whole, Kind
  <2>4. (Between /\ Divided /\ Ends /\ Remembered /\ PauseIsTheUsers)'
    BY <2>1 DEF StreamerInv, Between, Divided, Ends, Remembered, PauseIsTheUsers
  <2>5. QED
    BY <2>2, <2>3, <2>4 DEF StreamerInv
<1>4. QED
  BY <1>1, <1>2, <1>3

LEMMA StreamerStep == StreamerInv /\ [Next]_vars => StreamerInv'
<1> SUFFICES ASSUME StreamerInv, [Next]_vars
             PROVE  StreamerInv'
  OBVIOUS
<1>1. CASE CacheHit \/ CacheMiss \/ Probe \/ Try
  BY <1>1, SearchKeeps
<1>2. CASE Exhausted
  BY <1>2, ReturnKeeps DEF Exhausted, StreamerInv, Remembered
<1>3. CASE PausedBetween \/ PausedConnecting
  BY <1>3, ReturnKeeps DEF PausedBetween, PausedConnecting
<1>4. CASE OpenLocal \/ PartialContent \/ OkContent
  BY <1>4, BeginKeeps
<1>5. CASE NoContent \/ Drop
  BY <1>5, GoOnKeeps DEF NoContent, Drop
<1>6. CASE Receive
  BY <1>6, ReceiveKeeps
<1>7. CASE PausedStreaming
  BY <1>7, GoOnKeeps, ReturnKeeps DEF PausedStreaming
<1>8. CASE EndOfBody
  BY <1>8, EndOfBodyKeeps
<1>9. CASE Mismatch \/ CommitFails \/ Commit
  BY <1>9, CheckKeeps
<1>10. CASE Environment
  BY <1>10, EnvironmentKeeps
<1>11. CASE UNCHANGED vars
  BY <1>11 DEF vars, StreamerInv, Between, Divided, Ends, Remembered, VerifiedDelivery,
               WholeUnlessResumed, PauseIsTheUsers, Kind
<1>12. QED
  BY <1>1, <1>2, <1>3, <1>4, <1>5, <1>6, <1>7, <1>8, <1>9, <1>10, <1>11 DEF Next, Step

LEMMA StreamerInvariant == Spec => []StreamerInv
<1>1. QED
  BY StreamerInit, StreamerStep, PTL DEF Spec

-----------------------------------------------------------------------------
(***************************************************************************)
(* Types.                                                                  *)
(***************************************************************************)

LEMMA ContentsAre == Contents = {s \in Seq(Blocks) : Len(s) \in 0 .. Size}
BY SizesAssumption DEF Contents

LEMMA RunIsContent ==
  ASSUME NEW block \in Blocks, NEW n \in 0 .. Size
  PROVE  Run(n, block) \in Contents /\ Len(Run(n, block)) = n
BY SizesAssumption, ContentsAre DEF Run

LEMMA RestIsContent ==
  ASSUME NEW body \in Contents, body # << >>
  PROVE  /\ Tail(body) \in Contents /\ Len(Tail(body)) = Len(body) - 1
         /\ Head(body) \in Blocks
<1>1. body \in Seq(Blocks) /\ Len(body) \in 0 .. Size /\ Len(body) # 0
  BY ContentsAre
<1>2. Tail(body) \in Seq(Blocks) /\ Len(Tail(body)) = Len(body) - 1 /\ Head(body) \in Blocks
  BY <1>1
<1>3. Len(body) - 1 \in 0 .. Size
  BY <1>1, SizesAssumption
<1>4. QED
  BY <1>2, <1>3, ContentsAre

\* Induction over the naturals, as the least element of a set of them.
LEMMA Least ==
  ASSUME NEW T, T \subseteq Nat, T # {}
  PROVE  \E x \in T : \A y \in T : x <= y
<1>1. IsWellFoundedOn(OpToRel(<, Nat), Nat)
  BY NatLessThanWellFounded
<1>2. PICK x \in T : \A y \in T : ~ (<<y, x>> \in OpToRel(<, Nat))
  BY <1>1, WFMin
<1>3. \A y \in T : ~ (y < x)
  BY <1>2 DEF OpToRel
<1> QED
  BY <1>3

\* What is kept of a list comes from it.
LEMMA KeptAreListed ==
  ASSUME NEW S, NEW ms, NEW listed \in Seq(S)
  PROVE  Only(ms, listed) \in Seq(S)
<1> DEFINE Next1(prev, i) == IF listed[i] \in ms THEN Append(prev, listed[i]) ELSE prev
           Is(f, n) == f = [i \in 0 .. n |-> IF i = 0 THEN <<>> ELSE Next1(f[i - 1], i)]
<1>0. Len(listed) \in Nat
  OBVIOUS
<1>1. \A n \in 0 .. Len(listed) : \E f : Is(f, n)
  <2> DEFINE T == {n \in 0 .. Len(listed) : ~ \E f : Is(f, n)}
  <2> SUFFICES ASSUME T # {} PROVE FALSE
    OBVIOUS
  <2>0. T \subseteq Nat
    OBVIOUS
  <2>1. PICK x \in T : \A y \in T : x <= y
    <3> HIDE DEF T
    <3> QED
      BY <2>0, Least
  <2>2. x # 0
    <3>1. Is([i \in 0 .. 0 |-> <<>>], 0)
      OBVIOUS
    <3> QED
      BY <3>1
  <2>3. x - 1 \in 0 .. Len(listed) /\ x - 1 \notin T /\ x \in Nat
    <3>1. x \in 0 .. Len(listed)
      OBVIOUS
    <3>2. x - 1 \in 0 .. Len(listed) /\ x \in Nat /\ ~ (x <= x - 1)
      BY <1>0, <2>2, <3>1
    <3> HIDE DEF T
    <3> QED
      BY <2>1, <3>2
  <2>4. PICK f : Is(f, x - 1)
    BY <2>3
  <2> DEFINE g == [i \in 0 .. x |-> IF i = x THEN Next1(f[x - 1], x) ELSE f[i]]
  <2>5. Is(g, x)
    <3> HIDE DEF Next1
    <3>1. \A i \in 0 .. x : g[i] = IF i = 0 THEN <<>> ELSE Next1(g[i - 1], i)
      <4> TAKE i \in 0 .. x
      <4>1. CASE i = x
        BY <2>2, <2>3, <4>1
      <4>2. CASE i # x
        BY <2>3, <2>4, <4>2
      <4> QED
        BY <4>1, <4>2
    <3> QED
      BY <3>1
  <2> QED
    BY <2>5
<1> DEFINE kept == CHOOSE f : Is(f, Len(listed))
<1>2. Is(kept, Len(listed))
  <2> HIDE DEF Is
  <2>0. Len(listed) \in 0 .. Len(listed)
    BY <1>0
  <2>1. \E f : Is(f, Len(listed))
    BY <1>1, <2>0
  <2> QED
    BY <2>1
<1>3. Only(ms, listed) = kept[Len(listed)]
  BY DEF Only
<1> HIDE DEF kept
<1>4. \A n \in 0 .. Len(listed) : kept[n] \in Seq(S)
  <2> DEFINE T == {n \in 0 .. Len(listed) : kept[n] \notin Seq(S)}
  <2> SUFFICES ASSUME T # {} PROVE FALSE
    OBVIOUS
  <2>0. T \subseteq Nat
    OBVIOUS
  <2>1. PICK x \in T : \A y \in T : x <= y
    <3> HIDE DEF T
    <3> QED
      BY <2>0, Least
  <2>2. x # 0
    BY <1>2
  <2>3. x - 1 \in 0 .. Len(listed) /\ x - 1 \notin T /\ x \in 1 .. Len(listed)
    BY <2>1, <2>2
  <2>4. kept[x - 1] \in Seq(S) /\ listed[x] \in S
    BY <2>3
  <2>5. kept[x] = Next1(kept[x - 1], x)
    <3> HIDE DEF Next1
    <3> QED
      BY <1>2, <2>2, <2>3
  <2>6. kept[x] \in Seq(S)
    BY <2>4, <2>5
  <2> QED
    BY <2>6
<1> QED
  BY <1>0, <1>3, <1>4

\* Whichever mirrors seem alive, the calls' lists stay lists of mirrors.
LEMMA PrioritizedAreListed ==
  ASSUME order \in Orders, NEW alive \in SUBSET ToSet(order.mirrors)
  PROVE  Prioritized(alive) \subseteq Seq(Mirrors)
<1> DEFINE listed == order.mirrors
<1>1. listed \in Seq(Mirrors)
  BY OrdersAssumption DEF OrderType
<1>2. \A m \in Mirrors : <<m>> \in Seq(Mirrors)
  OBVIOUS
<1>3. alive \subseteq Mirrors
  BY <1>1 DEF ToSet
<1>4. \A best \in alive : <<best>> \o Only(alive \ {best}, listed) \in Seq(Mirrors)
  <2> TAKE best \in alive
  <2>1. Only(alive \ {best}, listed) \in Seq(Mirrors)
    BY <1>1, KeptAreListed
  <2>2. <<best>> \in Seq(Mirrors)
    BY <1>2, <1>3
  <2>3. QED
    BY <2>1, <2>2
<1>5. \A n \in DOMAIN listed : <<listed[n]>> \o listed \in Seq(Mirrors)
  <2> TAKE n \in DOMAIN listed
  <2>1. listed[n] \in Mirrors
    BY <1>1
  <2>2. <<listed[n]>> \in Seq(Mirrors)
    BY <1>2, <2>1
  <2> HIDE DEF listed
  <2>3. QED
    BY <1>1, <2>2
<1>6. QED
  BY <1>1, <1>4, <1>5 DEF Prioritized

LEMMA StreamerTypesInit == Init => TypeOK
<1> SUFFICES ASSUME Init PROVE TypeOK
  OBVIOUS
<1>1. << >> \in Contents /\ Len(<< >>) = 0
  BY SizesAssumption, ContentsAre
<1>2. << >> \in Seq(Mirrors)
  OBVIOUS
<1>3. Len(coming) + (IF pc = "stream" THEN Len(part) ELSE 0) <= Size
  BY <1>1, SizesAssumption DEF Init
<1>4. QED
  BY <1>1, <1>2, <1>3 DEF Init, TypeOK

\* What the client and its environment do, and the way to a response.
LEMMA OutsideTypes ==
  ASSUME TypeOK, Environment \/ CacheHit \/ CacheMiss \/ Probe \/ Try
  PROVE  TypeOK'
<1>0. << >> \in Contents /\ Len(<< >>) = 0 /\ << >> \in Seq(Mirrors)
  BY SizesAssumption, ContentsAre
<1>1. Len(coming) \in 0 .. Size
  BY ContentsAre DEF TypeOK
<1> USE DEF TypeOK, call, files, stream
<1>2. ASSUME NEW o \in Orders, Call(o) PROVE TypeOK'
  BY <1>1, <1>2 DEF Call
<1>3. CASE Consume \/ CleanUp \/ Leave
  BY <1>0, <1>1, <1>3 DEF Consume, CleanUp, Leave
<1>4. CASE Cancel
  BY <1>1, <1>4 DEF Cancel
<1>5. CASE Crash
  <2>1. Len(coming') + (IF pc' = "stream" THEN Len(part') ELSE 0) <= Size
    BY <1>0, <1>5, SizesAssumption DEF Crash
  <2>2. QED
    BY <1>0, <1>5, <2>1 DEF Crash
<1>6. CASE CacheHit
  BY <1>0, <1>6, SizesAssumption DEF CacheHit, Return
<1>7. CASE CacheMiss
  BY <1>1, <1>7 DEF CacheMiss
<1>8. CASE Probe
  BY <1>1, <1>8, PrioritizedAreListed DEF Probe
<1>9. CASE Try
  <2>1. Head(queue) \in Mirrors /\ Tail(queue) \in Seq(Mirrors)
    BY <1>9 DEF Try
  <2>2. QED
    BY <1>1, <1>9, <2>1 DEF Try
<1>10. QED
  BY <1>2, <1>3, <1>4, <1>5, <1>6, <1>7, <1>8, <1>9 DEF Environment

\* A call that ends, or goes on to its next mirror.
LEMMA LeaveTypes ==
  ASSUME TypeOK, part' \in Contents, dest' \in Contents, hit' \in BOOLEAN,
         \/ \E r \in {"ok", "paused", "failed"} : Return(r)
         \/ \E err \in {"error", "paused"} : GoOn(err)
  PROVE  TypeOK'
<1>1. << >> \in Contents /\ Len(<< >>) = 0 /\ << >> \in Seq(Mirrors)
  BY SizesAssumption, ContentsAre
<1>2. Len(coming') + (IF pc' = "stream" THEN Len(part') ELSE 0) <= Size
  BY <1>1, SizesAssumption DEF Return, GoOn
<1>3. QED
  BY <1>1, <1>2 DEF TypeOK, Return, GoOn, call

\* A body begins.  What is left of it and what is kept fit the image.
LEMMA BeginTypes ==
  ASSUME TypeOK, OpenLocal \/ PartialContent \/ OkContent
  PROVE  TypeOK'
<1>1. Kind \in KindType /\ Kind.image \in Blocks /\ junk \in Blocks
  BY ServesAssumption DEF TypeOK, Kind, KindType, Blocks
<1>2. part \in Contents /\ Len(part) \in 0 .. Size
  BY ContentsAre DEF TypeOK
<1>3. ASSUME NEW kept \in Contents, NEW block \in Blocks, NEW n \in 0 .. Size,
             n + Len(kept) <= Size, Streaming(kept, Run(n, block))
      PROVE  TypeOK'
  <2>1. Run(n, block) \in Contents /\ Len(Run(n, block)) = n
    BY RunIsContent
  <2>2. QED
    BY <1>3, <2>1 DEF TypeOK, Streaming, call
<1>4. CASE OpenLocal \/ OkContent
  <2>1. << >> \in Contents /\ Len(<< >>) = 0
    BY SizesAssumption, ContentsAre
  <2>2. Streaming(<< >>, Run(Size, Kind.image))
    BY <1>4 DEF OpenLocal, OkContent, Whole, Run
  <2>3. Size \in 0 .. Size /\ Size + 0 <= Size
    BY SizesAssumption
  <2>4. QED
    BY <1>1, <1>3, <2>1, <2>2, <2>3
<1>5. CASE PartialContent
  <2>1. Len(part) < ServedSize /\ Streaming(part, Resumed)
    BY <1>5 DEF PartialContent
  <2>2. CASE Kind.packed
    <3>1. Resumed = Run(PackedSize - Len(part), junk)
      BY <2>2 DEF Resumed, Run
    <3>2. PackedSize - Len(part) \in 0 .. Size /\ (PackedSize - Len(part)) + Len(part) <= Size
      BY <1>2, <2>1, <2>2, SizesAssumption DEF ServedSize
    <3>3. QED
      BY <1>1, <1>2, <1>3, <2>1, <3>1, <3>2
  <2>3. CASE ~Kind.packed
    <3>1. Resumed = Run(Size - Len(part), Kind.image)
      BY <2>3 DEF Resumed, Run
    <3>2. Size - Len(part) \in 0 .. Size /\ (Size - Len(part)) + Len(part) <= Size
      BY <1>2, SizesAssumption
    <3>3. QED
      BY <1>1, <1>2, <1>3, <2>1, <3>1, <3>2
  <2>4. QED
    BY <2>2, <2>3
<1>6. QED
  BY <1>4, <1>5

\* The body arrives and ends.
LEMMA BodyTypes ==
  ASSUME TypeOK, Receive \/ EndOfBody
  PROVE  TypeOK'
<1>1. CASE Receive
  <2>1. /\ pc = "stream" /\ pc' = pc /\ coming # << >> /\ part' = Append(part, Head(coming))
        /\ coming' = Tail(coming) /\ UNCHANGED <<call, queue, mirror, resumed, dest, lastErr>>
    BY <1>1 DEF Receive
  <2>2. /\ coming' \in Contents /\ Len(coming') = Len(coming) - 1 /\ Head(coming) \in Blocks
    BY <2>1, RestIsContent DEF TypeOK
  <2>3. part \in Seq(Blocks) /\ Len(part) \in Nat /\ Len(coming) \in Nat
        /\ Len(coming) + Len(part) <= Size /\ coming \in Seq(Blocks)
    BY <2>1, ContentsAre DEF TypeOK
  <2>4. Len(coming) > 0
    BY <2>1, <2>3
  <2>5. part' \in Seq(Blocks) /\ Len(part') = Len(part) + 1
    BY <2>1, <2>2, <2>3
  <2>6. Len(part') \in 0 .. Size /\ Len(coming') + Len(part') <= Size
    BY <2>2, <2>3, <2>4, <2>5, SizesAssumption
  <2>7. part' \in Contents
    BY <2>5, <2>6, ContentsAre
  <2>8. QED
    BY <2>1, <2>2, <2>6, <2>7 DEF TypeOK, call
<1>2. CASE EndOfBody
  <2>1. << >> \in Contents /\ Len(<< >>) = 0
    BY SizesAssumption, ContentsAre
  <2>2. QED
    BY <1>2, <2>1, SizesAssumption DEF EndOfBody, TypeOK, call, files
<1>3. QED
  BY <1>1, <1>2

LEMMA StreamerTypesStep == TypeOK /\ [Next]_vars => TypeOK'
<1> SUFFICES ASSUME TypeOK, [Next]_vars
             PROVE  TypeOK'
  OBVIOUS
<1>0. part \in Contents /\ dest \in Contents /\ << >> \in Contents /\ hit \in BOOLEAN
  BY SizesAssumption, ContentsAre DEF TypeOK
<1>1. CASE Environment \/ CacheHit \/ CacheMiss \/ Probe \/ Try
  BY <1>1, OutsideTypes
<1>2. CASE Exhausted \/ PausedBetween \/ PausedConnecting
  BY <1>0, <1>2, LeaveTypes DEF Exhausted, PausedBetween, PausedConnecting, files
<1>3. CASE OpenLocal \/ PartialContent \/ OkContent
  BY <1>3, BeginTypes
<1>4. CASE NoContent \/ Drop
  BY <1>0, <1>4, LeaveTypes DEF NoContent, Drop, files, GoOn, call
<1>5. CASE Receive \/ EndOfBody
  BY <1>5, BodyTypes
<1>6. CASE PausedStreaming
  BY <1>0, <1>6, LeaveTypes DEF PausedStreaming, files, GoOn, call
<1>7. CASE Mismatch
  BY <1>0, <1>7, LeaveTypes DEF Mismatch, GoOn, call
<1>8. CASE CommitFails
  BY <1>0, <1>8, LeaveTypes DEF CommitFails, files, GoOn, call
<1>9. CASE Commit
  BY <1>0, <1>9, LeaveTypes DEF Commit
<1>10. CASE UNCHANGED vars
  BY <1>10 DEF vars, TypeOK
<1>11. QED
  BY <1>1, <1>2, <1>3, <1>4, <1>5, <1>6, <1>7, <1>8, <1>9, <1>10 DEF Next, Step

-----------------------------------------------------------------------------

\* The files, the body of a response and the list of mirrors stay what they
\* are: in particular, a body never makes .part longer than the image, whatever
\* earlier calls left in it.
THEOREM StreamerTypes == Spec => []TypeOK
BY StreamerTypesInit, StreamerTypesStep, PTL DEF Spec

\* With a checksum, what a call delivers is the ordered image, for every list
\* of mirrors and every remains of earlier calls.
THEOREM DeliveryIsVerified == Spec => []VerifiedDelivery
BY StreamerInvariant, PTL DEF StreamerInv

\* Without one, a whole and delimited body of the ordered image is delivered
\* as it came, with nothing of earlier calls and mirrors in it.
THEOREM DeliveryIsWhole == Spec => []WholeUnlessResumed
BY StreamerInvariant, PTL DEF StreamerInv

\* A call reports a pause only when its own context has been cancelled.
THEOREM PauseIsAsked == Spec => []PauseIsTheUsers
BY StreamerInvariant, PTL DEF StreamerInv
=============================================================================
