------------------------------ MODULE Streamer ------------------------------
(***************************************************************************)
(* engine.StreamDownloadWithFailover (engine/streamer.go): one payload at  *)
(* one destination, fetched from a list of mirrors through a ".part" file  *)
(* that outlives pauses, failures and crashes, and that the next call      *)
(* resumes - whatever image it was begun for.                              *)
(*                                                                         *)
(* A file is the sequence of its blocks, and a block the image it belongs  *)
(* to; its position in the file is its position in the image.  The empty   *)
(* sequence is a file that is absent or empty: the code treats them alike. *)
(* SHA-256 is taken to tell any two contents apart.                        *)
(*                                                                         *)
(* The client is RunProvision and, after it, the wizard's                  *)
(* handleProvisionDone, which clean the two files up.                      *)
(***************************************************************************)
EXTENDS Naturals, Sequences, SequencesExt

CONSTANTS
  Images,      \* images that can be ordered
  junk,        \* a block of compressed data stored as if it were plain
  Size,        \* blocks of an image
  PackedSize,  \* blocks of its compressed form
  Mirrors,     \* sources, remote or local
  Serves,      \* [Mirrors -> KindType]: what each of them serves, and how
  Orders       \* calls: the image, whether its checksum is known, the mirrors

\* "sized": the end of the body can be told from a lost connection.
KindType == [image : Images, packed : BOOLEAN, range : BOOLEAN,
             sized : BOOLEAN, local : BOOLEAN]
OrderType == [image : Images, sha : BOOLEAN, mirrors : Seq(Mirrors)]

ASSUME SizesAssumption == Size \in Nat \ {0} /\ PackedSize \in 1 .. Size
ASSUME ServesAssumption == junk \notin Images /\ Serves \in [Mirrors -> KindType]
ASSUME OrdersAssumption ==
  \A o \in Orders : o \in OrderType /\ o.mirrors # << >>

VARIABLES
  pc,       \* "idle", or where the call is
  order,    \* the current, or last, call's parameters
  queue,    \* mirrors not yet tried, in the order the sentinel gave them
  mirror,   \* the mirror being tried
  coming,   \* blocks its response still holds
  part,     \* content of destPath + ".part"
  dest,     \* content of destPath
  cancelled,\* the context is cancelled
  lastErr,  \* the error the loop remembers: "none", "error" or "paused"
  result,   \* what the last call returned
  hit,      \* ... and whether the cache answered it
  resumed   \* the response's body is appended to what .part held

vars == <<pc, order, queue, mirror, coming, part, dest, cancelled, lastErr,
          result, hit, resumed>>

call == <<order, cancelled, result, hit>>
files == <<part, dest>>
stream == <<mirror, coming, resumed>>

Whole(image) == [i \in 1 .. Size |-> image]
Blocks == Images \cup {junk}
Contents == UNION {[1 .. n -> Blocks] : n \in 0 .. Size}

TypeOK ==
  /\ pc \in {"idle", "cache", "probe", "next", "connect", "stream", "check"}
  /\ order \in Orders
  /\ queue \in Seq(Mirrors) /\ mirror \in Mirrors
  /\ coming \in Contents /\ part \in Contents /\ dest \in Contents
  /\ Len(coming) + (IF pc = "stream" THEN Len(part) ELSE 0) <= Size
  /\ cancelled \in BOOLEAN /\ hit \in BOOLEAN /\ resumed \in BOOLEAN
  /\ lastErr \in {"none", "error", "paused"}
  /\ result \in {"none", "ok", "paused", "failed"}

Init ==
  /\ pc = "idle" /\ order \in Orders /\ queue = << >>
  /\ mirror \in Mirrors /\ coming = << >>
  /\ part = << >> /\ dest = << >>
  /\ cancelled = FALSE /\ lastErr = "none" /\ result = "none"
  /\ hit = FALSE /\ resumed = FALSE

-----------------------------------------------------------------------------
(* The client and its environment.                                          *)

\* A call; a successful or failed one before it has been cleaned up after.
Call(o) ==
  /\ pc = "idle" /\ result = "none"
  /\ pc' = "cache" /\ order' = o
  /\ cancelled' = FALSE /\ lastErr' = "none" /\ hit' = FALSE
  /\ resumed' = FALSE
  /\ UNCHANGED <<queue, mirror, coming, files, result>>

\* handleProvisionDone after a success.  A run that succeeds has both files
\* purged; one that fails after the download leaves the payload where it is.
Consume ==
  /\ pc = "idle" /\ result = "ok" /\ result' = "none"
  /\ part' = << >> /\ dest' \in {<< >>, dest}
  /\ UNCHANGED <<pc, order, cancelled, hit, queue, stream, lastErr>>

\* handleProvisionDone after a failure.
CleanUp ==
  /\ pc = "idle" /\ result = "failed" /\ result' = "none"
  /\ part' = << >>
  /\ UNCHANGED <<pc, order, cancelled, hit, queue, stream, dest, lastErr>>

\* The user returns to the Hub after a pause; both files stay.
Leave ==
  /\ pc = "idle" /\ result = "paused" /\ result' = "none"
  /\ UNCHANGED <<pc, order, cancelled, hit, queue, stream, files, lastErr>>

\* "p" or "s" on the progress screen.
Cancel ==
  /\ pc # "idle" /\ ~cancelled /\ cancelled' = TRUE
  /\ UNCHANGED <<pc, order, result, hit, queue, stream, files, lastErr>>

\* The process dies, in the call or in what follows a success; files stay.
Crash ==
  /\ pc # "idle" \/ result = "ok"
  /\ pc' = "idle" /\ result' = "none"
  /\ queue' = << >> /\ coming' = << >> /\ resumed' = FALSE
  /\ UNCHANGED <<order, cancelled, hit, mirror, files, lastErr>>

-----------------------------------------------------------------------------
(* The call.                                                                *)

\* The call's own variables go with it.
Return(r) ==
  /\ pc' = "idle" /\ result' = r
  /\ queue' = << >> /\ coming' = << >>
  /\ UNCHANGED <<order, cancelled, mirror, resumed, lastErr>>

\* The loop goes on to the next mirror, remembering why.
GoOn(err) ==
  /\ pc' = "next" /\ lastErr' = err
  /\ coming' = << >> /\ resumed' = FALSE
  /\ UNCHANGED <<call, queue, mirror>>

\* A fast path that asks for no more than a file.
AnyFile == dest # << >>

\* The file at the destination is accepted if it matches the checksum, or if
\* there is none to match.
Acceptable == dest # << >> /\ (order.sha => dest = Whole(order.image))

CacheHit ==
  /\ pc = "cache" /\ Acceptable
  /\ hit' = TRUE
  /\ Return("ok") /\ UNCHANGED files

CacheMiss ==
  /\ pc = "cache" /\ ~Acceptable /\ pc' = "probe"
  /\ UNCHANGED <<call, queue, stream, files, lastErr>>

Local(m) == Serves[m].local

\* The mirrors of a list that are in a set, in their order.
Only(ms, listed) ==
  LET kept[n \in 0 .. Len(listed)] ==
        IF n = 0 THEN << >>
        ELSE IF listed[n] \in ms THEN Append(kept[n - 1], listed[n]) ELSE kept[n - 1]
  IN kept[Len(listed)]

\* SelectBestMirror: a list of one is taken as it is, the first local file goes
\* first, otherwise the fastest of the live mirrors leads and the dead ones are
\* dropped, unless they all seem dead.
Prioritized(alive) ==
  LET listed == order.mirrors
      first == {n \in DOMAIN listed :
                  Local(listed[n]) /\ \A k \in 1 .. n - 1 : ~Local(listed[k])}
  IN
  CASE Len(listed) = 1 -> {listed}
    [] Len(listed) > 1 /\ first # {} -> {<<listed[n]>> \o listed : n \in first}
    [] Len(listed) > 1 /\ first = {} /\ alive = {} -> {listed}
    [] OTHER -> {<<best>> \o Only(alive \ {best}, listed) : best \in alive}

Probe ==
  /\ pc = "probe" /\ pc' = "next"
  /\ \E alive \in SUBSET ToSet(order.mirrors) : queue' \in Prioritized(alive)
  /\ UNCHANGED <<call, stream, files, lastErr>>

\* The list is exhausted: the error wraps the last one, so that a pause of a
\* local copy is still recognised as one.
Exhausted ==
  /\ pc = "next" /\ queue = << >>
  /\ Return(IF lastErr = "paused" THEN "paused" ELSE "failed")
  /\ UNCHANGED <<hit, files>>

\* The context is looked at before every mirror.
PausedBetween ==
  /\ pc = "next" /\ queue # << >> /\ cancelled
  /\ Return("paused") /\ UNCHANGED <<hit, files>>

Try ==
  /\ pc = "next" /\ queue # << >> /\ ~cancelled
  /\ pc' = "connect" /\ mirror' = Head(queue) /\ queue' = Tail(queue)
  /\ UNCHANGED <<call, coming, resumed, files, lastErr>>

Kind == Serves[mirror]

\* The body starts: what it will append to .part, after what is kept of it.
Streaming(kept, blocks) ==
  /\ pc' = "stream" /\ part' = kept /\ coming' = blocks
  /\ resumed' = (kept # << >>)
  /\ UNCHANGED <<call, queue, mirror, dest, lastErr>>

\* copyFromLocalFile: .part is created anew and the source decoded into it.
OpenLocal == pc = "connect" /\ Kind.local /\ Streaming(<< >>, Whole(Kind.image))

\* Status 206 to the Range of an existing .part, whose length is that of the
\* decoded data: a compressed source continues in the middle of its own.
Resumed ==
  IF Kind.packed THEN [i \in 1 .. PackedSize - Len(part) |-> junk]
                 ELSE [i \in 1 .. Size - Len(part) |-> Kind.image]

ServedSize == IF Kind.packed THEN PackedSize ELSE Size

\* A Range that always asks from the first byte on.
PartialFromStart ==
  /\ pc = "connect" /\ ~Kind.local
  /\ part # << >> /\ Kind.range /\ Len(part) < ServedSize
  /\ Streaming(part, Whole(Kind.image))

PartialContent ==
  /\ pc = "connect" /\ ~Kind.local
  /\ part # << >> /\ Kind.range /\ Len(part) < ServedSize
  /\ Streaming(part, Resumed)

\* A 200 whose body is written after what .part held.
OkAppended ==
  /\ pc = "connect" /\ ~Kind.local
  /\ part = << >> \/ ~Kind.range
  /\ pc' = "stream" /\ coming' = [i \in 1 .. Size - Len(part) |-> Kind.image]
  /\ resumed' = FALSE
  /\ UNCHANGED <<call, queue, mirror, part, dest, lastErr>>

\* Status 200: .part is created anew.
OkContent ==
  /\ pc = "connect" /\ ~Kind.local
  /\ part = << >> \/ ~Kind.range
  /\ Streaming(<< >>, Whole(Kind.image))

\* No connection, any other status - 416 when .part is as long as the source
\* - or a local file that is gone, whose path is no URL either.
NoContent ==
  /\ pc = "connect" /\ GoOn("error") /\ UNCHANGED files

\* Any failed request taken for a cancelled one.
PausedByAnyError ==
  /\ pc = "connect" /\ ~Kind.local
  /\ Return("paused") /\ UNCHANGED <<hit, files>>

\* The request itself is cancelled.
PausedConnecting ==
  /\ pc = "connect" /\ cancelled /\ ~Kind.local
  /\ Return("paused") /\ UNCHANGED <<hit, files>>

Receive ==
  /\ pc = "stream" /\ ~cancelled /\ coming # << >>
  /\ part' = Append(part, Head(coming)) /\ coming' = Tail(coming)
  /\ UNCHANGED <<pc, call, queue, mirror, resumed, dest, lastErr>>

\* A lost connection that puts the mirror back on the list.
DropAndRetry ==
  /\ pc = "stream" /\ pc' = "next" /\ lastErr' = "error"
  /\ queue' = Append(queue, mirror) /\ coming' = << >> /\ resumed' = FALSE
  /\ UNCHANGED <<call, mirror, files>>

\* A read or write error: what was written stays.
Drop ==
  /\ pc = "stream" /\ GoOn("error") /\ UNCHANGED files

\* The copy loops look at the context before every read.  A cancelled remote
\* download ends the call, a cancelled local copy is one more mirror failed.
PausedStreaming ==
  /\ pc = "stream" /\ cancelled
  /\ IF Kind.local THEN GoOn("paused") /\ UNCHANGED files
                   ELSE Return("paused") /\ UNCHANGED <<hit, files>>

\* The body ends.  If nothing delimits it, a lost connection looks the same.
EndOfBody ==
  /\ pc = "stream" /\ (coming = << >> \/ ~Kind.sized)
  /\ pc' = "check" /\ coming' = << >>
  /\ UNCHANGED <<call, queue, mirror, resumed, files, lastErr>>

Matches == order.sha => part = Whole(order.image)

\* A mismatch: a remote .part is set aside as .corrupt, a local copy stays.
Mismatch ==
  /\ pc = "check" /\ ~Matches
  /\ GoOn("error")
  /\ part' = IF Kind.local THEN part ELSE << >>
  /\ UNCHANGED dest

\* Hashing fails, or the rename does, which ends the call.
CommitFails ==
  /\ pc = "check"
  /\ \/ GoOn("error") /\ UNCHANGED files
     \/ Matches /\ Return("failed") /\ UNCHANGED <<hit, files>>

Commit ==
  /\ pc = "check" /\ Matches
  /\ dest' = part /\ part' = << >>
  /\ Return("ok") /\ UNCHANGED hit

Step ==
  \/ CacheHit \/ CacheMiss \/ Probe \/ Exhausted \/ PausedBetween \/ Try
  \/ OpenLocal \/ PartialContent \/ OkContent \/ NoContent \/ PausedConnecting
  \/ Receive \/ Drop \/ PausedStreaming \/ EndOfBody
  \/ Mismatch \/ CommitFails \/ Commit

Environment ==
  \/ \E o \in Orders : Call(o)
  \/ Consume \/ CleanUp \/ Leave \/ Cancel \/ Crash

Next == Step \/ Environment

\* The body of a remote response has no time-out: only its mirror, or the
\* user's cancellation, ends the wait for it.
Stalled == pc = "stream" /\ ~Kind.local /\ ~cancelled

\* The call's goroutine keeps running; connections, headers and probes are
\* bounded by time-outs, and nothing is asked of the body of a response.
Spec == Init /\ [][Next]_vars /\ WF_vars(~Stalled /\ Step)

-----------------------------------------------------------------------------
(* What callers may rely on.                                                *)

\* A payload handed over for an image whose checksum is known is that image,
\* whatever .part or destination file earlier calls left behind: a .part of
\* another image or of another mirror, a truncated body, compressed blocks
\* appended as data (engine/streamer.go:81-94, 186-211).
VerifiedDelivery ==
  result = "ok" /\ order.sha => dest = Whole(order.image)

\* Without a checksum too, a payload whose mirror answered with a whole,
\* delimited body of the ordered image is that image: nothing of the .part
\* files of earlier calls and mirrors gets into it, whichever image they were
\* begun for and wherever they stopped (engine/streamer.go:216-241, 328-343).
WholeUnlessResumed ==
  result = "ok" /\ ~hit /\ ~resumed /\ Kind.sized /\ Kind.image = order.image
    => dest = Whole(order.image)

\* Only the user pauses: a call reports a pause, which keeps .part and the
\* journal's session for a resumption, only when its own context has been
\* cancelled, however many mirrors failed in whichever way before
\* (engine/streamer.go:124-128, 178-184, 213).
PauseIsTheUsers == result = "paused" => cancelled

\* Unless it waits for a body that neither goes on nor ends, and that nobody
\* cancels, no list of mirrors keeps a call from returning, however they fail;
\* in particular a cancelled call always returns (engine/streamer.go:118-213).
CallReturns == []<>~Stalled => (pc # "idle" ~> pc = "idle")

=============================================================================
