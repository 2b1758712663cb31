----------------------------- MODULE PushProofs -----------------------------
(***************************************************************************)
(* Machine-checked proofs about Push, for any images, sizes and number of  *)
(* pushes: what a push that reports success has left on the target, and    *)
(* what may be written to a payload that is in place.                      *)
(***************************************************************************)
EXTENDS Push, TLAPS

(***************************************************************************)
(* Lemmas about files.                                                     *)
(***************************************************************************)

\* A write leaves a file of blocks.
LEMMA WrittenType ==
  ASSUME NEW blocks \in Seq(Blocks), NEW at \in Nat, NEW block \in Blocks
  PROVE  Written(blocks, at, block) \in Seq(Blocks)
<1> DEFINE len == IF Len(blocks) > at THEN Len(blocks) ELSE at + 1
<1>1. len \in Nat
  OBVIOUS
<1>2. ASSUME NEW n \in 1 .. len
      PROVE  (IF n = at + 1 THEN block ELSE IF n <= Len(blocks) THEN blocks[n] ELSE Hole) \in Blocks
  BY <1>1, <1>2 DEF Blocks
<1>3. Written(blocks, at, block) \in [1 .. len -> Blocks]
  BY <1>2 DEF Written
<1>4. QED
  BY <1>1, <1>3

\* A file that holds the first blocks of an image grows by its next one.
LEMMA WrittenNext ==
  ASSUME NEW i, NEW k \in Nat
  PROVE  Written([n \in 1 .. k |-> i], k, i) = [n \in 1 .. k + 1 |-> i]
<1> DEFINE f == [n \in 1 .. k |-> i]
<1>1. Len(f) = k
  OBVIOUS
<1>2. (IF Len(f) > k THEN Len(f) ELSE k + 1) = k + 1
  BY <1>1
<1>3. ASSUME NEW n \in 1 .. k + 1
      PROVE  (IF n = k + 1 THEN i ELSE IF n <= Len(f) THEN f[n] ELSE Hole) = i
  BY <1>1, <1>3
<1>4. QED
  BY <1>2, <1>3 DEF Written

-----------------------------------------------------------------------------
(***************************************************************************)
(* The inductive invariant.  A push's own file is safe from the others     *)
(* because they do not run beside it (Alone), because a file that a push   *)
(* creates is new (Fresh), and because the part file is never the payload  *)
(* (Apart).                                                                *)
(***************************************************************************)

Alone == \A p \in sole : cmd[p] \in Running => \A q \in Pushes \ {p} : cmd[q] \notin Running
Fresh ==
  \A q \in Pushes : cmd[q] \in {"none", "open"} =>
    part # q /\ payload # q /\ off[q] = 0 /\ \A p \in Pushes : fd[p] # q
Apart == part # None => part # payload
Started ==
  \A p \in Pushes :
    /\ pc[p] \in {"idle", "dial", "check", "prep", "start"} => cmd[p] = "none"
    /\ cmd[p] = "none" => p \notin sole
    /\ cmd[p] \in {"cat", "mv", "ln", "ok"} => fd[p] # None

\* What the call knows about its command.
Wired ==
  \A p \in Pushes :
    /\ pc[p] = "wait" <=> wire[p] = "closed"
    /\ wire[p] = "closed" => sent[p] = Size[img[p]]
    /\ wire[p] = "cut" => pc[p] = "returned"
    /\ cmd[p] \in {"mv", "ln", "ok"} /\ wire[p] # "cut" => off[p] = Size[img[p]]
Reported ==
  \A p \in Pushes : result[p] = "ok" =>
    cmd[p] = "ok" /\ off[p] = Size[img[p]] /\ pc[p] = "returned"

\* The file of a push that is alone, before it is renamed and after.
Writes ==
  \A p \in sole : cmd[p] \in {"cat", "mv"} => part \in {fd[p], None} /\ payload # fd[p]
Placed ==
  \A p \in sole : cmd[p] \in {"ln", "ok"} =>
    part # fd[p] /\ \A q \in Pushes \ {p} : cmd[q] = "cat" => fd[q] # fd[p]
Copied ==
  \A p \in sole : cmd[p] \in {"cat", "mv", "ln", "ok"} =>
    content[fd[p]] = [n \in 1 .. off[p] |-> img[p]]

PushInv ==
  /\ TypeOK /\ Alone /\ Fresh /\ Apart /\ Started
  /\ Wired /\ Reported /\ Writes /\ Placed /\ Copied

LEMMA PushInit == Init => PushInv
<1> SUFFICES ASSUME Init PROVE PushInv
  OBVIOUS
<1>1. TypeOK
  <2>1. content \in [Pushes -> Seq(Blocks)]
    <3>1. << >> \in Seq(Blocks)
      OBVIOUS
    <3>2. QED
      BY <3>1 DEF Init
  <2>2. part \in Pushes \union {None} /\ payload \in Pushes \union {None} /\ link \in BOOLEAN
    BY DEF Init
  <2>3. sole \subseteq Pushes /\ fd \in [Pushes -> Pushes \union {None}]
    BY DEF Init
  <2>4. QED
    BY <2>1, <2>2, <2>3 DEF Init, TypeOK
<1>2. QED
  BY <1>1 DEF Init, PushInv, Alone, Fresh, Apart, Started, Wired, Reported, Writes, Placed,
             Copied, Running, Pushes, None

-----------------------------------------------------------------------------
(***************************************************************************)
(* The steps of the call.  They leave the files alone, so what they have   *)
(* to keep is what the call knows about its command.                       *)
(***************************************************************************)

\* What a step that does not touch the target keeps.
LEMMA TargetKept ==
  ASSUME PushInv, UNCHANGED <<cmd, fd, off, content, payload, sole, img>>, part' \in {part, None}
  PROVE  Alone' /\ Fresh' /\ Apart' /\ Writes' /\ Placed' /\ Copied'
<1>1. Alone' /\ Fresh' /\ Apart'
  BY DEF PushInv, Alone, Fresh, Apart, Pushes, None
<1>2. \A p \in sole : cmd[p] \in {"cat", "mv", "ln", "ok"} => fd[p] # None
  BY DEF PushInv, Started, TypeOK
<1>3. Writes' /\ Placed' /\ Copied'
  BY <1>2 DEF PushInv, Writes, Placed, Copied
<1>4. QED
  BY <1>1, <1>3

LEMMA LaunchKeeps ==
  ASSUME PushInv, NEW p \in Pushes, Launch(p)
  PROVE  PushInv'
<1>1. TypeOK'
  BY DEF PushInv, TypeOK, Launch, Go, At, remote
<1>2. Started' /\ Wired' /\ Reported'
  BY DEF PushInv, TypeOK, Started, Wired, Reported, Launch, Go, At, remote
<1>3. QED
  BY <1>1, <1>2, TargetKept DEF PushInv, Launch, remote

LEMMA ConnectKeeps ==
  ASSUME PushInv, NEW p \in Pushes, Connect(p)
  PROVE  PushInv'
<1>1. TypeOK'
  BY DEF PushInv, TypeOK, Connect, Go, At, remote
<1>2. Started' /\ Wired' /\ Reported'
  BY DEF PushInv, TypeOK, Started, Wired, Reported, Connect, Go, At, remote
<1>3. QED
  BY <1>1, <1>2, TargetKept DEF PushInv, Connect, remote

LEMMA FailKeeps ==
  ASSUME PushInv, NEW p \in Pushes, Fail(p)
  PROVE  PushInv'
<1>1. TypeOK'
  BY DEF PushInv, TypeOK, Fail, Return, Go, remote
<1>2. Started' /\ Wired' /\ Reported'
  BY DEF PushInv, TypeOK, Started, Wired, Reported, Fail, Return, Go, remote
<1>3. QED
  BY <1>1, <1>2, TargetKept DEF PushInv, Fail, Return, remote

LEMMA CheckKeeps ==
  ASSUME PushInv, NEW p \in Pushes, Check(p)
  PROVE  PushInv'
<1>1. TypeOK'
  <2>1. link' \in BOOLEAN
    BY Zenon DEF PushInv, TypeOK, Check
  <2>2. UNCHANGED <<cmd, fd, off, content, part, payload, sole>>
    BY DEF Check
  <2>3. /\ pc' \in [Pushes -> {"idle", "dial", "check", "prep", "start", "stream", "wait", "returned"}]
        /\ img' = img /\ sent' = sent
        /\ result' \in [Pushes -> {"none", "ok", "skipped", "error"}]
        /\ wire' \in [Pushes -> {"none", "up", "closed", "cut"}]
    BY DEF PushInv, TypeOK, Check, Return, Go, At
  <2>4. QED
    BY <2>1, <2>2, <2>3 DEF PushInv, TypeOK
<1>2. Started' /\ Wired' /\ Reported'
  <2>1. pc[p] = "check" /\ UNCHANGED <<cmd, fd, off, sole>>
    BY DEF Check, At
  <2>2. CASE Return(p, "skipped")
    BY <2>1, <2>2 DEF PushInv, TypeOK, Started, Wired, Reported, Return, Go
  <2>3. CASE Go(p, "prep") /\ UNCHANGED <<img, sent, result, wire>>
    BY <2>1, <2>3 DEF PushInv, TypeOK, Started, Wired, Reported, Go
  <2>4. QED
    BY <2>2, <2>3 DEF Check
<1>3. UNCHANGED img
  BY DEF Check, Return
<1>4. QED
  BY <1>1, <1>2, <1>3, TargetKept DEF PushInv, Check

LEMMA PrepareKeeps ==
  ASSUME PushInv, NEW p \in Pushes, Prepare(p)
  PROVE  PushInv'
<1>1. TypeOK'
  BY DEF PushInv, TypeOK, Prepare, Go, At
<1>2. Started' /\ Wired' /\ Reported'
  BY DEF PushInv, TypeOK, Started, Wired, Reported, Prepare, Go, At
<1>3. QED
  BY <1>1, <1>2, TargetKept DEF PushInv, Prepare

LEMMA SendKeeps ==
  ASSUME PushInv, NEW p \in Pushes, Send(p)
  PROVE  PushInv'
<1>1. TypeOK'
  BY DEF PushInv, TypeOK, Send, At, remote
<1>2. Started' /\ Wired' /\ Reported'
  BY DEF PushInv, TypeOK, Started, Wired, Reported, Send, At, remote
<1>3. QED
  BY <1>1, <1>2, TargetKept DEF PushInv, Send, remote

LEMMA CloseInputKeeps ==
  ASSUME PushInv, NEW p \in Pushes, CloseInput(p)
  PROVE  PushInv'
<1>1. TypeOK'
  BY DEF PushInv, TypeOK, CloseInput, Go, At, remote
<1>2. Started' /\ Wired' /\ Reported'
  BY DEF PushInv, TypeOK, Started, Wired, Reported, CloseInput, Go, At, remote
<1>3. QED
  BY <1>1, <1>2, TargetKept DEF PushInv, CloseInput, remote

\* The exit status is what makes "ok" mean that the image is there.
LEMMA WaitKeeps ==
  ASSUME PushInv, NEW p \in Pushes, Wait(p)
  PROVE  PushInv'
<1>1. TypeOK'
  BY DEF PushInv, TypeOK, Wait, Return, Go, At, remote
<1>2. Started' /\ Wired' /\ Reported'
  <2>1. /\ pc[p] = "wait" /\ pc' = [pc EXCEPT ![p] = "returned"]
        /\ wire' = [wire EXCEPT ![p] = "cut"]
        /\ \/ cmd[p] = "ok" /\ result' = [result EXCEPT ![p] = "ok"]
           \/ result' = [result EXCEPT ![p] = "error"]
        /\ UNCHANGED <<img, sent, cmd, fd, off, content, sole>>
    BY DEF Wait, Return, Go, At, remote
  <2>2. \A q \in Pushes : q # p => pc'[q] = pc[q] /\ wire'[q] = wire[q] /\ result'[q] = result[q]
    BY <2>1 DEF PushInv, TypeOK
  <2>3. pc'[p] = "returned" /\ wire'[p] = "cut" /\ (result'[p] = "ok" => cmd[p] = "ok")
    BY <2>1 DEF PushInv, TypeOK
  <2>4. Started'
    BY <2>1, <2>2, <2>3 DEF PushInv, Started
  <2>5. Wired'
    BY <2>1, <2>2, <2>3 DEF PushInv, Wired
  <2>6. Reported'
    <3>1. cmd[p] = "ok" => off[p] = Size[img[p]]
      BY <2>1 DEF PushInv, Wired
    <3>2. \A q \in Pushes : result[q] = "ok" => cmd[q] = "ok" /\ off[q] = Size[img[q]] /\ pc[q] = "returned"
      BY DEF PushInv, Reported
    <3>3. QED
      BY ONLY <2>1, <2>2, <2>3, <3>1, <3>2 DEF Reported
  <2>7. QED
    BY <2>4, <2>5, <2>6
<1>3. UNCHANGED img
  BY DEF Wait, Return
<1>4. QED
  BY <1>1, <1>2, <1>3, TargetKept DEF PushInv, Wait, remote

\* The command starts: beside others it is not alone, nor are they any more.
LEMMA StartKeeps ==
  ASSUME PushInv, NEW p \in Pushes, Start(p)
  PROVE  PushInv'
<1>1. /\ pc[p] = "start" /\ cmd[p] = "none" /\ p \notin sole
      /\ cmd' = [cmd EXCEPT ![p] = "open"]
      /\ UNCHANGED <<fd, off, content, part, payload, link, img, sent>>
      /\ sole' = IF \E q \in Pushes : cmd[q] \in Running
                 THEN sole \ {q \in Pushes : cmd[q] \in Running}
                 ELSE sole \union {p}
  BY DEF PushInv, Started, Start, Return, At
<1>2. TypeOK'
  <2>1. cmd' \in [Pushes -> Running \union {"none", "ok", "failed"}] /\ sole' \subseteq Pushes
    BY <1>1 DEF PushInv, TypeOK, Running
  <2>2. CASE Go(p, "stream") /\ UNCHANGED <<img, sent, result, wire>>
    BY <1>1, <2>1, <2>2 DEF PushInv, TypeOK, Go
  <2>3. CASE Return(p, "error")
    BY <1>1, <2>1, <2>3 DEF PushInv, TypeOK, Return, Go
  <2>4. QED
    BY <2>2, <2>3 DEF Start
<1>3. Started' /\ Wired' /\ Reported'
  <2>1. CASE Go(p, "stream") /\ UNCHANGED <<img, sent, result, wire>>
    BY <1>1, <2>1 DEF PushInv, TypeOK, Started, Wired, Reported, Go
  <2>2. CASE Return(p, "error")
    BY <1>1, <2>2 DEF PushInv, TypeOK, Started, Wired, Reported, Return, Go
  <2>3. QED
    BY <2>1, <2>2 DEF Start
<1>4. Alone'
  BY <1>1 DEF PushInv, TypeOK, Alone, Running
<1>5. Fresh' /\ Apart'
  BY <1>1 DEF PushInv, TypeOK, Fresh, Apart
<1>6. \A q \in sole' : cmd'[q] \in {"cat", "mv", "ln", "ok"} => q \in sole /\ q # p /\ cmd'[q] = cmd[q]
  BY <1>1 DEF PushInv, TypeOK
<1>7. Writes' /\ Placed' /\ Copied'
  BY <1>1, <1>6 DEF PushInv, TypeOK, Writes, Placed, Copied
<1>8. QED
  BY <1>2, <1>3, <1>4, <1>5, <1>7 DEF PushInv

-----------------------------------------------------------------------------
(***************************************************************************)
(* The steps of the command.                                               *)
(***************************************************************************)

\* What a running command leaves to the others that are alone: they have
\* ended.
LEMMA OthersHaveEnded ==
  ASSUME PushInv, NEW p \in Pushes, cmd[p] \in Running, NEW q \in sole, q # p
  PROVE  cmd[q] \notin Running
BY DEF PushInv, Alone, TypeOK

\* What the call keeps while its command goes on.
LEMMA CallKept ==
  ASSUME PushInv, NEW p \in Pushes, NEW c, cmd' = [cmd EXCEPT ![p] = c],
         cmd[p] \notin {"none", "ok"}, c # "none",
         UNCHANGED <<call, off, sole>>,
         c \in {"mv", "ln", "ok"} /\ wire[p] # "cut" => off[p] = Size[img[p]],
         fd' = fd \/ fd' = [fd EXCEPT ![p] = part'],
         c \in {"cat", "mv", "ln", "ok"} => fd'[p] # None
  PROVE  Started' /\ Wired' /\ Reported'
<1>1. \A q \in Pushes : q # p => fd'[q] = fd[q] /\ cmd'[q] = cmd[q]
  BY DEF PushInv, TypeOK
<1>2. cmd'[p] = c
  BY DEF PushInv, TypeOK
<1>3. Started'
  BY <1>1, <1>2 DEF PushInv, TypeOK, Started, call
<1>4. Wired' /\ Reported'
  BY <1>1, <1>2 DEF PushInv, TypeOK, Wired, Reported, call
<1>5. QED
  BY <1>3, <1>4

\* The redirection opens the part file or a new one, never the payload.
LEMMA OpenKeeps ==
  ASSUME PushInv, NEW p \in Pushes, Open(p)
  PROVE  PushInv'
<1>1. /\ cmd[p] = "open" /\ cmd' = [cmd EXCEPT ![p] = "cat"]
      /\ part' = (IF part = None THEN p ELSE part)
      /\ fd' = [fd EXCEPT ![p] = part'] /\ content' = [content EXCEPT ![part'] = << >>]
      /\ UNCHANGED <<call, off, payload, link, sole>>
  BY DEF Open, Step
<1>2. part' \in Pushes /\ part' # None /\ part' # payload
  BY <1>1 DEF PushInv, TypeOK, Fresh, Apart, Pushes, None
<1>3. off[p] = 0 /\ \A q \in Pushes : fd[q] # p
  BY <1>1 DEF PushInv, Fresh
<1>4. TypeOK'
  <2>1. << >> \in Seq(Blocks)
    OBVIOUS
  <2>2. content' \in [Pushes -> Seq(Blocks)]
    BY <1>1, <1>2, <2>1 DEF PushInv, TypeOK
  <2>3. cmd' \in [Pushes -> Running \union {"none", "ok", "failed"}]
        /\ fd' \in [Pushes -> Pushes \union {None}]
    BY <1>1, <1>2 DEF PushInv, TypeOK, Running
  <2>4. QED
    BY <1>1, <1>2, <2>2, <2>3 DEF PushInv, TypeOK, call
<1>5. Started' /\ Wired' /\ Reported'
  <2>1. fd'[p] # None
    BY <1>1, <1>2 DEF PushInv, TypeOK
  <2>2. cmd[p] \notin {"none", "ok"}
    BY <1>1
  <2>3. QED
    BY ONLY PushInv, <1>1, <2>1, <2>2, CallKept
<1>6. Alone' /\ Fresh' /\ Apart'
  <2>1. Alone'
    BY <1>1 DEF PushInv, TypeOK, Alone, Running
  <2>2. Fresh' /\ Apart'
    BY <1>1, <1>2 DEF PushInv, TypeOK, Fresh, Apart
  <2>3. QED
    BY <2>1, <2>2
<1>7. ASSUME NEW q \in sole, q # p, cmd'[q] \in {"cat", "mv", "ln", "ok"}
      PROVE  cmd'[q] = "ok" /\ cmd[q] = "ok" /\ fd'[q] = fd[q] /\ part' # fd[q]
  <2>1. cmd[q] = cmd'[q] /\ fd'[q] = fd[q] /\ q \in Pushes
    BY <1>1, <1>7 DEF PushInv, TypeOK
  <2>2. cmd[q] = "ok"
    BY <1>1, <1>7, <2>1, OthersHaveEnded DEF Running
  <2>3. part' # fd[q]
    BY <1>1, <1>3, <2>1, <2>2 DEF PushInv, Placed
  <2>4. QED
    BY <2>1, <2>2, <2>3
<1>8. cmd'[p] = "cat" /\ fd'[p] = part' /\ sole' = sole /\ img' = img /\ off' = off
  BY <1>1 DEF PushInv, TypeOK, call
<1>9. Writes'
  BY <1>1, <1>2, <1>7, <1>8 DEF Writes
<1>10. Placed'
  <2>1. ASSUME NEW q \in sole, cmd'[q] \in {"ln", "ok"}, NEW r \in Pushes \ {q}, cmd'[r] = "cat"
        PROVE  fd'[r] # fd'[q]
    <3>1. q # p /\ fd'[q] = fd[q] /\ part' # fd[q] /\ cmd[q] = "ok"
      BY <1>7, <1>8, <2>1
    <3>2. CASE r = p
      BY <1>8, <3>1, <3>2
    <3>3. CASE r # p
      <4>1. cmd[r] = "cat" /\ fd'[r] = fd[r]
        BY <1>1, <2>1, <3>3 DEF PushInv, TypeOK
      <4>2. QED
        BY <2>1, <3>1, <4>1 DEF PushInv, Placed
    <3>4. QED
      BY <3>2, <3>3
  <2>2. QED
    BY <1>7, <1>8, <2>1 DEF Placed
<1>11. Copied'
  <2>1. ASSUME NEW q \in sole, cmd'[q] \in {"cat", "mv", "ln", "ok"}
        PROVE  content'[fd'[q]] = [n \in 1 .. off[q] |-> img[q]]
    <3>1. CASE q = p
      <4>1. content'[part'] = << >>
        BY <1>1, <1>2 DEF PushInv, TypeOK
      <4>2. [n \in 1 .. 0 |-> img[p]] = << >>
        OBVIOUS
      <4>3. QED
        BY <1>3, <1>8, <3>1, <4>1, <4>2
    <3>2. CASE q # p
      <4>1. cmd[q] = "ok" /\ fd'[q] = fd[q] /\ part' # fd[q]
        BY <1>7, <2>1, <3>2
      <4>2. content'[fd[q]] = content[fd[q]]
        BY <1>1, <1>2, <4>1 DEF PushInv, TypeOK, Started
      <4>3. QED
        BY <2>1, <4>1, <4>2 DEF PushInv, Copied
    <3>3. QED
      BY <3>1, <3>2
  <2>2. QED
    BY <1>8, <2>1 DEF Copied
<1>12. QED
  BY <1>4, <1>5, <1>6, <1>9, <1>10, <1>11 DEF PushInv

\* A copied block lands behind those of the same image, in no other's file.
LEMMA CopyKeeps ==
  ASSUME PushInv, NEW p \in Pushes, Copy(p)
  PROVE  PushInv'
<1>1. /\ cmd[p] = "cat"
      /\ content' = [content EXCEPT ![fd[p]] = Written(content[fd[p]], off[p], img[p])]
      /\ off' = [off EXCEPT ![p] = off[p] + 1]
      /\ UNCHANGED <<call, cmd, fd, part, payload, link, sole>>
  BY DEF Copy
<1>2. fd[p] \in Pushes /\ off[p] \in Nat /\ img[p] \in Blocks /\ content[fd[p]] \in Seq(Blocks)
  BY <1>1 DEF PushInv, TypeOK, Started, Blocks
<1>3. TypeOK'
  <2>1. Written(content[fd[p]], off[p], img[p]) \in Seq(Blocks)
    BY <1>2, WrittenType
  <2>2. content' \in [Pushes -> Seq(Blocks)] /\ off' \in [Pushes -> Nat]
    BY <1>1, <1>2, <2>1 DEF PushInv, TypeOK
  <2>3. QED
    BY <1>1, <2>2 DEF PushInv, TypeOK, call
<1>4. Alone' /\ Fresh' /\ Apart' /\ Started' /\ Wired' /\ Reported' /\ Writes' /\ Placed'
  <2>1. Alone' /\ Apart' /\ Started' /\ Writes' /\ Placed'
    BY <1>1 DEF PushInv, Alone, Apart, Started, Writes, Placed, call
  <2>2. Fresh' /\ Wired' /\ Reported'
    BY <1>1 DEF PushInv, TypeOK, Fresh, Wired, Reported, call
  <2>3. QED
    BY <2>1, <2>2
<1>5. Copied'
  <2>1. ASSUME NEW q \in sole, cmd[q] \in {"cat", "mv", "ln", "ok"}
        PROVE  content'[fd[q]] = [n \in 1 .. off'[q] |-> img[q]]
    <3>1. q \in Pushes /\ content[fd[q]] = [n \in 1 .. off[q] |-> img[q]]
      BY <2>1 DEF PushInv, TypeOK, Copied
    <3>2. CASE q = p
      <4>1. content'[fd[p]] = Written(content[fd[p]], off[p], img[p])
        BY <1>1, <1>2 DEF PushInv, TypeOK
      <4>2. off'[p] = off[p] + 1
        BY <1>1 DEF PushInv, TypeOK
      <4>3. QED
        BY <1>2, <3>1, <3>2, <4>1, <4>2, WrittenNext
    <3>3. CASE q # p
      <4>1. cmd[q] = "ok"
        BY <1>1, <2>1, <3>3, OthersHaveEnded DEF Running
      <4>2. fd[p] # fd[q]
        BY <1>1, <3>3, <4>1 DEF PushInv, Placed
      <4>3. content'[fd[q]] = content[fd[q]] /\ off'[q] = off[q]
        BY <1>1, <1>2, <3>1, <3>3, <4>1, <4>2 DEF PushInv, TypeOK, Started
      <4>4. QED
        BY <3>1, <4>3
    <3>4. QED
      BY <3>2, <3>3
  <2>2. QED
    BY <1>1, <2>1 DEF Copied, call
<1>6. QED
  BY <1>3, <1>4, <1>5 DEF PushInv
\* The end of its input leaves a command with a whole image, unless the
\* connection was cut.
LEMMA EndOfInputKeeps ==
  ASSUME PushInv, NEW p \in Pushes, EndOfInput(p)
  PROVE  PushInv'
<1>1. /\ cmd[p] = "cat" /\ cmd' = [cmd EXCEPT ![p] = "mv"]
      /\ \/ wire[p] = "closed" /\ off[p] = sent[p]
         \/ wire[p] = "cut"
      /\ UNCHANGED <<call, fd, off, content, part, payload, link, sole>>
  BY DEF EndOfInput, Step
<1>2. TypeOK'
  BY <1>1 DEF PushInv, TypeOK, Running, call
<1>3. Started' /\ Wired' /\ Reported'
  BY <1>1 DEF PushInv, TypeOK, Started, Wired, Reported, call
<1>4. Alone' /\ Fresh' /\ Apart'
  BY <1>1 DEF PushInv, TypeOK, Alone, Fresh, Apart, Running
<1>5. Writes' /\ Placed' /\ Copied'
  <2>1. \A q \in Pushes : cmd'[q] = (IF q = p THEN "mv" ELSE cmd[q])
    BY <1>1 DEF PushInv, TypeOK
  <2>2. sole \subseteq Pushes
    BY DEF PushInv, TypeOK
  <2>3. Writes'
    BY <1>1, <2>1, <2>2 DEF PushInv, Writes
  <2>4. Placed'
    BY <1>1, <2>1, <2>2 DEF PushInv, Placed
  <2>5. Copied'
    BY <1>1, <2>1, <2>2 DEF PushInv, Copied, call
  <2>6. QED
    BY <2>3, <2>4, <2>5
<1>6. QED
  BY <1>2, <1>3, <1>4, <1>5 DEF PushInv

\* The rename moves the file out of reach: it is no longer the part file.
LEMMA RenameKeeps ==
  ASSUME PushInv, NEW p \in Pushes, Rename(p)
  PROVE  PushInv'
<1>1. /\ cmd[p] = "mv"
      /\ UNCHANGED <<call, fd, off, content, link, sole>>
      /\ \/ part # None /\ cmd' = [cmd EXCEPT ![p] = "ln"] /\ payload' = part /\ part' = None
         \/ part = None /\ cmd' = [cmd EXCEPT ![p] = "failed"] /\ UNCHANGED <<payload, part>>
  BY DEF Rename, Step
<1>2. TypeOK'
  BY <1>1 DEF PushInv, TypeOK, Running, call
<1>3. Started' /\ Wired' /\ Reported'
  BY <1>1 DEF PushInv, TypeOK, Started, Wired, Reported, call
<1>4. Alone' /\ Fresh' /\ Apart'
  <2>1. Alone'
    <3>1. sole' = sole /\ sole \subseteq Pushes /\ cmd[p] \in Running
      BY <1>1 DEF PushInv, TypeOK, Running
    <3>2. \A q \in Pushes : q # p => cmd'[q] = cmd[q]
      BY <1>1 DEF PushInv, TypeOK
    <3>3. \A q \in Pushes : cmd'[q] \in Running => cmd[q] \in Running
      BY <3>1, <3>2
    <3>4. \A q \in sole : cmd[q] \in Running => \A r \in Pushes \ {q} : cmd[r] \notin Running
      BY DEF PushInv, Alone
    <3>5. QED
      BY ONLY <3>1, <3>3, <3>4 DEF Alone
  <2>2. \A q \in Pushes : cmd'[q] \in {"none", "open"} => cmd[q] = cmd'[q]
    BY <1>1 DEF PushInv, TypeOK
  <2>3. \A q \in Pushes : q # None
    BY DEF Pushes, None
  <2>4. Fresh'
    BY <1>1, <2>2, <2>3 DEF PushInv, Fresh
  <2>5. Apart'
    BY <1>1 DEF PushInv, Apart
  <2>6. QED
    BY <2>1, <2>4, <2>5
<1>5. ASSUME NEW q \in sole, q # p, cmd'[q] \in {"cat", "mv", "ln", "ok"}
      PROVE  cmd'[q] = "ok" /\ cmd[q] = "ok"
  <2>1. cmd'[q] = cmd[q]
    BY <1>1, <1>5 DEF PushInv, TypeOK
  <2>2. QED
    BY <1>1, <1>5, <2>1, OthersHaveEnded DEF Running
<1>6. cmd'[p] \in {"ln", "failed"} /\ sole' = sole /\ fd' = fd
  BY <1>1 DEF PushInv, TypeOK
<1>7. Writes'
  BY <1>5, <1>6 DEF Writes
<1>8. Placed'
  <2>1. ASSUME NEW q \in sole, cmd'[q] \in {"ln", "ok"}
        PROVE  part' # fd[q] /\ \A r \in Pushes \ {q} : cmd'[r] = "cat" => fd[r] # fd[q]
    <3>1. \A r \in Pushes : cmd'[r] = "cat" => cmd[r] = "cat"
      BY <1>1 DEF PushInv, TypeOK
    <3>2. CASE q = p
      <4>1. part' = None /\ fd[p] # None
        BY <1>1 DEF PushInv, Started
      <4>2. \A r \in Pushes \ {p} : cmd[r] # "cat"
        BY <1>1, <2>1, <3>2 DEF PushInv, Alone, Running
      <4>3. QED
        BY <3>1, <3>2, <4>1, <4>2
    <3>3. CASE q # p
      <4>1. cmd[q] = "ok" /\ q \in Pushes
        BY <1>5, <2>1, <3>3 DEF PushInv, TypeOK
      <4>2. part' \in {part, None} /\ fd[q] # None
        BY <1>1, <4>1 DEF PushInv, Started
      <4>3. QED
        BY <2>1, <3>1, <4>1, <4>2 DEF PushInv, Placed
    <3>4. QED
      BY <3>2, <3>3
  <2>2. QED
    BY <1>6, <2>1 DEF Placed
<1>9. Copied'
  <2>1. \A q \in sole : cmd'[q] \in {"cat", "mv", "ln", "ok"} => cmd[q] \in {"cat", "mv", "ln", "ok"}
    BY <1>1 DEF PushInv, TypeOK
  <2>2. QED
    BY <1>1, <2>1 DEF PushInv, Copied, call
<1>10. QED
  BY <1>2, <1>3, <1>4, <1>7, <1>8, <1>9 DEF PushInv

LEMMA LinkKeeps ==
  ASSUME PushInv, NEW p \in Pushes, Link(p)
  PROVE  PushInv'
<1>1. /\ cmd[p] = "ln" /\ cmd' = [cmd EXCEPT ![p] = "ok"]
      /\ UNCHANGED <<call, fd, off, content, part, payload, sole>>
  BY DEF Link, Step
<1>2. TypeOK'
  <2>1. link' \in BOOLEAN
    BY Zenon DEF Link
  <2>2. QED
    BY <1>1, <2>1 DEF PushInv, TypeOK, call
<1>3. Started' /\ Wired' /\ Reported'
  BY <1>1 DEF PushInv, TypeOK, Started, Wired, Reported, call
<1>4. Alone' /\ Fresh' /\ Apart'
  BY <1>1 DEF PushInv, TypeOK, Alone, Fresh, Apart, Running
<1>5. Writes' /\ Placed' /\ Copied'
  <2>1. \A q \in Pushes : cmd'[q] = (IF q = p THEN "ok" ELSE cmd[q])
    BY <1>1 DEF PushInv, TypeOK
  <2>2. sole \subseteq Pushes
    BY DEF PushInv, TypeOK
  <2>3. Writes'
    BY <1>1, <2>1, <2>2 DEF PushInv, Writes
  <2>4. Placed'
    BY <1>1, <2>1, <2>2 DEF PushInv, Placed
  <2>5. Copied'
    BY <1>1, <2>1, <2>2 DEF PushInv, Copied, call
  <2>6. QED
    BY <2>3, <2>4, <2>5
<1>6. QED
  BY <1>2, <1>3, <1>4, <1>5 DEF PushInv

LEMMA AbortKeeps ==
  ASSUME PushInv, NEW p \in Pushes, Abort(p)
  PROVE  PushInv'
<1>1. /\ cmd[p] \in Running /\ cmd' = [cmd EXCEPT ![p] = "failed"]
      /\ UNCHANGED <<call, fd, off, content, part, payload, link, sole>>
  BY DEF Abort
<1>2. TypeOK'
  BY <1>1 DEF PushInv, TypeOK, call
<1>3. Started' /\ Wired' /\ Reported'
  BY <1>1 DEF PushInv, TypeOK, Started, Wired, Reported, Running, call
<1>4. Alone' /\ Fresh' /\ Apart'
  BY <1>1 DEF PushInv, TypeOK, Alone, Fresh, Apart, Running
<1>5. Writes' /\ Placed' /\ Copied'
  BY <1>1 DEF PushInv, TypeOK, Writes, Placed, Copied, call
<1>6. QED
  BY <1>2, <1>3, <1>4, <1>5 DEF PushInv

\* A purge takes names away: the file a command has open stays its own.
LEMMA PurgeKeeps ==
  ASSUME PushInv, Purge
  PROVE  PushInv'
<1>1. /\ part' = None /\ payload' = None
      /\ UNCHANGED <<call, cmd, fd, off, content, sole>>
  BY DEF Purge
<1>2. TypeOK'
  <2>1. link' \in BOOLEAN
    BY Zenon DEF Purge
  <2>2. QED
    BY <1>1, <2>1 DEF PushInv, TypeOK, call
<1>3. Started' /\ Wired' /\ Reported'
  BY <1>1 DEF PushInv, Started, Wired, Reported, call
<1>4. Alone' /\ Fresh' /\ Apart'
  BY <1>1 DEF PushInv, Alone, Fresh, Apart, Pushes, None
<1>5. \A q \in sole : cmd[q] \in {"cat", "mv", "ln", "ok"} => fd[q] # None
  BY DEF PushInv, TypeOK, Started
<1>6. Writes' /\ Placed' /\ Copied'
  BY <1>1, <1>5 DEF PushInv, Writes, Placed, Copied, call
<1>7. QED
  BY <1>2, <1>3, <1>4, <1>6 DEF PushInv

-----------------------------------------------------------------------------
(***************************************************************************)
(* Every step, and the theorems.                                           *)
(***************************************************************************)

LEMMA PushStep ==
  PushInv /\ [Next]_vars => PushInv'
<1> SUFFICES ASSUME PushInv, [Next]_vars
             PROVE  PushInv'
  OBVIOUS
<1>1. CASE Purge
  BY <1>1, PurgeKeeps
<1>2. ASSUME NEW p \in Pushes, Launch(p)
      PROVE  PushInv'
  BY <1>2, LaunchKeeps
<1>3. ASSUME NEW p \in Pushes, Caller(p)
      PROVE  PushInv'
  BY <1>3, ConnectKeeps, CheckKeeps, PrepareKeeps, StartKeeps, SendKeeps,
     CloseInputKeeps, WaitKeeps DEF Caller
<1>4. ASSUME NEW p \in Pushes, Fail(p)
      PROVE  PushInv'
  BY <1>4, FailKeeps
<1>5. ASSUME NEW p \in Pushes, Shell(p)
      PROVE  PushInv'
  BY <1>5, OpenKeeps, CopyKeeps, EndOfInputKeeps, RenameKeeps, LinkKeeps DEF Shell
<1>6. ASSUME NEW p \in Pushes, Abort(p)
      PROVE  PushInv'
  BY <1>6, AbortKeeps
<1>7. CASE UNCHANGED vars
  BY <1>7 DEF vars, call, PushInv, TypeOK, Alone, Fresh, Apart, Started, Wired, Reported,
     Writes, Placed, Copied
<1>8. QED
  BY <1>1, <1>2, <1>3, <1>4, <1>5, <1>6, <1>7 DEF Next

LEMMA PushInvariant == Spec => []PushInv
<1>1. QED
  BY PushInit, PushStep, PTL DEF Spec

\* Whatever earlier pushes left on the target and whatever comes after it, a
\* push that reports success and did not share the target left exactly its
\* image, whole and in order: for any images, sizes and number of pushes.
THEOREM SuccessLeavesTheImage == Spec => []SoleSuccessIsWhole
<1>1. PushInv => SoleSuccessIsWhole
  <2>1. SUFFICES ASSUME PushInv, NEW p \in sole, result[p] = "ok"
                 PROVE  content[fd[p]] = Whole(img[p])
    BY DEF SoleSuccessIsWhole
  <2>2. cmd[p] = "ok" /\ off[p] = Size[img[p]]
    BY <2>1 DEF PushInv, TypeOK, Reported
  <2>3. QED
    BY <2>1, <2>2 DEF PushInv, Copied, Whole
<1>2. QED
  BY <1>1, PushInvariant, PTL

\* No command that had the target to itself writes to a payload in place:
\* what is deployed from it is not changed underneath the deployment.
THEOREM PlacedStays == Spec => PlacedIsNotWritten
<1> DEFINE Kept ==
      \A p \in sole :
        cmd[p] = "cat" /\ payload # None /\ payload' = payload /\ fd[p] = payload
          => content'[payload] = content[payload]
<1>1. PushInv /\ [Next]_vars => [Kept]_vars
  BY DEF PushInv, Writes
<1>2. QED
  BY <1>1, PushInvariant, PTL DEF Spec, PlacedIsNotWritten
=============================================================================
