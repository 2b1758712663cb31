-------------------------------- MODULE Push --------------------------------
(***************************************************************************)
(* PushPayloadOverSSH (engine/scp_streamer.go): a machine streams an image *)
(* to a target's /var/tmp/os_image.payload over SSH.  Each push runs one   *)
(* remote command, "cat > part && mv part payload && ln", which lives on   *)
(* the target and outlives the connection.  The wizard orders pushes from  *)
(* ScreenSCPPush, also while an earlier one runs, and the target's own     *)
(* wizard looks for the payload and purges it.                             *)
(*                                                                         *)
(* A file is an inode: the sequence of the blocks written to it, named by  *)
(* the push whose command created it.  A block is the image it is from.    *)
(***************************************************************************)
EXTENDS Integers, Sequences

CONSTANTS
  Images,    \* what is pushed
  Size,      \* blocks of each image
  MaxPushes  \* bound: calls of PushPayloadOverSSH

ASSUME SizeAssumption == Size \in [Images -> Nat \ {0}]
ASSUME MaxPushesAssumption == MaxPushes \in Nat

Pushes == 1 .. MaxPushes
None == 0
Hole == "hole"
ASSUME HoleAssumption == Hole \notin Images

VARIABLES
  pc,       \* where each call is
  img,      \* the image it pushes
  sent,     \* blocks it has written to the pipe
  result,   \* what it returned
  wire,     \* its connection: up, its input closed, or cut
  cmd,      \* its command on the target
  fd,       \* the inode the command's cat writes to ...
  off,      \* ... and at what offset
  content,  \* the inodes
  part,     \* os_image.payload.part: an inode or None
  payload,  \* os_image.payload: an inode or None
  link,     \* /tmp/os_image.payload is there
  sole      \* ghost: commands that never shared the target with another

call == <<pc, img, sent, result, wire>>
remote == <<cmd, fd, off, content, part, payload, link, sole>>
vars == <<pc, img, sent, result, wire, cmd, fd, off, content, part, payload, link, sole>>

Blocks == Images \union {Hole}
Whole(i) == [n \in 1 .. Size[i] |-> i]
Running == {"open", "cat", "mv", "ln"}

TypeOK ==
  /\ pc \in [Pushes -> {"idle", "dial", "check", "prep", "start", "stream", "wait", "returned"}]
  /\ img \in [Pushes -> Images] /\ sent \in [Pushes -> Nat]
  /\ result \in [Pushes -> {"none", "ok", "skipped", "error"}]
  /\ wire \in [Pushes -> {"none", "up", "closed", "cut"}]
  /\ cmd \in [Pushes -> Running \union {"none", "ok", "failed"}]
  /\ fd \in [Pushes -> Pushes \union {None}] /\ off \in [Pushes -> Nat]
  /\ content \in [Pushes -> Seq(Blocks)]
  /\ part \in Pushes \union {None} /\ payload \in Pushes \union {None}
  /\ link \in BOOLEAN /\ sole \subseteq Pushes

Init ==
  /\ pc = [p \in Pushes |-> "idle"] /\ img \in [Pushes -> Images]
  /\ sent = [p \in Pushes |-> 0] /\ result = [p \in Pushes |-> "none"]
  /\ wire = [p \in Pushes |-> "none"] /\ cmd = [p \in Pushes |-> "none"]
  /\ fd = [p \in Pushes |-> None] /\ off = [p \in Pushes |-> 0]
  /\ content = [p \in Pushes |-> <<>>]
  /\ part = None /\ payload = None /\ link = FALSE /\ sole = {}

-----------------------------------------------------------------------------
(* The call.                                                                *)

At(p, from) == pc[p] = from
Go(p, to) == pc' = [pc EXCEPT ![p] = to]

\* Returning runs the deferred Close of the session and of the client.
Return(p, what) ==
  /\ Go(p, "returned")
  /\ result' = [result EXCEPT ![p] = what]
  /\ wire' = [wire EXCEPT ![p] = "cut"]
  /\ UNCHANGED <<img, sent>>

\* "enter" on the push button: nothing keeps a second push from starting.
Launch(p) ==
  /\ At(p, "idle") /\ (p > 1 => pc[p - 1] # "idle")
  /\ Go(p, "dial")
  /\ UNCHANGED <<img, sent, result, wire, remote>>

\* TCP, key exchange and password.
Connect(p) ==
  /\ At(p, "dial") /\ Go(p, "check")
  /\ wire' = [wire EXCEPT ![p] = "up"]
  /\ UNCHANGED <<img, sent, result, remote>>

\* Whatever fails before the command is started, and every lost connection:
\* a session, the source file, a write to the pipe.
Fail(p) ==
  /\ pc[p] \in {"dial", "start", "stream", "wait"}
  /\ Return(p, "error") /\ UNCHANGED remote

\* CheckRemotePayloadExists compares sizes; without a session it says no.
Check(p) ==
  /\ At(p, "check")
  /\ \/ /\ payload # None /\ Len(content[payload]) = Size[img[p]]
        /\ Return(p, "skipped")
        /\ link' \in {link, TRUE}
     \/ /\ Go(p, "prep") /\ UNCHANGED <<img, sent, result, wire, link>>
  /\ UNCHANGED <<cmd, fd, off, content, part, payload, sole>>

\* rm -f of the part file; a session that cannot be had is ignored.
Prepare(p) ==
  /\ At(p, "prep") /\ Go(p, "start")
  /\ part' \in {part, None}
  /\ UNCHANGED <<img, sent, result, wire, cmd, fd, off, content, payload, link, sole>>

\* session.Start: the target has forked the shell, though the answer that
\* says so may be lost.
Start(p) ==
  /\ At(p, "start")
  /\ \/ Go(p, "stream") /\ UNCHANGED <<img, sent, result, wire>>
     \/ Return(p, "error")
  /\ cmd' = [cmd EXCEPT ![p] = "open"]
  /\ sole' = IF \E q \in Pushes : cmd[q] \in Running
             THEN sole \ {q \in Pushes : cmd[q] \in Running}
             ELSE sole \union {p}
  /\ UNCHANGED <<fd, off, content, part, payload, link>>

Send(p) ==
  /\ At(p, "stream") /\ sent[p] < Size[img[p]]
  /\ sent' = [sent EXCEPT ![p] = @ + 1]
  /\ UNCHANGED <<pc, img, result, wire, remote>>

\* End of the source file: the command's input is closed.
CloseInput(p) ==
  /\ At(p, "stream") /\ sent[p] = Size[img[p]]
  /\ Go(p, "wait")
  /\ wire' = [wire EXCEPT ![p] = "closed"]
  /\ UNCHANGED <<img, sent, result, remote>>

\* A call that takes a closed input for a finished command.
WaitForNothing(p) ==
  /\ At(p, "wait") /\ Return(p, "ok") /\ UNCHANGED remote

\* A call that waits for the payload instead of for the command.
WaitForPayload(p) ==
  /\ At(p, "wait") /\ cmd[p] = "ok" /\ Return(p, "ok") /\ UNCHANGED remote

\* session.Wait: the command's exit status.
Wait(p) ==
  /\ At(p, "wait")
  /\ \/ cmd[p] = "ok" /\ Return(p, "ok")
     \/ cmd[p] = "failed" /\ Return(p, "error")
  /\ UNCHANGED remote

-----------------------------------------------------------------------------
(* The remote command.                                                      *)

Step(p, from, to) == cmd[p] = from /\ cmd' = [cmd EXCEPT ![p] = to]

\* A command that redirects to the payload itself.
OpenInPlace(p) ==
  /\ Step(p, "open", "cat")
  /\ payload' = IF payload = None THEN p ELSE payload
  /\ part' = payload'
  /\ fd' = [fd EXCEPT ![p] = payload']
  /\ content' = [content EXCEPT ![payload'] = <<>>]
  /\ UNCHANGED <<call, off, link, sole>>

\* The shell's redirection truncates the part file, or creates one.
Open(p) ==
  /\ Step(p, "open", "cat")
  /\ part' = IF part = None THEN p ELSE part
  /\ fd' = [fd EXCEPT ![p] = part']
  /\ content' = [content EXCEPT ![part'] = <<>>]
  /\ UNCHANGED <<call, off, payload, link, sole>>

\* A write behind the end of the file leaves a hole.
Written(blocks, at, block) ==
  [n \in 1 .. (IF Len(blocks) > at THEN Len(blocks) ELSE at + 1) |->
     IF n = at + 1 THEN block ELSE IF n <= Len(blocks) THEN blocks[n] ELSE Hole]

\* cat copies a block that has arrived; a broken connection still delivers
\* what is under way.
Copy(p) ==
  /\ cmd[p] = "cat" /\ off[p] < sent[p]
  /\ content' = [content EXCEPT ![fd[p]] = Written(@, off[p], img[p])]
  /\ off' = [off EXCEPT ![p] = @ + 1]
  /\ UNCHANGED <<call, cmd, fd, part, payload, link, sole>>

\* cat sees the end of its input: the client closed it, or the connection
\* is gone and nothing more will come.
EndOfInput(p) ==
  /\ Step(p, "cat", "mv")
  /\ \/ wire[p] = "closed" /\ off[p] = sent[p]
     \/ wire[p] = "cut"
  /\ UNCHANGED <<call, fd, off, content, part, payload, link, sole>>

\* mv fails when an overlapping push has renamed the part file.
Rename(p) ==
  /\ \/ part # None /\ Step(p, "mv", "ln") /\ payload' = part /\ part' = None
     \/ part = None /\ Step(p, "mv", "failed") /\ UNCHANGED <<payload, part>>
  /\ UNCHANGED <<call, fd, off, content, link, sole>>

Link(p) ==
  /\ Step(p, "ln", "ok") /\ link' = TRUE
  /\ UNCHANGED <<call, fd, off, content, part, payload, sole>>

\* The disk is full, the shell is killed.
Abort(p) ==
  /\ cmd[p] \in Running
  /\ cmd' = [cmd EXCEPT ![p] = "failed"]
  /\ UNCHANGED <<call, fd, off, content, part, payload, link, sole>>

\* PurgeStagedPayload on the target.
Purge ==
  /\ <<part, payload, link>> # <<None, None, FALSE>>
  /\ part' = None /\ payload' = None /\ link' = FALSE
  /\ UNCHANGED <<call, cmd, fd, off, content, sole>>

-----------------------------------------------------------------------------

Caller(p) == Connect(p) \/ Check(p) \/ Prepare(p) \/ Start(p)
             \/ Send(p) \/ CloseInput(p) \/ Wait(p)
Shell(p) == Open(p) \/ Copy(p) \/ EndOfInput(p) \/ Rename(p) \/ Link(p)

Next == Purge \/ \E p \in Pushes : Launch(p) \/ Caller(p) \/ Fail(p) \/ Shell(p) \/ Abort(p)

\* Nothing has to fail: the target answers and runs its shells.  One that
\* accepts the connection and then says nothing is left out: no deadline
\* covers the key exchange (config.Timeout is only read by ssh.Dial, which
\* the code does not call), and such a push never returns.
Spec == Init /\ [][Next]_vars /\ \A p \in Pushes : WF_vars(Caller(p) \/ Shell(p))

-----------------------------------------------------------------------------

\* A push that reports success left exactly its image under the payload's
\* name, unless its command met another one on the target: whatever earlier
\* pushes had left there, half a part file or another payload, and whatever
\* is pushed after it.
SoleSuccessIsWhole ==
  \A p \in sole :
    result[p] = "ok" /\ payload # None /\ payload = fd[p] => content[payload] = Whole(img[p])

\* A payload that is in place is never written again, except by a command
\* that shared its part file with the one that renamed it: the target's
\* wizard may be deploying it.
PlacedIsNotWritten ==
  [][\A p \in sole :
       cmd[p] = "cat" /\ payload # None /\ payload' = payload /\ fd[p] = payload
         => content'[payload] = content[payload]]_vars

\* Every push that is ordered returns, and so the screen leaves its progress
\* bar, whatever the other push does to the part file meanwhile.
PushReturns == \A p \in Pushes : (pc[p] = "dial") ~> (pc[p] = "returned")
=============================================================================
