------------------------------ MODULE StepLog ------------------------------
(***************************************************************************)
(* What a transaction journal promises its client, whatever it stores and  *)
(* however it stores it:                                                   *)
(*   - work is only done under a step that is already recorded durably;    *)
(*   - a step stays recorded for as long as it is open or its work may     *)
(*     have to be undone;                                                  *)
(*   - while a step is open nobody settles the transaction; only the       *)
(*     user's explicit order abandons it.                                  *)
(* A crash changes none of these variables: they describe the disk and the *)
(* machine, not the process.                                               *)
(***************************************************************************)
EXTENDS Naturals

CONSTANT MaxSteps

VARIABLES
  recorded,   \* steps a process that starts now would find in the record
  open,       \* steps handed to the client whose outcome was never reported
  owed,       \* steps whose work is in force on the machine
  orders      \* how often the user ordered the record to be dropped

logVars == <<recorded, open, owed, orders>>

Positions == 1 .. MaxSteps

Init == recorded = {} /\ open = {} /\ owed = {} /\ orders = 0

\* The record is rewritten; it keeps every step that is open or owed.
Rewrite == recorded' \subseteq Positions /\ open' \cup owed' \subseteq recorded'

\* A step is recorded and handed to the client (or only recorded).
Record ==
  /\ \E i \in Positions : open' \in {open, open \cup {i}}
  /\ UNCHANGED <<owed, orders>>
  /\ Rewrite

\* The client works under an open step.
Perform(i) ==
  /\ i \in open
  /\ owed' = owed \cup {i}
  /\ UNCHANGED <<recorded, open, orders>>

\* The client reports the outcome of a step.
Report(i) ==
  /\ open' = open \ {i}
  /\ UNCHANGED <<owed, orders>>
  /\ Rewrite

\* The work of one step is undone.
Undo(i) ==
  /\ owed' = owed \ {i}
  /\ open' = open \ {i}
  /\ UNCHANGED <<recorded, orders>>

\* The transaction is over: its record goes and its work stays for good.
Settle ==
  /\ open = {}
  /\ recorded' = {} /\ owed' = {}
  /\ UNCHANGED <<open, orders>>

\* The user orders the transaction to be dropped, whatever its state.
Abandon ==
  /\ recorded' \in {recorded, {}}
  /\ open' = {} /\ owed' = {}
  /\ orders' = orders + 1

Next ==
  \/ Record
  \/ \E i \in Positions : Perform(i) \/ Report(i) \/ Undo(i)
  \/ Settle
  \/ Abandon

Spec == Init /\ [][Next]_logVars

=============================================================================
