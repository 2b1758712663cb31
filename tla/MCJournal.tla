----------------------------- MODULE MCJournal -----------------------------
(***************************************************************************)
(* TLC instance of Journal: one step name with a rollback handler and one  *)
(* without, three steps per journal, one purge order.                      *)
(***************************************************************************)
EXTENDS Journal

CONSTANTS carve, fetch

MCNames == {carve, fetch}
MCHandled == {carve}

=============================================================================
