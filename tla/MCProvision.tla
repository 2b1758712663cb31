---------------------------- MODULE MCProvision ----------------------------
(***************************************************************************)
(* TLC instance of Provision: the three kinds of order that take different  *)
(* ways through RunProvision.                                              *)
(***************************************************************************)
EXTENDS Provision

LinuxSum == [mode |-> "dual", windows |-> FALSE, sha |-> TRUE]
Windows == [mode |-> "dual", windows |-> TRUE, sha |-> FALSE]
Replace == [mode |-> "single", windows |-> FALSE, sha |-> TRUE]

MCRequests == {LinuxSum, Windows, Replace}
MCFirmwares == {"uefi", "bios"}

=============================================================================
