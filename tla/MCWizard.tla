------------------------------ MODULE MCWizard ------------------------------
(* TLC instance of Wizard; its bounds are in the configurations.           *)
EXTENDS Wizard
=============================================================================
