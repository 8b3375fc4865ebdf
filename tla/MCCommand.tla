----------------------------- MODULE MCCommand ------------------------------
(***************************************************************************)
(* Command for TLC: the instances are in the configurations.               *)
(***************************************************************************)
EXTENDS Command
=============================================================================
