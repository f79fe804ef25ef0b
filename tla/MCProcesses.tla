----------------------------- MODULE MCProcesses -----------------------------
(***************************************************************************)
(* An instance of Processes for TLC.                                       *)
(***************************************************************************)
EXTENDS Processes
=============================================================================
