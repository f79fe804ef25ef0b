---------------------------- MODULE MCRecvFraming ----------------------------
(***************************************************************************)
(* An instance of RecvFraming for TLC.                                     *)
(***************************************************************************)
EXTENDS RecvFraming
=============================================================================
