------------------------------ MODULE MCWorker ------------------------------
(***************************************************************************)
(* Instances of Worker for TLC.                                            *)
(***************************************************************************)
EXTENDS Worker, TLC

Interchangeable == Permutations(Conn) \cup Permutations(Fd) \cup Permutations(Client)
=============================================================================
