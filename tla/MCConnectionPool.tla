------------------------- MODULE MCConnectionPool -------------------------
(***************************************************************************)
(* Instances of ConnectionPool for TLC: one object of the pool is free     *)
(* when the worker starts, the others have to be allocated.                *)
(***************************************************************************)
EXTENDS ConnectionPool

CONSTANTS c1, c2, c3

MCInitFree == <<c1>>
MCConn == {c1, c2, c3}
=============================================================================
