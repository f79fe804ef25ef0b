---------------------------- MODULE MessagePool ----------------------------
(***************************************************************************)
(* What the logic thread pool promises to the event loop that feeds it,    *)
(* whatever threads, locks and wake-ups it is made of: messages are        *)
(* started one at a time in the order they were submitted, each is handled *)
(* and its memory released once, and none waits forever unless the pool is *)
(* closed.  Once closed, what is still queued may be discarded.            *)
(***************************************************************************)
EXTENDS Integers

CONSTANT Msg   \* messages, numbered in the order they are submitted

VARIABLES status,   \* of each message
          closed    \* the pool has been told to stop

vars == <<status, closed>>

Status == {"new", "queued", "busy", "released"}

Init == status = [m \in Msg |-> "new"] /\ closed = FALSE

Move(m, from, to) ==
    /\ status[m] = from
    /\ status' = [status EXCEPT ![m] = to]
    /\ UNCHANGED closed

Oldest(m, s) == \A n \in Msg : n < m => status[n] # s

Submit(m) == ~closed /\ Oldest(m, "new") /\ Move(m, "new", "queued")
Start(m)  == Oldest(m, "queued") /\ Move(m, "queued", "busy")
Finish(m) == Move(m, "busy", "released")

Close == closed' = TRUE /\ UNCHANGED status

Discard ==
    /\ closed
    /\ \A m \in Msg : status[m] # "busy"
    /\ status' = [m \in Msg |-> IF status[m] = "queued" THEN "released" ELSE status[m]]
    /\ UNCHANGED closed

Next == \/ \E m \in Msg : Submit(m) \/ Start(m) \/ Finish(m)
        \/ Close
        \/ Discard

Spec == Init /\ [][Next]_vars
=============================================================================
