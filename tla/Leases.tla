------------------------------- MODULE Leases -------------------------------
(***************************************************************************)
(* What the connection pool promises to the threads that keep pointers to  *)
(* objects.  An object is leased to one client after the other.  While the *)
(* lease runs, tickets are issued (message headers); they are good until   *)
(* it ends, and never again.  Before its next lease the object rests for   *)
(* Wait seconds, with no good ticket about.                                *)
(***************************************************************************)
EXTENDS Integers

CONSTANTS Conn, Client, NoClient, Wait

VARIABLES holder,   \* of each object: the client it is leased to
          ending,   \* objects whose client has gone but whose tickets are good
          resting,  \* objects kept from the next client
          since,    \* of each object: when it was last retired
          now,
          issued,   \* every ticket ever issued
          good      \* those that pass the test

vars == <<holder, ending, resting, since, now, issued, good>>

Init ==
    /\ holder = [c \in Conn |-> NoClient]
    /\ ending = {} /\ resting = {} /\ issued = {} /\ good = {}
    /\ now \in Nat /\ since \in [Conn -> Nat]

Idle(c) == holder[c] = NoClient /\ c \notin ending \cup resting

\* No client has two objects, and the tickets of the last one are void.
Lease(c, k) ==
    /\ Idle(c) /\ \A d \in Conn : holder[d] # k
    /\ \A t \in good : t.conn # c
    /\ holder' = [holder EXCEPT ![c] = k]
    /\ UNCHANGED <<ending, resting, since, now, issued, good>>

\* Tickets for the client that has the object.  One that is void stays void.
Issue(c) ==
    /\ holder[c] # NoClient
    /\ issued \subseteq issued'
    /\ \A t \in issued' \ issued : t.conn = c /\ t.client = holder[c]
    /\ good' = good \cup (issued' \ issued)
    /\ UNCHANGED <<holder, ending, resting, since, now>>

HangUp(c) ==
    /\ holder[c] # NoClient
    /\ holder' = [holder EXCEPT ![c] = NoClient]
    /\ ending' = ending \cup {c}
    /\ UNCHANGED <<resting, since, now, issued, good>>

Retire(c) ==
    /\ c \in ending
    /\ ending' = ending \ {c} /\ resting' = resting \cup {c}
    /\ since' = [since EXCEPT ![c] = now]
    /\ good' = {t \in good : t.conn # c}
    /\ UNCHANGED <<holder, now, issued>>

Release(c) ==
    /\ c \in resting /\ since[c] + Wait <= now
    /\ resting' = resting \ {c}
    /\ UNCHANGED <<holder, ending, since, now, issued, good>>

Tick == now' > now /\ UNCHANGED <<holder, ending, resting, since, issued, good>>

Next == \/ \E c \in Conn, k \in Client : Lease(c, k)
        \/ \E c \in Conn : Issue(c) \/ HangUp(c) \/ Retire(c) \/ Release(c)
        \/ Tick

Spec == Init /\ [][Next]_vars
=============================================================================
