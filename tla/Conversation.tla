---------------------------- MODULE Conversation ----------------------------
(***************************************************************************)
(* What a worker promises its clients, whatever threads, objects, buffers  *)
(* and descriptors it is made of.  A client connects, asks, and leaves.  A *)
(* reply comes after its request has been read, goes to the client that    *)
(* asked, is begun once and not while another one for that client is on    *)
(* its way, and is not given up before the client has got some of it or    *)
(* has left.  A request may be ignored.                                    *)
(***************************************************************************)
CONSTANTS Client, NoClient, Request

VARIABLES client,    \* of each client: "connecting", "connected" or "left"
          from,      \* of each request that has been read: the client
          open,      \* requests that are being read or worked on
          answered,  \* requests whose reply is waiting
          sending,   \* requests whose reply is on its way
          wire       \* replies of which a client has got bytes

requestVars == <<from, open, answered, sending>>
vars == <<client, requestVars, wire>>

Init ==
    /\ client = [k \in Client |-> "connecting"]
    /\ from = [r \in Request |-> NoClient]
    /\ open = {} /\ answered = {} /\ sending = {}
    /\ wire = [k \in Client |-> {}]

Turn(k, was, is) ==
    /\ client[k] = was
    /\ client' = [client EXCEPT ![k] = is]
    /\ UNCHANGED <<requestVars, wire>>

Connect(k) == Turn(k, "connecting", "connected")
Leave(k)   == Turn(k, "connected", "left")

\* What a client sent before it left is still read.
Ask(k, r) ==
    /\ from[r] = NoClient /\ client[k] # "connecting"
    /\ from' = [from EXCEPT ![r] = k]
    /\ open' = open \cup {r}
    /\ UNCHANGED <<client, answered, sending, wire>>

Answer(r) ==
    /\ r \in open
    /\ open' = open \ {r} /\ answered' = answered \cup {r}
    /\ UNCHANGED <<client, from, sending, wire>>

Begin(r) ==
    /\ r \in answered /\ \A s \in sending : from[s] # from[r]
    /\ answered' = answered \ {r} /\ sending' = sending \cup {r}
    /\ UNCHANGED <<client, from, open, wire>>

\* A part of the reply, or the last of it.
Deliver(r) ==
    /\ r \in sending /\ client[from[r]] = "connected"
    /\ wire' = [wire EXCEPT ![from[r]] = @ \cup {r}]
    /\ sending' \in {sending, sending \ {r}}
    /\ UNCHANGED <<client, from, open, answered>>

Gone(r) == client[from[r]] = "left"

\* Requests that are ignored, replies that are through or given up.
Close(S) ==
    /\ \A r \in S : /\ r \in answered => Gone(r)
                    /\ r \in sending => Gone(r) \/ r \in wire[from[r]]
    /\ open' = open \ S /\ answered' = answered \ S /\ sending' = sending \ S
    /\ UNCHANGED <<client, from, wire>>

Next == \/ \E k \in Client : Connect(k) \/ Leave(k)
        \/ \E k \in Client, r \in Request : Ask(k, r)
        \/ \E r \in Request : Answer(r) \/ Begin(r) \/ Deliver(r)
        \/ \E S \in SUBSET Request : Close(S)

Spec == Init /\ [][Next]_vars
=============================================================================
