------------------------------- MODULE Logic -------------------------------
(***************************************************************************)
(* From a request to its reply: SerLogicSocket in several logic threads,   *)
(* while the event loop goes on receiving requests, retiring connection    *)
(* objects and binding them to new clients.                                *)
(*                                                                         *)
(* The thread pool hands out requests in order (ThreadPool).  A thread     *)
(* checks a request and the sequence number of its object once; after that *)
(* it waits for the object's lock, and the client may change.  Of a reply  *)
(* only its header matters here.  lastPingTime is represented by the       *)
(* client whose time it is.                                                *)
(***************************************************************************)
EXTENDS CRC32

CONSTANTS
    Thread,          \* the logic threads
    NoThread,
    Connection,      \* connection objects
    Package,         \* packages clients send: code, body, crc
    RegisterLength,  \* sizeof(STRUCT_REGISTER)
    MaxRequest,      \* bound: requests received
    MaxClients       \* bound: clients bound to an object, one after the other

ASSUME LogicAssumption ==
    /\ NoThread \notin Thread
    /\ Package \subseteq [code : Nat, body : Seq(Byte), crc : Word]
    /\ RegisterLength \in Nat \ {0}
    /\ MaxRequest \in Nat /\ MaxClients \in Nat \ {0}

VARIABLES
    currsequence,  \* mCurrsequence of each object
    client,        \* how many clients each object has had
    bound,         \* whether the last of them is still connected
    received,      \* the requests, in order of reception
    taken,         \* how many of them the logic threads have taken
    pc, request,   \* each thread: its next step and the request it is at
    logicLock,     \* mLogicProcMutex of each object: its holder
    pinged,        \* the client whose time lastPingTime of each object is
    replies,       \* what ser_in_send_queue() was given, in order
    crashed        \* the worker has called a wild pointer

objVars == <<currsequence, client, bound>>
vars == <<objVars, received, taken, pc, request, logicLock, pinged, replies, crashed>>

\* A received package behind its MSG_HEADER, and the client that sent it.
Request == [conn : Connection, seq : Nat, client : 1 .. MaxClients, package : Package]
Reply == [conn : Connection, seq : Nat, code : Nat, request : 1 .. MaxRequest]

Init ==
    /\ currsequence = [c \in Connection |-> 1]
    /\ client = [c \in Connection |-> 1] /\ bound = [c \in Connection |-> TRUE]
    /\ received = <<>> /\ taken = 0
    /\ pc = [t \in Thread |-> "idle"] /\ request = [t \in Thread |-> 0]
    /\ logicLock = [c \in Connection |-> NoThread]
    /\ pinged = client
    /\ replies = <<>> /\ crashed = FALSE

-----------------------------------------------------------------------------
(* The event loop.                                                         *)

Receive(c, p) ==
    /\ bound[c] /\ Len(received) < MaxRequest
    /\ received' = Append(received, [conn |-> c, seq |-> currsequence[c],
                                     client |-> client[c], package |-> p])
    /\ UNCHANGED <<objVars, taken, pc, request, logicLock, pinged, replies, crashed>>

\* ser_in_recy_connection()
Retire(c) ==
    /\ bound[c]
    /\ bound' = [bound EXCEPT ![c] = FALSE]
    /\ currsequence' = [currsequence EXCEPT ![c] = @ + 1]
    /\ UNCHANGED <<client, received, taken, pc, request, logicLock, pinged, replies, crashed>>

\* PutOneToFree() and, for the next client, GetOneToUse().
Bind(c) ==
    /\ ~bound[c] /\ client[c] < MaxClients
    /\ bound' = [bound EXCEPT ![c] = TRUE]
    /\ client' = [client EXCEPT ![c] = @ + 1]
    /\ currsequence' = [currsequence EXCEPT ![c] = @ + 2]
    /\ pinged' = [pinged EXCEPT ![c] = client'[c]]
    /\ UNCHANGED <<received, taken, pc, request, logicLock, replies, crashed>>

-----------------------------------------------------------------------------
(* The logic threads.                                                      *)

CMD_PING == 0
CMD_REGISTER == 5
CMD_LOGIN == 6

msgHandlers ==
    [code \in 0 .. 6 |-> CASE code = CMD_PING     -> "PingHandler"
                           [] code = CMD_REGISTER -> "RegisterHandler"
                           [] code = CMD_LOGIN    -> "LoginHandler"
                           [] OTHER               -> "nullptr"]

AUTH_TOTAL_COMMANDS == Cardinality(DOMAIN msgHandlers)

\* Mutant: without a body nothing is checked.
CrcMatchesBodyOnly(p) == p.body # <<>> => p.crc = Get_CRC(p.body)

\* The check sum, which is 0 without a body.
CrcMatches(p) == p.crc = IF p.body = <<>> THEN {} ELSE Get_CRC(p.body)

\* The packages that pass the test, a constant.
WithGoodCrc == {p \in Package : CrcMatches(p)}

\* The handlers' own tests of the body; LoginHandler() does nothing at all.
PingToAnswer(p) == p.code = CMD_PING /\ Len(p.body) = 0
RegisterToAnswer(p) == p.code = CMD_REGISTER /\ Len(p.body) = RegisterLength

At(t, from, to) == ~crashed /\ pc[t] = from /\ pc' = [pc EXCEPT ![t] = to]

Current(t) == received[request[t]]

\* Mutant: taken from an empty queue.
TakeUnseen(t) ==
    /\ At(t, "idle", "check")
    /\ taken' = taken + 1
    /\ request' = [request EXCEPT ![t] = taken + 1]
    /\ UNCHANGED <<objVars, received, logicLock, pinged, replies, crashed>>

Take(t) ==
    /\ At(t, "idle", "check")
    /\ taken < Len(received)
    /\ taken' = taken + 1
    /\ request' = [request EXCEPT ![t] = taken + 1]
    /\ UNCHANGED <<objVars, received, logicLock, pinged, replies, crashed>>

\* Check sum, sequence number, message code, in that order.
Acceptable(r) ==
    /\ r.package \in WithGoodCrc
    /\ currsequence[r.conn] = r.seq
    /\ r.package.code <= AUTH_TOTAL_COMMANDS

\* The request is thrown away, or its handler goes on to lock the object.
\* Behind the end of the table lies anything: a null pointer, or one that the
\* thread calls.
Check(t) ==
    LET p == Current(t).package
        Behind == Acceptable(Current(t)) /\ p.code \notin DOMAIN msgHandlers
        Handled == /\ Acceptable(Current(t)) /\ p.code \in DOMAIN msgHandlers
                   /\ \/ msgHandlers[p.code] = "PingHandler" /\ PingToAnswer(p)
                      \/ msgHandlers[p.code] = "RegisterHandler" /\ RegisterToAnswer(p)
    IN  /\ At(t, "check", IF Handled THEN "lock" ELSE "idle")
        /\ crashed' \in IF Behind THEN BOOLEAN ELSE {FALSE}
        /\ UNCHANGED <<objVars, received, taken, request, logicLock, pinged, replies>>

\* SerLock locker(&pConnection->mLogicProcMutex)
LockLogic(t) ==
    /\ At(t, "lock", "reply")
    /\ logicLock[Current(t).conn] = NoThread
    /\ logicLock' = [logicLock EXCEPT ![Current(t).conn] = t]
    /\ UNCHANGED <<objVars, received, taken, request, pinged, replies, crashed>>

\* Mutant: the header is made from the object as it is now.
ReplyHeaderFromObject(t) ==
    [conn |-> Current(t).conn, seq |-> currsequence[Current(t).conn],
     code |-> Current(t).package.code, request |-> request[t]]

\* memcpy() of the request's MSG_HEADER
ReplyHeader(t) ==
    [conn |-> Current(t).conn, seq |-> Current(t).seq,
     code |-> Current(t).package.code, request |-> request[t]]

\* ser_in_send_queue()
InSendQueue(t) == replies' = Append(replies, ReplyHeader(t))

\* The handlers, behind the lock.
RegisterHandler(t) ==
    /\ At(t, "reply", "unlock") /\ Current(t).package.code = CMD_REGISTER
    /\ InSendQueue(t)
    /\ UNCHANGED <<objVars, received, taken, request, logicLock, pinged, crashed>>

PingHandler(t) ==
    /\ At(t, "reply", "unlock") /\ Current(t).package.code = CMD_PING
    /\ InSendQueue(t)
    /\ pinged' = [pinged EXCEPT ![Current(t).conn] = Current(t).client]
    /\ UNCHANGED <<objVars, received, taken, request, logicLock, crashed>>

\* Mutant: the lock is not given back.
UnlockLogicForgotten(t) ==
    /\ At(t, "unlock", "idle")
    /\ UNCHANGED <<objVars, received, taken, request, logicLock, pinged, replies, crashed>>

UnlockLogic(t) ==
    /\ At(t, "unlock", "idle")
    /\ logicLock' = [logicLock EXCEPT ![Current(t).conn] = NoThread]
    /\ UNCHANGED <<objVars, received, taken, request, pinged, replies, crashed>>

Process(t) ==
    Take(t) \/ Check(t) \/ RegisterHandler(t) \/ PingHandler(t) \/ UnlockLogic(t)

Next == \/ \E c \in Connection : (\E p \in Package : Receive(c, p)) \/ Retire(c) \/ Bind(c)
        \/ \E t \in Thread : Process(t) \/ LockLogic(t)

Spec == Init /\ [][Next]_vars

\* Every thread runs, and gets a lock that is free again and again.
FairSpec == Spec /\ \A t \in Thread : WF_vars(Process(t)) /\ SF_vars(LockLogic(t))

-----------------------------------------------------------------------------
TypeOK ==
    /\ currsequence \in [Connection -> Nat]
    /\ client \in [Connection -> 1 .. MaxClients] /\ bound \in [Connection -> BOOLEAN]
    /\ received \in Seq(Request) /\ Len(received) <= MaxRequest
    /\ taken \in 0 .. Len(received)
    /\ pc \in [Thread -> {"idle", "check", "lock", "reply", "unlock"}]
    /\ request \in [Thread -> 0 .. taken]
    /\ logicLock \in [Connection -> Thread \cup {NoThread}]
    /\ pinged \in [Connection -> 1 .. MaxClients]
    /\ replies \in Seq(Reply)
    /\ crashed \in BOOLEAN

\* The handler replies with a raw pointer to an object that may have been given
\* to another client since the check.  When the send thread finds the reply's
\* sequence number current, the object's client is the one that asked.
ReplyReachesRequester ==
    \A i \in DOMAIN replies :
        LET reply == replies[i]
        IN  reply.seq = currsequence[reply.conn] =>
                /\ bound[reply.conn]
                /\ received[reply.request].conn = reply.conn
                /\ received[reply.request].client = client[reply.conn]

\* What a request has to be to get an answer, by the definition of CRC-32.
Answerable(p) ==
    \/ p.code = CMD_PING /\ p.body = <<>> /\ p.crc = {}
    \/ p.code = CMD_REGISTER /\ Len(p.body) = RegisterLength /\ p.crc = Remainder(p.body)

Deserving == {p \in Package : Answerable(p)}

\* Nobody gets an answer to a damaged or malformed request, or two answers.
OnlyIntactAnswered ==
    /\ \A i \in DOMAIN replies : received[replies[i].request].package \in Deserving
    /\ \A i, j \in DOMAIN replies : replies[i].request = replies[j].request => i = j

Abandoned(n) == n <= Len(received) /\ currsequence[received[n].conn] # received[n].seq

\* Every request that deserves it is answered, unless its client leaves or a
\* request with a code just behind the table brings the worker down.
Answered ==
    \A n \in 1 .. MaxRequest :
        n <= Len(received) /\ received[n].package \in Deserving ~>
            (\E i \in DOMAIN replies : replies[i].request = n) \/ Abandoned(n) \/ crashed

=============================================================================
