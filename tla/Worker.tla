------------------------------- MODULE Worker -------------------------------
(***************************************************************************)
(* A worker's threads around objects, descriptors and buffers that pass    *)
(* from client to client: ConnectionPool and SendPath put together.  Each  *)
(* of the two leaves out what the other is about: there replies are only   *)
(* headers, here they are sent; there a connection has one client, here    *)
(* the object and the descriptor are used again.  In return a request is   *)
(* a header and a body, a reply is a unit, and epoll_wait() returns a      *)
(* batch of events, as it does.                                            *)
(*                                                                         *)
(* A retired object is quarantined for mRecyWaiteTime, 60 seconds; how     *)
(* that is counted is ConnectionPool's matter.  Here the quarantine may    *)
(* end at any time, except within one send of the send thread.             *)
(*                                                                         *)
(* SIGPIPE, which SendPath has, may end the worker where a send fails.     *)
(* A worker that has ended takes no more steps, and every behaviour of     *)
(* Spec may end so: only safety is stated here.                            *)
(***************************************************************************)
EXTENDS Integers

CONSTANTS
    Conn,        \* connection objects: the free list and those the pool can grow by
    Fd,          \* descriptors for accepted sockets
    Client,      \* clients, each of which connects once
    NoConn, NoClient, NoFd,
    MaxRequest,  \* bound: requests received
    MaxLowered,  \* bound: how far below 0 mThrowSendCount may be when a hung-up
                 \* connection is read once more
    FdReuse      \* whether the kernel may give the number of the descriptor the send
                 \* thread is about to use to a new client

ASSUME WorkerAssumption ==
    /\ NoConn \notin Conn /\ NoClient \notin Client /\ NoFd \notin Fd
    /\ MaxRequest \in Nat /\ MaxLowered \in Nat
    /\ FdReuse \in BOOLEAN

\* A request and its reply have the same number.
Request == 1 .. MaxRequest
NoRequest == 0

VARIABLES
    free,        \* mFreeConnectionList
    recy,        \* mRecyConnectionList
    seq,         \* of each object: mCurrsequence
    sockFd,      \* mSockFd
    recvPkg,     \* mRecvPkgData
    sendPkg,     \* mSendPkgData
    thrown,      \* mThrowSendCount
    peer,        \* kernel: the client behind each descriptor
    reg, regOut, \* epoll: data.ptr of each descriptor, and whether EPOLLOUT is asked for
    client,      \* "connecting", "connected" or "left"
    header,      \* MSG_HEADER of each request, which the reply's is a copy of
    logic,       \* requests in the hands of the thread pool
    sendQueue,   \* mMsgSendQueue
    recvFreed, sendFreed, \* how often the memory of a request, of a reply was freed
    wire,        \* replies of which a client got bytes
    sndPc, sndConn, \* send thread: next step, pConnection
    evPc, batch, event \* event loop: next step, events of epoll_wait() not looked at, the current one

poolVars  == <<free, recy, seq, sockFd>>
pkgVars   == <<recvPkg, header, logic, recvFreed>>
epollVars == <<peer, reg, regOut>>
sendVars  == <<sendPkg, thrown, sendQueue, sendFreed, wire>>
sndVars   == <<sndPc, sndConn>>
evVars    == <<evPc, batch, event>>
vars == <<poolVars, pkgVars, epollVars, sendVars, sndVars, client, evVars>>

NoHeader == [conn |-> NoConn, seq |-> 0, client |-> NoClient]
Header == [conn : Conn, seq : Nat, client : Client]

\* An event with the object its data.ptr names, and for the properties the
\* number the object had; the listening socket's event names no object.
NoEvent == [conn |-> NoConn, seq |-> 0, in |-> FALSE, out |-> FALSE, hup |-> FALSE]
EventOf(c, i, o, h) == [conn |-> c, seq |-> seq[c], in |-> i, out |-> o, hup |-> h]
Accepting == [conn |-> NoConn, seq |-> 0, in |-> TRUE, out |-> FALSE, hup |-> FALSE]

Init ==
    /\ free = Conn /\ recy = {}
    /\ seq = [c \in Conn |-> 1] /\ sockFd = [c \in Conn |-> NoFd]
    /\ recvPkg = [c \in Conn |-> NoRequest] /\ sendPkg = [c \in Conn |-> NoRequest]
    /\ thrown = [c \in Conn |-> 0]
    /\ peer = [f \in Fd |-> NoClient]
    /\ reg = [f \in Fd |-> NoConn] /\ regOut = [f \in Fd |-> FALSE]
    /\ client = [k \in Client |-> "connecting"]
    /\ header = [r \in Request |-> NoHeader]
    /\ logic = {} /\ sendQueue = {}
    /\ recvFreed = [r \in Request |-> 0] /\ sendFreed = [r \in Request |-> 0]
    /\ wire = [k \in Client |-> {}]
    /\ sndPc = "scan" /\ sndConn = NoConn
    /\ evPc = "next" /\ batch = {} /\ event = NoEvent

Open(f) == f \in Fd /\ peer[f] # NoClient

-----------------------------------------------------------------------------
(* The event loop: ser_epoll_process_events().                             *)

EvGo(from, to) == evPc = from /\ evPc' = to

\* What epoll may report of a descriptor.  When the client has left that is an
\* end of file and a hang-up or reset; the code takes EPOLLERR and EPOLLHUP for
\* EPOLLIN and EPOLLOUT too.
Reports(f) ==
    {e \in {EventOf(reg[f], i, o, client[peer[f]] = "left") : i, o \in BOOLEAN} :
        IF e.hup THEN e.in ELSE (e.in \/ e.out) /\ (e.out => regOut[f])}

\* epoll_wait(): any of the descriptors with events, each once, in any order.
EpollWait ==
    /\ evPc = "next" /\ batch = {}
    /\ \E listening \in BOOLEAN, S \in SUBSET {f \in Fd : reg[f] # NoConn} :
       \E report \in [S -> UNION {Reports(f) : f \in S}] :
          /\ listening => \E k \in Client : client[k] = "connecting"
          /\ \A f \in S : report[f] \in Reports(f)
          /\ batch' = {report[f] : f \in S} \cup {e \in {Accepting} : listening}
          /\ batch' # {}
    /\ UNCHANGED <<poolVars, pkgVars, epollVars, sendVars, sndVars, client, evPc, event>>

\* The read branch comes first.
NextEvent(e) ==
    /\ evPc = "next" /\ e \in batch
    /\ event' = e /\ batch' = batch \ {e}
    /\ evPc' = IF e = Accepting THEN "accept" ELSE IF e.in THEN "read" ELSE "write"
    /\ UNCHANGED <<poolVars, pkgVars, epollVars, sendVars, sndVars, client>>

AfterRead == IF event.out THEN "write" ELSE "next"

-----------------------------------------------------------------------------
(* ser_event_accept() when all goes well.                                  *)

SendingFd == IF sndConn \in Conn THEN sockFd[sndConn] ELSE NoFd

\* ser_get_free_connection(), GetOneToUse(), EPOLL_CTL_ADD without EPOLLOUT.
AcceptConn(k, f, c) ==
    /\ EvGo("accept", "next")
    /\ client[k] = "connecting" /\ ~Open(f) /\ c \in free
    /\ FdReuse \/ f # SendingFd
    /\ client' = [client EXCEPT ![k] = "connected"]
    /\ peer' = [peer EXCEPT ![f] = k]
    /\ free' = free \ {c}
    /\ seq' = [seq EXCEPT ![c] = @ + 1]
    /\ sockFd' = [sockFd EXCEPT ![c] = f]
    /\ recvPkg' = [recvPkg EXCEPT ![c] = NoRequest]
    /\ sendPkg' = [sendPkg EXCEPT ![c] = NoRequest]
    /\ thrown' = [thrown EXCEPT ![c] = 0]
    /\ reg' = [reg EXCEPT ![f] = c] /\ regOut' = [regOut EXCEPT ![f] = FALSE]
    /\ UNCHANGED <<recy, header, logic, recvFreed, sendQueue, sendFreed, wire, sndVars,
                   batch, event>>

\* Mutant: the object of the event is retired when accept() fails.
AcceptFailsRetires ==
    /\ EvGo("accept", "in_recy")
    /\ UNCHANGED <<poolVars, pkgVars, epollVars, sendVars, sndVars, client, batch, event>>

\* accept() has nothing to give, or fails: back to the loop.
AcceptFails ==
    /\ EvGo("accept", "next")
    /\ UNCHANGED <<poolVars, pkgVars, epollVars, sendVars, sndVars, client, batch, event>>

-----------------------------------------------------------------------------
(* The read handler, with recv() from the object's descriptor.             *)

\* What a client sent before it left is still received: a hung-up connection
\* stays open until recv() finds the end.
Reading ==
    /\ evPc = "read" /\ Open(sockFd[event.conn])
    /\ event.hup => thrown[event.conn] > -MaxLowered

NewRequest == CHOOSE r \in Request : header[r] = NoHeader

\* A header is complete: memory for the request, stamped with the object's
\* number.  Without a body it is handed over at once.
RecvHeader ==
    LET c == event.conn IN
    /\ Reading /\ recvPkg[c] = NoRequest
    /\ \E r \in Request : header[r] = NoHeader
    /\ header' = [header EXCEPT ![NewRequest] =
                     [conn |-> c, seq |-> seq[c], client |-> peer[sockFd[c]]]]
    /\ \/ /\ recvPkg' = [recvPkg EXCEPT ![c] = NewRequest]
          /\ UNCHANGED logic
       \/ /\ logic' = logic \cup {NewRequest}
          /\ UNCHANGED recvPkg
    /\ evPc' = AfterRead
    /\ UNCHANGED <<poolVars, recvFreed, epollVars, sendVars, sndVars, client, batch, event>>

\* Mutant: the object keeps its pointer to what it has handed over.
RecvBodyKeeps ==
    LET c == event.conn IN
    /\ Reading /\ recvPkg[c] # NoRequest
    /\ logic' = logic \cup {recvPkg[c]}
    /\ evPc' = AfterRead
    /\ UNCHANGED <<poolVars, recvPkg, header, recvFreed, epollVars, sendVars, sndVars, client,
                   batch, event>>

\* The body is complete: ser_wait_request_in_msgqueue().
RecvBody ==
    LET c == event.conn IN
    /\ Reading /\ recvPkg[c] # NoRequest
    /\ logic' = logic \cup {recvPkg[c]}
    /\ recvPkg' = [recvPkg EXCEPT ![c] = NoRequest]
    /\ evPc' = AfterRead
    /\ UNCHANGED <<poolVars, header, recvFreed, epollVars, sendVars, sndVars, client,
                   batch, event>>

\* Not complete yet.
RecvPart ==
    /\ Reading /\ evPc' = AfterRead
    /\ UNCHANGED <<poolVars, pkgVars, epollVars, sendVars, sndVars, client, batch, event>>

\* Mutant: the descriptor is left open.
RecvClosedForgetsFd ==
    /\ EvGo("read", "in_recy")
    /\ Open(sockFd[event.conn]) => client[peer[sockFd[event.conn]]] = "left"
    /\ UNCHANGED <<poolVars, pkgVars, epollVars, sendVars, sndVars, client, batch, event>>

\* recv() finds the end or an error: close().
RecvClosed ==
    LET f == sockFd[event.conn] IN
    /\ EvGo("read", "in_recy")
    /\ Open(f) => client[peer[f]] = "left"
    /\ peer' = [peer EXCEPT ![f] = NoClient]
    /\ reg' = [reg EXCEPT ![f] = NoConn] /\ regOut' = [regOut EXCEPT ![f] = FALSE]
    /\ UNCHANGED <<poolVars, pkgVars, sendVars, sndVars, client, batch, event>>

\* ser_in_recy_connection()
InRecyConnection ==
    LET c == event.conn IN
    /\ EvGo("in_recy", AfterRead)
    /\ seq' = [seq EXCEPT ![c] = @ + 1]
    /\ recy' = recy \cup {c}
    /\ UNCHANGED <<free, sockFd, pkgVars, epollVars, sendVars, sndVars, client, batch, event>>

-----------------------------------------------------------------------------
(* Sending, from either thread.                                            *)

\* What send() can do: all, a part, nothing as the buffer is full, or an error.
SendResults(c) ==
    IF Open(sockFd[c]) /\ client[peer[sockFd[c]]] = "connected"
    THEN {"all", "part", "full"} ELSE {"error"}

\* The bytes of c's reply go to whoever is behind c's descriptor.
Transmit(c, result) ==
    wire' = IF result \in {"all", "part"}
            THEN [wire EXCEPT ![peer[sockFd[c]]] = @ \cup {sendPkg[c]}] ELSE wire

FreeReply(r) == sendFreed' = [s \in Request |-> IF s = r THEN sendFreed[s] + 1 ELSE sendFreed[s]]

\* EPOLL_CTL_MOD works on the descriptor and stores the object once more.
ModifyEpoll(c, out) ==
    LET f == sockFd[c] IN
    IF f \in Fd /\ reg[f] # NoConn
    THEN reg' = [reg EXCEPT ![f] = c] /\ regOut' = [regOut EXCEPT ![f] = out]
    ELSE UNCHANGED <<reg, regOut>>

\* The write branch for a hung-up connection only lowers the count, once per
\* event and as often as there is still something to read.
LowerThrowCount ==
    /\ EvGo("write", "next") /\ event.hup
    /\ thrown' = [thrown EXCEPT ![event.conn] = @ - 1]
    /\ UNCHANGED <<poolVars, pkgVars, epollVars, sendPkg, sendQueue, sendFreed, wire, sndVars,
                   client, batch, event>>

\* ser_write_request_handler()
WriteHandler ==
    LET c == event.conn IN
    /\ EvGo("write", "next") /\ ~event.hup
    /\ \E result \in SendResults(c) :
          /\ Transmit(c, result)
          /\ IF result = "all" THEN ModifyEpoll(c, FALSE) ELSE UNCHANGED <<reg, regOut>>
          /\ IF result \in {"part", "full"} THEN UNCHANGED <<thrown, sendFreed>>
             ELSE FreeReply(sendPkg[c]) /\ thrown' = [thrown EXCEPT ![c] = @ - 1]
    /\ UNCHANGED <<poolVars, pkgVars, peer, sendPkg, sendQueue, sndVars, client, batch, event>>

-----------------------------------------------------------------------------
(* The send thread.  Its scan may pass over replies, so it may take any.   *)

SndGo(from, to) == sndPc = from /\ sndPc' = to

DropStale(r) ==
    /\ sndPc = "scan" /\ r \in sendQueue
    /\ seq[header[r].conn] # header[r].seq
    /\ FreeReply(r) /\ sendQueue' = sendQueue \ {r}
    /\ UNCHANGED <<poolVars, pkgVars, epollVars, sendPkg, thrown, wire, sndVars, client, evVars>>

\* Mutant: the numbers are not compared.
TakeReplyUnchecked(r) ==
    LET c == header[r].conn IN
    /\ SndGo("scan", "send") /\ r \in sendQueue
    /\ thrown[c] <= 0
    /\ sndConn' = c
    /\ sendPkg' = [sendPkg EXCEPT ![c] = r]
    /\ sendQueue' = sendQueue \ {r}
    /\ UNCHANGED <<poolVars, pkgVars, epollVars, thrown, sendFreed, wire, client, evVars>>

\* Mutant: the count is not looked at.
TakeReplyWhileThrown(r) ==
    LET c == header[r].conn IN
    /\ SndGo("scan", "send") /\ r \in sendQueue
    /\ seq[c] = header[r].seq
    /\ sndConn' = c
    /\ sendPkg' = [sendPkg EXCEPT ![c] = r]
    /\ sendQueue' = sendQueue \ {r}
    /\ UNCHANGED <<poolVars, pkgVars, epollVars, thrown, sendFreed, wire, client, evVars>>

TakeReply(r) ==
    LET c == header[r].conn IN
    /\ SndGo("scan", "send") /\ r \in sendQueue
    /\ seq[c] = header[r].seq /\ thrown[c] <= 0
    /\ sndConn' = c
    /\ sendPkg' = [sendPkg EXCEPT ![c] = r]
    /\ sendQueue' = sendQueue \ {r}
    /\ UNCHANGED <<poolVars, pkgVars, epollVars, thrown, sendFreed, wire, client, evVars>>

\* send() to whatever mSockFd is by now.
SendReply ==
    /\ sndPc = "send"
    /\ \E result \in SendResults(sndConn) :
          /\ Transmit(sndConn, result)
          /\ sndPc' = IF result \in {"part", "full"} THEN "throw" ELSE "finish"
    /\ UNCHANGED <<poolVars, pkgVars, epollVars, sendPkg, thrown, sendQueue, sendFreed, sndConn,
                   client, evVars>>

FinishReply ==
    /\ SndGo("finish", "scan")
    /\ FreeReply(sendPkg[sndConn])
    /\ thrown' = [thrown EXCEPT ![sndConn] = 0]
    /\ sndConn' = NoConn
    /\ UNCHANGED <<poolVars, pkgVars, epollVars, sendPkg, sendQueue, wire, client, evVars>>

\* The rest is left to the event loop.
Throw ==
    /\ SndGo("throw", "epoll_on")
    /\ thrown' = [thrown EXCEPT ![sndConn] = @ + 1]
    /\ UNCHANGED <<poolVars, pkgVars, epollVars, sendPkg, sendQueue, sendFreed, wire, sndConn,
                   client, evVars>>

EpollOn ==
    /\ SndGo("epoll_on", "scan")
    /\ ModifyEpoll(sndConn, TRUE)
    /\ sndConn' = NoConn
    /\ UNCHANGED <<poolVars, pkgVars, peer, sendVars, client, evVars>>

-----------------------------------------------------------------------------
(* Recycler, logic threads, clients.                                       *)

\* PutOneToFree(), which frees mRecvPkgData again for mSendPkgData.
Recycle(c) ==
    LET times == IF sendPkg[c] = NoRequest THEN 1 ELSE 2 IN
    /\ c \in recy /\ sndConn # c
    /\ recy' = recy \ {c} /\ free' = free \cup {c}
    /\ seq' = [seq EXCEPT ![c] = @ + 1]
    /\ recvFreed' = [r \in Request |->
                        IF r = recvPkg[c] THEN recvFreed[r] + times ELSE recvFreed[r]]
    /\ thrown' = [thrown EXCEPT ![c] = 0]
    /\ UNCHANGED <<sockFd, recvPkg, header, logic, epollVars, sendPkg, sendQueue, sendFreed, wire,
                   sndVars, client, evVars>>

\* A logic thread answers a request, or not; the pool frees it.
Process(r) ==
    /\ r \in logic /\ logic' = logic \ {r}
    /\ sendQueue' \in {sendQueue, sendQueue \cup {r}}
    /\ recvFreed' = [recvFreed EXCEPT ![r] = @ + 1]
    /\ UNCHANGED <<poolVars, recvPkg, header, epollVars, sendPkg, thrown, sendFreed, wire,
                   sndVars, client, evVars>>

ClientLeaves(k) ==
    /\ client[k] = "connected"
    /\ client' = [client EXCEPT ![k] = "left"]
    /\ UNCHANGED <<poolVars, pkgVars, epollVars, sendVars, sndVars, evVars>>

EventLoop ==
    \/ EpollWait \/ \E e \in batch : NextEvent(e)
    \/ \E k \in Client, f \in Fd, c \in Conn : AcceptConn(k, f, c)
    \/ AcceptFails \/ RecvHeader \/ RecvBody \/ RecvPart \/ RecvClosed \/ InRecyConnection
    \/ LowerThrowCount \/ WriteHandler

Sender == \/ \E r \in Request : DropStale(r) \/ TakeReply(r)
          \/ SendReply \/ FinishReply \/ Throw \/ EpollOn

Next == \/ EventLoop \/ Sender
        \/ \E c \in Conn : Recycle(c)
        \/ \E r \in Request : Process(r)
        \/ \E k \in Client : ClientLeaves(k)

Spec == Init /\ [][Next]_vars

-----------------------------------------------------------------------------
Received == {r \in Request : header[r] # NoHeader}
Event == [conn : Conn, seq : Nat, in : BOOLEAN, out : BOOLEAN, hup : BOOLEAN]

TypeOK ==
    /\ free \subseteq Conn /\ recy \subseteq Conn
    /\ seq \in [Conn -> Nat] /\ sockFd \in [Conn -> Fd \cup {NoFd}]
    /\ recvPkg \in [Conn -> Received \cup {NoRequest}]
    /\ sendPkg \in [Conn -> Received \cup {NoRequest}]
    /\ thrown \in [Conn -> Int]
    /\ peer \in [Fd -> Client \cup {NoClient}]
    /\ reg \in [Fd -> Conn \cup {NoConn}] /\ regOut \in [Fd -> BOOLEAN]
    /\ client \in [Client -> {"connecting", "connected", "left"}]
    /\ header \in [Request -> Header \cup {NoHeader}]
    /\ logic \subseteq Received /\ sendQueue \subseteq Received
    /\ recvFreed \in [Request -> Nat] /\ sendFreed \in [Request -> Nat]
    /\ wire \in [Client -> SUBSET (Request \cup {NoRequest})]
    /\ sndPc \in {"scan", "send", "finish", "throw", "epoll_on"}
    /\ sndConn \in IF sndPc = "scan" THEN {NoConn} ELSE Conn
    /\ evPc \in {"next", "accept", "read", "in_recy", "write"}
    /\ batch \subseteq Event \cup {Accepting} /\ event \in Event \cup {Accepting, NoEvent}
    /\ evPc \in {"read", "in_recy", "write"} => event \in Event

\* A client only ever receives bytes of replies to its own requests, although
\* replies outlive clients, and objects and descriptors go from one to the next.
ReplyToRequester == \A k \in Client : \A r \in wire[k] : r \in Request /\ header[r].client = k

\* No event of a batch is stale: when an event is handled its object is in the
\* same hands as when epoll_wait() returned it, whatever the events before it have
\* closed, retired and accepted, and the recycler freed.  The tests for stale
\* events in ser_epoll_process_events() are commented out.
EventsAreCurrent ==
    /\ \A e \in batch : e.conn # NoConn => e.seq = seq[e.conn]
    /\ evPc = "read" => event.seq = seq[event.conn]

\* What a thread is going to read, write or free has not been freed: a request
\* being received or processed, a reply that is queued, being sent or left to
\* the event loop.
Bound == Conn \ (free \cup recy)
BuffersAlive ==
    /\ \A c \in Bound : recvPkg[c] # NoRequest => recvFreed[recvPkg[c]] = 0
    /\ \A r \in logic : recvFreed[r] = 0
    /\ \A r \in sendQueue : sendFreed[r] = 0
    /\ sndPc \in {"send", "throw", "finish"} =>
          sendPkg[sndConn] # NoRequest /\ sendFreed[sendPkg[sndConn]] = 0
    /\ \A c \in Conn : thrown[c] > 0 => sendPkg[c] # NoRequest /\ sendFreed[sendPkg[c]] = 0

\* "Memory that was allocated has to be freed": of an object in the free list,
\* the request and the reply it was at have been freed, once.
BuffersReleased ==
    \A c \in free :
        /\ recvPkg[c] # NoRequest => recvFreed[recvPkg[c]] = 1
        /\ sendPkg[c] # NoRequest => sendFreed[sendPkg[c]] = 1

\* The worker, seen by its clients.
InUse == Conn \ free
Asker == [r \in Request |-> header[r].client]
BeingRead == {r \in Request : r \in logic \/ \E c \in InUse : recvPkg[c] = r}
UnderWay(c) == c \in InUse /\ (thrown[c] > 0 \/ (sndPc \in {"send", "finish", "throw"} /\ sndConn = c))
BeingSent == {r \in Request : \E c \in Conn : UnderWay(c) /\ sendPkg[c] = r}

Promise == INSTANCE Conversation WITH
               from <- Asker, open <- BeingRead, answered <- sendQueue, sending <- BeingSent

\* The worker implements Conversation: each client gets replies to what it has
\* asked only, one at a time and each once, and they are only given up when it
\* leaves.
ImplementsConversation == Promise!Spec

=============================================================================
