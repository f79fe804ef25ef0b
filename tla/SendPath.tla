------------------------------ MODULE SendPath ------------------------------
(***************************************************************************)
(* How replies get from the logic threads to the clients.  The logic       *)
(* threads queue them; the send thread, ser_send_msg_queue_thread(), takes *)
(* them and calls send().  When the kernel's buffer is full it leaves the  *)
(* rest of the reply to the event loop: mThrowSendCount is raised, EPOLLOUT*)
(* is switched on, and while the count is above 0 the send thread skips    *)
(* the connection.  ser_write_request_handler() sends the rest, switches   *)
(* EPOLLOUT off, wakes the send thread, frees the reply and lowers the     *)
(* count, in this order.                                                   *)
(*                                                                         *)
(* Connections are in use from the start and are not reused here.  A reply *)
(* has ReplyLength bytes.  send() does what the kernel does: it takes as   *)
(* many bytes as there is room for, fails, or, when the client has reset   *)
(* the connection, may raise SIGPIPE.  Nothing handles or ignores that     *)
(* signal: it ends the worker, with what it still had to send to others.   *)
(***************************************************************************)
EXTENDS Integers, Sequences, SequencesExt, FiniteSetsExt

CONSTANTS
    Conn,          \* connection objects, one client each
    NoConn,
    MaxReply,      \* bound: replies, over all connections
    ReplyLength,   \* bytes of a reply
    Capacity,      \* bytes of a socket's send buffer
    Backlog,       \* how many may still be in it from earlier replies, at first
    MaxUnread,     \* bound: pieces of requests a client has sent and recv() has not got, at first
    Departures     \* how clients leave: subset of {"fin", "gone"}

ASSUME SendAssumption ==
    /\ NoConn \notin Conn
    /\ MaxReply \in Nat /\ ReplyLength \in Nat \ {0}
    /\ Capacity \in Nat \ {0} /\ MaxUnread \in Nat
    /\ Backlog \subseteq 0 .. Capacity
    /\ Departures \subseteq {"fin", "gone"}

Reply == 1 .. MaxReply
NoReply == 0

\* A byte of a reply; their numbers start at 1.
ByteOfReply == Reply \X (1 .. ReplyLength)

VARIABLES
    sendQueue,   \* mMsgSendQueue
    sendMutex,   \* whether the send thread holds mSendQueueMutex
    sem,         \* mSendQueueSem
    dest,        \* mConnection of each reply's message header; NoConn: no reply yet
    freed,       \* how often each reply's memory was freed
    thrown,      \* mThrowSendCount of each connection
    sendPkg,     \* mSendPkgData
    sendLength,  \* mSendLength: bytes left, from which mSendLocation follows
    epollOut,    \* EPOLLOUT is in the connection's epoll events
    conn,        \* "open"; "closed": descriptor closed; "retired": number raised too
    peer,        \* the client: "up"; "fin": has shut down its side; "gone": reset
    unread,      \* pieces of requests in the receive buffer
    inKernel,    \* bytes in the send buffer
    wire,        \* all bytes the kernel accepted, each as <<reply, index>>
    sndPc, sndPos, sndConn,   \* send thread: next step, iterator, pConnection;
                              \* "killed": the whole worker has been killed
    evPc, evConn, evNext      \* event loop: next step, pConnection, write branch

queueVars == <<sendQueue, sendMutex, sem, dest>>
connVars  == <<thrown, sendPkg, sendLength, epollOut>>
netVars   == <<inKernel, wire>>
peerVars  == <<peer, unread>>
sndVars   == <<sndPc, sndPos, sndConn>>
evVars    == <<evPc, evConn, evNext>>
vars == <<queueVars, freed, connVars, conn, peerVars, netVars, sndVars, evVars>>

Init ==
    /\ sendQueue = <<>> /\ sendMutex = FALSE /\ sem = 0
    /\ dest = [r \in Reply |-> NoConn]
    /\ freed = [r \in Reply |-> 0]
    /\ thrown = [c \in Conn |-> 0]
    /\ sendPkg = [c \in Conn |-> NoReply]
    /\ sendLength = [c \in Conn |-> 0]
    /\ epollOut = [c \in Conn |-> FALSE]
    /\ conn = [c \in Conn |-> "open"]
    /\ peer = [c \in Conn |-> "up"]
    /\ unread = [c \in Conn |-> MaxUnread]
    /\ inKernel \in [Conn -> Backlog]
    /\ wire = [c \in Conn |-> <<>>]
    /\ sndPc = "sem_wait" /\ sndPos = 1 /\ sndConn = NoConn
    /\ evPc = "epoll_wait" /\ evConn = NoConn /\ evNext = "epoll_wait"

-----------------------------------------------------------------------------
(* send() and what both senders share.                                     *)

\* ser_send_pkg(): bytes taken, 0 for nothing to send, -1 for a full buffer,
\* -2 for a closed descriptor or, with ECONNRESET, for a reset connection.  On
\* a reset connection SigPipe may happen instead.
SendResult(c) ==
    IF conn[c] # "open" \/ peer[c] = "gone" THEN -2
    ELSE IF inKernel[c] = Capacity /\ sendLength[c] > 0 THEN -1
    ELSE Min({sendLength[c], Capacity - inKernel[c]})

\* The kernel takes n bytes from mSendLocation.
Transmit(c, n) ==
    LET done == ReplyLength - sendLength[c] IN
    /\ inKernel' = [inKernel EXCEPT ![c] = @ + n]
    /\ wire' = [wire EXCEPT ![c] = @ \o [k \in 1 .. n |-> <<sendPkg[c], done + k>>]]

FreeMemory(r) == freed' = [freed EXCEPT ![r] = @ + 1]

-----------------------------------------------------------------------------
(* Logic threads.                                                          *)

\* ser_in_send_queue(): push and post under the mutex.
InSendQueue(r, c) ==
    /\ sndPc # "killed" /\ ~sendMutex
    /\ dest[r] = NoConn /\ \A s \in Reply : s < r => dest[s] # NoConn
    /\ dest' = [dest EXCEPT ![r] = c]
    /\ sendQueue' = Append(sendQueue, r)
    /\ sem' = sem + 1
    /\ UNCHANGED <<sendMutex, freed, connVars, conn, peerVars, netVars, sndVars, evVars>>

-----------------------------------------------------------------------------
(* The send thread.                                                        *)

SndGo(from, to) == sndPc = from /\ sndPc' = to

\* sem_wait().  No handler returns, see Processes, so it is never interrupted.
SemWait ==
    /\ SndGo("sem_wait", "look")
    /\ sem > 0 /\ sem' = sem - 1
    /\ UNCHANGED <<sendQueue, sendMutex, dest, freed, connVars, conn, peerVars, netVars,
                   sndPos, sndConn, evVars>>

\* The queue is looked at before the mutex is taken.
Look ==
    /\ sndPc = "look"
    /\ sndPc' = IF sendQueue = <<>> THEN "sem_wait" ELSE "lock"
    /\ UNCHANGED <<queueVars, freed, connVars, conn, peerVars, netVars, sndPos, sndConn, evVars>>

LockQueue ==
    /\ SndGo("lock", "scan")
    /\ sendMutex' = TRUE /\ sndPos' = 1
    /\ UNCHANGED <<sendQueue, sem, dest, freed, connVars, conn, peerVars, netVars, sndConn, evVars>>

Current == sendQueue[sndPos]

\* The connection was retired after the request had come.
DropStale ==
    /\ sndPc = "scan" /\ sndPos <= Len(sendQueue)
    /\ conn[dest[Current]] = "retired"
    /\ FreeMemory(Current)
    /\ sendQueue' = RemoveAt(sendQueue, sndPos)
    /\ UNCHANGED <<sendMutex, sem, dest, connVars, conn, peerVars, netVars, sndVars, evVars>>

\* The event loop is sending to this connection.
SkipThrown ==
    /\ sndPc = "scan" /\ sndPos <= Len(sendQueue)
    /\ conn[dest[Current]] # "retired" /\ thrown[dest[Current]] > 0
    /\ sndPos' = sndPos + 1
    /\ UNCHANGED <<queueVars, freed, connVars, conn, peerVars, netVars, sndPc, sndConn, evVars>>

\* Mutant: mThrowSendCount is not looked at.
TakeReplyAlways ==
    LET c == dest[Current] IN
    /\ SndGo("scan", "send") /\ sndPos <= Len(sendQueue)
    /\ conn[c] # "retired"
    /\ sndConn' = c
    /\ sendPkg' = [sendPkg EXCEPT ![c] = Current]
    /\ sendLength' = [sendLength EXCEPT ![c] = ReplyLength]
    /\ sendQueue' = RemoveAt(sendQueue, sndPos)
    /\ UNCHANGED <<sendMutex, sem, dest, freed, thrown, epollOut, conn, peerVars, netVars,
                   sndPos, evVars>>

TakeReply ==
    LET c == dest[Current] IN
    /\ SndGo("scan", "send") /\ sndPos <= Len(sendQueue)
    /\ conn[c] # "retired" /\ thrown[c] <= 0
    /\ sndConn' = c
    /\ sendPkg' = [sendPkg EXCEPT ![c] = Current]
    /\ sendLength' = [sendLength EXCEPT ![c] = ReplyLength]
    /\ sendQueue' = RemoveAt(sendQueue, sndPos)
    /\ UNCHANGED <<sendMutex, sem, dest, freed, thrown, epollOut, conn, peerVars, netVars,
                   sndPos, evVars>>

\* send(), the descriptor being whatever mSockFd says by now.
Send ==
    LET n == SendResult(sndConn) IN
    /\ sndPc = "send"
    /\ IF n > 0 THEN Transmit(sndConn, n) ELSE UNCHANGED netVars
    /\ IF n \in 1 .. sendLength[sndConn] - 1
       THEN sendLength' = [sendLength EXCEPT ![sndConn] = @ - n]
       ELSE UNCHANGED sendLength
    /\ sndPc' = IF n = -1 \/ n \in 1 .. sendLength[sndConn] - 1 THEN "throw" ELSE "finish"
    /\ UNCHANGED <<queueVars, freed, thrown, sendPkg, epollOut, conn, peerVars,
                   sndPos, sndConn, evVars>>

\* Sent completely, or failed: the reply is freed, the count reset.
FinishReply ==
    /\ SndGo("finish", "scan")
    /\ FreeMemory(sendPkg[sndConn])
    /\ thrown' = [thrown EXCEPT ![sndConn] = 0]
    /\ sndConn' = NoConn
    /\ UNCHANGED <<queueVars, sendPkg, sendLength, epollOut, conn, peerVars, netVars,
                   sndPos, evVars>>

\* The rest is left to the event loop.
Throw ==
    /\ SndGo("throw", "epoll_on")
    /\ thrown' = [thrown EXCEPT ![sndConn] = @ + 1]
    /\ UNCHANGED <<queueVars, freed, sendPkg, sendLength, epollOut, conn, peerVars, netVars,
                   sndPos, sndConn, evVars>>

\* Mutant: EPOLLOUT is not switched on.
EpollOnForgotten ==
    /\ SndGo("epoll_on", "scan")
    /\ sndConn' = NoConn
    /\ UNCHANGED <<queueVars, freed, connVars, conn, peerVars, netVars, sndPos, evVars>>

EpollOn ==
    /\ SndGo("epoll_on", "scan")
    /\ epollOut' = [epollOut EXCEPT ![sndConn] = TRUE]
    /\ sndConn' = NoConn
    /\ UNCHANGED <<queueVars, freed, thrown, sendPkg, sendLength, conn, peerVars, netVars,
                   sndPos, evVars>>

UnlockQueue ==
    /\ SndGo("scan", "sem_wait")
    /\ sndPos > Len(sendQueue)
    /\ sendMutex' = FALSE
    /\ UNCHANGED <<sendQueue, sem, dest, freed, connVars, conn, peerVars, netVars,
                   sndPos, sndConn, evVars>>

Sender == \/ SemWait \/ Look \/ LockQueue \/ DropStale \/ SkipThrown \/ TakeReply
          \/ Send \/ FinishReply \/ Throw \/ EpollOn \/ UnlockQueue

-----------------------------------------------------------------------------
(* The event loop: ser_epoll_process_events() and the two handlers.        *)

EvGo(from, to) == evPc = from /\ evPc' = to

Writable(c) == epollOut[c] /\ inKernel[c] < Capacity

\* One event of epoll_wait().  EPOLLERR and EPOLLHUP are taken for EPOLLIN and
\* EPOLLOUT as well; with them or EPOLLRDHUP the write branch only lowers the
\* count, and otherwise it calls the write handler.  The read branch runs
\* first: recv() gets the next piece of a request, or nothing is left and the
\* descriptor is closed.
Event(c) ==
    LET in  == peer[c] # "up" \/ unread[c] > 0
        out == peer[c] = "gone" \/ Writable(c)
        next == IF ~out THEN "epoll_wait" ELSE IF peer[c] # "up" THEN "lower" ELSE "w_send"
    IN  /\ evPc = "epoll_wait" /\ conn[c] = "open" /\ (in \/ out)
        /\ IF in /\ unread[c] = 0
           THEN /\ conn' = [conn EXCEPT ![c] = "closed"]
                /\ evPc' = "in_recy" /\ evNext' = next
                /\ UNCHANGED unread
           ELSE /\ unread' = IF in THEN [unread EXCEPT ![c] = @ - 1] ELSE unread
                /\ evPc' = next
                /\ UNCHANGED <<conn, evNext>>
        /\ evConn' = c
        /\ UNCHANGED <<queueVars, freed, connVars, peer, netVars, sndVars>>

\* ser_in_recy_connection() raises the sequence number.
InRecyConnection ==
    /\ EvGo("in_recy", evNext)
    /\ conn' = [conn EXCEPT ![evConn] = "retired"]
    /\ UNCHANGED <<queueVars, freed, connVars, peerVars, netVars, sndVars, evConn, evNext>>

LowerThrowCount ==
    /\ EvGo("lower", "epoll_wait")
    /\ thrown' = [thrown EXCEPT ![evConn] = @ - 1]
    /\ UNCHANGED <<queueVars, freed, sendPkg, sendLength, epollOut, conn, peerVars, netVars,
                   sndVars, evConn, evNext>>

\* Mutant: an error is subtracted from mSendLength as if it were a number of
\* bytes.
WriteSendCountsErrors ==
    LET n == SendResult(evConn)
        part == n # sendLength[evConn]
    IN  /\ evPc = "w_send"
        /\ IF n > 0 THEN Transmit(evConn, n) ELSE UNCHANGED netVars
        /\ sendLength' = IF part THEN [sendLength EXCEPT ![evConn] = @ - n] ELSE sendLength
        /\ evPc' = IF part THEN "epoll_wait" ELSE "w_epoll_off"
        /\ UNCHANGED <<queueVars, freed, thrown, sendPkg, epollOut, conn, peerVars,
                       sndVars, evConn, evNext>>

\* ser_write_request_handler(): sends what there is room for; when nothing is
\* left, or the send failed, it winds up.
WriteSend ==
    LET n == SendResult(evConn)
        part == n \in 1 .. sendLength[evConn] - 1
    IN  /\ evPc = "w_send"
        /\ IF n > 0 THEN Transmit(evConn, n) ELSE UNCHANGED netVars
        /\ sendLength' = IF part THEN [sendLength EXCEPT ![evConn] = @ - n] ELSE sendLength
        /\ evPc' = IF part \/ n = -1 THEN "epoll_wait"
                   ELSE IF n > 0 THEN "w_epoll_off" ELSE "w_post"
        /\ UNCHANGED <<queueVars, freed, thrown, sendPkg, epollOut, conn, peerVars,
                       sndVars, evConn, evNext>>

\* Mutant: EPOLLOUT is left on.
WriteEpollOffForgotten ==
    /\ EvGo("w_epoll_off", "w_post")
    /\ UNCHANGED <<queueVars, freed, connVars, conn, peerVars, netVars, sndVars, evConn, evNext>>

\* Mutant: the send thread is let in before the reply is freed.
WriteEpollOffLowersCount ==
    /\ EvGo("w_epoll_off", "w_post")
    /\ epollOut' = [epollOut EXCEPT ![evConn] = FALSE]
    /\ thrown' = [thrown EXCEPT ![evConn] = @ - 1]
    /\ UNCHANGED <<queueVars, freed, sendPkg, sendLength, conn, peerVars, netVars,
                   sndVars, evConn, evNext>>

WriteEpollOff ==
    /\ EvGo("w_epoll_off", "w_post")
    /\ epollOut' = [epollOut EXCEPT ![evConn] = FALSE]
    /\ UNCHANGED <<queueVars, freed, thrown, sendPkg, sendLength, conn, peerVars, netVars,
                   sndVars, evConn, evNext>>

WritePost ==
    /\ EvGo("w_post", "w_free")
    /\ sem' = sem + 1
    /\ UNCHANGED <<sendQueue, sendMutex, dest, freed, connVars, conn, peerVars, netVars,
                   sndVars, evConn, evNext>>

WriteFree ==
    /\ EvGo("w_free", "lower")
    /\ FreeMemory(sendPkg[evConn])
    /\ UNCHANGED <<queueVars, connVars, conn, peerVars, netVars, sndVars, evConn, evNext>>

EventLoop ==
    /\ sndPc # "killed"
    /\ \/ \E c \in Conn : Event(c)
       \/ InRecyConnection \/ LowerThrowCount
       \/ WriteSend \/ WriteEpollOff \/ WritePost \/ WriteFree

-----------------------------------------------------------------------------
Broken(c) == conn[c] = "open" /\ peer[c] = "gone"

\* send() without MSG_NOSIGNAL, by either thread, to a client that has reset
\* its connection: EPIPE comes with SIGPIPE, which ends the worker.
SigPipe ==
    /\ sndPc # "killed"
    /\ \/ sndPc = "send" /\ Broken(sndConn)
       \/ evPc = "w_send" /\ Broken(evConn)
    /\ sndPc' = "killed"
    /\ UNCHANGED <<queueVars, freed, connVars, conn, peerVars, netVars, sndPos, sndConn, evVars>>

-----------------------------------------------------------------------------
(* Clients.                                                                *)

ClientReads(c) ==
    /\ inKernel[c] > 0 /\ peer[c] # "gone"
    /\ inKernel' = [inKernel EXCEPT ![c] = @ - 1]
    /\ UNCHANGED <<queueVars, freed, connVars, conn, peerVars, wire, sndVars, evVars>>

\* "fin": the client shuts down its sending side and goes on reading;
\* "gone": it resets the connection.
ClientLeaves(c, how) ==
    /\ peer[c] = "up"
    /\ peer' = [peer EXCEPT ![c] = how]
    /\ UNCHANGED <<queueVars, freed, connVars, conn, unread, netVars, sndVars, evVars>>

Next == \/ Sender \/ EventLoop
        \/ SigPipe
        \/ \E r \in Reply, c \in Conn : InSendQueue(r, c)
        \/ \E c \in Conn : ClientReads(c) \/ \E how \in Departures : ClientLeaves(c, how)

Spec == Init /\ [][Next]_vars

\* Both threads run until the worker is killed, and clients that stay connected
\* read what they are sent.  Nobody has to send a reply or to leave, and a send
\* to a reset connection may raise SIGPIPE or not.
Fairness == WF_vars(Sender) /\ WF_vars(EventLoop) /\ \A c \in Conn : WF_vars(ClientReads(c))

FairSpec == Spec /\ Fairness

-----------------------------------------------------------------------------
TypeOK ==
    /\ sendQueue \in Seq(Reply) /\ sendMutex \in BOOLEAN /\ sem \in Nat
    /\ dest \in [Reply -> Conn \cup {NoConn}]
    /\ freed \in [Reply -> Nat]
    /\ thrown \in [Conn -> Int]
    /\ sendPkg \in [Conn -> Reply \cup {NoReply}]
    /\ sendLength \in [Conn -> 0 .. ReplyLength]
    /\ epollOut \in [Conn -> BOOLEAN]
    /\ conn \in [Conn -> {"open", "closed", "retired"}]
    /\ peer \in [Conn -> {"up", "fin", "gone"}]
    /\ unread \in [Conn -> 0 .. MaxUnread]
    /\ inKernel \in [Conn -> 0 .. Capacity]
    /\ wire \in [Conn -> Seq(ByteOfReply)]
    /\ sndPc \in {"sem_wait", "look", "lock", "scan", "send", "finish", "throw", "epoll_on",
                 "killed"}
    /\ sndPos \in Nat \ {0} /\ sndConn \in Conn \cup {NoConn}
    /\ evPc \in {"epoll_wait", "in_recy", "lower", "w_send", "w_epoll_off", "w_post", "w_free"}
    /\ evConn \in Conn \cup {NoConn}
    /\ evNext \in {"epoll_wait", "lower", "w_send"}

\* What a client receives is whole replies one after another, the last one
\* perhaps still incomplete, and no byte twice: replies sent partly by the send
\* thread and partly by the event loop never mix.  Their order is not promised:
\* the event loop may lower mThrowSendCount in the middle of a scan, after the
\* send thread has skipped one reply of a connection and before it looks at the
\* next.
WireIntegrity ==
    \A c \in Conn :
        /\ IsInjective(wire[c])
        /\ \A i \in 1 .. Len(wire[c]) :
              LET reply == wire[c][i][1]
                  index == wire[c][i][2]
              IN  IF index > 1 THEN i > 1 /\ wire[c][i - 1] = <<reply, index - 1>>
                  ELSE i > 1 => wire[c][i - 1][2] = ReplyLength

\* A reply's memory is freed at most once, and not while it is queued or one of
\* the threads is about to send from it.
FreedWhenDone ==
    /\ \A r \in Reply : freed[r] <= 1
    /\ \A r \in ToSet(sendQueue) : freed[r] = 0
    /\ sndPc \in {"send", "throw", "finish"} => freed[sendPkg[sndConn]] = 0
    /\ evPc = "w_send" => freed[sendPkg[evConn]] = 0

\* The two threads never work on the send fields of one connection at once.
OneSender ==
    sndPc \in {"send", "finish", "throw", "epoll_on"}
        /\ evPc \in {"w_send", "w_epoll_off", "w_post", "w_free"}
    => sndConn # evConn

\* A reply the event loop has taken over is sent to the end, or its client has
\* left, or the worker has been killed by a send to some other client that has
\* left: then the rest of the reply is never sent.
TakenOverIsCompleted ==
    \A r \in Reply, c \in Conn :
        (thrown[c] > 0 /\ sendPkg[c] = r)
            ~> (freed[r] = 1 \/ peer[c] # "up" \/ sndPc = "killed")

\* "Let the thread go on, and see whether there is new data to send": no queued
\* reply is left lying.
QueuedIsTaken == \A r \in Reply : r \in ToSet(sendQueue) ~> r \notin ToSet(sendQueue)

=============================================================================
