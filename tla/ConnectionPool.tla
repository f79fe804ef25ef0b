--------------------------- MODULE ConnectionPool ---------------------------
(***************************************************************************)
(* The connection pool of a worker process and its two threads: the event  *)
(* loop, which accepts TCP clients, binds each to a connection object      *)
(* (ser_connection_t) and retires the object when the client leaves, and   *)
(* the delayed recycler, which moves retired objects back to the free list *)
(* once they have been quarantined for mRecyWaiteTime seconds.             *)
(*                                                                         *)
(* An object is identified by its address and never returns to the heap    *)
(* while the worker runs, so other threads keep raw pointers to it.  What  *)
(* protects them is mCurrsequence: a message header stores the sequence    *)
(* number the object had when the request was received, and the threads    *)
(* that use the header compare it with the current one.                    *)
(*                                                                         *)
(* mConnectionMutex guards single list operations and is never held across *)
(* another lock, so its critical sections are single steps here.           *)
(* mRecyConnectionMutex is a variable: the recycler holds it across a      *)
(* whole scan.  g_stopEvent is 0: nothing in the program ever sets it.     *)
(***************************************************************************)
EXTENDS Integers, Sequences, SequencesExt

CONSTANTS
    Conn,             \* addresses of connection objects
    InitFree,         \* the free list after start-up, listeners taken out
    Fd,               \* descriptors the kernel can give to accepted sockets
    Client,           \* clients, each of which connects once
    NoConn, NoClient, NoFd,
    RecyWaiteTime,    \* mRecyWaiteTime, in seconds
    Start,            \* time(NULL) at start-up
    LastEntry,        \* bound: no object is retired after this second
    MaxTime,          \* bound: the clock stops here
    KernelHasAccept4, \* FALSE: accept4() fails with ENOSYS
    NonBlockingResults, \* outcomes of ioctl(FIONBIO) considered
    EpollAddResults   \* outcomes of epoll_ctl(ADD) on an open descriptor

ASSUME PoolAssumption ==
    /\ InitFree \in Seq(Conn)
    /\ \A i, j \in 1 .. Len(InitFree) : InitFree[i] = InitFree[j] => i = j

ASSUME NoneAssumption == NoConn \notin Conn /\ NoClient \notin Client /\ NoFd \notin Fd

ASSUME TimeAssumption ==
    /\ RecyWaiteTime \in Nat /\ LastEntry \in Nat /\ MaxTime \in Nat
    /\ Start \in Nat /\ RecyWaiteTime <= Start
    /\ LastEntry + RecyWaiteTime <= MaxTime

ASSUME KernelAssumption ==
    /\ KernelHasAccept4 \in BOOLEAN
    /\ NonBlockingResults \subseteq BOOLEAN
    /\ EpollAddResults \subseteq BOOLEAN

VARIABLES
    free,        \* mFreeConnectionList
    recy,        \* mRecyConnectionList
    pool,        \* mConnectionList: every object ever allocated
    seq,         \* mCurrsequence of each object
    sockFd,      \* mSockFd of each object
    inRecyTime,  \* mInRecyTime of each object
    peer,        \* kernel: the client behind each open descriptor
    reg,         \* kernel: epoll's data.ptr of each registered descriptor
    client,      \* clients' side: "connecting", "connected" or "closed"
    useAccept4,  \* static local of ser_event_accept()
    evPc,        \* event loop: next step
    evConn,      \* event loop: pTCPConnection, or the object it retires
    evFd,        \* event loop: tcpSockFd
    recyMutex,   \* mRecyConnectionMutex: "recycler", or "none" between two steps
    rcPc,        \* recycler: next step
    rcTime,      \* recycler: currentTime
    rcConn,      \* recycler: object erased from recy and not yet freed
    now,         \* time(NULL)
    headers      \* every MSG_HEADER ever stored in a received package

objVars    == <<pool, seq, sockFd, inRecyTime>>
kernelVars == <<peer, reg, client>>
loopVars   == <<useAccept4, evPc, evConn, evFd>>
rcVars     == <<rcPc, rcTime, rcConn>>
vars == <<free, recy, objVars, kernelVars, loopVars, recyMutex, rcVars, now, headers>>

Header == [conn : Conn, seq : Nat, client : Client]

\* The objects each part of the worker holds.
Holder == {"free", "recy", "epoll", "loop", "recycler"}
Held == [free     |-> ToSet(free),
         recy     |-> ToSet(recy),
         epoll    |-> {reg[fd] : fd \in Fd} \ {NoConn},
         loop     |-> {evConn} \ {NoConn},
         recycler |-> {rcConn} \ {NoConn}]

Open(fd) == fd \in Fd /\ peer[fd] # NoClient

-----------------------------------------------------------------------------
(* Start-up: ser_init_connection().                                        *)

Init ==
    /\ free = InitFree
    /\ recy = <<>>
    /\ pool = ToSet(InitFree)
    /\ seq = [c \in Conn |-> IF c \in ToSet(InitFree) THEN 1 ELSE 0]
    /\ sockFd = [c \in Conn |-> NoFd]
    /\ inRecyTime = [c \in Conn |-> 0]
    /\ peer = [fd \in Fd |-> NoClient]
    /\ reg = [fd \in Fd |-> NoConn]
    /\ client = [k \in Client |-> "connecting"]
    /\ useAccept4 = TRUE
    /\ evPc = "epoll_wait" /\ evConn = NoConn /\ evFd = NoFd
    /\ recyMutex = "none"
    /\ rcPc = "sleep" /\ rcTime = 0 /\ rcConn = NoConn
    /\ now = Start
    /\ headers = {}

-----------------------------------------------------------------------------
(* Event loop: a new client.                                               *)

\* accept4(), or accept() once accept4() has failed with ENOSYS.  The kernel
\* may use any free descriptor number; without one, EMFILE leaves the client
\* in the backlog.
AcceptConn(k, fd) ==
    /\ evPc = "epoll_wait"
    /\ client[k] = "connecting"
    /\ ~Open(fd)
    /\ client' = [client EXCEPT ![k] = "connected"]
    /\ peer' = [peer EXCEPT ![fd] = k]
    /\ useAccept4' = (useAccept4 /\ KernelHasAccept4)
    /\ evPc' = "get_free" /\ evFd' = fd
    /\ UNCHANGED <<free, recy, objVars, reg, evConn, recyMutex, rcVars, now, headers>>

\* Mutant: the number is lowered when the object is taken.
GetOneToUseLowers(c) ==
    /\ seq' = [seq EXCEPT ![c] = @ - 1]
    /\ sockFd' = [sockFd EXCEPT ![c] = evFd]
    /\ evConn' = c
    /\ UNCHANGED inRecyTime

\* GetOneToUse() and the assignment of mSockFd.
GetOneToUse(c) ==
    /\ seq' = [seq EXCEPT ![c] = @ + 1]
    /\ sockFd' = [sockFd EXCEPT ![c] = evFd]
    /\ evConn' = c
    /\ UNCHANGED inRecyTime

\* ser_get_free_connection(): the front of the free list, or a new object at
\* an address the allocator has not used yet.
GetFreeConnection ==
    /\ evPc = "get_free"
    /\ \/ /\ free # <<>>
          /\ GetOneToUse(Head(free))
          /\ free' = Tail(free)
          /\ UNCHANGED pool
       \/ /\ free = <<>>
          /\ \E c \in Conn \ pool : GetOneToUse(c) /\ pool' = pool \cup {c}
          /\ UNCHANGED free
    /\ evPc' = IF useAccept4 THEN "epoll_add" ELSE "set_nonblocking"
    /\ UNCHANGED <<recy, kernelVars, useAccept4, evFd, recyMutex, rcVars, now, headers>>

\* PutOneToFree() and the insertion at the back of the free list.
FreeConnection(c) ==
    /\ seq' = [seq EXCEPT ![c] = @ + 1]
    /\ free' = Append(free, c)

\* close(): the descriptor is free again and epoll forgets it.
CloseFd(fd) ==
    /\ peer' = [peer EXCEPT ![fd] = NoClient]
    /\ reg' = [reg EXCEPT ![fd] = NoConn]

\* ser_close_connection(): the object goes to the free list before its
\* descriptor is read and closed.
CloseConnection(c) == FreeConnection(c) /\ CloseFd(sockFd[c])

\* ser_set_nonblocking() on a socket of plain accept().  When it fails the
\* connection is closed, and the handler goes on all the same.
SetNonBlocking ==
    /\ evPc = "set_nonblocking"
    /\ \E ok \in NonBlockingResults :
          IF ok THEN UNCHANGED <<free, seq, peer, reg>> ELSE CloseConnection(evConn)
    /\ evPc' = "epoll_add"
    /\ UNCHANGED <<recy, pool, sockFd, inRecyTime, client, useAccept4, evConn, evFd,
                   recyMutex, rcVars, now, headers>>

\* ser_epoll_oper_event(EPOLL_CTL_ADD): on a closed descriptor it fails.
EpollAdd ==
    /\ evPc = "epoll_add"
    /\ \E ok \in EpollAddResults :
          IF ok /\ Open(evFd)
          THEN /\ reg' = [reg EXCEPT ![evFd] = evConn]
               /\ UNCHANGED <<free, seq, peer>>
          ELSE CloseConnection(evConn)
    /\ evPc' = "epoll_wait" /\ evConn' = NoConn /\ evFd' = NoFd
    /\ UNCHANGED <<recy, pool, sockFd, inRecyTime, client, useAccept4,
                   recyMutex, rcVars, now, headers>>

-----------------------------------------------------------------------------
(* Event loop: events of an accepted connection.  epoll reports a          *)
(* descriptor, the handlers receive from the mSockFd of its data.ptr.      *)

\* A request is received completely: ser_wait_request_process_pkg() stamps
\* its header with the object and its current sequence number.
RecvRequest(fd) ==
    /\ evPc = "epoll_wait" /\ reg[fd] # NoConn
    /\ LET c == reg[fd] IN
          /\ Open(sockFd[c])
          /\ headers' = headers \cup
                 {[conn |-> c, seq |-> seq[c], client |-> peer[sockFd[c]]]}
    /\ UNCHANGED <<free, recy, objVars, kernelVars, loopVars, recyMutex, rcVars, now>>

ClientLeaves(k) ==
    /\ client[k] = "connected"
    /\ client' = [client EXCEPT ![k] = "closed"]
    /\ UNCHANGED <<free, recy, objVars, peer, reg, loopVars, recyMutex, rcVars, now, headers>>

\* Mutant: the object is freed at once, as after a failed accept.
RecvClosedFrees(fd) ==
    /\ evPc = "epoll_wait" /\ reg[fd] # NoConn
    /\ LET f == sockFd[reg[fd]] IN
          /\ Open(f) /\ client[peer[f]] = "closed"
          /\ CloseConnection(reg[fd])
    /\ UNCHANGED <<recy, pool, sockFd, inRecyTime, client, loopVars, recyMutex, rcVars,
                   now, headers>>

\* recv() returns 0 or a fatal error: ser_recv_pkg() closes the descriptor.
RecvClosed(fd) ==
    /\ evPc = "epoll_wait" /\ reg[fd] # NoConn
    /\ now <= LastEntry
    /\ LET f == sockFd[reg[fd]] IN
          /\ Open(f) /\ client[peer[f]] = "closed"
          /\ CloseFd(f)
    /\ evPc' = "in_recy" /\ evConn' = reg[fd]
    /\ UNCHANGED <<free, recy, objVars, client, useAccept4, evFd, recyMutex, rcVars,
                   now, headers>>

\* Mutant: the sequence number is not raised.
InRecyConnectionKeepsSeq ==
    /\ evPc = "in_recy"
    /\ recyMutex = "none"
    /\ inRecyTime' = [inRecyTime EXCEPT ![evConn] = now]
    /\ recy' = Append(recy, evConn)
    /\ evPc' = "epoll_wait" /\ evConn' = NoConn
    /\ UNCHANGED <<free, pool, seq, sockFd, kernelVars, useAccept4, evFd, recyMutex, rcVars,
                   now, headers>>

\* ser_in_recy_connection(), under mRecyConnectionMutex.
InRecyConnection ==
    /\ evPc = "in_recy"
    /\ recyMutex = "none"
    /\ inRecyTime' = [inRecyTime EXCEPT ![evConn] = now]
    /\ seq' = [seq EXCEPT ![evConn] = @ + 1]
    /\ recy' = Append(recy, evConn)
    /\ evPc' = "epoll_wait" /\ evConn' = NoConn
    /\ UNCHANGED <<free, pool, sockFd, kernelVars, useAccept4, evFd, recyMutex, rcVars,
                   now, headers>>

-----------------------------------------------------------------------------
(* The recycler: ser_recy_connection_thread().                             *)

\* After usleep(): list looked at, and clock read, before the lock is taken.
RcWake ==
    /\ rcPc = "sleep"
    /\ recy # <<>>
    /\ rcTime' = now /\ rcPc' = "lock"
    /\ UNCHANGED <<free, recy, objVars, kernelVars, loopVars, recyMutex, rcConn, now, headers>>

RcLock ==
    /\ rcPc = "lock" /\ recyMutex = "none"
    /\ recyMutex' = "recycler" /\ rcPc' = "scan"
    /\ UNCHANGED <<free, recy, objVars, kernelVars, loopVars, rcTime, rcConn, now, headers>>

\* Mutant: no waiting time.
ExpiredAtOnce(c) == inRecyTime[c] <= rcTime

Expired(c) == inRecyTime[c] + RecyWaiteTime <= rcTime

\* Mutant: the entry is freed and stays in the list.
RcEraseKeeps ==
    /\ rcPc = "scan"
    /\ \E i \in 1 .. Len(recy) :
          /\ Expired(recy[i]) /\ \A j \in 1 .. i - 1 : ~Expired(recy[j])
          /\ rcConn' = recy[i]
    /\ rcPc' = "put"
    /\ UNCHANGED <<free, recy, objVars, kernelVars, loopVars, recyMutex, rcTime, now, headers>>

\* The first expired entry from the front is erased; the scan restarts after
\* it has been freed.
RcErase ==
    /\ rcPc = "scan"
    /\ \E i \in 1 .. Len(recy) :
          /\ Expired(recy[i]) /\ \A j \in 1 .. i - 1 : ~Expired(recy[j])
          /\ rcConn' = recy[i]
          /\ recy' = RemoveAt(recy, i)
    /\ rcPc' = "put"
    /\ UNCHANGED <<free, objVars, kernelVars, loopVars, recyMutex, rcTime, now, headers>>

RcPut ==
    /\ rcPc = "put"
    /\ FreeConnection(rcConn)
    /\ rcConn' = NoConn /\ rcPc' = "scan"
    /\ UNCHANGED <<recy, pool, sockFd, inRecyTime, kernelVars, loopVars, recyMutex, rcTime,
                   now, headers>>

\* Mutant: the lock is not released.
RcUnlockForgets ==
    /\ rcPc = "scan" /\ \A i \in 1 .. Len(recy) : ~Expired(recy[i])
    /\ rcPc' = "sleep"
    /\ UNCHANGED <<free, recy, objVars, kernelVars, loopVars, recyMutex, rcTime, rcConn, now,
                   headers>>

RcUnlock ==
    /\ rcPc = "scan" /\ \A i \in 1 .. Len(recy) : ~Expired(recy[i])
    /\ recyMutex' = "none" /\ rcPc' = "sleep"
    /\ UNCHANGED <<free, recy, objVars, kernelVars, loopVars, rcTime, rcConn, now, headers>>

-----------------------------------------------------------------------------
\* The clock does not pass LastEntry while an object is on its way into recy,
\* so that every retired object can expire before MaxTime.
Tick ==
    /\ now < MaxTime
    /\ now >= LastEntry => evPc # "in_recy"
    /\ now' = now + 1
    /\ UNCHANGED <<free, recy, objVars, kernelVars, loopVars, recyMutex, rcVars, headers>>

Loop == \/ \E k \in Client, fd \in Fd : AcceptConn(k, fd)
        \/ GetFreeConnection
        \/ SetNonBlocking
        \/ EpollAdd
        \/ \E fd \in Fd : RecvRequest(fd) \/ RecvClosed(fd)
        \/ InRecyConnection

Recycler == RcWake \/ RcLock \/ RcErase \/ RcPut \/ RcUnlock

Next == Loop \/ Recycler \/ Tick \/ \E k \in Client : ClientLeaves(k)

Spec == Init /\ [][Next]_vars

\* The recycler is a thread that always runs; it sleeps 200 ms with the lock
\* free between two scans, so the event loop cannot lose that lock forever.
Fairness == /\ WF_vars(Recycler)
            /\ SF_vars(InRecyConnection)
            /\ WF_vars(Tick)

FairSpec == Spec /\ Fairness

-----------------------------------------------------------------------------
TypeOK ==
    /\ free \in Seq(Conn) /\ recy \in Seq(Conn)
    /\ pool \subseteq Conn
    /\ seq \in [Conn -> Nat]
    /\ sockFd \in [Conn -> Fd \cup {NoFd}]
    /\ inRecyTime \in [Conn -> Nat]
    /\ peer \in [Fd -> Client \cup {NoClient}]
    /\ reg \in [Fd -> Conn \cup {NoConn}]
    /\ client \in [Client -> {"connecting", "connected", "closed"}]
    /\ useAccept4 \in BOOLEAN
    /\ evPc \in {"epoll_wait", "get_free", "set_nonblocking", "epoll_add", "in_recy"}
    /\ evConn \in Conn \cup {NoConn}
    /\ evFd \in Fd \cup {NoFd}
    /\ recyMutex \in {"none", "recycler"}
    /\ rcPc \in {"sleep", "lock", "scan", "put"}
    /\ rcTime \in Nat
    /\ rcConn \in Conn \cup {NoConn}
    /\ now \in Nat
    /\ headers \subseteq Header

\* Every allocated object has exactly one holder and each list or table that
\* holds it names it once: no object is lost, and none is handed out to two
\* clients by being in the free list twice or free while still in use.
OneHolder ==
    /\ \A c \in Conn : \A p, q \in Holder : c \in Held[p] /\ c \in Held[q] => p = q
    /\ \A c \in Conn : c \in pool <=> \E p \in Holder : c \in Held[p]
    /\ IsInjective(free) /\ IsInjective(recy)
    /\ \A f, g \in Fd : reg[f] = reg[g] /\ reg[f] # NoConn => f = g

\* An accepted connection is bound to client k on c's own descriptor.
BoundTo(c, k) == \E fd \in Fd : reg[fd] = c /\ sockFd[c] = fd /\ peer[fd] = k

\* The comparison the logic and send threads make, header against current
\* sequence number, is sound: as long as it succeeds, the object is bound to
\* the very client that sent the request, or the event loop has just closed
\* that client's descriptor and is about to raise the number.
HeaderMatchesClient ==
    \A h \in headers : h.seq = seq[h.conn] =>
        \/ BoundTo(h.conn, h.client)
        \/ evPc = "in_recy" /\ evConn = h.conn

\* The delayed recycling keeps its word: outside the recycling list no object
\* was retired less than mRecyWaiteTime seconds ago, in particular none that
\* is given to a new client (currentTime is read before the lock is taken).
Quarantine == \A c \in Conn \ ToSet(recy) : inRecyTime[c] + RecyWaiteTime <= now

\* Every object the event loop retires gets back to the free list: neither
\* the lock nor an unexpired entry in front of it can keep it forever.
RetiredIsReused ==
    \A c \in Conn : (evPc = "in_recy" /\ evConn = c) ~> c \in Held.free

\* The pool, seen by the threads that keep headers.
LeasedTo == [c \in Conn |-> IF \E fd \in Fd : reg[fd] = c THEN peer[sockFd[c]] ELSE NoClient]
Ending == {c \in Conn : evPc = "in_recy" /\ evConn = c}
Current == {h \in headers : h.seq = seq[h.conn]}

Promise == INSTANCE Leases WITH
               Wait <- RecyWaiteTime, holder <- LeasedTo, ending <- Ending,
               resting <- ToSet(recy), since <- inRecyTime, issued <- headers, good <- Current

\* The pool implements Leases: each object serves one client after the other, with
\* mRecyWaiteTime seconds between two of them, and a header whose number was once
\* found to be out of date is so for ever.
ImplementsLeases == Promise!Spec

=============================================================================
