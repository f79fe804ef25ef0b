---------------------------- MODULE Worker_proofs ----------------------------
(***************************************************************************)
(* Proofs about Worker for any numbers of objects, descriptors, clients    *)
(* and requests: types and, as long as the kernel does not reuse a         *)
(* descriptor under a send, ReplyToRequester, EventsAreCurrent,            *)
(* BuffersAlive and that the worker implements Conversation.               *)
(***************************************************************************)
EXTENDS Worker, TLAPS

-----------------------------------------------------------------------------
(* The inductive invariant.                                                *)

\* An object in use is registered under its own descriptor, except between
\* close() and its retirement; nothing else is open or registered.
Bindings ==
    /\ free \cap recy = {}
    /\ \A f \in Fd : Open(f) => reg[f] # NoConn
    /\ \A f \in Fd : reg[f] # NoConn => Open(f) /\ reg[f] \in Bound /\ sockFd[reg[f]] = f
    /\ \A c \in Bound : /\ sockFd[c] \in Fd
                        /\ reg[sockFd[c]] = c \/ (evPc = "in_recy" /\ event.conn = c)

\* A request is current only as long as its object serves the client it is from.
Headers ==
    \A r \in Request : header[r] # NoHeader =>
        LET c == header[r].conn IN
        /\ header[r].seq <= seq[c]
        /\ header[r].seq = seq[c] =>
              c \in Bound /\ (Open(sockFd[c]) => peer[sockFd[c]] = header[r].client)

\* An object only ever holds its own requests and replies.
Held ==
    /\ \A c \in Conn : recvPkg[c] # NoRequest => header[recvPkg[c]].conn = c
    /\ \A c \in Conn : sendPkg[c] # NoRequest => header[sendPkg[c]].conn = c

\* What an object in use sends goes to the client it is for; EPOLLOUT is only
\* asked for when there is something to send.
Outgoing ==
    /\ \A c \in Bound : sendPkg[c] # NoRequest /\ Open(sockFd[c]) =>
                            header[sendPkg[c]].client = peer[sockFd[c]]
    /\ \A f \in Fd : regOut[f] /\ reg[f] # NoConn => sendPkg[reg[f]] # NoRequest

\* The object the send thread is at is not recycled under it, and its
\* descriptor, once closed, not used for another client.
SenderAt ==
    sndPc # "scan" => /\ sndConn \notin free /\ sendPkg[sndConn] # NoRequest
                      /\ sndConn \in recy => ~Open(sockFd[sndConn])

\* An event that has something to write has something to send.
Writes(e) == e.out /\ ~e.hup
HasReply(e) == Writes(e) => sendPkg[e.conn] # NoRequest

IsCurrent(e) ==
    /\ e.conn \in Bound /\ e.seq = seq[e.conn] /\ reg[sockFd[e.conn]] = e.conn
    /\ HasReply(e)

Events ==
    /\ \A e \in batch : e = Accepting \/ (IsCurrent(e) /\ (e.in \/ e.out))
    /\ \A d, e \in batch : d.conn = e.conn => d = e
    /\ evPc # "next" => \A e \in batch : e.conn # event.conn
    /\ evPc = "read" => IsCurrent(event)
    /\ evPc = "in_recy" => /\ event.conn \in Bound /\ ~Open(sockFd[event.conn])
                           /\ HasReply(event)
    /\ evPc = "write" => /\ event.conn \in Conn /\ HasReply(event) /\ event.out
                         /\ Open(sockFd[event.conn]) => event.conn \in Bound

Consistent ==
    TypeOK /\ Bindings /\ Headers /\ Held /\ Outgoing /\ SenderAt /\ Events /\ ReplyToRequester

-----------------------------------------------------------------------------
(* Types.                                                                  *)

LEMMA InitType == Init => TypeOK
BY DEF Init, TypeOK, Received

\* There is a number for a request as long as not all are given out.
LEMMA NewRequestIsNew ==
    (\E r \in Request : header[r] = NoHeader)
        => NewRequest \in Request /\ header[NewRequest] = NoHeader
BY DEF NewRequest

\* What epoll_wait() returns.
LEMMA ReportType ==
    ASSUME TypeOK, NEW f \in Fd, reg[f] # NoConn, NEW e \in Reports(f)
    PROVE  /\ e \in Event /\ e.conn = reg[f] /\ e.seq = seq[reg[f]] /\ (e.in \/ e.out)
           /\ e.out /\ ~e.hup => regOut[f] /\ client[peer[f]] # "left"
           /\ e.hup <=> client[peer[f]] = "left"
<1> reg[f] \in Conn /\ seq[reg[f]] \in Nat /\ regOut[f] \in BOOLEAN
  BY DEF TypeOK
<1>1. PICK i, o \in BOOLEAN : e = EventOf(reg[f], i, o, client[peer[f]] = "left")
  BY DEF Reports
<1>2. IF e.hup THEN e.in ELSE (e.in \/ e.out) /\ (e.out => regOut[f])
  BY DEF Reports
<1>3. /\ e \in Event /\ e.conn = reg[f] /\ e.seq = seq[reg[f]]
      /\ e.hup <=> client[peer[f]] = "left"
  BY <1>1 DEF EventOf, Event
<1> QED BY <1>2, <1>3

\* What a send does to the client's side and to EPOLLOUT.
LEMMA TransmitType ==
    ASSUME TypeOK, NEW c \in Conn, NEW result \in SendResults(c), Transmit(c, result)
    PROVE  wire' \in [Client -> SUBSET (Request \cup {NoRequest})]
<1>1. CASE result \in {"all", "part"}
  <2>1. Open(sockFd[c])
    BY <1>1 DEF SendResults
  <2>2. peer[sockFd[c]] \in Client /\ sendPkg[c] \in Request \cup {NoRequest}
    BY <2>1 DEF Open, TypeOK, Received
  <2> QED BY <1>1, <2>2 DEF Transmit, TypeOK
<1>2. CASE result \notin {"all", "part"}
  BY <1>2 DEF Transmit, TypeOK
<1> QED BY <1>1, <1>2

LEMMA ModifyEpollType ==
    ASSUME TypeOK, NEW c \in Conn, NEW out \in BOOLEAN, ModifyEpoll(c, out)
    PROVE  reg' \in [Fd -> Conn \cup {NoConn}] /\ regOut' \in [Fd -> BOOLEAN]
BY DEF ModifyEpoll, TypeOK

LEMMA NextType == TypeOK /\ [Next]_vars => TypeOK'
<1> SUFFICES ASSUME TypeOK, [Next]_vars PROVE TypeOK'
  OBVIOUS
<1> USE DEF TypeOK
<1>0. UNCHANGED header => Received' = Received
  BY DEF Received
<1>1. CASE EpollWait
  <2>1. batch' \subseteq Event \cup {Accepting}
    BY <1>1, ReportType DEF EpollWait
  <2> QED BY <1>0, <1>1, <2>1 DEF EpollWait, poolVars, pkgVars, epollVars, sendVars, sndVars
<1>2. ASSUME NEW e \in batch, NextEvent(e) PROVE TypeOK'
  BY <1>0, <1>2 DEF NextEvent, poolVars, pkgVars, epollVars, sendVars, sndVars
<1>3. ASSUME NEW k \in Client, NEW f \in Fd, NEW c \in Conn, AcceptConn(k, f, c) PROVE TypeOK'
  BY <1>0, <1>3 DEF AcceptConn, EvGo, sndVars, NoRequest
<1>4. CASE AcceptFails
  BY <1>0, <1>4 DEF AcceptFails, EvGo, poolVars, pkgVars, epollVars, sendVars, sndVars
<1>5. ASSUME evPc = "read" \/ evPc = "in_recy" \/ evPc = "write"
      PROVE  event.conn \in Conn /\ event.in \in BOOLEAN /\ event.out \in BOOLEAN
  BY <1>5 DEF Event
<1>6. AfterRead \in {"write", "next"}
  BY DEF AfterRead
<1>7. CASE RecvHeader
  <2>1. event.conn \in Conn /\ sockFd[event.conn] \in Fd /\ peer[sockFd[event.conn]] \in Client
    BY <1>5, <1>7 DEF RecvHeader, Reading, Open
  <2>2. [conn |-> event.conn, seq |-> seq[event.conn], client |-> peer[sockFd[event.conn]]] \in Header
    BY <2>1 DEF Header
  <2>3. NewRequest \in Request
    BY <1>7, NewRequestIsNew DEF RecvHeader
  <2>4. header' \in [Request -> Header \cup {NoHeader}] /\ header'[NewRequest] \in Header
    BY <1>7, <2>2, <2>3 DEF RecvHeader
  <2>5. Header \cap {NoHeader} = {}
    BY WorkerAssumption DEF Header, NoHeader
  <2>6. Received' = Received \cup {NewRequest}
    BY <1>7, <2>2, <2>3, <2>4, <2>5 DEF RecvHeader, Received
  <2> QED BY <1>5, <1>6, <1>7, <2>3, <2>4, <2>6
          DEF RecvHeader, Reading, poolVars, epollVars, sendVars, sndVars
<1>8. CASE RecvBody
  BY <1>0, <1>5, <1>6, <1>8 DEF RecvBody, Reading, NoRequest, poolVars, epollVars, sendVars, sndVars
<1>9. CASE RecvPart
  BY <1>0, <1>6, <1>9 DEF RecvPart, Reading, poolVars, pkgVars, epollVars, sendVars, sndVars
<1>10. CASE RecvClosed
  BY <1>0, <1>10 DEF RecvClosed, EvGo, poolVars, pkgVars, sendVars, sndVars
<1>11. CASE InRecyConnection
  <2>1. event.conn \in Conn /\ event \in Event
    BY <1>5, <1>11 DEF InRecyConnection, EvGo
  <2>2. evPc' \in {"write", "next"}
    BY <1>6, <1>11 DEF InRecyConnection, EvGo
  <2>3. recy' \subseteq Conn /\ seq' \in [Conn -> Nat]
    BY <1>11, <2>1 DEF InRecyConnection
  <2> QED BY <1>0, <1>11, <2>1, <2>2, <2>3 DEF InRecyConnection, pkgVars, epollVars, sendVars, sndVars
<1>12. CASE LowerThrowCount
  BY <1>0, <1>5, <1>12 DEF LowerThrowCount, EvGo, poolVars, pkgVars, epollVars, sndVars
<1>13. CASE WriteHandler
  <2>1. PICK result \in SendResults(event.conn) :
              /\ Transmit(event.conn, result)
              /\ IF result = "all" THEN ModifyEpoll(event.conn, FALSE) ELSE UNCHANGED <<reg, regOut>>
              /\ IF result \in {"part", "full"} THEN UNCHANGED <<thrown, sendFreed>>
                 ELSE /\ FreeReply(sendPkg[event.conn])
                      /\ thrown' = [thrown EXCEPT ![event.conn] = @ - 1]
    BY <1>0, <1>13 DEF WriteHandler
  <2>2. event.conn \in Conn
    BY <1>0, <1>5, <1>13 DEF WriteHandler, EvGo
  <2>3. wire' \in [Client -> SUBSET (Request \cup {NoRequest})]
    BY <2>1, <2>2, TransmitType
  <2>4. reg' \in [Fd -> Conn \cup {NoConn}] /\ regOut' \in [Fd -> BOOLEAN]
    BY <2>1, <2>2, ModifyEpollType
  <2>5. sendFreed' \in [Request -> Nat] /\ thrown' \in [Conn -> Int]
    BY <2>1, <2>2 DEF FreeReply
  <2> QED BY <1>0, <1>13, <2>3, <2>4, <2>5 DEF WriteHandler, EvGo, poolVars, pkgVars, sndVars
<1>14. ASSUME NEW r \in Request, DropStale(r) PROVE TypeOK'
  BY <1>0, <1>14 DEF DropStale, FreeReply, poolVars, pkgVars, epollVars, sndVars, evVars
<1>15. ASSUME NEW r \in Request, TakeReply(r) PROVE TypeOK'
  <2>1. header[r] \in Header /\ header[r].conn \in Conn
    BY <1>0, <1>15 DEF TakeReply, Received, Header
  <2> QED BY <1>0, <1>15, <2>1 DEF TakeReply, SndGo, poolVars, pkgVars, epollVars, evVars
<1>16. CASE SendReply
  <2>1. wire' \in [Client -> SUBSET (Request \cup {NoRequest})]
    BY <1>16, TransmitType DEF SendReply
  <2> QED BY <1>0, <1>16, <2>1 DEF SendReply, poolVars, pkgVars, epollVars, evVars
<1>17. CASE FinishReply
  BY <1>0, <1>17 DEF FinishReply, FreeReply, SndGo, poolVars, pkgVars, epollVars, evVars
<1>18. CASE Throw
  BY <1>0, <1>18 DEF Throw, SndGo, poolVars, pkgVars, epollVars, evVars
<1>19. CASE EpollOn
  <2>1. reg' \in [Fd -> Conn \cup {NoConn}] /\ regOut' \in [Fd -> BOOLEAN]
    BY <1>19, ModifyEpollType DEF EpollOn, SndGo
  <2> QED BY <1>0, <1>19, <2>1 DEF EpollOn, SndGo, poolVars, pkgVars, sendVars, evVars
<1>20. ASSUME NEW c \in Conn, Recycle(c) PROVE TypeOK'
  BY <1>0, <1>20 DEF Recycle, epollVars, sndVars, evVars
<1>21. ASSUME NEW r \in Request, Process(r) PROVE TypeOK'
  BY <1>0, <1>21 DEF Process, poolVars, epollVars, sndVars, evVars
<1>22. ASSUME NEW k \in Client, ClientLeaves(k) PROVE TypeOK'
  BY <1>0, <1>22 DEF ClientLeaves, poolVars, pkgVars, epollVars, sendVars, sndVars, evVars
<1>23. CASE UNCHANGED vars
  BY <1>0, <1>23 DEF vars, poolVars, pkgVars, epollVars, sendVars, sndVars, evVars
<1> QED BY <1>1, <1>2, <1>3, <1>4, <1>7, <1>8, <1>9, <1>10, <1>11, <1>12, <1>13, <1>14, <1>15,
           <1>16, <1>17, <1>18, <1>19, <1>20, <1>21, <1>22, <1>23 DEF Next, EventLoop, Sender

\* Every variable keeps its type, and a thread at work has an object to work on.
THEOREM TypeCorrect == Spec => []TypeOK
BY InitType, NextType, PTL DEF Spec

-----------------------------------------------------------------------------
(* Objects and descriptors.                                                *)

\* EPOLL_CTL_MOD by a thread whose descriptor is its object's own or closed.
LEMMA ModifyEpollOwn ==
    ASSUME TypeOK, Bindings, Events, NEW c \in Conn, NEW out \in BOOLEAN,
           Open(sockFd[c]) => c \in Bound, ModifyEpoll(c, out)
    PROVE  /\ UNCHANGED reg
           /\ \A f \in Fd : regOut'[f] # regOut[f] => f = sockFd[c] /\ regOut'[f] = out /\ reg[f] = c
           /\ Open(sockFd[c]) => regOut'[sockFd[c]] = out
<1>1. CASE Open(sockFd[c])
  <2>1. sockFd[c] \in Fd /\ reg[sockFd[c]] = c /\ c # NoConn
    BY <1>1, WorkerAssumption DEF Bindings, Events, Open
  <2>2. reg' = [reg EXCEPT ![sockFd[c]] = c] /\ regOut' = [regOut EXCEPT ![sockFd[c]] = out]
    BY <2>1 DEF ModifyEpoll
  <2>3. UNCHANGED reg
    BY <2>1, <2>2 DEF TypeOK
  <2> QED BY <2>1, <2>2, <2>3 DEF TypeOK
<1>2. CASE ~Open(sockFd[c])
  <2>1. sockFd[c] \in Fd => reg[sockFd[c]] = NoConn
    BY <1>2 DEF Bindings
  <2> QED BY <1>2, <2>1 DEF ModifyEpoll
<1> QED BY <1>1, <1>2

\* Who uses EPOLL_CTL_MOD.
LEMMA ModifyEpollSteps ==
    ASSUME TypeOK, Bindings, Events, SenderAt, EpollOn \/ WriteHandler
    PROVE  /\ UNCHANGED reg
           /\ \A f \in Fd : regOut'[f] = regOut[f] \/ ~regOut'[f] \/ (EpollOn /\ reg[f] = sndConn)
<1>1. CASE EpollOn
  <2>1. sndConn \in Conn /\ (Open(sockFd[sndConn]) => sndConn \in Bound)
    BY <1>1 DEF EpollOn, SndGo, SenderAt, Bound, TypeOK
  <2>2. ModifyEpoll(sndConn, TRUE)
    BY <1>1 DEF EpollOn
  <2>3. UNCHANGED reg /\ \A f \in Fd : regOut'[f] # regOut[f] => reg[f] = sndConn
    BY <2>1, <2>2, ModifyEpollOwn
  <2> QED BY <1>1, <2>3
<1>2. CASE WriteHandler
  <2>1. event.conn \in Conn /\ (Open(sockFd[event.conn]) => event.conn \in Bound)
    BY <1>2 DEF WriteHandler, EvGo, Events
  <2>2. ModifyEpoll(event.conn, FALSE) \/ UNCHANGED <<reg, regOut>>
    BY <1>2 DEF WriteHandler
  <2>3. CASE ModifyEpoll(event.conn, FALSE)
    BY <2>1, <2>3, ModifyEpollOwn
  <2> QED BY <2>2, <2>3
<1> QED BY <1>1, <1>2

\* A client is accepted.
Accepted(k, f, c) ==
    /\ evPc = "accept" /\ evPc' = "next" /\ ~Open(f) /\ c \in free /\ c \notin recy
    /\ Bound' = Bound \cup {c} /\ c \notin Bound /\ free' = free \ {c}
    /\ UNCHANGED <<recy, sndPc, sndConn, batch, event, logic, sendQueue, header, wire,
                   recvFreed, sendFreed>>
    /\ \A g \in Fd : /\ peer'[g] = IF g = f THEN k ELSE peer[g]
                     /\ reg'[g] = IF g = f THEN c ELSE reg[g]
                     /\ regOut'[g] <=> regOut[g] /\ g # f
    /\ \A d \in Conn : /\ seq'[d] = IF d = c THEN seq[c] + 1 ELSE seq[d]
                       /\ sockFd'[d] = IF d = c THEN f ELSE sockFd[d]
                       /\ recvPkg'[d] = IF d = c THEN NoRequest ELSE recvPkg[d]
                       /\ sendPkg'[d] = IF d = c THEN NoRequest ELSE sendPkg[d]
                       /\ thrown'[d] = IF d = c THEN 0 ELSE thrown[d]
    /\ \A g \in Fd : Open(g)' <=> Open(g) \/ g = f

LEMMA AcceptStep ==
    ASSUME TypeOK, Bindings,
           NEW k \in Client, NEW f \in Fd, NEW c \in Conn, AcceptConn(k, f, c)
    PROVE  Accepted(k, f, c)
<1>1. c \in free /\ c \notin recy /\ ~Open(f)
  BY DEF AcceptConn, Bindings
<1>2. Bound' = Bound \cup {c} /\ c \notin Bound
  BY <1>1 DEF AcceptConn, Bound, TypeOK
<1>3. \A g \in Fd : peer'[g] = IF g = f THEN k ELSE peer[g]
  BY DEF AcceptConn, TypeOK
<1>4. \A g \in Fd : Open(g)' <=> Open(g) \/ g = f
  BY <1>3, WorkerAssumption DEF Open
<1> QED BY <1>1, <1>2, <1>3, <1>4 DEF Accepted, AcceptConn, EvGo, sndVars, TypeOK

\* The end of a connection is found.
Closed ==
    /\ evPc = "read" /\ evPc' = "in_recy"
    /\ IsCurrent(event) /\ event.conn \in Bound /\ sockFd[event.conn] \in Fd
    /\ UNCHANGED <<free, recy, seq, sockFd, Bound, event, batch, sndPc, sndConn, client,
                   recvPkg, header, logic, recvFreed,
                   sendPkg, thrown, sendQueue, sendFreed, wire>>
    /\ \A g \in Fd : LET mine == g = sockFd[event.conn] IN
                     /\ peer'[g] = IF mine THEN NoClient ELSE peer[g]
                     /\ reg'[g] = IF mine THEN NoConn ELSE reg[g]
                     /\ regOut'[g] <=> regOut[g] /\ ~mine
    /\ \A g \in Fd : Open(g)' <=> Open(g) /\ g # sockFd[event.conn]
    /\ \A c \in Bound : c # event.conn =>
          sockFd[c] \in Fd /\ reg[sockFd[c]] = c /\ sockFd[c] # sockFd[event.conn]

LEMMA RecvClosedStep ==
    ASSUME TypeOK, Bindings, Events, RecvClosed
    PROVE  Closed
<1>1. /\ evPc = "read" /\ evPc' = "in_recy"
      /\ UNCHANGED <<free, recy, seq, sockFd, event, batch, sndPc, sndConn, client,
                     recvPkg, header, logic, recvFreed,
                     sendPkg, thrown, sendQueue, sendFreed, wire>>
  BY DEF RecvClosed, EvGo, poolVars, pkgVars, sendVars, sndVars
<1>2. IsCurrent(event) /\ event.conn \in Bound /\ sockFd[event.conn] \in Fd
  BY <1>1 DEF Events, IsCurrent, Bindings
<1>3. \A g \in Fd : /\ peer'[g] = IF g = sockFd[event.conn] THEN NoClient ELSE peer[g]
                    /\ reg'[g] = IF g = sockFd[event.conn] THEN NoConn ELSE reg[g]
                    /\ regOut'[g] <=> regOut[g] /\ g # sockFd[event.conn]
  BY DEF RecvClosed, TypeOK
<1>4. \A g \in Fd : Open(g)' <=> Open(g) /\ g # sockFd[event.conn]
  BY <1>3 DEF Open
<1>5. \A c \in Bound : c # event.conn =>
         sockFd[c] \in Fd /\ reg[sockFd[c]] = c /\ sockFd[c] # sockFd[event.conn]
  BY <1>1, <1>2 DEF Bindings, IsCurrent
<1>6. Bound' = Bound
  BY <1>1 DEF Bound
<1> QED BY <1>1, <1>2, <1>3, <1>4, <1>5, <1>6 DEF Closed

LEMMA NextBindings == Consistent /\ [Next]_vars => Bindings'
<1> SUFFICES ASSUME Consistent, [Next]_vars PROVE Bindings'
  OBVIOUS
<1> USE DEF Consistent
<1>1. ASSUME UNCHANGED <<free, recy, sockFd, peer, reg>>,
             evPc = "in_recy" => UNCHANGED <<evPc, event>>
      PROVE  Bindings'
  BY <1>1 DEF Bindings, Bound, Open
<1>2. ASSUME NEW k \in Client, NEW f \in Fd, NEW c \in Conn, AcceptConn(k, f, c) PROVE Bindings'
  <2>1. Accepted(k, f, c)
    BY <1>2, AcceptStep
  <2>2. \A d \in Bound : d \in Conn /\ sockFd[d] \in Fd /\ reg[sockFd[d]] = d /\ sockFd[d] # f
    BY <2>1, WorkerAssumption DEF Accepted, Bindings, Bound
  <2>3. \A g \in Fd : reg[g] # NoConn => g # f /\ reg[g] # c
    BY <2>1 DEF Accepted, Bindings
  <2>4. free' \cap recy' = {}
    BY <2>1 DEF Accepted, Bindings
  <2>5. ASSUME NEW g \in Fd
        PROVE  /\ Open(g)' => reg'[g] # NoConn
               /\ reg'[g] # NoConn => Open(g)' /\ reg'[g] \in Bound' /\ sockFd'[reg'[g]] = g
    BY <2>1, <2>2, <2>3, WorkerAssumption DEF Accepted, Bindings
  <2>6. ASSUME NEW d \in Bound'
        PROVE  sockFd'[d] \in Fd /\ reg'[sockFd'[d]] = d
    BY <2>1, <2>2 DEF Accepted
  <2> QED BY <2>4, <2>5, <2>6 DEF Bindings
<1>3. CASE RecvClosed
  <2>1. Closed
    BY <1>3, RecvClosedStep
  <2> QED BY <2>1 DEF Closed, Bindings, IsCurrent
<1>4. CASE InRecyConnection
  <2>1. event.conn \in Bound /\ ~Open(sockFd[event.conn])
    BY <1>4 DEF InRecyConnection, EvGo, Events
  <2> QED BY <1>4, <2>1 DEF InRecyConnection, EvGo, Bindings, Bound, Open, TypeOK, epollVars
<1>5. CASE EpollOn \/ WriteHandler
  <2>1. UNCHANGED reg
    BY <1>5, ModifyEpollSteps
  <2> QED BY <1>1, <1>5, <2>1 DEF EpollOn, WriteHandler, EvGo, poolVars, evVars
<1>6. ASSUME NEW c \in Conn, Recycle(c) PROVE Bindings'
  <2>1. Bound' = Bound
    BY <1>6 DEF Recycle, Bound
  <2> QED BY <1>6, <2>1 DEF Recycle, Bindings, Open, TypeOK, epollVars, evVars
<1>7. CASE EpollWait \/ (\E e \in batch : NextEvent(e)) \/ AcceptFails
  BY <1>1, <1>7 DEF EpollWait, NextEvent, AcceptFails, EvGo, poolVars, epollVars
<1>8. CASE RecvHeader \/ RecvBody \/ RecvPart \/ LowerThrowCount
  BY <1>1, <1>8 DEF RecvHeader, RecvBody, RecvPart, Reading, LowerThrowCount, EvGo, poolVars, epollVars
<1>9. CASE (\E r \in Request : DropStale(r) \/ TakeReply(r)) \/ SendReply \/ FinishReply \/ Throw
  BY <1>1, <1>9 DEF DropStale, TakeReply, SendReply, FinishReply, Throw, poolVars, epollVars, evVars
<1>10. CASE (\E r \in Request : Process(r)) \/ (\E k \in Client : ClientLeaves(k)) \/ UNCHANGED vars
  BY <1>1, <1>10 DEF Process, ClientLeaves, vars, poolVars, epollVars, evVars
<1> QED BY <1>2, <1>3, <1>4, <1>5, <1>6, <1>7, <1>8, <1>9, <1>10 DEF Next, EventLoop, Sender

-----------------------------------------------------------------------------
(* Requests and what objects hold.                                         *)

\* A header has come; its client is behind the object's descriptor.
HeaderReceived ==
    /\ Reading /\ event.conn \in Bound /\ Open(sockFd[event.conn])
    /\ NewRequest \in Request /\ NewRequest \notin Received
    /\ \A r \in Request :
          header'[r] = IF r = NewRequest
                       THEN [conn |-> event.conn, seq |-> seq[event.conn],
                             client |-> peer[sockFd[event.conn]]]
                       ELSE header[r]
    /\ UNCHANGED <<free, recy, seq, sockFd, Bound, peer, reg, regOut, sendPkg, thrown, sendQueue,
                   wire, sndPc, sndConn, client, batch, event, recvFreed, sendFreed>>
    /\ evPc' = AfterRead

LEMMA RecvHeaderStep ==
    ASSUME TypeOK, Events, RecvHeader PROVE HeaderReceived
<1>1. NewRequest \in Request /\ header[NewRequest] = NoHeader
  BY NewRequestIsNew DEF RecvHeader
<1>2. event.conn \in Bound /\ Open(sockFd[event.conn])
  BY DEF RecvHeader, Reading, Events, IsCurrent
<1> QED BY <1>1, <1>2 DEF RecvHeader, HeaderReceived, Received, Bound, TypeOK,
                          poolVars, epollVars, sendVars, sndVars

LEMMA NextHeaders == Consistent /\ [Next]_vars => Headers'
<1> SUFFICES ASSUME Consistent, [Next]_vars PROVE Headers'
  OBVIOUS
<1> USE DEF Consistent
<1>0. \A r \in Request : header[r] # NoHeader => header[r].conn \in Conn /\ header[r].seq \in Nat
  BY DEF TypeOK, Header
<1>1. ASSUME UNCHANGED <<free, recy, sockFd, seq, peer, header>>
      PROVE  Headers'
  BY <1>1 DEF Headers, Bound, Open
<1>2. ASSUME NEW k \in Client, NEW f \in Fd, NEW c \in Conn, AcceptConn(k, f, c) PROVE Headers'
  <2>1. Accepted(k, f, c)
    BY <1>2, AcceptStep
  <2>2. \A d \in Bound : d \in Conn /\ d # c /\ sockFd[d] \in Fd /\ sockFd[d] # f
    BY <2>1, WorkerAssumption DEF Accepted, Bindings, Bound
  <2>3. seq[c] \in Nat
    BY DEF TypeOK
  <2> QED BY <1>0, <2>1, <2>2, <2>3 DEF Accepted, Headers
<1>3. CASE RecvHeader
  <2>1. HeaderReceived /\ event.conn \in Conn /\ seq[event.conn] \in Nat
    BY <1>3, RecvHeaderStep DEF HeaderReceived, Bound, TypeOK
  <2> QED BY <2>1 DEF HeaderReceived, Headers, Open
<1>4. CASE RecvClosed
  <2>1. Closed
    BY <1>4, RecvClosedStep
  <2> QED BY <2>1 DEF Closed, Headers, Open
<1>5. CASE InRecyConnection
  <2>1. event.conn \in Bound
    BY <1>5 DEF InRecyConnection, EvGo, Events
  <2>2. \A d \in Conn : seq'[d] = IF d = event.conn THEN seq[d] + 1 ELSE seq[d]
    BY <1>5 DEF InRecyConnection, TypeOK
  <2>3. \A d \in Conn : seq[d] \in Nat
    BY DEF TypeOK
  <2>4. Bound' = Bound \ {event.conn} /\ UNCHANGED <<sockFd, peer, header>>
    BY <1>5 DEF InRecyConnection, Bound, pkgVars, epollVars
  <2> QED BY <1>0, <2>1, <2>2, <2>3, <2>4 DEF Headers, Open
<1>6. ASSUME NEW c \in Conn, Recycle(c) PROVE Headers'
  <2>1. c \notin Bound /\ Bound' = Bound /\ UNCHANGED <<sockFd, peer, header>>
    BY <1>6 DEF Recycle, Bound, epollVars
  <2>2. \A d \in Conn : seq'[d] = IF d = c THEN seq[d] + 1 ELSE seq[d]
    BY <1>6 DEF Recycle, TypeOK
  <2>3. \A d \in Conn : seq[d] \in Nat
    BY DEF TypeOK
  <2> QED BY <1>0, <2>1, <2>2, <2>3 DEF Headers, Open
<1>7. CASE EpollWait \/ (\E e \in batch : NextEvent(e)) \/ AcceptFails
  BY <1>1, <1>7 DEF EpollWait, NextEvent, AcceptFails, poolVars, pkgVars, epollVars
<1>8. CASE RecvBody \/ RecvPart \/ LowerThrowCount \/ WriteHandler
  BY <1>1, <1>8 DEF RecvBody, RecvPart, LowerThrowCount, WriteHandler, poolVars, pkgVars, epollVars
<1>9. CASE (\E r \in Request : DropStale(r) \/ TakeReply(r)) \/ SendReply \/ FinishReply \/ Throw \/ EpollOn
  BY <1>1, <1>9 DEF DropStale, TakeReply, SendReply, FinishReply, Throw, EpollOn,
                    poolVars, pkgVars, epollVars
<1>10. CASE (\E r \in Request : Process(r)) \/ (\E k \in Client : ClientLeaves(k)) \/ UNCHANGED vars
  BY <1>1, <1>10 DEF Process, ClientLeaves, vars, poolVars, pkgVars, epollVars
<1> QED BY <1>2, <1>3, <1>4, <1>5, <1>6, <1>7, <1>8, <1>9, <1>10 DEF Next, EventLoop, Sender

LEMMA NextHeld == Consistent /\ [Next]_vars => Held'
<1> SUFFICES ASSUME Consistent, [Next]_vars PROVE Held'
  OBVIOUS
<1> USE DEF Consistent
<1>1. ASSUME UNCHANGED <<recvPkg, sendPkg, header>> PROVE Held'
  BY <1>1 DEF Held
<1>2. ASSUME NEW k \in Client, NEW f \in Fd, NEW c \in Conn, AcceptConn(k, f, c) PROVE Held'
  <2>1. Accepted(k, f, c)
    BY <1>2, AcceptStep
  <2> QED BY <2>1 DEF Accepted, Held
<1>3. CASE RecvHeader
  <2>1. HeaderReceived
    BY <1>3, RecvHeaderStep
  <2>2. \A d \in Conn : /\ recvPkg[d] \in (Request \ {NewRequest}) \cup {NoRequest}
                        /\ sendPkg[d] \in (Request \ {NewRequest}) \cup {NoRequest}
    BY <2>1 DEF HeaderReceived, TypeOK, Received
  <2>3. \A d \in Conn : recvPkg'[d] = recvPkg[d] \/ (d = event.conn /\ recvPkg'[d] = NewRequest)
    BY <1>3 DEF RecvHeader, TypeOK
  <2> QED BY <2>1, <2>2, <2>3 DEF HeaderReceived, Held
<1>4. CASE RecvBody
  <2>1. \A d \in Conn : recvPkg'[d] = recvPkg[d] \/ recvPkg'[d] = NoRequest
    BY <1>4 DEF RecvBody, TypeOK
  <2> QED BY <1>4, <2>1 DEF RecvBody, Held, sendVars
<1>5. ASSUME NEW r \in Request, TakeReply(r) PROVE Held'
  <2>1. \A d \in Conn : sendPkg'[d] = IF d = header[r].conn THEN r ELSE sendPkg[d]
    BY <1>5 DEF TakeReply, TypeOK
  <2> QED BY <1>5, <2>1 DEF TakeReply, Held, pkgVars
<1>6. CASE EpollWait \/ (\E e \in batch : NextEvent(e)) \/ AcceptFails
  BY <1>1, <1>6 DEF EpollWait, NextEvent, AcceptFails, pkgVars, sendVars
<1>7. CASE RecvPart \/ RecvClosed \/ InRecyConnection \/ LowerThrowCount \/ WriteHandler
  BY <1>1, <1>7 DEF RecvPart, RecvClosed, InRecyConnection, LowerThrowCount, WriteHandler,
                    pkgVars, sendVars
<1>8. CASE (\E r \in Request : DropStale(r)) \/ SendReply \/ FinishReply \/ Throw \/ EpollOn
  BY <1>1, <1>8 DEF DropStale, SendReply, FinishReply, Throw, EpollOn, pkgVars, sendVars
<1>9. CASE (\E c \in Conn : Recycle(c)) \/ (\E r \in Request : Process(r))
           \/ (\E k \in Client : ClientLeaves(k)) \/ UNCHANGED vars
  BY <1>1, <1>9 DEF Recycle, Process, ClientLeaves, vars, pkgVars, sendVars
<1> QED BY <1>2, <1>3, <1>4, <1>5, <1>6, <1>7, <1>8, <1>9 DEF Next, EventLoop, Sender

-----------------------------------------------------------------------------
(* Replies.                                                                *)

\* The send thread takes a reply.
Taken(r) ==
    LET c == header[r].conn IN
    /\ r \in sendQueue /\ header[r] # NoHeader /\ c \in Bound
    /\ Open(sockFd[c]) => peer[sockFd[c]] = header[r].client
    /\ sndPc = "scan" /\ sndPc' = "send" /\ sndConn' = c /\ thrown[c] <= 0
    /\ \A d \in Conn : sendPkg'[d] = IF d = c THEN r ELSE sendPkg[d]
    /\ sendQueue' = sendQueue \ {r}
    /\ UNCHANGED <<free, recy, seq, sockFd, Bound, peer, reg, regOut, client, header, recvPkg,
                   logic, recvFreed, sendFreed, thrown, wire, evPc, batch, event>>

LEMMA TakeReplyStep ==
    ASSUME TypeOK, Headers, NEW r \in Request, TakeReply(r) PROVE Taken(r)
<1>1. header[r] # NoHeader /\ header[r].conn \in Conn
  BY DEF TakeReply, TypeOK, Received, Header
<1>2. header[r].seq = seq[header[r].conn]
  BY DEF TakeReply
<1>3. /\ header[r].conn \in Bound
      /\ Open(sockFd[header[r].conn]) => peer[sockFd[header[r].conn]] = header[r].client
  BY <1>1, <1>2 DEF Headers
<1> QED BY <1>1, <1>3 DEF TakeReply, Taken, SndGo, Bound, TypeOK,
                          poolVars, pkgVars, epollVars, evVars

LEMMA NextOutgoing == Consistent /\ [Next]_vars => Outgoing'
<1> SUFFICES ASSUME Consistent, [Next]_vars PROVE Outgoing'
  OBVIOUS
<1> USE DEF Consistent
<1>0. /\ \A d \in Bound : d \in Conn /\ sockFd[d] \in Fd
      /\ \A f \in Fd : reg[f] # NoConn => reg[f] \in Conn /\ reg[f] \in Bound
  BY DEF Bound, Bindings
<1>1. ASSUME Bound' \subseteq Bound, UNCHANGED <<sockFd, peer, reg, regOut, header, sendPkg>>
      PROVE  Outgoing'
  BY <1>1 DEF Outgoing, Open
<1>2. ASSUME NEW k \in Client, NEW f \in Fd, NEW c \in Conn, AcceptConn(k, f, c) PROVE Outgoing'
  <2>1. Accepted(k, f, c)
    BY <1>2, AcceptStep
  <2>2. \A d \in Bound : d # c /\ sockFd[d] # f
    BY <1>0, <2>1, WorkerAssumption DEF Accepted, Bindings
  <2>3. \A g \in Fd : reg[g] # NoConn => reg[g] # c
    BY <1>0, <2>1 DEF Accepted
  <2> QED BY <1>0, <2>1, <2>2, <2>3 DEF Accepted, Outgoing
<1>3. CASE RecvHeader
  <2>1. HeaderReceived
    BY <1>3, RecvHeaderStep
  <2>2. \A d \in Conn : sendPkg[d] \in (Request \ {NewRequest}) \cup {NoRequest}
    BY <2>1 DEF HeaderReceived, TypeOK, Received
  <2> QED BY <1>0, <2>1, <2>2 DEF HeaderReceived, Outgoing, Open
<1>4. CASE RecvClosed
  <2>1. Closed
    BY <1>4, RecvClosedStep
  <2> QED BY <1>0, <2>1 DEF Closed, Outgoing
<1>5. CASE InRecyConnection
  <2>1. Bound' \subseteq Bound
    BY <1>5 DEF InRecyConnection, Bound
  <2> QED BY <1>1, <1>5, <2>1 DEF InRecyConnection, pkgVars, epollVars, sendVars
<1>6. CASE EpollOn \/ WriteHandler
  <2>1. /\ UNCHANGED reg
        /\ \A f \in Fd : regOut'[f] = regOut[f] \/ ~regOut'[f] \/ (EpollOn /\ reg[f] = sndConn)
    BY <1>6, ModifyEpollSteps
  <2>2. EpollOn => sendPkg[sndConn] # NoRequest
    BY DEF EpollOn, SndGo, SenderAt
  <2>3. UNCHANGED <<sockFd, peer, header, sendPkg, Bound>>
    BY <1>6 DEF EpollOn, WriteHandler, Bound, poolVars, pkgVars, sendVars
  <2>4. \A f \in Fd : regOut'[f] /\ reg'[f] # NoConn => sendPkg'[reg'[f]] # NoRequest
    BY <2>1, <2>2, <2>3 DEF Outgoing
  <2> QED BY <2>3, <2>4 DEF Outgoing, Open
<1>7. ASSUME NEW r \in Request, TakeReply(r) PROVE Outgoing'
  <2>1. Taken(r)
    BY <1>7, TakeReplyStep
  <2>2. r # NoRequest
    BY DEF Request, NoRequest
  <2> QED BY <1>0, <2>1, <2>2 DEF Taken, Outgoing, Open
<1>8. ASSUME NEW c \in Conn, Recycle(c) PROVE Outgoing'
  <2>1. Bound' = Bound
    BY <1>8 DEF Recycle, Bound
  <2> QED BY <1>1, <1>8, <2>1 DEF Recycle, epollVars
<1>9. ASSUME UNCHANGED poolVars PROVE Bound' = Bound
  BY <1>9 DEF Bound, poolVars
<1>10. CASE EpollWait \/ (\E e \in batch : NextEvent(e)) \/ AcceptFails
  BY <1>1, <1>9, <1>10 DEF EpollWait, NextEvent, AcceptFails, poolVars, pkgVars, epollVars, sendVars
<1>11. CASE RecvBody \/ RecvPart \/ LowerThrowCount
  BY <1>1, <1>9, <1>11 DEF RecvBody, RecvPart, LowerThrowCount, poolVars, pkgVars, epollVars, sendVars
<1>12. CASE (\E r \in Request : DropStale(r)) \/ SendReply \/ FinishReply \/ Throw
  BY <1>1, <1>9, <1>12 DEF DropStale, SendReply, FinishReply, Throw, poolVars, pkgVars, epollVars
<1>13. CASE (\E r \in Request : Process(r)) \/ (\E k \in Client : ClientLeaves(k)) \/ UNCHANGED vars
  BY <1>1, <1>9, <1>13 DEF Process, ClientLeaves, vars, poolVars, pkgVars, epollVars, sendVars
<1> QED BY <1>2, <1>3, <1>4, <1>5, <1>6, <1>7, <1>8, <1>10, <1>11, <1>12, <1>13
        DEF Next, EventLoop, Sender

\* Here it matters that the kernel does not reuse a descriptor under a send.
LEMMA NextSenderAt ==
    ASSUME ~FdReuse PROVE Consistent /\ [Next]_vars => SenderAt'
<1> SUFFICES ASSUME Consistent, [Next]_vars PROVE SenderAt'
  OBVIOUS
<1> USE DEF Consistent
<1>0. sndPc # "scan" => sndConn \in Conn
  BY DEF TypeOK
<1>1. ASSUME UNCHANGED <<free, recy, sockFd, peer, sendPkg>>,
             sndPc' = "scan" \/ (sndPc # "scan" /\ UNCHANGED sndConn)
      PROVE  SenderAt'
  BY <1>1 DEF SenderAt, Open
<1>2. ASSUME NEW k \in Client, NEW f \in Fd, NEW c \in Conn, AcceptConn(k, f, c) PROVE SenderAt'
  <2>1. Accepted(k, f, c)
    BY <1>2, AcceptStep
  <2>2. sndPc # "scan" => sockFd[sndConn] # f
    BY <1>0, <1>2 DEF AcceptConn, SendingFd
  <2> QED BY <1>0, <2>1, <2>2 DEF Accepted, SenderAt, Open
<1>3. CASE RecvClosed
  <2>1. Closed
    BY <1>3, RecvClosedStep
  <2> QED BY <2>1 DEF Closed, SenderAt, Open
<1>4. CASE InRecyConnection
  <2>1. ~Open(sockFd[event.conn]) /\ recy' = recy \cup {event.conn}
    BY <1>4 DEF InRecyConnection, EvGo, Events
  <2> QED BY <1>4, <2>1 DEF InRecyConnection, SenderAt, Open, epollVars, sendVars, sndVars
<1>5. ASSUME NEW r \in Request, TakeReply(r) PROVE SenderAt'
  <2>1. Taken(r)
    BY <1>5, TakeReplyStep
  <2>2. r # NoRequest
    BY DEF Request, NoRequest
  <2> QED BY <2>1, <2>2 DEF Taken, SenderAt, Bound
<1>6. ASSUME NEW c \in Conn, Recycle(c) PROVE SenderAt'
  BY <1>6 DEF Recycle, SenderAt, Open, epollVars, sndVars
<1>7. CASE EpollWait \/ (\E e \in batch : NextEvent(e)) \/ AcceptFails
  BY <1>1, <1>7 DEF EpollWait, NextEvent, AcceptFails, poolVars, epollVars, sendVars, sndVars
<1>8. CASE RecvHeader \/ RecvBody \/ RecvPart \/ LowerThrowCount \/ WriteHandler
  BY <1>1, <1>8 DEF RecvHeader, RecvBody, RecvPart, LowerThrowCount, WriteHandler,
                    poolVars, epollVars, sendVars, sndVars
<1>9. CASE (\E r \in Request : DropStale(r)) \/ SendReply \/ FinishReply \/ Throw \/ EpollOn
  BY <1>1, <1>9 DEF DropStale, SendReply, FinishReply, Throw, EpollOn, SndGo,
                    poolVars, epollVars, sendVars, sndVars
<1>10. CASE (\E r \in Request : Process(r)) \/ (\E k \in Client : ClientLeaves(k)) \/ UNCHANGED vars
  BY <1>1, <1>10 DEF Process, ClientLeaves, vars, poolVars, epollVars, sendVars, sndVars
<1> QED BY <1>2, <1>3, <1>4, <1>5, <1>6, <1>7, <1>8, <1>9, <1>10 DEF Next, EventLoop, Sender

-----------------------------------------------------------------------------
(* Events.                                                                 *)

\* What the conjuncts of Events say of one event.
Handled(e, pc) ==
    /\ pc = "read" => IsCurrent(e)
    /\ pc = "in_recy" => e.conn \in Bound /\ ~Open(sockFd[e.conn]) /\ HasReply(e)
    /\ pc = "write" => /\ e.conn \in Conn /\ HasReply(e) /\ e.out
                       /\ Open(sockFd[e.conn]) => e.conn \in Bound

LEMMA NextEvents == Consistent /\ [Next]_vars => Events'
<1> SUFFICES ASSUME Consistent, [Next]_vars PROVE Events'
  OBVIOUS
<1> USE DEF Consistent
<1>0. /\ \A e \in batch : e = Accepting \/ (IsCurrent(e) /\ (e.in \/ e.out))
      /\ Handled(event, evPc)
      /\ \A d \in Bound : d \in Conn /\ d # NoConn /\ sockFd[d] \in Fd
      /\ Accepting.conn = NoConn
  BY WorkerAssumption DEF Events, Handled, Bindings, Bound, Accepting
<1>1. ASSUME UNCHANGED <<batch, event, evPc>>,
             \A e : IsCurrent(e) => IsCurrent(e)',
             Handled(event, evPc) => Handled(event, evPc)'
      PROVE  Events'
  BY <1>0, <1>1 DEF Events, Handled
<1>2. ASSUME UNCHANGED <<batch, event>>, evPc # "next", evPc' \in {"next", AfterRead},
             \A e : IsCurrent(e) => IsCurrent(e)',
             evPc' = "write" => IsCurrent(event)'
      PROVE  Events'
  <2>1. evPc' = "write" => event.out
    BY <1>2 DEF AfterRead
  <2> QED BY <1>0, <1>2, <2>1 DEF Events, IsCurrent, Bound, AfterRead
<1>3. ASSUME Bound \subseteq Bound', UNCHANGED <<seq, sockFd, reg, sendPkg>>
      PROVE  \A e : IsCurrent(e) => IsCurrent(e)'
  BY <1>3 DEF IsCurrent, HasReply, Writes
<1>4. CASE EpollWait
  <2> DEFINE Batch(S, report) ==
               /\ \A f \in S : report[f] \in Reports(f)
               /\ \A e \in batch' : e = Accepting \/ \E f \in S : e = report[f]
  <2>0. PICK S \in SUBSET {f \in Fd : reg[f] # NoConn} :
             \E report \in [S -> UNION {Reports(f) : f \in S}] : Batch(S, report)
    BY <1>4 DEF EpollWait
  <2>1. PICK report \in [S -> UNION {Reports(f) : f \in S}] : Batch(S, report)
    BY <2>0
  <2>2. evPc' = "next" /\ UNCHANGED <<Bound, seq, sockFd, reg, sendPkg>>
    BY <1>4 DEF EpollWait, Bound, poolVars, epollVars, sendVars
  <2>3. ASSUME NEW f \in S
        PROVE  /\ IsCurrent(report[f]) /\ (report[f].in \/ report[f].out)
               /\ report[f].conn = reg[f] /\ sockFd[reg[f]] = f /\ reg[f] # NoConn
    <3>1. f \in Fd /\ reg[f] # NoConn /\ report[f] \in Reports(f)
      BY <2>1
    <3>2. /\ report[f].conn = reg[f] /\ report[f].seq = seq[reg[f]]
          /\ (report[f].in \/ report[f].out)
          /\ Writes(report[f]) => regOut[f]
      BY <3>1, ReportType DEF Writes
    <3>3. reg[f] \in Bound /\ sockFd[reg[f]] = f
      BY <3>1 DEF Bindings
    <3>4. HasReply(report[f])
      BY <3>1, <3>2 DEF Outgoing, HasReply
    <3> QED BY <3>1, <3>2, <3>3, <3>4 DEF IsCurrent
  <2>4. \A e \in batch' : e = Accepting \/ \E f \in S : e = report[f]
    BY <2>1
  <2>5. \A e \in batch' : e = Accepting \/ (IsCurrent(e)' /\ (e.in \/ e.out))
    BY <2>2, <2>3, <2>4 DEF IsCurrent, HasReply, Writes
  <2>6. \A d, e \in batch' : d.conn = e.conn => d = e
    BY <1>0, <2>3, <2>4
  <2> QED BY <2>2, <2>5, <2>6 DEF Events
<1>5. ASSUME NEW e \in batch, NextEvent(e) PROVE Events'
  <2>1. /\ batch' = batch \ {e} /\ event' = e
        /\ evPc' = IF e = Accepting THEN "accept" ELSE IF e.in THEN "read" ELSE "write"
        /\ UNCHANGED <<Bound, seq, sockFd, reg, sendPkg, peer>>
    BY <1>5 DEF NextEvent, Bound, poolVars, epollVars, sendVars
  <2>2. \A d : IsCurrent(d) => IsCurrent(d)'
    BY <1>3, <2>1
  <2>3. \A d \in batch' : d.conn # e.conn
    BY <2>1 DEF Events
  <2>4. e # Accepting => IsCurrent(e) /\ (e.in \/ e.out) /\ e.conn \in Conn
    BY <1>0 DEF IsCurrent
  <2> QED BY <1>0, <2>1, <2>2, <2>3, <2>4 DEF Events, IsCurrent
<1>6. ASSUME NEW k \in Client, NEW f \in Fd, NEW c \in Conn, AcceptConn(k, f, c) PROVE Events'
  <2>1. Accepted(k, f, c)
    BY <1>6, AcceptStep
  <2>2. \A d \in Bound : d # c /\ sockFd[d] # f
    BY <1>0, <2>1, WorkerAssumption DEF Accepted, Bindings
  <2>3. \A e : IsCurrent(e) => IsCurrent(e)'
    BY <1>0, <2>1, <2>2 DEF Accepted, IsCurrent, HasReply
  <2>4. UNCHANGED batch /\ evPc' = "next"
    BY <2>1 DEF Accepted
  <2> QED BY <1>0, <2>3, <2>4 DEF Events
<1>7. CASE RecvClosed
  <2>1. Closed
    BY <1>7, RecvClosedStep
  <2>2. \A e : IsCurrent(e) /\ e.conn # event.conn => IsCurrent(e)'
    BY <2>1 DEF Closed, IsCurrent, HasReply
  <2>3. (~Open(sockFd[event.conn]))' /\ HasReply(event)'
    BY <2>1 DEF Closed, HasReply, IsCurrent
  <2>4. \A e \in batch : e.conn # event.conn
    BY <2>1 DEF Closed, Events
  <2> QED BY <1>0, <2>1, <2>2, <2>3, <2>4 DEF Closed, Events
<1>8. CASE InRecyConnection
  <2>1. /\ evPc = "in_recy" /\ evPc' = AfterRead /\ UNCHANGED <<batch, event, sockFd, peer, reg, sendPkg>>
        /\ Bound' = Bound \ {event.conn}
        /\ \A d \in Conn : d # event.conn => seq'[d] = seq[d]
    BY <1>8 DEF InRecyConnection, EvGo, Bound, TypeOK, epollVars, sendVars
  <2>2. \A e : IsCurrent(e) /\ e.conn # event.conn => IsCurrent(e)'
    BY <1>0, <2>1 DEF IsCurrent, HasReply, Writes
  <2>3. \A e \in batch : e.conn # event.conn
    BY <2>1 DEF Events
  <2>4. event.conn \in Conn /\ ~Open(sockFd[event.conn]) /\ HasReply(event)
    BY <1>0, <2>1 DEF Handled
  <2>5. evPc' = "write" => event.out
    BY <2>1 DEF AfterRead
  <2>6. evPc' \in {"next", "write"}
    BY <2>1 DEF AfterRead
  <2> QED BY <1>0, <2>1, <2>2, <2>3, <2>4, <2>5, <2>6 DEF Events, HasReply, Open
<1>9. CASE RecvHeader \/ RecvBody \/ RecvPart
  <2>1. /\ evPc = "read" /\ evPc' = AfterRead /\ UNCHANGED <<batch, event>>
        /\ UNCHANGED <<Bound, seq, sockFd, reg, sendPkg>>
    BY <1>9 DEF RecvHeader, RecvBody, RecvPart, Reading, Bound, poolVars, epollVars, sendVars
  <2>2. IsCurrent(event)'
    BY <1>0, <1>3, <2>1 DEF Handled
  <2> QED BY <1>2, <1>3, <2>1, <2>2
<1>10. CASE AcceptFails \/ LowerThrowCount \/ WriteHandler
  <2>1. /\ evPc \in {"accept", "write"} /\ evPc' = "next" /\ UNCHANGED <<batch, event>>
        /\ UNCHANGED <<Bound, seq, sockFd, sendPkg>>
    BY <1>10 DEF AcceptFails, LowerThrowCount, WriteHandler, EvGo, Bound, poolVars, sendVars
  <2>2. UNCHANGED reg
    BY <1>10, ModifyEpollSteps DEF AcceptFails, LowerThrowCount, epollVars
  <2> QED BY <1>2, <1>3, <2>1, <2>2
<1>11. CASE EpollOn
  <2>1. UNCHANGED <<Bound, seq, sockFd, sendPkg, peer, batch, event, evPc>>
    BY <1>11 DEF EpollOn, Bound, poolVars, sendVars, evVars
  <2>2. UNCHANGED reg
    BY <1>11, ModifyEpollSteps
  <2>3. Handled(event, evPc) => Handled(event, evPc)'
    BY <1>3, <2>1, <2>2 DEF Handled, HasReply, Open, IsCurrent
  <2> QED BY <1>1, <1>3, <2>1, <2>2, <2>3
<1>12. ASSUME NEW r \in Request, TakeReply(r) PROVE Events'
  <2>1. Taken(r)
    BY <1>12, TakeReplyStep
  <2>2. r # NoRequest
    BY DEF Request, NoRequest
  <2>3. \A d \in Conn : sendPkg[d] # NoRequest => sendPkg'[d] # NoRequest
    BY <2>1, <2>2 DEF Taken
  <2>4. \A e : IsCurrent(e) => IsCurrent(e)'
    BY <1>0, <2>1, <2>3 DEF Taken, IsCurrent, HasReply, Writes
  <2>5. Handled(event, evPc) => Handled(event, evPc)'
    BY <1>0, <2>1, <2>3, <2>4 DEF Taken, Handled, HasReply, Writes, Open
  <2> QED BY <1>1, <2>1, <2>4, <2>5 DEF Taken
<1>13. ASSUME NEW c \in Conn, Recycle(c) PROVE Events'
  <2>1. /\ Bound' = Bound /\ c \notin Bound
        /\ UNCHANGED <<sockFd, sendPkg, peer, reg, batch, event, evPc>>
        /\ \A d \in Conn : d # c => seq'[d] = seq[d]
    BY <1>13 DEF Recycle, Bound, TypeOK, epollVars, evVars
  <2>2. \A e : IsCurrent(e) => IsCurrent(e)'
    BY <1>0, <2>1 DEF IsCurrent, HasReply, Writes
  <2>3. Handled(event, evPc) => Handled(event, evPc)'
    BY <2>1, <2>2 DEF Handled, HasReply, Open
  <2> QED BY <1>1, <2>1, <2>2, <2>3
<1>14. CASE (\E r \in Request : DropStale(r)) \/ SendReply \/ FinishReply \/ Throw
  <2>1. UNCHANGED <<Bound, seq, sockFd, sendPkg, peer, reg, batch, event, evPc>>
    BY <1>14 DEF DropStale, SendReply, FinishReply, Throw, Bound, poolVars, epollVars, evVars
  <2>2. Handled(event, evPc) => Handled(event, evPc)'
    BY <1>3, <2>1 DEF Handled, HasReply, Open, IsCurrent
  <2> QED BY <1>1, <1>3, <2>1, <2>2
<1>15. CASE (\E r \in Request : Process(r)) \/ (\E k \in Client : ClientLeaves(k)) \/ UNCHANGED vars
  <2>1. UNCHANGED <<Bound, seq, sockFd, sendPkg, peer, reg, batch, event, evPc>>
    BY <1>15 DEF Process, ClientLeaves, vars, Bound, poolVars, epollVars, sendVars, evVars
  <2>2. Handled(event, evPc) => Handled(event, evPc)'
    BY <1>3, <2>1 DEF Handled, HasReply, Open, IsCurrent
  <2> QED BY <1>1, <1>3, <2>1, <2>2
<1> QED BY <1>4, <1>5, <1>6, <1>7, <1>8, <1>9, <1>10, <1>11, <1>12, <1>13, <1>14, <1>15
        DEF Next, EventLoop, Sender

-----------------------------------------------------------------------------
(* What clients get.                                                       *)

LEMMA NextReplyToRequester == Consistent /\ [Next]_vars => ReplyToRequester'
<1> SUFFICES ASSUME Consistent, [Next]_vars PROVE ReplyToRequester'
  OBVIOUS
<1> USE DEF Consistent
<1>1. \A k \in Client : \A r \in wire[k] : r \in Request /\ header[r].client = k /\ header[r] # NoHeader
  BY WorkerAssumption DEF ReplyToRequester, NoHeader
<1>2. ASSUME UNCHANGED <<wire, header>> PROVE ReplyToRequester'
  BY <1>2 DEF ReplyToRequester
<1>3. ASSUME NEW c \in Bound, NEW result \in SendResults(c), sendPkg[c] # NoRequest,
             Transmit(c, result), UNCHANGED header
      PROVE  ReplyToRequester'
  <2>1. CASE result \in {"all", "part"}
    <3>1. Open(sockFd[c]) /\ peer[sockFd[c]] \in Client
      BY <2>1 DEF SendResults, Open, TypeOK
    <3>2. header[sendPkg[c]].client = peer[sockFd[c]] /\ sendPkg[c] \in Request
      BY <1>3, <3>1 DEF Outgoing, TypeOK, Received, Bound
    <3>3. \A k \in Client : wire'[k] = IF k = peer[sockFd[c]] THEN wire[k] \cup {sendPkg[c]} ELSE wire[k]
      BY <1>3, <2>1, <3>1 DEF Transmit, TypeOK
    <3>4. ASSUME NEW k \in Client, NEW r \in wire'[k] PROVE r \in Request /\ header[r].client = k
      <4>1. r \in wire[k] \/ (k = peer[sockFd[c]] /\ r = sendPkg[c])
        BY <3>3
      <4> QED BY <1>1, <3>2, <4>1
    <3> QED BY <1>3, <3>4 DEF ReplyToRequester
  <2>2. CASE result \notin {"all", "part"}
    BY <1>2, <1>3, <2>2 DEF Transmit
  <2> QED BY <2>1, <2>2
<1>4. ASSUME NEW c \in Conn, ~Open(sockFd[c]), NEW result \in SendResults(c), Transmit(c, result)
      PROVE  UNCHANGED wire
  BY <1>4 DEF SendResults, Transmit
<1>5. CASE SendReply
  <2>1. sndConn \in Conn /\ sendPkg[sndConn] # NoRequest /\ UNCHANGED header
    BY <1>5 DEF SendReply, SenderAt, TypeOK, pkgVars
  <2>2. PICK result \in SendResults(sndConn) : Transmit(sndConn, result)
    BY <1>5 DEF SendReply
  <2>3. sndConn \in Bound \/ ~Open(sockFd[sndConn])
    BY <1>5, <2>1 DEF SendReply, SenderAt, Bound
  <2> QED BY <1>2, <1>3, <1>4, <2>1, <2>2, <2>3
<1>6. CASE WriteHandler
  <2>1. event.conn \in Conn /\ sendPkg[event.conn] # NoRequest /\ UNCHANGED header
    BY <1>6 DEF WriteHandler, EvGo, Events, HasReply, Writes, pkgVars
  <2>2. PICK result \in SendResults(event.conn) : Transmit(event.conn, result)
    BY <1>6 DEF WriteHandler
  <2>3. event.conn \in Bound \/ ~Open(sockFd[event.conn])
    BY <1>6 DEF WriteHandler, EvGo, Events
  <2> QED BY <1>2, <1>3, <1>4, <2>1, <2>2, <2>3
<1>7. CASE RecvHeader
  <2>1. HeaderReceived
    BY <1>7, RecvHeaderStep
  <2>2. \A r \in Request : header[r] # NoHeader => header'[r] = header[r]
    BY <2>1 DEF HeaderReceived, Received
  <2> QED BY <1>1, <2>1, <2>2 DEF HeaderReceived, ReplyToRequester
<1>8. CASE EpollWait \/ (\E e \in batch : NextEvent(e)) \/ AcceptFails
           \/ (\E k \in Client, f \in Fd, c \in Conn : AcceptConn(k, f, c))
  BY <1>2, <1>8 DEF EpollWait, NextEvent, AcceptFails, AcceptConn, pkgVars, sendVars
<1>9. CASE RecvBody \/ RecvPart \/ RecvClosed \/ InRecyConnection \/ LowerThrowCount
  BY <1>2, <1>9 DEF RecvBody, RecvPart, RecvClosed, InRecyConnection, LowerThrowCount,
                    pkgVars, sendVars
<1>10. CASE (\E r \in Request : DropStale(r) \/ TakeReply(r)) \/ FinishReply \/ Throw \/ EpollOn
  BY <1>2, <1>10 DEF DropStale, TakeReply, FinishReply, Throw, EpollOn, pkgVars, sendVars
<1>11. CASE (\E c \in Conn : Recycle(c)) \/ (\E r \in Request : Process(r))
            \/ (\E k \in Client : ClientLeaves(k)) \/ UNCHANGED vars
  BY <1>2, <1>11 DEF Recycle, Process, ClientLeaves, vars, pkgVars, sendVars
<1> QED BY <1>5, <1>6, <1>7, <1>8, <1>9, <1>10, <1>11 DEF Next, EventLoop, Sender

LEMMA InitConsistent == Init => Consistent
<1> SUFFICES ASSUME Init PROVE Consistent
  OBVIOUS
<1>1. TypeOK
  BY InitType
<1>2. Bound = {}
  BY DEF Init, Bound
<1>3. Bindings /\ Headers /\ Held /\ Outgoing /\ SenderAt
  BY <1>2 DEF Init, Bindings, Headers, Held, Outgoing, SenderAt, Open
<1>4. Events /\ ReplyToRequester
  BY DEF Init, Events, ReplyToRequester
<1> QED BY <1>1, <1>3, <1>4 DEF Consistent

LEMMA NextConsistent ==
    ASSUME ~FdReuse PROVE Consistent /\ [Next]_vars => Consistent'
BY NextType, NextBindings, NextHeaders, NextHeld, NextOutgoing, NextSenderAt, NextEvents,
   NextReplyToRequester DEF Consistent

\* Clients receive bytes of replies to their own requests and of no others, if
\* the kernel does not give a descriptor's number to a new client between the
\* send thread's look at the sequence number and its send().
THEOREM ReplyToRequesterAlways == ASSUME ~FdReuse PROVE Spec => []ReplyToRequester
<1>1. Consistent => ReplyToRequester
  BY DEF Consistent
<1> QED BY <1>1, InitConsistent, NextConsistent, PTL DEF Spec

\* Under the same condition, no event is handled that an earlier event of its
\* batch, or the recycler, has made stale.
THEOREM EventsAreCurrentAlways == ASSUME ~FdReuse PROVE Spec => []EventsAreCurrent
<1>1. Consistent => EventsAreCurrent
  BY DEF Consistent, Events, EventsAreCurrent, IsCurrent, Accepting
<1> QED BY <1>1, InitConsistent, NextConsistent, PTL DEF Spec

-----------------------------------------------------------------------------
(* mThrowSendCount.                                                        *)

Busy(c) == sndPc # "scan" /\ sndConn = c
Connected(c) == Open(sockFd[c]) /\ client[peer[sockFd[c]]] = "connected"

\* It is 1 while the event loop is to send and the send thread keeps away; only
\* the client's leaving ends that.
Counts ==
    /\ \A f \in Fd : Open(f) => client[peer[f]] # "connecting"
    /\ \A c \in Conn : thrown[c] <= 1
    /\ \A c \in Bound : Connected(c) =>
          thrown[c] >= 0 /\ (regOut[sockFd[c]] => thrown[c] = 1 /\ ~Busy(c))
    /\ sndPc \in {"send", "throw"} => thrown[sndConn] <= 0
    /\ sndPc = "epoll_on" /\ sndConn \in Bound /\ Connected(sndConn) => thrown[sndConn] = 1

\* Events with something to write.
CountsOfEvents ==
    /\ \A e \in batch : Writes(e) => thrown[e.conn] = 1 /\ ~Busy(e.conn)
    /\ evPc \in {"read", "in_recy", "write"} /\ Writes(event) =>
          ~Busy(event.conn) /\ (thrown[event.conn] = 1 \/ event.conn \in free)

\* A client that has hung up does not come back, and its object does not get
\* another one before the event is dealt with.
HangUps ==
    /\ \A e \in batch : e.hup => ~Connected(e.conn)
    /\ evPc \in {"read", "in_recy", "write"} /\ event.hup => ~Connected(event.conn)

\* A request belongs to the object it is received for, or to the thread pool.
Requests ==
    /\ \A r \in Request : header[r] = NoHeader => recvFreed[r] = 0 /\ sendFreed[r] = 0
    /\ \A r \in logic : recvFreed[r] = 0
    /\ \A c \in Conn : recvPkg[c] # NoRequest => recvPkg[c] \notin logic
    /\ \A c \in Conn \ free : recvPkg[c] # NoRequest => recvFreed[recvPkg[c]] = 0

\* A reply is still to be written, queued, or its object's.
Replies ==
    /\ \A r \in logic \cup sendQueue : sendFreed[r] = 0
    /\ logic \cap sendQueue = {}
    /\ \A c \in Conn : recvPkg[c] # NoRequest =>
          recvPkg[c] \notin sendQueue /\ sendFreed[recvPkg[c]] = 0
    /\ \A c \in Conn : sendPkg[c] # NoRequest =>
          /\ sendPkg[c] \notin logic \cup sendQueue
          /\ \A d \in Conn : recvPkg[d] # sendPkg[c]
    /\ sndPc \in {"send", "throw", "finish"} => sendFreed[sendPkg[sndConn]] = 0
    /\ \A c \in Conn : thrown[c] > 0 => sendPkg[c] # NoRequest /\ sendFreed[sendPkg[c]] = 0

Owned == Consistent /\ Counts /\ CountsOfEvents /\ HangUps /\ Requests /\ Replies

\* The write handler, called for an object the send thread is not at.
Written ==
    LET c == event.conn IN
    /\ evPc = "write" /\ evPc' = "next" /\ Writes(event) /\ c \in Conn
    /\ sendPkg[c] # NoRequest /\ ~Busy(c)
    /\ UNCHANGED <<free, recy, sockFd, Bound, peer, reg, client, header, recvPkg, logic, recvFreed,
                   sendPkg, sendQueue, sndPc, sndConn, batch, event>>
    /\ \/ UNCHANGED <<thrown, regOut, sendFreed>>
       \/ /\ ~Connected(c) \/ ~regOut'[sockFd[c]]
          /\ \A f \in Fd : regOut'[f] => regOut[f]
          /\ \A d \in Conn : thrown'[d] = IF d = c THEN thrown[c] - 1 ELSE thrown[d]
          /\ \A r \in Request :
                sendFreed'[r] = IF r = sendPkg[c] THEN sendFreed[r] + 1 ELSE sendFreed[r]

LEMMA WriteHandlerStep ==
    ASSUME Consistent, CountsOfEvents, WriteHandler PROVE Written
<1> USE DEF Consistent
<1> DEFINE c == event.conn
<1>1. /\ evPc = "write" /\ evPc' = "next" /\ Writes(event) /\ c \in Conn
      /\ sendPkg[c] # NoRequest /\ ~Busy(c) /\ (Open(sockFd[c]) => c \in Bound)
  BY DEF WriteHandler, EvGo, Events, CountsOfEvents, HasReply, Writes
<1>2. UNCHANGED <<free, recy, sockFd, Bound, peer, client, header, recvPkg, logic, recvFreed,
                  sendPkg, sendQueue, sndPc, sndConn, batch, event>>
  BY DEF WriteHandler, Bound, poolVars, pkgVars, sndVars
<1>3. UNCHANGED reg /\ \A f \in Fd : regOut'[f] => regOut[f]
  <2>1. ~EpollOn
    BY <1>1 DEF EpollOn, evVars
  <2> QED BY <2>1, ModifyEpollSteps
<1>4. PICK result \in SendResults(c) :
              /\ Transmit(c, result)
              /\ IF result = "all" THEN ModifyEpoll(c, FALSE) ELSE UNCHANGED <<reg, regOut>>
              /\ IF result \in {"part", "full"} THEN UNCHANGED <<thrown, sendFreed>>
                 ELSE FreeReply(sendPkg[c]) /\ thrown' = [thrown EXCEPT ![c] = @ - 1]
  BY DEF WriteHandler
<1>5. CASE result \in {"part", "full"}
  BY <1>1, <1>2, <1>3, <1>4, <1>5 DEF Written
<1>6. CASE result \in {"all", "error"}
  <2>1. ~Connected(c) \/ ~regOut'[sockFd[c]]
    <3>1. CASE result = "all"
      <4>1. ModifyEpoll(c, FALSE) /\ Open(sockFd[c])
        BY <1>4, <3>1 DEF SendResults
      <4> QED BY <1>1, <4>1, ModifyEpollOwn
    <3>2. CASE result = "error"
      BY <3>2 DEF SendResults, Connected
    <3> QED BY <1>6, <3>1, <3>2
  <2>2. FreeReply(sendPkg[c]) /\ thrown' = [thrown EXCEPT ![c] = @ - 1]
    BY <1>4, <1>6
  <2>3. \A d \in Conn : thrown'[d] = IF d = c THEN thrown[c] - 1 ELSE thrown[d]
    BY <2>2 DEF TypeOK
  <2>4. \A r \in Request :
            sendFreed'[r] = IF r = sendPkg[c] THEN sendFreed[r] + 1 ELSE sendFreed[r]
    BY <2>2 DEF FreeReply
  <2> QED BY <1>1, <1>2, <1>3, <2>1, <2>3, <2>4 DEF Written
<1> QED BY <1>4, <1>5, <1>6 DEF SendResults

LEMMA NextCounts == Owned /\ [Next]_vars => Counts'
<1> SUFFICES ASSUME Owned, [Next]_vars PROVE Counts'
  OBVIOUS
<1> USE DEF Owned, Consistent
<1>0. /\ \A d \in Bound : d \in Conn /\ sockFd[d] \in Fd
      /\ \A d \in Conn : thrown[d] \in Int
      /\ sndPc # "scan" => sndConn \in Conn
  BY DEF Bound, Bindings, TypeOK
<1>1. ASSUME UNCHANGED <<sockFd, peer, regOut, client, thrown, sndPc, sndConn>>, Bound' \subseteq Bound
      PROVE  Counts'
  BY <1>1 DEF Counts, Connected, Busy, Open
<1>2. ASSUME NEW k \in Client, NEW f \in Fd, NEW c \in Conn, AcceptConn(k, f, c) PROVE Counts'
  <2>1. Accepted(k, f, c) /\ client[k] = "connecting"
        /\ \A j \in Client : client'[j] = IF j = k THEN "connected" ELSE client[j]
    BY <1>2, AcceptStep DEF AcceptConn, TypeOK
  <2>2. \A d \in Bound : d # c /\ sockFd[d] # f
    BY <1>0, <2>1, WorkerAssumption DEF Accepted, Bindings
  <2>3. \A g \in Fd : Open(g) => peer[g] \in Client /\ peer[g] # k
    BY <2>1 DEF Counts, Open, TypeOK
  <2>4. sndPc # "scan" => sndConn # c
    BY <2>1 DEF Accepted, SenderAt
  <2>5. \A d \in Bound : Connected(d)' <=> Connected(d)
    BY <1>0, <2>1, <2>2, <2>3 DEF Accepted, Connected
  <2>6. /\ \A d \in Bound : Busy(d)' <=> Busy(d)
        /\ ~Busy(c)'
    BY <2>1, <2>4 DEF Accepted, Busy
  <2>7. \A g \in Fd : Open(g)' => client'[peer'[g]] # "connecting"
    BY <2>1, <2>3 DEF Accepted, Counts
  <2>8. ASSUME NEW d \in Bound', Connected(d)'
        PROVE  thrown'[d] >= 0 /\ (regOut'[sockFd'[d]] => thrown'[d] = 1 /\ ~Busy(d)')
    <3>1. CASE d = c
      BY <2>1, <3>1 DEF Accepted
    <3>2. CASE d # c
      <4>1. d \in Bound /\ Connected(d)
        BY <2>1, <2>5, <2>8, <3>2 DEF Accepted
      <4> QED BY <1>0, <2>1, <2>2, <2>6, <3>2, <4>1 DEF Accepted, Counts
    <3> QED BY <3>1, <3>2
  <2>9. /\ \A d \in Conn : thrown'[d] <= 1
        /\ sndPc' \in {"send", "throw"} => thrown'[sndConn'] <= 0
    BY <1>0, <2>1, <2>4 DEF Accepted, Counts
  <2>10. sndPc' = "epoll_on" /\ sndConn' \in Bound' /\ Connected(sndConn)' => thrown'[sndConn'] = 1
    BY <1>0, <2>1, <2>4, <2>5 DEF Accepted, Counts
  <2> QED BY <2>7, <2>8, <2>9, <2>10 DEF Counts
<1>3. CASE RecvClosed
  <2>1. Closed
    BY <1>3, RecvClosedStep
  <2>2. \A d \in Conn : Connected(d)' => Connected(d)
    BY <2>1 DEF Closed, Connected, Open
  <2>3. \A d \in Bound : Busy(d)' <=> Busy(d)
    BY <2>1 DEF Closed, Busy
  <2> QED BY <1>0, <2>1, <2>2, <2>3 DEF Closed, Counts
<1>4. CASE InRecyConnection
  <2>1. Bound' \subseteq Bound
    BY <1>4 DEF InRecyConnection, Bound
  <2> QED BY <1>1, <1>4, <2>1 DEF InRecyConnection, epollVars, sendVars, sndVars
<1>5. CASE LowerThrowCount
  <2>1. event.conn \in Conn /\ ~Connected(event.conn)
    BY <1>5 DEF LowerThrowCount, EvGo, Events, HangUps
  <2>2. \A d \in Conn : thrown'[d] = IF d = event.conn THEN thrown[d] - 1 ELSE thrown[d]
    BY <1>5 DEF LowerThrowCount, TypeOK
  <2>3. UNCHANGED <<sockFd, peer, regOut, client, sndPc, sndConn, Bound>>
    BY <1>5 DEF LowerThrowCount, Bound, poolVars, epollVars, sndVars
  <2>4. \A d \in Conn : (Busy(d)' <=> Busy(d)) /\ (Connected(d)' <=> Connected(d))
    BY <2>3 DEF Busy, Connected, Open
  <2> QED BY <1>0, <2>1, <2>2, <2>3, <2>4 DEF Counts, Connected, Open
<1>6. CASE WriteHandler
  <2>1. Written
    BY <1>6, WriteHandlerStep
  <2>2. \A d \in Conn : (Busy(d)' <=> Busy(d)) /\ (Connected(d)' <=> Connected(d))
    BY <2>1 DEF Written, Busy, Connected, Open
  <2>3. CASE UNCHANGED <<thrown, regOut, sendFreed>>
    BY <1>1, <2>1, <2>3 DEF Written
  <2>4. CASE ~UNCHANGED <<thrown, regOut, sendFreed>>
    <3>1. event.conn \in Bound /\ Connected(event.conn) => thrown[event.conn] = 1
      BY <2>1 DEF Written, CountsOfEvents, Bound
    <3> QED BY <1>0, <2>1, <2>2, <2>4, <3>1 DEF Written, Counts, Busy, Open
  <2> QED BY <2>3, <2>4
<1>7. CASE EpollOn
  <2>1. /\ UNCHANGED reg
        /\ \A f \in Fd : regOut'[f] => regOut[f] \/ reg[f] = sndConn
    BY <1>7, ModifyEpollSteps
  <2>2. /\ sndPc = "epoll_on" /\ sndPc' = "scan"
        /\ UNCHANGED <<sockFd, peer, client, thrown, Bound>>
    BY <1>7 DEF EpollOn, SndGo, Bound, poolVars, sendVars
  <2>3. \A d \in Conn : Connected(d)' <=> Connected(d)
    BY <2>2 DEF Connected, Open
  <2>4. \A d \in Bound : Connected(d) => reg[sockFd[d]] = d
    BY DEF Connected, Bindings, Events
  <2> QED BY <1>0, <2>1, <2>2, <2>3, <2>4 DEF Counts, Busy, Open
<1>8. ASSUME NEW r \in Request, TakeReply(r) PROVE Counts'
  <2>1. Taken(r)
    BY <1>8, TakeReplyStep
  <2>2. \A d \in Conn : Connected(d)' <=> Connected(d)
    BY <2>1 DEF Taken, Connected, Open
  <2> QED BY <1>0, <2>1, <2>2 DEF Taken, Counts, Busy, Open
<1>9. CASE SendReply
  <2>1. /\ sndPc = "send" /\ sndPc' \in {"throw", "finish"}
        /\ UNCHANGED <<sockFd, peer, regOut, client, thrown, sndConn, Bound>>
    BY <1>9 DEF SendReply, Bound, poolVars, epollVars
  <2>2. \A d \in Conn : (Busy(d)' <=> Busy(d)) /\ (Connected(d)' <=> Connected(d))
    BY <2>1 DEF Busy, Connected, Open
  <2> QED BY <1>0, <2>1, <2>2 DEF Counts, Open
<1>10. CASE FinishReply \/ Throw
  <2>1. /\ FinishReply => sndPc = "finish" /\ sndPc' = "scan"
        /\ Throw => sndPc = "throw" /\ sndPc' = "epoll_on" /\ UNCHANGED sndConn
        /\ UNCHANGED <<sockFd, peer, regOut, client, Bound>>
        /\ sndConn \in Conn
    BY <1>10 DEF FinishReply, Throw, SndGo, Bound, TypeOK, poolVars, epollVars
  <2>2. /\ \A d \in Conn : d # sndConn => thrown'[d] = thrown[d]
        /\ FinishReply => thrown'[sndConn] = 0
        /\ Throw => thrown'[sndConn] = thrown[sndConn] + 1
    <3>1. CASE FinishReply
      <4>1. thrown' = [thrown EXCEPT ![sndConn] = 0] /\ ~Throw
        BY <2>1, <3>1 DEF FinishReply
      <4> QED BY <2>1, <3>1, <4>1 DEF TypeOK
    <3>2. CASE Throw
      <4>1. thrown' = [thrown EXCEPT ![sndConn] = @ + 1] /\ ~FinishReply
        BY <2>1, <3>2 DEF Throw
      <4> QED BY <2>1, <3>2, <4>1 DEF TypeOK
    <3> QED BY <1>10, <3>1, <3>2
  <2>3. \A d \in Conn : Connected(d)' <=> Connected(d)
    BY <2>1 DEF Connected, Open
  <2>4. \A d \in Conn : Busy(d)' => Busy(d)
    BY <1>10, <2>1 DEF Busy
  <2>5. Busy(sndConn)
    BY <1>10, <2>1 DEF Busy
  <2>6. ASSUME NEW d \in Bound, Connected(d)
        PROVE  thrown'[d] >= 0 /\ (regOut[sockFd[d]] => thrown'[d] = 1 /\ ~Busy(d)')
    BY <1>0, <1>10, <2>1, <2>2, <2>4, <2>5, <2>6 DEF Counts
  <2>7. CASE FinishReply
    BY <1>0, <2>1, <2>2, <2>3, <2>6, <2>7 DEF Counts, Open
  <2>8. CASE Throw
    BY <1>0, <2>1, <2>2, <2>3, <2>6, <2>8 DEF Counts, Open
  <2> QED BY <1>10, <2>7, <2>8
<1>11. ASSUME NEW c \in Conn, Recycle(c) PROVE Counts'
  <2>1. /\ Bound' = Bound /\ c \notin Bound /\ sndConn # c
        /\ \A d \in Conn : thrown'[d] = IF d = c THEN 0 ELSE thrown[d]
        /\ UNCHANGED <<sockFd, peer, regOut, client, sndPc, sndConn>>
    BY <1>11 DEF Recycle, Bound, TypeOK, epollVars, sndVars
  <2>2. \A d \in Conn : (Busy(d)' <=> Busy(d)) /\ (Connected(d)' <=> Connected(d))
    BY <2>1 DEF Busy, Connected, Open
  <2> QED BY <1>0, <2>1, <2>2 DEF Counts, Open
<1>12. ASSUME NEW k \in Client, ClientLeaves(k) PROVE Counts'
  <2>1. /\ \A j \in Client : client'[j] = client[j] \/ client'[j] = "left"
        /\ UNCHANGED <<sockFd, peer, regOut, thrown, sndPc, sndConn, Bound>>
    BY <1>12 DEF ClientLeaves, Bound, TypeOK, poolVars, epollVars, sendVars, sndVars
  <2>2. \A g \in Fd : Open(g) => peer[g] \in Client
    BY DEF Open, TypeOK
  <2>3. \A d \in Conn : (Busy(d)' <=> Busy(d)) /\ (Connected(d)' => Connected(d))
    BY <2>1 DEF Busy, Connected, Open, TypeOK
  <2> QED BY <1>0, <2>1, <2>2, <2>3 DEF Counts, Open
<1>13. ASSUME UNCHANGED poolVars PROVE Bound' = Bound
  BY <1>13 DEF Bound, poolVars
<1>14. CASE EpollWait \/ (\E e \in batch : NextEvent(e)) \/ AcceptFails
  BY <1>1, <1>13, <1>14 DEF EpollWait, NextEvent, AcceptFails, poolVars, epollVars, sendVars, sndVars
<1>15. CASE RecvHeader \/ RecvBody \/ RecvPart
  BY <1>1, <1>13, <1>15 DEF RecvHeader, RecvBody, RecvPart, poolVars, epollVars, sendVars, sndVars
<1>16. CASE (\E r \in Request : DropStale(r) \/ Process(r)) \/ UNCHANGED vars
  BY <1>1, <1>13, <1>16 DEF DropStale, Process, vars, poolVars, epollVars, sendVars, sndVars
<1> QED BY <1>2, <1>3, <1>4, <1>5, <1>6, <1>7, <1>8, <1>9, <1>10, <1>11, <1>12, <1>14, <1>15, <1>16
        DEF Next, EventLoop, Sender

LEMMA NextCountsOfEvents == Owned /\ [Next]_vars => CountsOfEvents'
<1> SUFFICES ASSUME Owned, [Next]_vars PROVE CountsOfEvents'
  OBVIOUS
<1> USE DEF Owned, Consistent
<1>0. /\ \A e \in batch : e.conn \in Bound \/ e = Accepting
      /\ \A d \in Bound : d \in Conn /\ sockFd[d] \in Fd
      /\ \A d \in Conn : thrown[d] \in Int
      /\ evPc \in {"read", "in_recy", "write"} => event.conn \in Conn
  BY DEF Events, IsCurrent, Bindings, Bound, TypeOK, Event
<1>1. ASSUME UNCHANGED batch, evPc' = "next",
             \A e \in batch : Writes(e) => thrown'[e.conn] = thrown[e.conn] /\ ~Busy(e.conn)'
      PROVE  CountsOfEvents'
  BY <1>1 DEF CountsOfEvents, Writes
<1>2. ASSUME UNCHANGED <<batch, event>>, evPc = "read", evPc' \in {"in_recy", "next", "write"},
             UNCHANGED <<thrown, sndPc, sndConn, free>>
      PROVE  CountsOfEvents'
  BY <1>2 DEF CountsOfEvents, Busy
<1>3. ASSUME UNCHANGED <<batch, event, evPc, thrown>>, sndPc' = "scan" \/ UNCHANGED <<sndConn>>,
             sndPc = "scan" => sndPc' = "scan",
             UNCHANGED <<free, sockFd, peer>>
      PROVE  CountsOfEvents'
  BY <1>3 DEF CountsOfEvents, Busy, Open
<1>4. CASE EpollWait
  <2> DEFINE Batch(S, report) ==
               /\ \A f \in S : report[f] \in Reports(f)
               /\ \A e \in batch' : e = Accepting \/ \E f \in S : e = report[f]
  <2>1. PICK S \in SUBSET {f \in Fd : reg[f] # NoConn} :
             \E report \in [S -> UNION {Reports(f) : f \in S}] : Batch(S, report)
    BY <1>4 DEF EpollWait
  <2>2. PICK report \in [S -> UNION {Reports(f) : f \in S}] : Batch(S, report)
    BY <2>1
  <2>3. evPc' = "next" /\ UNCHANGED <<thrown, sndPc, sndConn>>
    BY <1>4 DEF EpollWait, sendVars, sndVars
  <2>4. ASSUME NEW f \in S
        PROVE  Writes(report[f]) => thrown[report[f].conn] = 1 /\ ~Busy(report[f].conn)
    <3>1. f \in Fd /\ reg[f] # NoConn /\ report[f] \in Reports(f)
      BY <2>2
    <3>2. /\ report[f].conn = reg[f]
          /\ Writes(report[f]) => regOut[f] /\ client[peer[f]] # "left"
      BY <3>1, ReportType DEF Writes, Reports
    <3>3. reg[f] \in Bound /\ sockFd[reg[f]] = f /\ Open(f)
      BY <3>1 DEF Bindings
    <3>4. client[peer[f]] # "left" => Connected(reg[f])
      BY <3>1, <3>3 DEF Counts, Connected, Open, TypeOK
    <3> QED BY <3>2, <3>3, <3>4 DEF Counts
  <2>5. ~Writes(Accepting)
    BY DEF Writes, Accepting
  <2> QED BY <2>2, <2>3, <2>4, <2>5 DEF CountsOfEvents, Busy
<1>5. ASSUME NEW e \in batch, NextEvent(e) PROVE CountsOfEvents'
  <2>1. /\ batch' = batch \ {e} /\ event' = e
        /\ evPc' = "write" => ~e.in
        /\ UNCHANGED <<thrown, sndPc, sndConn>>
    BY <1>5 DEF NextEvent, sendVars, sndVars
  <2> QED BY <2>1 DEF CountsOfEvents, Busy
<1>6. ASSUME NEW k \in Client, NEW f \in Fd, NEW c \in Conn, AcceptConn(k, f, c)
      PROVE  CountsOfEvents'
  <2>1. Accepted(k, f, c)
    BY <1>6, AcceptStep
  <2>2. ~Writes(Accepting)
    BY DEF Writes, Accepting
  <2>3. \A e \in batch : Writes(e) => thrown'[e.conn] = thrown[e.conn] /\ ~Busy(e.conn)'
    BY <1>0, <2>1, <2>2 DEF Accepted, CountsOfEvents, Busy
  <2> QED BY <1>1, <2>1, <2>3 DEF Accepted
<1>7. CASE RecvClosed
  <2>1. Closed
    BY <1>7, RecvClosedStep
  <2> QED BY <1>2, <2>1 DEF Closed
<1>8. CASE RecvHeader \/ RecvBody \/ RecvPart
  <2>1. /\ evPc = "read" /\ evPc' \in {"next", "write"}
        /\ UNCHANGED <<batch, event, thrown, sndPc, sndConn, free>>
    BY <1>8 DEF RecvHeader, RecvBody, RecvPart, Reading, AfterRead, poolVars, sendVars, sndVars
  <2> QED BY <1>2, <2>1
<1>9. CASE InRecyConnection
  <2>1. /\ evPc = "in_recy" /\ ~Open(sockFd[event.conn])
        /\ UNCHANGED <<batch, event, thrown, sndPc, sndConn, free, sockFd, peer>>
    BY <1>9 DEF InRecyConnection, EvGo, Events, epollVars, sendVars, sndVars
  <2> QED BY <2>1 DEF CountsOfEvents, Busy, Open
<1>10. CASE AcceptFails
  <2>1. evPc' = "next" /\ UNCHANGED <<batch, thrown, sndPc, sndConn>>
    BY <1>10 DEF AcceptFails, EvGo, sendVars, sndVars
  <2>2. \A e \in batch : Writes(e) => ~Busy(e.conn)'
    BY <2>1 DEF CountsOfEvents, Busy
  <2> QED BY <1>1, <2>1, <2>2
<1>11. CASE LowerThrowCount \/ WriteHandler
  <2>1. /\ evPc = "write" /\ evPc' = "next" /\ UNCHANGED <<batch, sndPc, sndConn>>
    BY <1>11 DEF LowerThrowCount, WriteHandler, EvGo, sndVars
  <2>2. \A d \in Conn : d # event.conn => thrown'[d] = thrown[d]
    BY <1>11 DEF LowerThrowCount, WriteHandler, TypeOK
  <2>3. \A e \in batch : e.conn # event.conn
    BY <2>1 DEF Events
  <2>4. ~Writes(Accepting)
    BY DEF Writes, Accepting
  <2>5. \A e \in batch : Writes(e) => thrown'[e.conn] = thrown[e.conn] /\ ~Busy(e.conn)'
    BY <1>0, <2>1, <2>2, <2>3, <2>4 DEF CountsOfEvents, Busy
  <2> QED BY <1>1, <2>1, <2>5
<1>12. ASSUME NEW r \in Request, TakeReply(r) PROVE CountsOfEvents'
  <2>1. Taken(r) /\ thrown[header[r].conn] \in Int
    BY <1>0, <1>12, TakeReplyStep DEF Taken
  <2>2. /\ \A e \in batch : Writes(e) => e.conn # header[r].conn
        /\ evPc \in {"read", "in_recy", "write"} /\ Writes(event) => event.conn # header[r].conn
    BY <2>1 DEF Taken, CountsOfEvents, Bound
  <2> QED BY <2>1, <2>2 DEF Taken, CountsOfEvents, Busy, Open
<1>13. CASE FinishReply \/ Throw
  <2>1. /\ sndPc # "scan" /\ sndConn \in Conn
        /\ sndPc' = "scan" \/ UNCHANGED sndConn
        /\ UNCHANGED <<batch, event, evPc, free, sockFd, peer>>
    BY <1>13 DEF FinishReply, Throw, SndGo, TypeOK, poolVars, epollVars, evVars
  <2>2. \A d \in Conn : d # sndConn => thrown'[d] = thrown[d]
    BY <1>13 DEF FinishReply, Throw, TypeOK
  <2>3. Busy(sndConn)
    BY <2>1 DEF Busy
  <2>4. \A d \in Conn : Busy(d)' => Busy(d)
    BY <2>1 DEF Busy
  <2>5. ~Writes(Accepting)
    BY DEF Writes, Accepting
  <2>6. \A e \in batch : Writes(e) => thrown'[e.conn] = 1 /\ ~Busy(e.conn)'
    BY <1>0, <2>2, <2>3, <2>4, <2>5 DEF CountsOfEvents
  <2>7. ASSUME evPc \in {"read", "in_recy", "write"}, Writes(event)
        PROVE  ~Busy(event.conn)' /\ (thrown'[event.conn] = 1 \/ event.conn \in free)
    <3>1. event.conn \in Conn
      BY <1>0, <2>7
    <3>2. ~Busy(event.conn) /\ (thrown[event.conn] = 1 \/ event.conn \in free)
      BY <2>7 DEF CountsOfEvents
    <3> QED BY <2>1, <2>2, <2>3, <2>4, <3>1, <3>2
  <2>8. Writes(event)' <=> Writes(event)
    BY <2>1 DEF Writes
  <2> QED BY <2>1, <2>6, <2>7, <2>8 DEF CountsOfEvents, Writes, Open
<1>14. CASE (\E r \in Request : DropStale(r)) \/ SendReply \/ EpollOn
  <2>1. /\ UNCHANGED <<batch, event, evPc, thrown, free, sockFd, peer>>
        /\ sndPc' = "scan" \/ UNCHANGED <<sndConn>>
        /\ sndPc = "scan" => sndPc' = "scan"
    BY <1>14 DEF DropStale, SendReply, EpollOn, SndGo, poolVars, epollVars, sendVars, sndVars, evVars
  <2> QED BY <1>3, <2>1
<1>15. ASSUME NEW c \in Conn, Recycle(c) PROVE CountsOfEvents'
  <2>1. /\ c \notin Bound /\ free' = free \cup {c}
        /\ \A d \in Conn : thrown'[d] = IF d = c THEN 0 ELSE thrown[d]
        /\ UNCHANGED <<batch, event, evPc, sndPc, sndConn, sockFd, peer>>
    BY <1>15 DEF Recycle, Bound, TypeOK, epollVars, sndVars, evVars
  <2>2. \A e \in batch : e.conn # c
    BY <1>0, <2>1, WorkerAssumption DEF Accepting
  <2>3. ~Writes(Accepting)
    BY DEF Writes, Accepting
  <2> QED BY <1>0, <2>1, <2>2, <2>3 DEF CountsOfEvents, Busy, Open
<1>16. CASE (\E r \in Request : Process(r)) \/ (\E k \in Client : ClientLeaves(k)) \/ UNCHANGED vars
  <2>1. UNCHANGED <<batch, event, evPc, thrown, free, sockFd, peer, sndPc, sndConn>>
    BY <1>16 DEF Process, ClientLeaves, vars, poolVars, epollVars, sendVars, sndVars, evVars
  <2> QED BY <1>3, <2>1
<1> QED BY <1>4, <1>5, <1>6, <1>7, <1>8, <1>9, <1>10, <1>11, <1>12, <1>13, <1>14, <1>15, <1>16
        DEF Next, EventLoop, Sender

LEMMA NextHangUps == Owned /\ [Next]_vars => HangUps'
<1> SUFFICES ASSUME Owned, [Next]_vars PROVE HangUps'
  OBVIOUS
<1> USE DEF Owned, Consistent
<1>0. /\ \A e \in batch : e.conn \in Bound \/ e = Accepting
      /\ \A d \in Bound : d \in Conn /\ sockFd[d] \in Fd
      /\ ~Accepting.hup
  BY DEF Events, IsCurrent, Bindings, Bound, Accepting
<1>1. ASSUME \A c \in Conn : Connected(c)' => Connected(c),
             \A e \in batch' : e \in batch,
             evPc' \in {"read", "in_recy", "write"} =>
                \/ event' = event /\ evPc \in {"read", "in_recy", "write"}
                \/ event' \in batch /\ event' # Accepting
      PROVE  HangUps'
  <2>1. ASSUME NEW e \in batch, e.hup PROVE ~Connected(e.conn)'
    BY <1>0, <1>1, <2>1 DEF HangUps
  <2>2. ASSUME evPc' \in {"read", "in_recy", "write"}, event'.hup PROVE ~Connected(event.conn)'
    <3>1. event'.conn \in Conn /\ ~Connected(event'.conn)
      <4>1. CASE event' = event /\ evPc \in {"read", "in_recy", "write"}
        BY <2>2, <4>1 DEF HangUps, TypeOK, Event
      <4>2. CASE event' \in batch /\ event' # Accepting
        BY <1>0, <2>2, <4>2 DEF HangUps
      <4> QED BY <1>1, <2>2, <4>1, <4>2
    <3>2. PICK c \in Conn : c = event'.conn /\ ~Connected(c)
      BY <3>1
    <3>3. ~Connected(c)'
      BY <1>1, <3>2
    <3> QED BY <3>2, <3>3 DEF Connected, Open
  <2> QED BY <1>1, <2>1, <2>2 DEF HangUps
<1>2. ASSUME UNCHANGED <<sockFd, peer, client>> PROVE \A c \in Conn : Connected(c)' <=> Connected(c)
  BY <1>2 DEF Connected, Open
<1>3. CASE EpollWait
  <2> DEFINE Batch(S, report) ==
               /\ \A f \in S : report[f] \in Reports(f)
               /\ \A e \in batch' : e = Accepting \/ \E f \in S : e = report[f]
  <2>1. PICK S \in SUBSET {f \in Fd : reg[f] # NoConn} :
             \E report \in [S -> UNION {Reports(f) : f \in S}] : Batch(S, report)
    BY <1>3 DEF EpollWait
  <2>2. PICK report \in [S -> UNION {Reports(f) : f \in S}] : Batch(S, report)
    BY <2>1
  <2>3. evPc' = "next" /\ UNCHANGED <<sockFd, peer, client>>
    BY <1>3 DEF EpollWait, poolVars, epollVars
  <2>4. ASSUME NEW f \in S, report[f].hup PROVE ~Connected(report[f].conn)
    <3>1. f \in Fd /\ reg[f] # NoConn /\ report[f] \in Reports(f)
      BY <2>2
    <3>2. report[f].conn = reg[f] /\ client[peer[f]] = "left"
      BY <2>4, <3>1, ReportType
    <3>3. sockFd[reg[f]] = f /\ reg[f] \in Bound
      BY <3>1 DEF Bindings
    <3> QED BY <3>2, <3>3 DEF Connected
  <2>5. \A e \in batch' : e.hup => e.conn \in Conn /\ ~Connected(e.conn)
    <3> SUFFICES ASSUME NEW e \in batch', e.hup PROVE e.conn \in Conn /\ ~Connected(e.conn)
      OBVIOUS
    <3>1. PICK f \in S : e = report[f]
      BY <1>0, <2>2
    <3>2. f \in Fd /\ reg[f] # NoConn /\ report[f] \in Reports(f)
      BY <2>2
    <3>3. report[f].conn \in Conn
      BY <3>2, ReportType DEF Bindings, Bound
    <3> QED BY <2>4, <3>1, <3>3
  <2> QED BY <1>2, <2>3, <2>5 DEF HangUps
<1>4. ASSUME NEW e \in batch, NextEvent(e) PROVE HangUps'
  <2>1. /\ batch' = batch \ {e} /\ event' = e /\ UNCHANGED <<sockFd, peer, client>>
        /\ evPc' \in {"read", "in_recy", "write"} => e # Accepting
    BY <1>4 DEF NextEvent, poolVars, epollVars
  <2> QED BY <1>1, <1>2, <2>1
<1>5. ASSUME NEW k \in Client, NEW f \in Fd, NEW c \in Conn, AcceptConn(k, f, c) PROVE HangUps'
  \* The new client is behind a descriptor that no object in use had.
  <2>1. Accepted(k, f, c) /\ client[k] = "connecting"
        /\ \A j \in Client : client'[j] = IF j = k THEN "connected" ELSE client[j]
    BY <1>5, AcceptStep DEF AcceptConn, TypeOK
  <2>2. \A d \in Bound : d # c /\ sockFd[d] # f
    BY <1>0, <2>1, WorkerAssumption DEF Accepted, Bindings
  <2>3. \A g \in Fd : Open(g) => peer[g] \in Client /\ peer[g] # k
    BY <2>1 DEF Counts, Open, TypeOK
  <2>4. \A d \in Bound : Connected(d)' <=> Connected(d)
    BY <1>0, <2>1, <2>2, <2>3 DEF Accepted, Connected
  <2>5. evPc' = "next" /\ UNCHANGED batch
    BY <2>1 DEF Accepted
  <2> QED BY <1>0, <2>4, <2>5 DEF HangUps
<1>6. CASE RecvClosed
  <2>1. Closed
    BY <1>6, RecvClosedStep
  <2>2. \A d \in Conn : Connected(d)' => Connected(d)
    BY <2>1 DEF Closed, Connected, Open
  <2>3. UNCHANGED <<batch, event>> /\ evPc = "read"
    BY <2>1 DEF Closed
  <2> QED BY <1>1, <2>2, <2>3
<1>7. CASE RecvHeader \/ RecvBody \/ RecvPart \/ InRecyConnection
  <2>1. /\ evPc \in {"read", "in_recy"} /\ UNCHANGED <<batch, event, sockFd, peer, client>>
    BY <1>7 DEF RecvHeader, RecvBody, RecvPart, Reading, InRecyConnection, EvGo, poolVars, epollVars
  <2> QED BY <1>1, <1>2, <2>1
<1>8. CASE AcceptFails \/ LowerThrowCount \/ WriteHandler
  <2>1. evPc' = "next" /\ UNCHANGED <<batch, sockFd, peer, client>>
    BY <1>8 DEF AcceptFails, LowerThrowCount, WriteHandler, EvGo, poolVars, epollVars
  <2> QED BY <1>1, <1>2, <2>1
<1>9. CASE Sender \/ (\E c \in Conn : Recycle(c)) \/ (\E r \in Request : Process(r)) \/ UNCHANGED vars
  <2>1. UNCHANGED <<batch, event, evPc, sockFd, peer, client>>
    BY <1>9 DEF Sender, DropStale, TakeReply, SendReply, FinishReply, Throw, EpollOn, Recycle, Process,
                vars, poolVars, epollVars, evVars
  <2> QED BY <1>1, <1>2, <2>1
<1>10. ASSUME NEW k \in Client, ClientLeaves(k) PROVE HangUps'
  <2>1. /\ \A j \in Client : client'[j] = client[j] \/ client'[j] = "left"
        /\ UNCHANGED <<batch, event, evPc, sockFd, peer>>
    BY <1>10 DEF ClientLeaves, TypeOK, poolVars, epollVars, evVars
  <2>2. \A d \in Conn : Connected(d)' => Connected(d)
    BY <2>1 DEF Connected, Open, TypeOK
  <2> QED BY <1>1, <2>1, <2>2
<1> QED BY <1>3, <1>4, <1>5, <1>6, <1>7, <1>8, <1>9, <1>10 DEF Next, EventLoop

-----------------------------------------------------------------------------
(* Memory.                                                                 *)

\* Two objects never hold the same request, or the same reply.
LEMMA HeldOnce ==
    ASSUME Held, NEW c \in Conn, NEW d \in Conn, c # d
    PROVE  /\ recvPkg[c] # NoRequest => recvPkg[c] # recvPkg[d]
           /\ sendPkg[c] # NoRequest => sendPkg[c] # sendPkg[d]
BY DEF Held

LEMMA NextRequests == Owned /\ [Next]_vars => Requests'
<1> SUFFICES ASSUME Owned, [Next]_vars PROVE Requests'
  OBVIOUS
<1> USE DEF Owned, Consistent
<1>0. /\ \A d \in Conn : recvPkg[d] # NoRequest =>
            recvPkg[d] \in Request /\ header[recvPkg[d]] # NoHeader
      /\ \A d \in Conn : sendPkg[d] # NoRequest =>
            sendPkg[d] \in Request /\ header[sendPkg[d]] # NoHeader
      /\ \A r \in logic \cup sendQueue : r \in Request /\ header[r] # NoHeader
  BY DEF TypeOK, Received
<1>1. ASSUME UNCHANGED <<header, recvFreed, logic, recvPkg, sendFreed>>, Conn \ free' \subseteq Conn \ free
      PROVE  Requests'
  BY <1>1 DEF Requests
<1>2. ASSUME NEW r \in Request, header[r] # NoHeader,
             \A s \in Request : sendFreed'[s] = sendFreed[s] \/ s = r,
             UNCHANGED <<header, recvFreed, logic, recvPkg, free>>
      PROVE  Requests'
  BY <1>2 DEF Requests
<1>3. ASSUME NEW k \in Client, NEW f \in Fd, NEW c \in Conn, AcceptConn(k, f, c) PROVE Requests'
  <2>1. Accepted(k, f, c)
    BY <1>3, AcceptStep
  <2> QED BY <2>1 DEF Accepted, Requests
<1>4. CASE RecvHeader
  <2>1. HeaderReceived
    BY <1>4, RecvHeaderStep
  <2>2. /\ recvFreed[NewRequest] = 0 /\ NewRequest \in Request
        /\ event.conn \in Conn /\ event.conn \notin free
    BY <2>1 DEF HeaderReceived, Requests, Received, Bound
  <2>3. \A d \in Conn : recvPkg[d] # NewRequest
    BY <1>0, <2>1 DEF HeaderReceived, Received, Request, NoRequest
  <2>4. \A r \in Request : header'[r] = NoHeader => header[r] = NoHeader
    <3>1. Header \cap {NoHeader} = {}
      BY WorkerAssumption DEF Header, NoHeader
    <3>2. header'[NewRequest] # NoHeader
      BY <2>1, <2>2, WorkerAssumption DEF HeaderReceived, NoHeader
    <3> QED BY <2>1, <3>2 DEF HeaderReceived
  <2>5. NewRequest \notin logic
    BY <1>0, <2>1 DEF HeaderReceived, Received
  <2>6. \/ UNCHANGED logic /\ \A d \in Conn : recvPkg'[d] = IF d = event.conn THEN NewRequest ELSE recvPkg[d]
        \/ UNCHANGED recvPkg /\ logic' = logic \cup {NewRequest}
    BY <1>4 DEF RecvHeader, TypeOK
  <2>7. UNCHANGED <<recvFreed, sendFreed, free>>
    BY <2>1 DEF HeaderReceived
  <2> QED BY <2>2, <2>3, <2>4, <2>5, <2>6, <2>7 DEF Requests
<1>5. CASE RecvBody
  <2>1. /\ event.conn \in Conn \ free /\ recvPkg[event.conn] # NoRequest
        /\ logic' = logic \cup {recvPkg[event.conn]}
        /\ \A d \in Conn : recvPkg'[d] = IF d = event.conn THEN NoRequest ELSE recvPkg[d]
        /\ UNCHANGED <<header, recvFreed, sendFreed, free>>
    BY <1>5 DEF RecvBody, Reading, Events, IsCurrent, Bound, TypeOK, poolVars, sendVars
  <2> QED BY <2>1, HeldOnce DEF Requests
<1>6. ASSUME NEW c \in Conn, Recycle(c) PROVE Requests'
  <2>1. /\ c \notin free /\ free' = free \cup {c}
        /\ \A r \in Request : r # recvPkg[c] => recvFreed'[r] = recvFreed[r]
        /\ UNCHANGED <<header, logic, recvPkg, sendFreed>>
    BY <1>6 DEF Recycle, Bindings
  <2>2. \A r \in Request : header[r] = NoHeader => r # recvPkg[c]
    BY <1>0 DEF Request, NoRequest
  <2>3. \A r \in logic : r \in Request /\ r # recvPkg[c]
    BY <1>0 DEF Requests, Request, NoRequest
  <2>4. \A d \in Conn \ free' : recvPkg[d] # NoRequest => recvPkg[d] # recvPkg[c] /\ recvPkg[d] \in Request
    BY <1>0, <2>1, HeldOnce
  <2> QED BY <2>1, <2>2, <2>3, <2>4 DEF Requests
<1>7. ASSUME NEW r \in Request, Process(r) PROVE Requests'
  <2>1. /\ r \in logic /\ logic' = logic \ {r}
        /\ \A s \in Request : s # r => recvFreed'[s] = recvFreed[s]
        /\ UNCHANGED <<header, recvPkg, sendFreed, free>>
    BY <1>7 DEF Process, TypeOK, poolVars
  <2> QED BY <1>0, <2>1 DEF Requests
<1>8. CASE WriteHandler
  <2>1. Written
    BY <1>8, WriteHandlerStep
  <2>2. /\ sendPkg[event.conn] \in Request /\ header[sendPkg[event.conn]] # NoHeader
        /\ \A s \in Request : sendFreed'[s] = sendFreed[s] \/ s = sendPkg[event.conn]
    BY <1>0, <2>1 DEF Written
  <2> QED BY <1>2, <2>1, <2>2 DEF Written
<1>9. ASSUME NEW r \in Request, DropStale(r) PROVE Requests'
  BY <1>0, <1>2, <1>9 DEF DropStale, FreeReply, poolVars, pkgVars
<1>10. CASE FinishReply
  <2>1. sndConn \in Conn /\ sendPkg[sndConn] # NoRequest
    BY <1>10 DEF FinishReply, SndGo, SenderAt, TypeOK
  <2> QED BY <1>0, <1>2, <1>10, <2>1 DEF FinishReply, FreeReply, poolVars, pkgVars
<1>11. CASE EpollWait \/ (\E e \in batch : NextEvent(e)) \/ AcceptFails
  BY <1>1, <1>11 DEF EpollWait, NextEvent, AcceptFails, poolVars, pkgVars, sendVars
<1>12. CASE RecvPart \/ RecvClosed \/ InRecyConnection \/ LowerThrowCount
  BY <1>1, <1>12 DEF RecvPart, RecvClosed, InRecyConnection, LowerThrowCount,
                     poolVars, pkgVars, sendVars
<1>13. CASE (\E r \in Request : TakeReply(r)) \/ SendReply \/ Throw \/ EpollOn
  BY <1>1, <1>13 DEF TakeReply, SendReply, Throw, EpollOn, poolVars, pkgVars, sendVars
<1>14. CASE (\E k \in Client : ClientLeaves(k)) \/ UNCHANGED vars
  BY <1>1, <1>14 DEF ClientLeaves, vars, poolVars, pkgVars, sendVars
<1> QED BY <1>3, <1>4, <1>5, <1>6, <1>7, <1>8, <1>9, <1>10, <1>11, <1>12, <1>13, <1>14
        DEF Next, EventLoop, Sender

LEMMA NextReplies == Owned /\ [Next]_vars => Replies'
<1> SUFFICES ASSUME Owned, [Next]_vars PROVE Replies'
  OBVIOUS
<1> USE DEF Owned, Consistent
<1>0. /\ \A d \in Conn : recvPkg[d] # NoRequest =>
            recvPkg[d] \in Request /\ header[recvPkg[d]] # NoHeader
      /\ \A d \in Conn : sendPkg[d] # NoRequest =>
            sendPkg[d] \in Request /\ header[sendPkg[d]] # NoHeader
      /\ \A r \in logic \cup sendQueue : r \in Request /\ header[r] # NoHeader
      /\ \A d \in Conn : thrown[d] \in Int
      /\ sndPc # "scan" => sndConn \in Conn /\ sendPkg[sndConn] # NoRequest
  BY DEF TypeOK, Received, SenderAt
<1>1. ASSUME UNCHANGED <<logic, sendQueue, recvPkg, sendPkg, sendFreed>>,
             \A d \in Conn : thrown'[d] > 0 => thrown[d] > 0,
             sndPc' \notin {"send", "throw", "finish"} \/ (sndPc \in {"send", "throw"} /\ UNCHANGED sndConn)
                \/ UNCHANGED <<sndPc, sndConn>>
      PROVE  Replies'
  BY <1>1 DEF Replies
<1>2. ASSUME NEW k \in Client, NEW f \in Fd, NEW c \in Conn, AcceptConn(k, f, c) PROVE Replies'
  <2>1. Accepted(k, f, c)
    BY <1>2, AcceptStep
  <2>2. sndPc # "scan" => sndConn # c
    BY <2>1 DEF Accepted, SenderAt
  <2>3. \A d \in Conn : sendPkg'[d] # NoRequest => \A e \in Conn : recvPkg'[e] # sendPkg'[d]
    BY <2>1 DEF Accepted, Replies
  <2> QED BY <1>0, <2>1, <2>2, <2>3 DEF Accepted, Replies
<1>3. CASE RecvHeader
  <2>1. HeaderReceived
    BY <1>3, RecvHeaderStep
  <2>2. sendFreed[NewRequest] = 0 /\ NewRequest \in Request /\ NewRequest # NoRequest
    BY <2>1 DEF HeaderReceived, Requests, Received, Request, NoRequest
  <2>3. \A d \in Conn : recvPkg[d] # NewRequest /\ sendPkg[d] # NewRequest
    BY <1>0, <2>1, <2>2 DEF HeaderReceived, Received
  <2>4. NewRequest \notin logic \cup sendQueue
    BY <1>0, <2>1 DEF HeaderReceived, Received
  <2>5. \/ UNCHANGED logic /\ \A d \in Conn : recvPkg'[d] = IF d = event.conn THEN NewRequest ELSE recvPkg[d]
        \/ UNCHANGED recvPkg /\ logic' = logic \cup {NewRequest}
    BY <1>3 DEF RecvHeader, TypeOK
  <2>6. UNCHANGED <<sendQueue, sendFreed, sendPkg, thrown, sndPc, sndConn>>
    BY <2>1 DEF HeaderReceived
  <2> QED BY <1>0, <2>2, <2>3, <2>4, <2>5, <2>6 DEF Replies
<1>4. CASE RecvBody
  <2>1. /\ event.conn \in Conn /\ recvPkg[event.conn] # NoRequest
        /\ logic' = logic \cup {recvPkg[event.conn]}
        /\ \A d \in Conn : recvPkg'[d] = IF d = event.conn THEN NoRequest ELSE recvPkg[d]
        /\ UNCHANGED <<sendQueue, sendFreed, sendPkg, thrown, sndPc, sndConn>>
    BY <1>4 DEF RecvBody, Reading, Events, IsCurrent, Bound, TypeOK, sendVars, sndVars
  <2> QED BY <1>0, <2>1 DEF Replies
<1>5. CASE WriteHandler
  <2>1. Written
    BY <1>5, WriteHandlerStep
  <2> DEFINE c == event.conn
  <2>2. CASE UNCHANGED <<thrown, regOut, sendFreed>>
    BY <1>1, <2>1, <2>2 DEF Written
  <2>3. CASE ~UNCHANGED <<thrown, regOut, sendFreed>>
    <3>1. /\ c \in Conn /\ sendPkg[c] # NoRequest
          /\ \A d \in Conn : thrown'[d] = IF d = c THEN thrown[c] - 1 ELSE thrown[d]
          /\ \A s \in Request : s # sendPkg[c] => sendFreed'[s] = sendFreed[s]
          /\ sndPc # "scan" => sndConn # c
          /\ UNCHANGED <<logic, sendQueue, recvPkg, sendPkg, sndPc, sndConn>>
      BY <2>1, <2>3 DEF Written, Busy
    <3>2. thrown'[c] <= 0 /\ thrown[c] <= 1
      BY <1>0, <3>1 DEF Counts
    <3>3. \A d \in Conn : d # c /\ sendPkg[d] # NoRequest =>
             sendPkg[d] # sendPkg[c] /\ sendFreed'[sendPkg[d]] = sendFreed[sendPkg[d]]
      BY <1>0, <3>1, HeldOnce
    <3>4. \A r \in logic \cup sendQueue : sendFreed'[r] = sendFreed[r]
      BY <1>0, <3>1 DEF Replies
    <3>5. \A d \in Conn : recvPkg[d] # NoRequest => sendFreed'[recvPkg[d]] = sendFreed[recvPkg[d]]
      BY <1>0, <3>1 DEF Replies
    <3>6. \A d \in Conn : thrown'[d] > 0 => sendPkg[d] # NoRequest /\ sendFreed'[sendPkg[d]] = 0
      BY <1>0, <3>1, <3>2, <3>3 DEF Replies
    <3> QED BY <1>0, <3>1, <3>3, <3>4, <3>5, <3>6 DEF Replies
  <2> QED BY <2>2, <2>3
<1>6. ASSUME NEW r \in Request, DropStale(r) PROVE Replies'
  <2>1. /\ r \in sendQueue /\ sendQueue' = sendQueue \ {r} /\ sndPc = "scan"
        /\ \A s \in Request : s # r => sendFreed'[s] = sendFreed[s]
        /\ UNCHANGED <<logic, recvPkg, sendPkg, thrown, sndPc, sndConn>>
    BY <1>6 DEF DropStale, FreeReply, pkgVars, sndVars
  <2>2. \A d \in Conn : sendPkg[d] # NoRequest => sendFreed'[sendPkg[d]] = sendFreed[sendPkg[d]]
    BY <1>0, <2>1 DEF Replies
  <2> QED BY <1>0, <2>1, <2>2 DEF Replies
<1>7. ASSUME NEW r \in Request, TakeReply(r) PROVE Replies'
  <2>1. Taken(r)
    BY <1>7, TakeReplyStep
  <2>2. header[r].conn \in Conn /\ r # NoRequest
    BY <2>1 DEF Taken, Bound, Request, NoRequest
  <2>3. \A d \in Conn : recvPkg[d] # r
    BY <2>1, <2>2 DEF Taken, Replies
  <2> QED BY <1>0, <2>1, <2>2, <2>3 DEF Taken, Replies
<1>8. CASE FinishReply
  <2>1. /\ sndConn \in Conn /\ sendPkg[sndConn] # NoRequest /\ sndPc' = "scan"
        /\ \A d \in Conn : thrown'[d] = IF d = sndConn THEN 0 ELSE thrown[d]
        /\ \A s \in Request : s # sendPkg[sndConn] => sendFreed'[s] = sendFreed[s]
        /\ UNCHANGED <<logic, sendQueue, recvPkg, sendPkg>>
    BY <1>0, <1>8 DEF FinishReply, SndGo, FreeReply, TypeOK, pkgVars
  <2>2. \A d \in Conn : d # sndConn /\ sendPkg[d] # NoRequest =>
           sendFreed'[sendPkg[d]] = sendFreed[sendPkg[d]]
    BY <1>0, <2>1, HeldOnce
  <2>3. \A r \in logic \cup sendQueue : sendFreed'[r] = sendFreed[r]
    BY <1>0, <2>1 DEF Replies
  <2>4. \A d \in Conn : recvPkg[d] # NoRequest => sendFreed'[recvPkg[d]] = sendFreed[recvPkg[d]]
    BY <1>0, <2>1 DEF Replies
  <2> QED BY <1>0, <2>1, <2>2, <2>3, <2>4 DEF Replies
<1>9. CASE Throw
  <2>1. /\ sndPc = "throw" /\ sndPc' = "epoll_on" /\ UNCHANGED sndConn
        /\ \A d \in Conn : d # sndConn => thrown'[d] = thrown[d]
        /\ UNCHANGED <<logic, sendQueue, recvPkg, sendPkg, sendFreed>>
    BY <1>9 DEF Throw, SndGo, TypeOK, pkgVars
  <2> QED BY <1>0, <2>1 DEF Replies
<1>10. ASSUME NEW c \in Conn, Recycle(c) PROVE Replies'
  <2>1. \A d \in Conn : thrown'[d] = IF d = c THEN 0 ELSE thrown[d]
    BY <1>10 DEF Recycle, TypeOK
  <2> QED BY <1>1, <1>10, <2>1 DEF Recycle, sndVars
<1>11. ASSUME NEW r \in Request, Process(r) PROVE Replies'
  <2>1. /\ r \in logic /\ logic' = logic \ {r} /\ sendQueue' \in {sendQueue, sendQueue \cup {r}}
        /\ UNCHANGED <<recvPkg, sendPkg, sendFreed, thrown, sndPc, sndConn>>
    BY <1>11 DEF Process, sndVars
  <2>2. \A d \in Conn : recvPkg[d] # NoRequest => recvPkg[d] # r
    BY <2>1 DEF Requests
  <2> QED BY <1>0, <2>1, <2>2 DEF Replies
<1>12. CASE LowerThrowCount
  <2>1. event.conn \in Conn
    BY <1>12 DEF LowerThrowCount, EvGo, Events
  <2>2. \A d \in Conn : thrown'[d] = IF d = event.conn THEN thrown[d] - 1 ELSE thrown[d]
    BY <1>12, <2>1 DEF LowerThrowCount, TypeOK
  <2>3. \A d \in Conn : thrown'[d] > 0 => thrown[d] > 0
    BY <1>0, <2>2
  <2> QED BY <1>1, <1>12, <2>3 DEF LowerThrowCount, pkgVars, sndVars
<1>13. CASE EpollWait \/ (\E e \in batch : NextEvent(e)) \/ AcceptFails
  BY <1>1, <1>13 DEF EpollWait, NextEvent, AcceptFails, pkgVars, sendVars, sndVars
<1>14. CASE RecvPart \/ RecvClosed \/ InRecyConnection
  BY <1>1, <1>14 DEF RecvPart, RecvClosed, InRecyConnection, pkgVars, sendVars, sndVars
<1>15. CASE SendReply \/ EpollOn
  BY <1>1, <1>15 DEF SendReply, EpollOn, SndGo, pkgVars, sendVars
<1>16. CASE (\E k \in Client : ClientLeaves(k)) \/ UNCHANGED vars
  BY <1>1, <1>16 DEF ClientLeaves, vars, pkgVars, sendVars, sndVars
<1> QED BY <1>2, <1>3, <1>4, <1>5, <1>6, <1>7, <1>8, <1>9, <1>10, <1>11, <1>12, <1>13, <1>14, <1>15, <1>16
        DEF Next, EventLoop, Sender

LEMMA InitOwned == Init => Owned
<1> SUFFICES ASSUME Init PROVE Owned
  OBVIOUS
<1>1. Consistent
  BY InitConsistent
<1>2. Bound = {}
  BY DEF Init, Bound
<1>3. Counts /\ CountsOfEvents /\ HangUps
  BY <1>2 DEF Init, Counts, CountsOfEvents, HangUps, Open
<1>4. Requests /\ Replies
  BY DEF Init, Requests, Replies
<1> QED BY <1>1, <1>3, <1>4 DEF Owned

LEMMA NextOwned ==
    ASSUME ~FdReuse PROVE Owned /\ [Next]_vars => Owned'
BY NextConsistent, NextCounts, NextCountsOfEvents, NextHangUps, NextRequests, NextReplies DEF Owned

\* Under the same condition, nothing a thread is going to read, write or free
\* has been freed: requests, queued replies, and replies either sender is at.
THEOREM BuffersAliveAlways == ASSUME ~FdReuse PROVE Spec => []BuffersAlive
<1>1. Owned => BuffersAlive
  <2> SUFFICES ASSUME Owned PROVE BuffersAlive
    OBVIOUS
  <2>1. \A c \in Bound : c \in Conn \ free
    BY DEF Bound
  <2>2. sndPc \in {"send", "throw", "finish"} =>
           sendPkg[sndConn] # NoRequest /\ sendFreed[sendPkg[sndConn]] = 0
    BY DEF Owned, Consistent, SenderAt, Replies
  <2> QED BY <2>1, <2>2 DEF Owned, Requests, Replies, BuffersAlive
<1> QED BY <1>1, InitOwned, NextOwned, PTL DEF Spec

-----------------------------------------------------------------------------
(* Conversation.                                                           *)

\* A client has one descriptor and one object, which know it as long as it has
\* not left.
Connections ==
    /\ \A f, g \in Fd : Open(f) /\ peer[f] = peer[g] => f = g
    /\ \A r \in Received :
          LET c == header[r].conn
              k == header[r].client
          IN  /\ client[k] # "connecting"
              /\ \A f \in Fd : peer[f] = k => c \in Bound /\ sockFd[c] = f
              /\ client[k] # "left" =>
                    header[r].seq = seq[c] /\ Open(sockFd[c]) /\ peer[sockFd[c]] = k
    /\ \A r, s \in Received : header[r].client = header[s].client => header[r].conn = header[s].conn

\* The send thread is through with a reply only when it has sent some of it, or
\* the client has left.
Finished ==
    sndPc = "finish" =>
        LET r == sendPkg[sndConn]
            k == header[r].client
        IN  client[k] = "left" \/ r \in wire[k]

LEMMA ReceivedType ==
    ASSUME TypeOK, NEW r \in Received
    PROVE  /\ r \in Request /\ header[r].conn \in Conn /\ header[r].seq \in Nat
           /\ header[r].client \in Client /\ header[r].client # NoClient
BY WorkerAssumption DEF TypeOK, Received, Header

LEMMA NextConnections == Owned /\ Connections /\ [Next]_vars => Connections'
<1> SUFFICES ASSUME Owned, Connections, [Next]_vars PROVE Connections'
  OBVIOUS
<1> USE DEF Owned, Consistent
<1>0. \A r \in Received : /\ r \in Request /\ header[r].conn \in Conn
                          /\ header[r].client \in Client /\ header[r].client # NoClient
  BY ReceivedType
<1>1. ASSUME UNCHANGED <<free, recy, seq, sockFd, peer, header>>,
             \A k \in Client : /\ client'[k] = "connecting" => client[k] = "connecting"
                               /\ client[k] = "left" => client'[k] = "left"
      PROVE  Connections'
  <2>1. Received' = Received /\ Bound' = Bound /\ \A f : Open(f)' <=> Open(f)
    BY <1>1 DEF Received, Bound, Open
  <2> QED BY <1>0, <1>1, <2>1 DEF Connections
<1>2. ASSUME NEW k \in Client, NEW f \in Fd, NEW c \in Conn, AcceptConn(k, f, c) PROVE Connections'
  <2>1. /\ Accepted(k, f, c) /\ client[k] = "connecting"
        /\ \A j \in Client : client'[j] = IF j = k THEN "connected" ELSE client[j]
    BY <1>2, AcceptStep DEF AcceptConn, TypeOK
  <2>2. \A g \in Fd : Open(g) => peer[g] \in Client /\ peer[g] # k
    BY <2>1 DEF Counts, Open, TypeOK
  <2>3. Received' = Received
    BY <2>1 DEF Accepted, Received
  <2>4. \A g, h \in Fd : Open(g)' /\ peer'[g] = peer'[h] => g = h
    <3>1. \A g \in Fd : peer[g] = k => FALSE
      BY <2>2, WorkerAssumption DEF Open
    <3> QED BY <2>1, <2>2, <3>1 DEF Accepted, Connections
  <2>5. ASSUME NEW r \in Received
        PROVE  LET d == header[r].conn
                   j == header[r].client
               IN  /\ client'[j] # "connecting"
                   /\ \A g \in Fd : peer'[g] = j => d \in Bound' /\ sockFd'[d] = g
                   /\ client'[j] # "left" =>
                         header[r].seq = seq'[d] /\ Open(sockFd[d])' /\ peer'[sockFd'[d]] = j
    <3> DEFINE d == header[r].conn
               j == header[r].client
    <3>1. d \in Conn /\ j \in Client /\ j # k
      BY <1>0, <2>1 DEF Connections
    <3>2. client'[j] = client[j] /\ client[j] # "connecting"
      BY <2>1, <3>1 DEF Connections
    <3>3. \A g \in Fd : peer'[g] = j => d \in Bound' /\ sockFd'[d] = g
      BY <2>1, <3>1 DEF Connections, Accepted
    <3>4. ASSUME client[j] # "left"
          PROVE  header[r].seq = seq'[d] /\ Open(sockFd[d])' /\ peer'[sockFd'[d]] = j
      <4>1. header[r].seq = seq[d] /\ Open(sockFd[d]) /\ peer[sockFd[d]] = j /\ sockFd[d] \in Fd
        BY <3>4 DEF Connections, Open
      <4>2. d \in Bound /\ d # c
        BY <2>1, <4>1 DEF Connections, Accepted
      <4>3. seq'[d] = seq[d] /\ sockFd'[d] = sockFd[d] /\ sockFd[d] # f
        BY <2>1, <3>1, <4>1, <4>2 DEF Accepted
      <4>4. Open(sockFd[d])'
        BY <2>1, <4>1, <4>3 DEF Accepted
      <4> QED BY <2>1, <4>1, <4>3, <4>4 DEF Accepted
    <3> QED BY <3>2, <3>3, <3>4
  <2> QED BY <2>1, <2>3, <2>4, <2>5 DEF Connections, Accepted
<1>3. CASE RecvHeader
  <2> DEFINE c == event.conn
             k == peer[sockFd[c]]
             n == NewRequest
  <2>1. /\ HeaderReceived /\ c \in Conn /\ c \in Bound /\ sockFd[c] \in Fd /\ Open(sockFd[c])
        /\ k \in Client /\ client[k] # "connecting"
        /\ n \in Request /\ n \notin Received
    BY <1>3, RecvHeaderStep DEF HeaderReceived, Bound, Open, TypeOK, Counts
  <2>2. /\ header'[n] = [conn |-> c, seq |-> seq[c], client |-> k]
        /\ \A r \in Received : header'[r] = header[r]
    BY <1>0, <2>1 DEF HeaderReceived
  <2>3. Received' = Received \cup {n}
    <3>1. header'[n] # NoHeader
      BY <2>1, <2>2, WorkerAssumption DEF NoHeader
    <3> QED BY <2>1, <3>1 DEF HeaderReceived, Received
  <2>4. UNCHANGED <<free, recy, seq, sockFd, Bound, peer, client>> /\ \A f : Open(f)' <=> Open(f)
    BY <2>1 DEF HeaderReceived, Open
  <2>5. \A f \in Fd : peer[f] = k => sockFd[c] = f
    BY <2>1 DEF Connections
  <2>6. \A r \in Received : header[r].client = k => header[r].conn = c
    <3>1. ASSUME NEW r \in Received, header[r].client = k PROVE header[r].conn = c
      <4>1. header[r].conn \in Bound /\ sockFd[header[r].conn] = sockFd[c]
        BY <2>1, <3>1 DEF Connections
      <4>2. \A d \in Bound : Open(sockFd[d]) => reg[sockFd[d]] = d
        BY DEF Bindings, Events
      <4> QED BY <2>1, <4>1, <4>2
    <3> QED BY <3>1
  <2> HIDE DEF c, k, n
  <2>7. /\ header'[n].conn = c /\ header'[n].client = k /\ header'[n].seq = seq[c]
    BY <2>2
  <2>8. \A r, s \in Received' : header'[r].client = header'[s].client => header'[r].conn = header'[s].conn
    BY <2>2, <2>3, <2>6, <2>7 DEF Connections
  <2>9. ASSUME NEW r \in Received'
        PROVE  LET d == header'[r].conn
                   j == header'[r].client
               IN  /\ client[j] # "connecting"
                   /\ \A f \in Fd : peer[f] = j => d \in Bound /\ sockFd[d] = f
                   /\ client[j] # "left" =>
                         header'[r].seq = seq[d] /\ Open(sockFd[d]) /\ peer[sockFd[d]] = j
    <3>1. CASE r = n
      BY <2>1, <2>5, <2>7, <3>1 DEF k
    <3>2. CASE r # n
      BY <2>2, <2>3, <3>2 DEF Connections
    <3> QED BY <3>1, <3>2
  <2> QED BY <2>4, <2>8, <2>9 DEF Connections
<1>4. CASE RecvClosed
  <2> DEFINE f == sockFd[event.conn]
  <2>1. Closed /\ (Open(f) => client[peer[f]] = "left")
    BY <1>4, RecvClosedStep DEF RecvClosed
  <2>2. Received' = Received
    BY <2>1 DEF Closed, Received
  <2>3. /\ f \in Fd /\ \A g \in Fd : peer'[g] = IF g = f THEN NoClient ELSE peer[g]
        /\ \A g \in Fd : Open(g)' <=> Open(g) /\ g # f
        /\ UNCHANGED <<free, recy, seq, sockFd, Bound, client, header>>
    BY <2>1 DEF Closed
  <2> HIDE DEF f
  <2>4. ASSUME NEW r \in Received
        PROVE  LET d == header[r].conn
                   j == header[r].client
               IN  /\ client[j] # "connecting"
                   /\ \A g \in Fd : peer'[g] = j => d \in Bound /\ sockFd[d] = g
                   /\ client[j] # "left" =>
                         header[r].seq = seq[d] /\ Open(sockFd[d])' /\ peer'[sockFd[d]] = j
    <3> DEFINE d == header[r].conn
               j == header[r].client
    <3>1. j # NoClient
      BY <1>0
    <3>2. \A g \in Fd : peer'[g] = j => d \in Bound /\ sockFd[d] = g
      BY <2>3, <3>1 DEF Connections
    <3>3. ASSUME client[j] # "left"
          PROVE  header[r].seq = seq[d] /\ Open(sockFd[d])' /\ peer'[sockFd[d]] = j
      <4>1. header[r].seq = seq[d] /\ Open(sockFd[d]) /\ peer[sockFd[d]] = j /\ sockFd[d] \in Fd
        BY <3>3 DEF Connections, Open
      <4>2. sockFd[d] # f
        BY <2>1, <3>3, <4>1
      <4> QED BY <2>3, <4>1, <4>2
    <3> QED BY <3>2, <3>3 DEF Connections
  <2>5. \A g, h \in Fd : Open(g)' /\ peer'[g] = peer'[h] => g = h
    BY <2>3 DEF Connections, Open
  <2> QED BY <2>2, <2>3, <2>4, <2>5 DEF Connections
<1>5. ASSUME NEW c \in Conn, ~Open(sockFd[c]) \/ c \notin Bound, Bound' = Bound \ {c},
             \A d \in Conn : d # c => seq'[d] = seq[d],
             UNCHANGED <<sockFd, peer, header, client>>
      PROVE  Connections'
  <2>1. Received' = Received /\ \A f : Open(f)' <=> Open(f)
    BY <1>5 DEF Received, Open
  <2>2. ASSUME NEW r \in Received
        PROVE  LET d == header[r].conn
                   j == header[r].client
               IN  /\ \A g \in Fd : peer[g] = j => d \in Bound' /\ sockFd[d] = g
                   /\ client[j] # "left" =>
                         header[r].seq = seq'[d] /\ Open(sockFd[d]) /\ peer[sockFd[d]] = j
    <3> DEFINE d == header[r].conn
               j == header[r].client
    <3>1. d \in Conn /\ j # NoClient
      BY <1>0
    <3>2. CASE d = c
      <4>1. \A g \in Fd : peer[g] # j
        <5>1. ASSUME NEW g \in Fd, peer[g] = j PROVE FALSE
          <6>1. d \in Bound /\ sockFd[d] = g
            BY <5>1 DEF Connections
          <6>2. Open(g)
            BY <3>1, <5>1 DEF Open
          <6> QED BY <1>5, <3>2, <6>1, <6>2
        <5> QED BY <5>1
      <4>2. client[j] = "left"
        <5>1. ASSUME client[j] # "left" PROVE FALSE
          BY <4>1, <5>1 DEF Connections, Open
        <5> QED BY <5>1
      <4> QED BY <4>1, <4>2
    <3>3. CASE d # c
      BY <1>5, <3>1, <3>3 DEF Connections
    <3> QED BY <3>2, <3>3
  <2> QED BY <1>5, <2>1, <2>2 DEF Connections
<1>6. CASE InRecyConnection
  <2>1. event.conn \in Bound /\ event.conn \in Conn /\ ~Open(sockFd[event.conn])
    BY <1>6 DEF InRecyConnection, EvGo, Events, Bound
  <2>2. \A d \in Conn : d # event.conn => seq'[d] = seq[d]
    BY <1>6 DEF InRecyConnection, TypeOK
  <2>3. Bound' = Bound \ {event.conn} /\ UNCHANGED <<sockFd, peer, header, client>>
    BY <1>6 DEF InRecyConnection, Bound, pkgVars, epollVars
  <2> QED BY <1>5, <2>1, <2>2, <2>3
<1>7. ASSUME NEW c \in Conn, Recycle(c) PROVE Connections'
  <2>1. c \notin Bound /\ Bound' = Bound \ {c} /\ UNCHANGED <<sockFd, peer, header, client>>
    BY <1>7 DEF Recycle, Bound, epollVars
  <2>2. \A d \in Conn : d # c => seq'[d] = seq[d]
    BY <1>7 DEF Recycle, TypeOK
  <2> QED BY <1>5, <2>1, <2>2
<1>8. ASSUME NEW k \in Client, ClientLeaves(k) PROVE Connections'
  BY <1>1, <1>8 DEF ClientLeaves, TypeOK, poolVars, pkgVars, epollVars
<1>9. CASE EpollWait \/ (\E e \in batch : NextEvent(e)) \/ AcceptFails
  BY <1>1, <1>9 DEF EpollWait, NextEvent, AcceptFails, poolVars, pkgVars, epollVars
<1>10. CASE RecvBody \/ RecvPart \/ LowerThrowCount \/ WriteHandler
  BY <1>1, <1>10 DEF RecvBody, RecvPart, LowerThrowCount, WriteHandler, poolVars, pkgVars, epollVars
<1>11. CASE (\E r \in Request : DropStale(r) \/ TakeReply(r)) \/ SendReply \/ FinishReply \/ Throw \/ EpollOn
  BY <1>1, <1>11 DEF DropStale, TakeReply, SendReply, FinishReply, Throw, EpollOn,
                     poolVars, pkgVars, epollVars
<1>12. CASE (\E r \in Request : Process(r)) \/ UNCHANGED vars
  BY <1>1, <1>12 DEF Process, vars, poolVars, pkgVars, epollVars
<1> QED BY <1>2, <1>3, <1>4, <1>6, <1>7, <1>8, <1>9, <1>10, <1>11, <1>12 DEF Next, EventLoop, Sender

\* A client that has not left is behind the object of whatever it has asked.
LEMMA StillThere ==
    ASSUME TypeOK, Connections, NEW r \in Received, client[header[r].client] # "left"
    PROVE  /\ header[r].conn \in Bound /\ Connected(header[r].conn)
           /\ Open(sockFd[header[r].conn])
           /\ peer[sockFd[header[r].conn]] = header[r].client
           /\ header[r].seq = seq[header[r].conn]
<1> DEFINE c == header[r].conn
           k == header[r].client
<1>1. k \in Client /\ client[k] = "connected"
  BY ReceivedType DEF Connections, TypeOK
<1>2. /\ header[r].seq = seq[c] /\ Open(sockFd[c]) /\ peer[sockFd[c]] = k
      /\ sockFd[c] \in Fd
  BY DEF Connections, Open
<1>3. c \in Bound
  BY <1>2 DEF Connections
<1> QED BY <1>1, <1>2, <1>3 DEF Connected

\* What an object sends has been received, for that object.
LEMMA ToSend ==
    ASSUME TypeOK, Held, NEW c \in Conn, sendPkg[c] # NoRequest
    PROVE  sendPkg[c] \in Received /\ header[sendPkg[c]].conn = c
BY DEF TypeOK, Held

\* send() by a thread whose descriptor is its object's own or closed: all or a
\* part goes to the client that asked, and an error means that it has left.
LEMMA SendStep ==
    ASSUME TypeOK, Held, Outgoing, Connections,
           NEW c \in Conn, sendPkg[c] # NoRequest, Open(sockFd[c]) => c \in Bound,
           NEW result \in SendResults(c), Transmit(c, result)
    PROVE  LET r == sendPkg[c]
               k == header[r].client
           IN  /\ result \in {"all", "part"} =>
                      /\ client[k] = "connected" /\ c \in Bound
                      /\ wire' = [wire EXCEPT ![k] = @ \cup {r}]
               /\ result \notin {"all", "part"} => UNCHANGED wire
               /\ result \in {"all", "part", "full", "error"}
               /\ result = "error" => client[k] = "left"
<1> DEFINE r == sendPkg[c]
           k == header[r].client
<1>1. r \in Received /\ header[r].conn = c
  BY ToSend
<1>2. CASE Open(sockFd[c]) /\ client[peer[sockFd[c]]] = "connected"
  <2>1. result \in {"all", "part", "full"} /\ k = peer[sockFd[c]] /\ c \in Bound
    BY <1>2 DEF SendResults, Outgoing
  <2> QED BY <1>2, <2>1 DEF Transmit
<1>3. CASE ~(Open(sockFd[c]) /\ client[peer[sockFd[c]]] = "connected")
  <2>1. result = "error"
    BY <1>3 DEF SendResults
  <2>2. client[k] = "left"
    BY <1>1, <1>3, StillThere DEF Connected
  <2> QED BY <2>1, <2>2 DEF Transmit
<1> QED BY <1>2, <1>3

LEMMA NextFinished == Owned /\ Connections /\ Finished /\ [Next]_vars => Finished'
<1> SUFFICES ASSUME Owned, Connections, Finished, [Next]_vars PROVE Finished'
  OBVIOUS
<1> USE DEF Owned, Consistent
<1>1. sndPc # "scan" => /\ sndConn \in Conn /\ sendPkg[sndConn] # NoRequest
                        /\ sendPkg[sndConn] \in Received /\ header[sendPkg[sndConn]].client \in Client
                        /\ sndConn \notin free /\ (Open(sockFd[sndConn]) => sndConn \in Bound)
  BY ToSend, ReceivedType DEF TypeOK, SenderAt, Bound
<1>2. ASSUME sndPc' = "finish" => sndPc = "finish" /\ UNCHANGED sndConn /\ sendPkg'[sndConn] = sendPkg[sndConn],
             \A r \in Received : header'[r] = header[r],
             \A k \in Client : /\ client[k] = "left" => client'[k] = "left"
                               /\ \A r \in wire[k] : r \in wire'[k]
      PROVE  Finished'
  BY <1>1, <1>2 DEF Finished
<1>3. CASE SendReply
  <2>1. PICK result \in SendResults(sndConn) :
            /\ Transmit(sndConn, result)
            /\ sndPc' = IF result \in {"part", "full"} THEN "throw" ELSE "finish"
    BY <1>3 DEF SendReply
  <2>2. UNCHANGED <<sndConn, sendPkg, header, client>> /\ sndPc # "scan"
    BY <1>3 DEF SendReply, pkgVars
  <2> DEFINE r == sendPkg[sndConn]
             k == header[r].client
  <2>3. /\ result \in {"all", "part"} => wire' = [wire EXCEPT ![k] = @ \cup {r}]
        /\ result \in {"all", "part", "full", "error"}
        /\ result = "error" => client[k] = "left"
    BY <1>1, <2>1, <2>2, SendStep
  <2>4. result = "all" => r \in wire'[k]
    BY <1>1, <2>2, <2>3 DEF TypeOK
  <2> QED BY <2>1, <2>2, <2>3, <2>4 DEF Finished
<1>4. ASSUME NEW k \in Client, NEW f \in Fd, NEW c \in Conn, AcceptConn(k, f, c) PROVE Finished'
  <2>1. Accepted(k, f, c) /\ \A j \in Client : client[j] = "left" => client'[j] = "left"
    BY <1>4, AcceptStep DEF AcceptConn, TypeOK
  <2> QED BY <1>1, <1>2, <2>1 DEF Accepted
<1>5. CASE RecvHeader
  <2>1. HeaderReceived
    BY <1>5, RecvHeaderStep
  <2> QED BY <1>2, <2>1, ReceivedType DEF HeaderReceived
<1>6. CASE WriteHandler
  <2>1. Written
    BY <1>6, WriteHandlerStep
  <2>2. PICK result \in SendResults(event.conn) : Transmit(event.conn, result)
    BY <1>6 DEF WriteHandler
  <2>3. \A k \in Client : \A r \in wire[k] : r \in wire'[k]
    BY <2>2 DEF Transmit, TypeOK
  <2> QED BY <1>2, <2>1, <2>3 DEF Written
<1>7. ASSUME NEW r \in Request, TakeReply(r) PROVE Finished'
  BY <1>7 DEF TakeReply, SndGo, Finished
<1>8. CASE (\E r \in Request : DropStale(r)) \/ FinishReply \/ Throw \/ EpollOn
  <2>1. /\ sndPc' # "finish" /\ UNCHANGED <<sendPkg, header, client, wire>>
    BY <1>8 DEF DropStale, FinishReply, Throw, EpollOn, SndGo, pkgVars, sndVars, sendVars
  <2> QED BY <1>2, <2>1
<1>9. ASSUME NEW k \in Client, ClientLeaves(k) PROVE Finished'
  BY <1>2, <1>9 DEF ClientLeaves, TypeOK, pkgVars, sendVars, sndVars
<1>10. CASE EpollWait \/ (\E e \in batch : NextEvent(e)) \/ AcceptFails
  BY <1>2, <1>10 DEF EpollWait, NextEvent, AcceptFails, pkgVars, sendVars, sndVars
<1>11. CASE RecvBody \/ RecvPart \/ RecvClosed \/ InRecyConnection \/ LowerThrowCount
  BY <1>2, <1>11 DEF RecvBody, RecvPart, RecvClosed, InRecyConnection, LowerThrowCount,
                     pkgVars, sendVars, sndVars
<1>12. CASE (\E c \in Conn : Recycle(c)) \/ (\E r \in Request : Process(r)) \/ UNCHANGED vars
  BY <1>2, <1>12 DEF Recycle, Process, vars, pkgVars, sendVars, sndVars
<1> QED BY <1>3, <1>4, <1>5, <1>6, <1>7, <1>8, <1>9, <1>10, <1>11, <1>12 DEF Next, EventLoop, Sender

\* Who asked, of every request.
LEMMA Askers ==
    ASSUME TypeOK
    PROVE  /\ \A r \in Request : Asker[r] = header[r].client
           /\ \A r \in Request : Asker[r] = NoClient <=> r \notin Received
<1>1. \A r \in Request : r \notin Received => header[r].client = NoClient
  BY DEF Received, NoHeader
<1> QED BY <1>1, ReceivedType DEF Asker, Received

\* A request is being read or worked on, waits as a reply, or is being sent.
LEMMA Apart ==
    ASSUME Owned
    PROVE  /\ BeingRead \cap sendQueue = {} /\ BeingSent \cap sendQueue = {}
           /\ BeingSent \cap BeingRead = {}
           /\ BeingRead \subseteq Received /\ BeingSent \subseteq Received
<1> USE DEF Owned, Consistent
<1>1. \A r \in BeingRead : r \in logic \/ \E c \in Conn : recvPkg[c] = r /\ recvPkg[c] # NoRequest
  BY DEF BeingRead, InUse, Request, NoRequest
<1>2. \A r \in BeingSent : \E c \in Conn : sendPkg[c] = r /\ sendPkg[c] # NoRequest
  BY DEF BeingSent, Request, NoRequest
<1>3. BeingRead \cap sendQueue = {}
  BY <1>1 DEF Replies
<1>4. BeingSent \cap sendQueue = {} /\ BeingSent \cap BeingRead = {}
  BY <1>1, <1>2 DEF Replies
<1>5. BeingRead \subseteq Received /\ BeingSent \subseteq Received
  BY <1>1, <1>2 DEF TypeOK
<1> QED BY <1>3, <1>4, <1>5

\* What is being sent, by its object.
LEMMA SentBy ==
    ASSUME TypeOK, Held, NEW r
    PROVE  r \in BeingSent <=> /\ r \in Received /\ UnderWay(header[r].conn)
                               /\ sendPkg[header[r].conn] = r
<1>1. ASSUME r \in BeingSent
      PROVE  r \in Received /\ UnderWay(header[r].conn) /\ sendPkg[header[r].conn] = r
  <2>1. PICK c \in Conn : UnderWay(c) /\ sendPkg[c] = r /\ r \in Request
    BY <1>1 DEF BeingSent
  <2>2. sendPkg[c] # NoRequest
    BY <2>1 DEF Request, NoRequest
  <2> QED BY <2>1, <2>2, ToSend
<1>2. ASSUME r \in Received, UnderWay(header[r].conn), sendPkg[header[r].conn] = r
      PROVE  r \in BeingSent
  BY <1>2, ReceivedType DEF BeingSent
<1> QED BY <1>1, <1>2

LEMMA InitPromise == Init => Promise!Init
<1> SUFFICES ASSUME Init PROVE Promise!Init
  OBVIOUS
<1>1. Asker = [r \in Request |-> NoClient]
  BY DEF Init, Asker, NoHeader
<1>2. BeingRead = {} /\ BeingSent = {}
  BY DEF Init, BeingRead, BeingSent, InUse, UnderWay
<1> QED BY <1>1, <1>2 DEF Init, Promise!Init

LEMMA NextPromise ==
    ASSUME Owned, Connections, Finished, [Next]_vars
    PROVE  [Promise!Next]_(Promise!vars)
<1> USE DEF Owned, Consistent
<1>1. /\ \A r \in Request : Asker[r] = header[r].client
      /\ \A r \in Request : Asker[r] = NoClient <=> r \notin Received
  BY Askers
<1>2. /\ BeingRead \cap sendQueue = {} /\ BeingSent \cap sendQueue = {}
      /\ BeingSent \cap BeingRead = {} /\ sendQueue \subseteq Received
      /\ BeingRead \subseteq Received /\ BeingSent \subseteq Received
      /\ Received \subseteq Request
  BY Apart DEF Received, TypeOK
<1>3. \A r \in Received :
         /\ header[r].conn \in Conn
         /\ ~Connected(header[r].conn) \/ header[r].conn \notin Bound
              \/ header[r].seq # seq[header[r].conn]
            => client[header[r].client] = "left"
  BY StillThere, ReceivedType
<1>4. ASSUME UNCHANGED <<client, header, wire, BeingRead, sendQueue, BeingSent>>
      PROVE  UNCHANGED Promise!vars
  BY <1>4 DEF Promise!vars, Promise!requestVars, Asker
<1>5. ASSUME UNCHANGED <<client, header, wire>>, BeingRead' \subseteq BeingRead,
             sendQueue' \subseteq sendQueue, BeingSent' \subseteq BeingSent,
             \A r \in sendQueue : r \in sendQueue' \/ client[header[r].client] = "left",
             \A r \in BeingSent : r \in BeingSent' \/ client[header[r].client] = "left"
                                     \/ r \in wire[header[r].client]
      PROVE  Promise!Next
  <2> DEFINE S == (BeingRead \ BeingRead') \cup (sendQueue \ sendQueue') \cup (BeingSent \ BeingSent')
  <2>1. S \in SUBSET Request
    BY <1>2
  <2>2. BeingRead' = BeingRead \ S /\ sendQueue' = sendQueue \ S /\ BeingSent' = BeingSent \ S
    BY <1>2, <1>5
  <2>3. \A r \in S : /\ r \in sendQueue => client[Asker[r]] = "left"
                     /\ r \in BeingSent => client[Asker[r]] = "left" \/ r \in wire[Asker[r]]
    BY <1>1, <1>2, <1>5
  <2>4. Asker' = Asker
    BY <1>5 DEF Asker
  <2> HIDE DEF S
  <2>5. Promise!Close(S)
    BY <1>5, <2>2, <2>3, <2>4 DEF Promise!Close, Promise!Gone
  <2> QED BY <2>1, <2>5 DEF Promise!Next
<1>6. UNCHANGED <<free, logic, recvPkg>> => UNCHANGED BeingRead
  BY DEF BeingRead, InUse
<1>7. UNCHANGED <<free, thrown, sendPkg>>
        /\ ((sndPc \in {"send", "finish", "throw"})' <=> sndPc \in {"send", "finish", "throw"})
        /\ (sndPc \in {"send", "finish", "throw"} => UNCHANGED sndConn)
      => UNCHANGED BeingSent
  BY DEF BeingSent, InUse, UnderWay
\* One object's reply may be through, the others' are as they were.
<1>8. ASSUME NEW c \in Conn, UNCHANGED <<header, sendPkg>>,
             \A d \in Conn : d # c => (UnderWay(d)' <=> UnderWay(d)),
             UnderWay(c)' => UnderWay(c)
      PROVE  /\ BeingSent' \subseteq BeingSent
             /\ \A r \in BeingSent : r \in BeingSent' \/ r = sendPkg[c]
             /\ ~UnderWay(c)' /\ sendPkg[c] # NoRequest => BeingSent' = BeingSent \ {sendPkg[c]}
             /\ (UnderWay(c)' <=> UnderWay(c)) => BeingSent' = BeingSent
  <2>1. \A d \in Conn : d # c /\ sendPkg[d] # NoRequest => sendPkg[d] # sendPkg[c]
    BY HeldOnce
  <2>2. \A r \in Request : r # NoRequest
    BY DEF Request, NoRequest
  <2> QED BY <1>8, <2>1, <2>2 DEF BeingSent
<1>9. sndPc # "scan" => /\ sndConn \in Conn /\ sndConn \notin free
                        /\ sendPkg[sndConn] # NoRequest /\ sendPkg[sndConn] \in Received
                        /\ header[sendPkg[sndConn]].conn = sndConn
                        /\ (Open(sockFd[sndConn]) => sndConn \in Bound)
  BY ToSend DEF TypeOK, SenderAt, Bound
<1>10. \A c \in Conn : c \notin Bound \/ ~Connected(c) =>
          \A r \in BeingSent : r = sendPkg[c] => client[header[r].client] = "left"
  <2> SUFFICES ASSUME NEW c \in Conn, c \notin Bound \/ ~Connected(c), NEW r \in BeingSent, r = sendPkg[c]
               PROVE  client[header[r].client] = "left"
    OBVIOUS
  <2>1. r \in Received /\ r # NoRequest
    BY <1>2 DEF Request, NoRequest
  <2>2. header[r].conn = c
    BY <2>1, ToSend
  <2> QED BY <1>3, <2>1, <2>2
<1>11. ASSUME NEW k \in Client, NEW f \in Fd, NEW c \in Conn, AcceptConn(k, f, c)
       PROVE  Promise!Next
  <2>1. Accepted(k, f, c)
    BY <1>11, AcceptStep
  <2>2. sndPc # "scan" => sndConn # c
    BY <2>1, <1>9 DEF Accepted
  <2>3. InUse' = InUse \cup {c} /\ c \notin InUse
    BY <2>1 DEF Accepted, InUse
  <2>4. UNCHANGED BeingRead
    <3>1. NoRequest \notin Request
      BY DEF Request, NoRequest
    <3> QED BY <2>1, <2>3, <3>1 DEF Accepted, BeingRead, InUse
  <2>5. ~UnderWay(c) /\ ~UnderWay(c)' /\ \A d \in Conn : d # c => (UnderWay(d)' <=> UnderWay(d))
    BY <2>1, <2>2, <2>3 DEF Accepted, UnderWay
  <2>6. UNCHANGED BeingSent
    BY <2>1, <2>5 DEF Accepted, BeingSent
  <2>7. Promise!Connect(k)
    BY <1>11, <2>1, <2>4, <2>6
       DEF AcceptConn, Accepted, Asker, Promise!Connect, Promise!Turn, Promise!requestVars
  <2> QED BY <2>7 DEF Promise!Next
<1>12. CASE RecvHeader
  <2> DEFINE n == NewRequest
             k == peer[sockFd[event.conn]]
  <2>1. /\ HeaderReceived /\ n \in Request /\ n \notin Received /\ k \in Client
        /\ client[k] # "connecting" /\ event.conn \in InUse
    BY <1>12, RecvHeaderStep DEF HeaderReceived, Bound, InUse, Open, TypeOK, Counts
  <2>2. Asker' = [Asker EXCEPT ![n] = k]
    <3>1. \A r \in Request : header'[r].client = IF r = n THEN k ELSE header[r].client
      BY <2>1 DEF HeaderReceived
    <3> QED BY <2>1, <3>1 DEF Asker
  <2>3. \/ UNCHANGED logic /\ \A d \in Conn : recvPkg'[d] = IF d = event.conn THEN n ELSE recvPkg[d]
        \/ UNCHANGED recvPkg /\ logic' = logic \cup {n}
    BY <1>12 DEF RecvHeader, TypeOK
  <2>4. recvPkg[event.conn] = NoRequest /\ NoRequest \notin Request
    BY <1>12 DEF RecvHeader, Request, NoRequest
  <2> HIDE DEF n, k
  <2>5. BeingRead' = BeingRead \cup {n}
    <3>1. UNCHANGED free /\ event.conn \in Conn
      BY <2>1 DEF HeaderReceived, InUse
    <3> QED BY <2>1, <2>3, <2>4, <3>1 DEF BeingRead, InUse
  <2>6. UNCHANGED BeingSent
    BY <1>7, <2>1 DEF HeaderReceived
  <2>7. Promise!Ask(k, n)
    BY <1>1, <2>1, <2>2, <2>5, <2>6 DEF HeaderReceived, Promise!Ask
  <2> QED BY <2>1, <2>7 DEF Promise!Next
<1>13. CASE RecvBody
  <2>1. /\ event.conn \in Conn /\ event.conn \in InUse /\ recvPkg[event.conn] # NoRequest
        /\ recvPkg[event.conn] \in Request
        /\ logic' = logic \cup {recvPkg[event.conn]}
        /\ \A d \in Conn : recvPkg'[d] = IF d = event.conn THEN NoRequest ELSE recvPkg[d]
        /\ UNCHANGED <<free, client, header, wire, sendQueue, sendPkg, thrown, sndPc, sndConn>>
    BY <1>13 DEF RecvBody, Reading, Events, IsCurrent, Bound, InUse, TypeOK, Received,
                 poolVars, sendVars, sndVars
  <2>2. NoRequest \notin Request
    BY DEF Request, NoRequest
  <2>3. UNCHANGED BeingRead
    BY <2>1, <2>2 DEF BeingRead, InUse
  <2> QED BY <1>4, <1>7, <2>1, <2>3
<1>14. CASE WriteHandler
  <2>1. Written /\ (Open(sockFd[event.conn]) => event.conn \in Bound)
    BY <1>14, WriteHandlerStep DEF WriteHandler, EvGo, Events
  <2>0. PICK c \in Conn : c = event.conn
    BY <2>1 DEF Written
  <2> DEFINE r == sendPkg[c]
             k == header[r].client
  <2>2. PICK result \in SendResults(c) :
            /\ Transmit(c, result)
            /\ IF result \in {"part", "full"} THEN UNCHANGED thrown
               ELSE thrown' = [thrown EXCEPT ![c] = @ - 1]
    BY <1>14, <2>0 DEF WriteHandler
  <2>3. /\ c \in Conn /\ r # NoRequest /\ ~Busy(c) /\ Writes(event) /\ evPc = "write"
        /\ UNCHANGED <<free, client, header, recvPkg, logic, sendPkg, sendQueue, sndPc, sndConn>>
    BY <2>0, <2>1 DEF Written
  <2>4. /\ result \in {"all", "part"} =>
              /\ client[k] = "connected" /\ c \in Bound
              /\ wire' = [wire EXCEPT ![k] = @ \cup {r}]
        /\ result \notin {"all", "part"} => UNCHANGED wire
        /\ result \in {"all", "part", "full", "error"}
        /\ result = "error" => client[k] = "left"
    BY <2>0, <2>1, <2>2, <2>3, SendStep
  <2>5. /\ \A d \in Conn : thrown[d] \in Int
        /\ \A d \in Conn : d # c => thrown'[d] = thrown[d]
        /\ thrown'[c] = IF result \in {"part", "full"} THEN thrown[c] ELSE thrown[c] - 1
    BY <2>2, <2>3 DEF TypeOK
  <2>6. /\ \A d \in Conn : d # c => (UnderWay(d)' <=> UnderWay(d))
        /\ UnderWay(c)' => UnderWay(c)
    BY <2>3, <2>5 DEF UnderWay, InUse
  <2>7. r \in Received /\ r \in Request /\ Asker[r] = k
    BY <1>1, <2>3, ToSend DEF Received
  <2>8. UNCHANGED BeingRead
    BY <1>6, <2>3
  <2>9. /\ BeingSent' \subseteq BeingSent
        /\ \A s \in BeingSent : s \in BeingSent' \/ s = r
        /\ ~UnderWay(c)' => BeingSent' = BeingSent \ {r}
        /\ (UnderWay(c)' <=> UnderWay(c)) => BeingSent' = BeingSent
    BY <1>8, <2>3, <2>6
  <2>10. CASE result \in {"all", "part"}
    <3>1. c \notin free /\ thrown[c] = 1
      BY <2>0, <2>3, <2>4, <2>10 DEF CountsOfEvents, Bound
    <3>2. r \in BeingSent
      BY <2>3, <2>7, <3>1 DEF BeingSent, UnderWay, InUse
    <3>3. BeingSent' \in {BeingSent, BeingSent \ {r}}
      BY <2>9
    <3>4. Asker' = Asker
      BY <2>3 DEF Asker
    <3>5. Promise!Deliver(r)
      BY <2>3, <2>4, <2>7, <2>8, <2>10, <3>2, <3>3, <3>4 DEF Promise!Deliver
    <3> QED BY <2>7, <3>5 DEF Promise!Next
  <2>11. CASE result = "full"
    <3>1. UnderWay(c)' <=> UnderWay(c)
      BY <2>3, <2>5, <2>11 DEF UnderWay, InUse
    <3> QED BY <1>4, <2>3, <2>4, <2>8, <2>9, <2>11, <3>1
  <2>12. CASE result = "error"
    BY <1>5, <2>3, <2>4, <2>8, <2>9, <2>12
  <2> QED BY <2>4, <2>10, <2>11, <2>12
<1>15. CASE SendReply
  <2> DEFINE c == sndConn
             r == sendPkg[c]
             k == header[r].client
  <2>1. PICK result \in SendResults(c) :
            /\ Transmit(c, result)
            /\ sndPc' = IF result \in {"part", "full"} THEN "throw" ELSE "finish"
    BY <1>15 DEF SendReply
  <2>2. /\ sndPc = "send"
        /\ UNCHANGED <<free, client, header, recvPkg, logic, sendPkg, sendQueue, thrown, sndConn>>
    BY <1>15 DEF SendReply, poolVars, pkgVars
  <2>3. /\ result \in {"all", "part"} =>
              /\ client[k] = "connected"
              /\ wire' = [wire EXCEPT ![k] = @ \cup {r}]
        /\ result \notin {"all", "part"} => UNCHANGED wire
    BY <1>9, <2>1, <2>2, SendStep
  <2>4. UNCHANGED BeingRead /\ UNCHANGED BeingSent
    BY <1>6, <1>7, <2>1, <2>2
  <2>5. CASE result \in {"all", "part"}
    <3>1. r \in Request /\ Asker[r] = k /\ r \in BeingSent
      BY <1>1, <1>9, <2>2 DEF Received, BeingSent, UnderWay, InUse
    <3>2. Asker' = Asker
      BY <2>2 DEF Asker
    <3>3. Promise!Deliver(r)
      BY <2>2, <2>3, <2>4, <2>5, <3>1, <3>2 DEF Promise!Deliver
    <3> QED BY <3>1, <3>3 DEF Promise!Next
  <2>6. CASE result \notin {"all", "part"}
    BY <1>4, <2>2, <2>3, <2>4, <2>6
  <2> QED BY <2>5, <2>6
<1>16. ASSUME NEW r \in Request, TakeReply(r) PROVE Promise!Next
  <2> DEFINE c == header[r].conn
  <2>1. Taken(r)
    BY <1>16, TakeReplyStep
  <2>2. /\ c \in Conn /\ c \in InUse /\ r \in Received /\ sndPc = "scan" /\ thrown[c] \in Int
    BY <2>1 DEF Taken, Bound, InUse, Received, TypeOK
  <2>3. ~UnderWay(c) /\ UnderWay(c)' /\ \A d \in Conn : d # c => (UnderWay(d)' <=> UnderWay(d))
    BY <2>1, <2>2 DEF Taken, UnderWay, InUse
  <2>4. BeingSent' = BeingSent \cup {r}
    <3>1. \A s \in Request : (\E d \in Conn : UnderWay(d)' /\ sendPkg'[d] = s)
                                <=> s = r \/ \E d \in Conn : UnderWay(d) /\ sendPkg[d] = s
      BY <2>1, <2>2, <2>3 DEF Taken
    <3> QED BY <3>1 DEF BeingSent
  <2>5. UNCHANGED BeingRead /\ Asker' = Asker
    BY <1>6, <2>1 DEF Taken, Asker
  <2>6. \A s \in BeingSent : Asker[s] # Asker[r]
    <3>1. ASSUME NEW s \in BeingSent, Asker[s] = Asker[r] PROVE FALSE
      <4>1. s \in Received /\ UnderWay(header[s].conn)
        BY SentBy
      <4>2. header[s].conn = c
        BY <1>1, <1>2, <2>2, <3>1, <4>1 DEF Connections
      <4> QED BY <2>3, <4>1, <4>2
    <3> QED BY <3>1
  <2>7. Promise!Begin(r)
    BY <2>1, <2>4, <2>5, <2>6 DEF Taken, Promise!Begin
  <2> QED BY <2>7 DEF Promise!Next
<1>17. ASSUME NEW r \in Request, DropStale(r) PROVE Promise!Next
  <2>1. /\ r \in sendQueue /\ sendQueue' = sendQueue \ {r}
        /\ header[r].seq # seq[header[r].conn]
        /\ UNCHANGED <<free, client, header, wire, recvPkg, logic, sendPkg, thrown, sndPc, sndConn>>
    BY <1>17 DEF DropStale, poolVars, pkgVars, sndVars
  <2>2. client[header[r].client] = "left"
    BY <1>2, <1>3, <2>1
  <2>3. UNCHANGED BeingRead /\ UNCHANGED BeingSent
    BY <1>6, <1>7, <2>1
  <2> QED BY <1>5, <2>1, <2>2, <2>3
<1>18. CASE FinishReply
  <2>0. PICK c \in Conn : c = sndConn
    BY <1>9, <1>18 DEF FinishReply, SndGo
  <2>1. /\ sndPc = "finish" /\ sndPc' = "scan"
        /\ \A d \in Conn : thrown'[d] = IF d = c THEN 0 ELSE thrown[d]
        /\ UNCHANGED <<free, client, header, wire, recvPkg, logic, sendPkg, sendQueue>>
    BY <1>18, <2>0 DEF FinishReply, SndGo, poolVars, pkgVars, TypeOK
  <2>2. ~UnderWay(c)' /\ \A d \in Conn : d # c => (UnderWay(d)' <=> UnderWay(d))
    BY <2>0, <2>1 DEF UnderWay, InUse
  <2>3. BeingSent' \subseteq BeingSent /\ \A r \in BeingSent : r \in BeingSent' \/ r = sendPkg[c]
    BY <1>8, <2>1, <2>2
  <2>4. UNCHANGED BeingRead
    BY <1>6, <2>1
  <2> QED BY <1>5, <2>0, <2>1, <2>3, <2>4 DEF Finished
<1>19. CASE Throw
  <2>0. PICK c \in Conn : c = sndConn
    BY <1>9, <1>19 DEF Throw, SndGo
  <2>1. /\ sndPc = "throw" /\ sndPc' = "epoll_on" /\ UNCHANGED sndConn
        /\ \A d \in Conn : thrown'[d] = IF d = c THEN thrown[d] + 1 ELSE thrown[d]
        /\ UNCHANGED <<free, client, header, wire, recvPkg, logic, sendPkg, sendQueue>>
    BY <1>19, <2>0 DEF Throw, SndGo, poolVars, pkgVars, TypeOK
  <2>2. \A d \in Conn : thrown[d] \in Int
    BY DEF TypeOK
  <2>3. /\ \A d \in Conn : d # c => (UnderWay(d)' <=> UnderWay(d))
        /\ UnderWay(c) /\ (thrown[c] = 0 => UnderWay(c)')
    BY <1>9, <2>0, <2>1, <2>2 DEF UnderWay, InUse
  <2>4. /\ BeingSent' \subseteq BeingSent
        /\ \A r \in BeingSent : r \in BeingSent' \/ r = sendPkg[c]
        /\ (UnderWay(c)' <=> UnderWay(c)) => BeingSent' = BeingSent
    BY <1>8, <2>1, <2>3
  <2>5. UNCHANGED BeingRead
    BY <1>6, <2>1
  <2>6. CASE thrown[c] = 0
    BY <1>4, <2>1, <2>3, <2>4, <2>5, <2>6
  <2>7. CASE thrown[c] # 0
    <3>1. ~(thrown[c] >= 0)
      BY <2>0, <2>1, <2>2, <2>7 DEF Counts
    <3>2. c \notin Bound \/ ~Connected(c)
      BY <3>1 DEF Counts, Bound
    <3>3. \A r \in BeingSent : r = sendPkg[c] => client[header[r].client] = "left"
      BY <1>10, <2>1, <3>2
    <3> QED BY <1>5, <2>1, <2>4, <2>5, <3>3
  <2> QED BY <2>6, <2>7
<1>20. CASE LowerThrowCount
  <2>0. PICK c \in Conn : c = event.conn
    BY <1>20 DEF LowerThrowCount, EvGo, Events
  <2>1. /\ ~Connected(c)
        /\ \A d \in Conn : thrown'[d] = IF d = c THEN thrown[d] - 1 ELSE thrown[d]
        /\ UNCHANGED <<free, client, header, wire, recvPkg, logic, sendPkg, sendQueue, sndPc, sndConn>>
    BY <1>20, <2>0 DEF LowerThrowCount, EvGo, Events, HangUps, poolVars, pkgVars, sndVars, TypeOK
  <2>2. \A d \in Conn : thrown[d] \in Int
    BY DEF TypeOK
  <2>3. /\ \A d \in Conn : d # c => (UnderWay(d)' <=> UnderWay(d))
        /\ UnderWay(c)' => UnderWay(c)
    BY <2>1, <2>2 DEF UnderWay, InUse
  <2>4. BeingSent' \subseteq BeingSent /\ \A r \in BeingSent : r \in BeingSent' \/ r = sendPkg[c]
    BY <1>8, <2>1, <2>3
  <2>5. \A r \in BeingSent : r = sendPkg[c] => client[header[r].client] = "left"
    BY <1>10, <2>1
  <2>6. UNCHANGED BeingRead
    BY <1>6, <2>1
  <2> QED BY <1>5, <2>1, <2>4, <2>5, <2>6
<1>21. ASSUME NEW c \in Conn, Recycle(c) PROVE Promise!Next
  <2>1. /\ c \notin Bound /\ sndConn # c /\ free' = free \cup {c}
        /\ \A d \in Conn : thrown'[d] = IF d = c THEN 0 ELSE thrown[d]
        /\ UNCHANGED <<client, header, wire, recvPkg, logic, sendPkg, sendQueue, sndPc, sndConn>>
    BY <1>21 DEF Recycle, Bound, sndVars, TypeOK
  <2>2. ~UnderWay(c)' /\ \A d \in Conn : d # c => (UnderWay(d)' <=> UnderWay(d))
    BY <2>1 DEF UnderWay, InUse
  <2>3. BeingSent' \subseteq BeingSent /\ \A r \in BeingSent : r \in BeingSent' \/ r = sendPkg[c]
    BY <1>8, <2>1, <2>2
  <2>4. \A r \in BeingSent : r = sendPkg[c] => client[header[r].client] = "left"
    BY <1>10, <2>1
  <2>5. BeingRead' \subseteq BeingRead
    BY <2>1 DEF BeingRead, InUse
  <2> QED BY <1>5, <2>1, <2>3, <2>4, <2>5
<1>22. ASSUME NEW r \in Request, Process(r) PROVE Promise!Next
  <2>1. /\ r \in logic /\ logic' = logic \ {r} /\ sendQueue' \in {sendQueue, sendQueue \cup {r}}
        /\ UNCHANGED <<free, client, header, wire, recvPkg, sendPkg, thrown, sndPc, sndConn>>
    BY <1>22 DEF Process, poolVars, sndVars
  <2>2. BeingRead' = BeingRead \ {r} /\ r \in BeingRead
    BY <2>1 DEF BeingRead, InUse, Requests, Request, NoRequest
  <2>3. UNCHANGED BeingSent
    BY <1>7, <2>1
  <2>4. CASE sendQueue' = sendQueue
    BY <1>5, <2>1, <2>2, <2>3, <2>4
  <2>5. CASE sendQueue' = sendQueue \cup {r}
    <3>1. Promise!Answer(r)
      BY <2>1, <2>2, <2>3, <2>5 DEF Promise!Answer, Asker
    <3> QED BY <3>1 DEF Promise!Next
  <2> QED BY <2>1, <2>4, <2>5
<1>23. ASSUME NEW k \in Client, ClientLeaves(k) PROVE Promise!Next
  <2>1. UNCHANGED <<free, header, wire, recvPkg, logic, sendPkg, sendQueue, thrown, sndPc, sndConn>>
    BY <1>23 DEF ClientLeaves, poolVars, pkgVars, sendVars, sndVars
  <2>2. UNCHANGED BeingRead /\ UNCHANGED BeingSent
    BY <1>6, <1>7, <2>1
  <2>3. Promise!Leave(k)
    BY <1>23, <2>1, <2>2 DEF ClientLeaves, Promise!Leave, Promise!Turn, Promise!requestVars, Asker
  <2> QED BY <2>3 DEF Promise!Next
<1>24. ASSUME UNCHANGED <<free, client, header, wire, recvPkg, logic, sendPkg, sendQueue, thrown>>,
              UNCHANGED <<sndPc, sndConn>> \/ EpollOn
       PROVE  UNCHANGED Promise!vars
  <2>1. UNCHANGED BeingRead /\ UNCHANGED BeingSent
    BY <1>6, <1>7, <1>24 DEF EpollOn, SndGo
  <2> QED BY <1>4, <1>24, <2>1
<1>25. CASE EpollWait \/ (\E e \in batch : NextEvent(e)) \/ AcceptFails
  BY <1>24, <1>25 DEF EpollWait, NextEvent, AcceptFails, poolVars, pkgVars, sendVars, sndVars
<1>26. CASE RecvPart \/ RecvClosed \/ InRecyConnection
  BY <1>24, <1>26 DEF RecvPart, RecvClosed, InRecyConnection, poolVars, pkgVars, sendVars, sndVars
<1>27. CASE EpollOn \/ UNCHANGED vars
  BY <1>24, <1>27 DEF EpollOn, vars, poolVars, pkgVars, sendVars, sndVars
<1> QED BY <1>11, <1>12, <1>13, <1>14, <1>15, <1>16, <1>17, <1>18, <1>19, <1>20, <1>21, <1>22, <1>23,
           <1>25, <1>26, <1>27 DEF Next, EventLoop, Sender

LEMMA InitConversation == Init => Connections /\ Finished
BY DEF Init, Connections, Finished, Received, Open

\* The worker implements Conversation for any numbers of objects, descriptors,
\* clients and requests, if the kernel does not reuse a descriptor under a send:
\* every reply goes to its client, one at a time and each once, and is given up
\* only when that client has left, whatever the threads do to each other.
THEOREM Implementation == ASSUME ~FdReuse PROVE Spec => ImplementsConversation
<1> DEFINE IInv == Owned /\ Connections /\ Finished
<1>1. Init => IInv
  BY InitOwned, InitConversation
<1>2. IInv /\ [Next]_vars => IInv'
  BY NextOwned, NextConnections, NextFinished
<1>3. IInv /\ [Next]_vars => [Promise!Next]_(Promise!vars)
  BY NextPromise
<1> QED BY <1>1, <1>2, <1>3, InitPromise, PTL DEF Spec, ImplementsConversation, Promise!Spec
=============================================================================
