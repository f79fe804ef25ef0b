--------------------------- MODULE SendPath_proofs ---------------------------
(***************************************************************************)
(* Proofs about SendPath for any connections, replies and buffer sizes:    *)
(* types, OneSender, FreedWhenDone, and WireIntegrity as long as no client *)
(* shuts down only its sending side.                                       *)
(***************************************************************************)
EXTENDS SendPath, ListLemmas

-----------------------------------------------------------------------------
(* The inductive invariant.                                                *)

Sending == {"send", "finish", "throw", "epoll_on"}
Writing == {"w_send", "w_epoll_off", "w_post", "w_free"}

\* The send thread is at connection c.
Busy(c) == sndPc \in Sending /\ sndConn = c

\* The steps that need a connection have one; a connection with something left
\* to send has a reply.
Places ==
    /\ sndPc \in Sending => sndConn \in Conn
    /\ evPc # "epoll_wait" => evConn \in Conn
    /\ evNext # "w_send"
    /\ \A c \in Conn : sendLength[c] >= 1 <=> sendPkg[c] # NoReply
    /\ \A c \in Conn : epollOut[c] => sendPkg[c] # NoReply
    /\ sndPc \in Sending => sendPkg[sndConn] # NoReply
    /\ evPc \in Writing => sendPkg[evConn] # NoReply
    /\ IsInjective(sendQueue)
    /\ \A r \in ToSet(sendQueue) : dest[r] \in Conn

\* While a client is there, EPOLLOUT is on only between the two changes of
\* mThrowSendCount.  (Once it has left, events lower the count any number of
\* times.)
Counted ==
    /\ evPc = "in_recy" => peer[evConn] # "up"
    /\ \A c \in Conn : conn[c] # "open" => peer[c] # "up"
    /\ \A c \in Conn : peer[c] = "up" => thrown[c] >= 0 /\ (epollOut[c] => thrown[c] >= 1)

\* The send thread keeps away from what the event loop has taken over.
SenderApart ==
    sndPc \in Sending /\ peer[sndConn] = "up" =>
        ~epollOut[sndConn] /\ (sndPc = "epoll_on" => thrown[sndConn] >= 1)

\* And the count stays up until the event loop has done with it.
WriterApart ==
    /\ evPc \in Writing \/ (evPc = "lower" /\ peer[evConn] = "up") =>
          thrown[evConn] >= 1 /\ ~Busy(evConn)
    /\ evPc \in {"w_post", "w_free", "lower"} /\ peer[evConn] = "up" => ~epollOut[evConn]

Apart == TypeOK /\ Places /\ Counted /\ SenderApart /\ WriterApart

\* Where a reply is: not made yet, queued once, or with its own connection.
Owned ==
    /\ \A r \in Reply : dest[r] = NoConn => freed[r] = 0
    /\ \A c \in Conn : sendPkg[c] # NoReply => dest[sendPkg[c]] = c /\ sendPkg[c] \notin ToSet(sendQueue)

\* It is not freed before the thread that has it is through with it.
Kept ==
    /\ \A r \in Reply : freed[r] <= 1
    /\ \A r \in ToSet(sendQueue) : freed[r] = 0
    /\ sndPc \in Sending => freed[sendPkg[sndConn]] = 0
    /\ evPc \in Writing => freed[sendPkg[evConn]] = 0
    /\ \A c \in Conn : epollOut[c] /\ peer[c] = "up" => freed[sendPkg[c]] = 0

Freeing == Apart /\ Owned /\ Kept

\* A reply has been sent in part, up to mSendLocation, and not yet in full.
Partly(c) ==
    \/ sndPc \in {"send", "throw", "epoll_on"} /\ sndConn = c
    \/ epollOut[c] /\ ~(evPc = "w_epoll_off" /\ evConn = c)

\* The bytes of one connection, one after the other.
Whole(w) ==
    \A i \in 1 .. Len(w) :
        IF w[i][2] > 1 THEN i > 1 /\ w[i - 1] = <<w[i][1], w[i][2] - 1>>
        ELSE i > 1 => w[i - 1][2] = ReplyLength

EndsReply(w) == w # <<>> => w[Len(w)][2] = ReplyLength

\* Up to byte number n of reply r, all of its bytes are there and no more.
EndsAt(w, r, n) ==
    /\ \A i \in 1 .. Len(w) : w[i][1] = r => w[i][2] <= n
    /\ IF n = 0 THEN EndsReply(w) ELSE w # <<>> /\ w[Len(w)] = <<r, n>>

\* No byte of a reply is sent before the send thread has taken it.
Untaken(c) ==
    \A i \in 1 .. Len(wire[c]) :
        dest[wire[c][i][1]] = c /\ wire[c][i][1] \notin ToSet(sendQueue)

Located(c) ==
    IF Partly(c) THEN EndsAt(wire[c], sendPkg[c], ReplyLength - sendLength[c])
    ELSE EndsReply(wire[c])

Sent ==
    /\ \A c \in Conn : peer[c] # "fin"
    /\ evPc = "w_send" /\ peer[evConn] = "up" => epollOut[evConn]
    /\ \A c \in Conn : IsInjective(wire[c]) /\ Whole(wire[c]) /\ Untaken(c)
    /\ sndPc # "killed" => \A c \in Conn : peer[c] = "up" => Located(c)

Intact == Freeing /\ Sent

-----------------------------------------------------------------------------
(* What the operators return.                                              *)

LEMMA MinOfTwo ==
    ASSUME NEW a \in Int, NEW b \in Int
    PROVE  Min({a, b}) = IF a <= b THEN a ELSE b
BY DEF Min

\* What send() returns, and when.
LEMMA SendResultIs ==
    ASSUME TypeOK, NEW c \in Conn
    PROVE  /\ SendResult(c) \in Int
           /\ conn[c] # "open" \/ peer[c] = "gone" => SendResult(c) = -2
           /\ conn[c] = "open" /\ peer[c] # "gone" =>
                 /\ SendResult(c) \in {-1} \cup 0 .. sendLength[c]
                 /\ SendResult(c) >= 0 => SendResult(c) <= Capacity - inKernel[c]
                 /\ sendLength[c] >= 1 => SendResult(c) # 0
<1> /\ sendLength[c] \in Nat /\ inKernel[c] \in 0 .. Capacity
    /\ Capacity \in Nat /\ ReplyLength \in Nat
  BY SendAssumption DEF TypeOK
<1>1. Min({sendLength[c], Capacity - inKernel[c]}) =
        IF sendLength[c] <= Capacity - inKernel[c] THEN sendLength[c] ELSE Capacity - inKernel[c]
  BY MinOfTwo
<1> QED BY <1>1 DEF SendResult

\* A piece of a reply behind what the kernel has taken so far.
Piece(r, done, n) == [k \in 1 .. n |-> <<r, done + k>>]

LEMMA PieceProperties ==
    ASSUME NEW r \in Reply, NEW done \in Nat, NEW n \in Nat, done + n <= ReplyLength
    PROVE  /\ Piece(r, done, n) \in Seq(ByteOfReply)
           /\ Len(Piece(r, done, n)) = n
           /\ \A k \in 1 .. n : Piece(r, done, n)[k] = <<r, done + k>>
<1> ReplyLength \in Nat
  BY SendAssumption
<1>1. \A k \in 1 .. n : <<r, done + k>> \in ByteOfReply
  BY DEF ByteOfReply
<1>2. Piece(r, done, n) \in [1 .. n -> ByteOfReply]
  BY <1>1 DEF Piece
<1>3. Piece(r, done, n) \in Seq(ByteOfReply)
  BY <1>2, SeqDef
<1>4. Len(Piece(r, done, n)) = n
  BY <1>2, <1>3, LenProperties
<1> QED BY <1>3, <1>4 DEF Piece

LEMMA TransmitIs ==
    ASSUME TypeOK, Places, NEW c \in Conn, NEW n \in Nat \ {0}, Transmit(c, n),
           n <= sendLength[c], n <= Capacity - inKernel[c]
    PROVE  LET piece == Piece(sendPkg[c], ReplyLength - sendLength[c], n) IN
           /\ sendPkg[c] \in Reply
           /\ wire' = [wire EXCEPT ![c] = @ \o piece]
           /\ piece \in Seq(ByteOfReply) /\ Len(piece) = n
           /\ \A k \in 1 .. n : piece[k] = <<sendPkg[c], ReplyLength - sendLength[c] + k>>
           /\ inKernel' \in [Conn -> 0 .. Capacity]
           /\ wire' \in [Conn -> Seq(ByteOfReply)]
<1> DEFINE piece == Piece(sendPkg[c], ReplyLength - sendLength[c], n)
<1>1. /\ ReplyLength \in Nat /\ Capacity \in Nat /\ sendLength[c] \in 0 .. ReplyLength
      /\ inKernel[c] \in 0 .. Capacity /\ sendLength[c] >= 1
  BY SendAssumption DEF TypeOK
<1>2. sendPkg[c] \in Reply
  BY <1>1 DEF TypeOK, Places
<1>3. /\ ReplyLength - sendLength[c] \in Nat
      /\ (ReplyLength - sendLength[c]) + n <= ReplyLength
  BY <1>1
<1>4. /\ piece \in Seq(ByteOfReply) /\ Len(piece) = n
      /\ \A k \in 1 .. n : piece[k] = <<sendPkg[c], ReplyLength - sendLength[c] + k>>
  BY <1>2, <1>3, PieceProperties
<1>5. wire' = [wire EXCEPT ![c] = @ \o piece]
  BY DEF Transmit, Piece
<1> HIDE DEF piece
<1>6. wire[c] \o piece \in Seq(ByteOfReply)
  BY <1>4, ConcatProperties DEF TypeOK
<1>7. wire' \in [Conn -> Seq(ByteOfReply)]
  BY <1>5, <1>6 DEF TypeOK
<1>8. inKernel' \in [Conn -> 0 .. Capacity]
  <2>1. inKernel[c] + n \in 0 .. Capacity
    BY <1>1
  <2>2. inKernel' = [inKernel EXCEPT ![c] = @ + n] /\ inKernel \in [Conn -> 0 .. Capacity]
    BY DEF Transmit, TypeOK
  <2> QED BY <2>1, <2>2
<1> QED BY <1>2, <1>4, <1>5, <1>7, <1>8 DEF piece

\* The queue entry the send thread is at, and the queue without it.
LEMMA AtCurrent ==
    ASSUME TypeOK, Places, sndPos <= Len(sendQueue)
    PROVE  /\ Current \in Reply /\ Current \in ToSet(sendQueue) /\ dest[Current] \in Conn
           /\ RemoveAt(sendQueue, sndPos) \in Seq(Reply)
           /\ ToSet(RemoveAt(sendQueue, sndPos)) = ToSet(sendQueue) \ {Current}
           /\ IsInjective(RemoveAt(sendQueue, sndPos))
<1>1. sndPos \in 1 .. Len(sendQueue) /\ sendQueue \in Seq(Reply) /\ IsInjective(sendQueue)
  BY LenProperties DEF TypeOK, Places
<1>2. Current \in Reply /\ Current \in ToSet(sendQueue)
  BY <1>1, EntryIsElement DEF Current
<1>3. /\ RemoveAt(sendQueue, sndPos) \in Seq(Reply)
      /\ ToSet(RemoveAt(sendQueue, sndPos)) = ToSet(sendQueue) \ {Current}
      /\ IsInjective(RemoveAt(sendQueue, sndPos))
  BY <1>1, RemoveAtElements DEF Current
<1> QED BY <1>2, <1>3 DEF Places

LEMMA QueuedIsReply == ASSUME TypeOK PROVE ToSet(sendQueue) \subseteq Reply
<1>1. \A i \in 1 .. Len(sendQueue) : sendQueue[i] \in Reply
  BY ElementOfSeq DEF TypeOK
<1>2. DOMAIN sendQueue = 1 .. Len(sendQueue)
  BY LenProperties DEF TypeOK
<1> QED BY <1>1, <1>2 DEF ToSet

\* The queue with a new reply.
LEMMA AtAppend ==
    ASSUME TypeOK, Places, NEW r \in Reply, dest[r] = NoConn
    PROVE  /\ r \notin ToSet(sendQueue) /\ Append(sendQueue, r) \in Seq(Reply)
           /\ ToSet(Append(sendQueue, r)) = ToSet(sendQueue) \cup {r}
           /\ IsInjective(Append(sendQueue, r))
<1>1. sendQueue \in Seq(Reply) /\ IsInjective(sendQueue) /\ r \notin ToSet(sendQueue)
  BY SendAssumption DEF TypeOK, Places
<1> QED BY <1>1, AppendElements

-----------------------------------------------------------------------------
(* Types.                                                                  *)

\* TypeOK in parts.
QueueType ==
    /\ sendQueue \in Seq(Reply) /\ sendMutex \in BOOLEAN /\ sem \in Nat
    /\ dest \in [Reply -> Conn \cup {NoConn}]
    /\ freed \in [Reply -> Nat]

ConnType ==
    /\ thrown \in [Conn -> Int]
    /\ sendPkg \in [Conn -> Reply \cup {NoReply}]
    /\ sendLength \in [Conn -> 0 .. ReplyLength]
    /\ epollOut \in [Conn -> BOOLEAN]
    /\ conn \in [Conn -> {"open", "closed", "retired"}]

NetType ==
    /\ peer \in [Conn -> {"up", "fin", "gone"}]
    /\ unread \in [Conn -> 0 .. MaxUnread]
    /\ inKernel \in [Conn -> 0 .. Capacity]
    /\ wire \in [Conn -> Seq(ByteOfReply)]

ThreadType ==
    /\ sndPc \in {"sem_wait", "look", "lock", "scan", "send", "finish", "throw", "epoll_on",
                 "killed"}
    /\ sndPos \in Nat \ {0} /\ sndConn \in Conn \cup {NoConn}
    /\ evPc \in {"epoll_wait", "in_recy", "lower", "w_send", "w_epoll_off", "w_post", "w_free"}
    /\ evConn \in Conn \cup {NoConn}
    /\ evNext \in {"epoll_wait", "lower", "w_send"}

LEMMA TypeParts == TypeOK <=> QueueType /\ ConnType /\ NetType /\ ThreadType
BY DEF TypeOK, QueueType, ConnType, NetType, ThreadType

\* Which steps change what.
LEMMA QueueSteps ==
    ASSUME [Next]_vars
    PROVE  \/ UNCHANGED <<queueVars, freed>>
           \/ \E r \in Reply, c \in Conn : InSendQueue(r, c)
           \/ SemWait \/ LockQueue \/ UnlockQueue \/ DropStale \/ TakeReply
           \/ FinishReply \/ WritePost \/ WriteFree
BY DEF Next, vars, Sender, EventLoop, SigPipe, Look, SkipThrown, Send, Throw, EpollOn,
       Event, InRecyConnection, LowerThrowCount, WriteSend, WriteEpollOff, ClientReads,
       ClientLeaves

LEMMA ConnSteps ==
    ASSUME [Next]_vars
    PROVE  \/ UNCHANGED <<connVars, conn>>
           \/ TakeReply \/ Send \/ FinishReply \/ Throw \/ EpollOn
           \/ (\E c \in Conn : Event(c)) \/ InRecyConnection
           \/ LowerThrowCount \/ WriteSend \/ WriteEpollOff
BY DEF Next, vars, Sender, EventLoop, InSendQueue, SemWait, SigPipe, Look, LockQueue,
       UnlockQueue, DropStale, SkipThrown, WritePost, WriteFree, ClientReads, ClientLeaves

LEMMA NetSteps ==
    ASSUME [Next]_vars
    PROVE  \/ UNCHANGED <<peerVars, netVars>>
           \/ Send \/ WriteSend \/ (\E c \in Conn : Event(c))
           \/ (\E c \in Conn : ClientReads(c))
           \/ \E c \in Conn, how \in Departures : ClientLeaves(c, how)
BY DEF Next, vars, Sender, EventLoop, InSendQueue, SemWait, SigPipe, Look, LockQueue,
       UnlockQueue, DropStale, SkipThrown, TakeReply, FinishReply, Throw, EpollOn,
       InRecyConnection, LowerThrowCount, WriteEpollOff, WritePost, WriteFree

\* A connection's part of send(): what it does to the wire and to mSendLength.
Sends(c) ==
    LET n == SendResult(c) IN
    /\ IF n > 0 THEN Transmit(c, n) ELSE UNCHANGED netVars
    /\ IF n \in 1 .. sendLength[c] - 1
       THEN sendLength' = [sendLength EXCEPT ![c] = @ - n]
       ELSE UNCHANGED sendLength
    /\ UNCHANGED <<thrown, sendPkg, epollOut, conn, peer, unread>>

LEMMA SendSteps ==
    ASSUME Places, Send \/ WriteSend
    PROVE  \E c \in Conn : /\ Sends(c)
                           /\ \/ Send /\ c = sndConn
                              \/ WriteSend /\ c = evConn
<1>1. CASE Send
  <2>1. sndConn \in Conn
    BY <1>1 DEF Send, Places, Sending
  <2>2. Sends(sndConn)
    BY <1>1 DEF Send, Sends, peerVars
  <2> QED BY <1>1, <2>1, <2>2
<1>2. CASE WriteSend
  <2>1. evConn \in Conn
    BY <1>2 DEF WriteSend, Places
  <2>2. Sends(evConn)
    BY <1>2 DEF WriteSend, Sends, peerVars
  <2> QED BY <1>2, <2>1, <2>2
<1> QED BY <1>1, <1>2

LEMMA SendsType ==
    ASSUME TypeOK, Places, NEW c \in Conn, Sends(c)
    PROVE  /\ inKernel' \in [Conn -> 0 .. Capacity] /\ wire' \in [Conn -> Seq(ByteOfReply)]
           /\ sendLength' \in [Conn -> 0 .. ReplyLength]
           /\ sendLength'[c] >= 1 <=> sendLength[c] >= 1
<1> DEFINE n == SendResult(c)
<1>1. sendLength[c] \in 0 .. ReplyLength /\ ReplyLength \in Nat
  BY SendAssumption DEF TypeOK
<1>2. n \in Int /\ (n > 0 => n <= sendLength[c] /\ n <= Capacity - inKernel[c])
  BY <1>1, SendResultIs
<1>3. /\ IF n > 0 THEN Transmit(c, n) ELSE UNCHANGED netVars
      /\ IF n \in 1 .. sendLength[c] - 1
         THEN sendLength' = [sendLength EXCEPT ![c] = @ - n]
         ELSE UNCHANGED sendLength
  BY DEF Sends
<1> HIDE DEF n
<1>4. inKernel' \in [Conn -> 0 .. Capacity] /\ wire' \in [Conn -> Seq(ByteOfReply)]
  <2>1. CASE n > 0
    <3>1. n \in Nat \ {0} /\ Transmit(c, n)
      BY <1>2, <1>3, <2>1
    <3> QED BY <1>2, <2>1, <3>1, TransmitIs
  <2>2. CASE ~(n > 0)
    BY <1>3, <2>2 DEF netVars, TypeOK
  <2> QED BY <2>1, <2>2
<1>5. sendLength' \in [Conn -> 0 .. ReplyLength] /\ (sendLength'[c] >= 1 <=> sendLength[c] >= 1)
  <2>1. CASE n \in 1 .. sendLength[c] - 1
    <3>1. sendLength[c] - n \in 1 .. ReplyLength
      BY <2>1, <1>1
    <3>2. sendLength \in [Conn -> 0 .. ReplyLength]
      BY DEF TypeOK
    <3> QED BY <3>1, <3>2, <2>1, <1>1, <1>3
  <2>2. CASE n \notin 1 .. sendLength[c] - 1
    BY <1>3, <2>2 DEF TypeOK
  <2> QED BY <2>1, <2>2
<1> QED BY <1>4, <1>5

LEMMA InitType == Init => TypeOK
<1> SUFFICES ASSUME Init PROVE TypeOK
  OBVIOUS
<1> USE SendAssumption DEF Init
<1>1. sendQueue \in Seq(Reply)
  OBVIOUS
<1>2. QueueType
  BY <1>1 DEF QueueType
<1>3. sendPkg \in [Conn -> Reply \cup {NoReply}] /\ sendLength \in [Conn -> 0 .. ReplyLength]
  OBVIOUS
<1>4. ConnType
  BY <1>3 DEF ConnType
<1>5. wire \in [Conn -> Seq(ByteOfReply)] /\ unread \in [Conn -> 0 .. MaxUnread]
  OBVIOUS
<1>6. NetType
  BY <1>5 DEF NetType
<1>7. ThreadType
  BY DEF ThreadType
<1> QED BY <1>2, <1>4, <1>6, <1>7, TypeParts

LEMMA NextQueueType == TypeOK /\ Places /\ [Next]_vars => QueueType'
<1> SUFFICES ASSUME TypeOK, Places, [Next]_vars PROVE QueueType'
  OBVIOUS
<1>0. QueueType /\ ThreadType
  BY TypeParts
<1> USE DEF QueueType, ThreadType
<1>1. ASSUME NEW r \in Reply, NEW c \in Conn, InSendQueue(r, c) PROVE QueueType'
  <2>1. Append(sendQueue, r) \in Seq(Reply)
    BY <1>1, AtAppend DEF InSendQueue
  <2> QED BY <1>0, <1>1, <2>1 DEF InSendQueue
<1>2. CASE SemWait
  <2>1. sem' \in Nat
    BY <1>0, <1>2 DEF SemWait
  <2> QED BY <1>0, <1>2, <2>1 DEF SemWait
<1>9. CASE LockQueue \/ UnlockQueue
  BY <1>0, <1>9 DEF LockQueue, UnlockQueue
<1>3. CASE DropStale
  <2>1. sndPos <= Len(sendQueue) /\ freed' = [freed EXCEPT ![Current] = @ + 1]
        /\ sendQueue' = RemoveAt(sendQueue, sndPos) /\ UNCHANGED <<sendMutex, sem, dest>>
    BY <1>3 DEF DropStale, FreeMemory
  <2>2. Current \in Reply /\ RemoveAt(sendQueue, sndPos) \in Seq(Reply)
    BY <2>1, AtCurrent
  <2> QED BY <1>0, <2>1, <2>2
<1>4. CASE TakeReply
  <2>1. sndPos <= Len(sendQueue) /\ sendQueue' = RemoveAt(sendQueue, sndPos)
        /\ UNCHANGED <<sendMutex, sem, dest, freed>>
    BY <1>4 DEF TakeReply
  <2>2. RemoveAt(sendQueue, sndPos) \in Seq(Reply)
    BY <2>1, AtCurrent
  <2> QED BY <1>0, <2>1, <2>2
<1>5. CASE FinishReply
  <2>1. sendPkg[sndConn] \in Reply
    BY <1>5 DEF FinishReply, SndGo, Places, Sending, TypeOK
  <2> QED BY <1>0, <1>5, <2>1 DEF FinishReply, FreeMemory, queueVars
<1>6. CASE WritePost
  BY <1>0, <1>6 DEF WritePost
<1>7. CASE WriteFree
  <2>1. sendPkg[evConn] \in Reply
    BY <1>7 DEF WriteFree, EvGo, Places, Writing, TypeOK
  <2> QED BY <1>0, <1>7, <2>1 DEF WriteFree, FreeMemory, queueVars
<1>8. CASE UNCHANGED <<queueVars, freed>>
  BY <1>0, <1>8 DEF queueVars
<1> QED BY <1>1, <1>2, <1>3, <1>4, <1>5, <1>6, <1>7, <1>8, <1>9, QueueSteps

LEMMA NextConnType == TypeOK /\ Places /\ [Next]_vars => ConnType'
<1> SUFFICES ASSUME TypeOK, Places, [Next]_vars PROVE ConnType'
  OBVIOUS
<1>0. ConnType /\ ThreadType
  BY TypeParts
<1> USE DEF ConnType, ThreadType
<1>1. CASE TakeReply
  <2>1. Current \in Reply /\ dest[Current] \in Conn /\ ReplyLength \in 0 .. ReplyLength
    BY <1>1, AtCurrent, SendAssumption DEF TakeReply
  <2> QED BY <1>0, <1>1, <2>1 DEF TakeReply
<1>2. CASE Send \/ WriteSend
  <2>1. PICK c \in Conn : Sends(c)
    BY <1>2, SendSteps
  <2>2. sendLength' \in [Conn -> 0 .. ReplyLength]
    BY <2>1, SendsType
  <2> QED BY <1>0, <2>1, <2>2 DEF Sends
<1>3. CASE FinishReply
  <2>1. sndConn \in Conn
    BY <1>3 DEF FinishReply, SndGo, Places, Sending
  <2> QED BY <1>0, <1>3, <2>1 DEF FinishReply
<1>4. CASE Throw
  <2>1. sndConn \in Conn
    BY <1>4 DEF Throw, SndGo, Places, Sending
  <2> QED BY <1>0, <1>4, <2>1 DEF Throw
<1>5. CASE EpollOn
  BY <1>0, <1>5 DEF EpollOn
<1>6. ASSUME NEW c \in Conn, Event(c) PROVE ConnType'
  <2>1. conn' \in [Conn -> {"open", "closed", "retired"}] /\ UNCHANGED connVars
    BY <1>0, <1>6 DEF Event
  <2> QED BY <1>0, <2>1 DEF connVars
<1>7. CASE InRecyConnection
  BY <1>0, <1>7 DEF InRecyConnection, connVars
<1>8. CASE LowerThrowCount
  <2>1. evConn \in Conn
    BY <1>8 DEF LowerThrowCount, EvGo, Places
  <2> QED BY <1>0, <1>8, <2>1 DEF LowerThrowCount
<1>9. CASE WriteEpollOff
  BY <1>0, <1>9 DEF WriteEpollOff
<1>10. CASE UNCHANGED <<connVars, conn>>
  BY <1>0, <1>10 DEF connVars
<1> QED BY <1>1, <1>2, <1>3, <1>4, <1>5, <1>6, <1>7, <1>8, <1>9, <1>10, ConnSteps

LEMMA NextNetType == TypeOK /\ Places /\ [Next]_vars => NetType'
<1> SUFFICES ASSUME TypeOK, Places, [Next]_vars PROVE NetType'
  OBVIOUS
<1>0. NetType
  BY TypeParts
<1> USE DEF NetType
<1>1. CASE Send \/ WriteSend
  <2>1. PICK c \in Conn : Sends(c)
    BY <1>1, SendSteps
  <2>2. inKernel' \in [Conn -> 0 .. Capacity] /\ wire' \in [Conn -> Seq(ByteOfReply)]
    BY <2>1, SendsType
  <2> QED BY <1>0, <2>1, <2>2 DEF Sends
<1>2. ASSUME NEW c \in Conn, Event(c) PROVE NetType'
  <2>1. unread' = unread \/ (unread[c] # 0 /\ unread' = [unread EXCEPT ![c] = @ - 1])
    <3>1. \/ conn' = [conn EXCEPT ![c] = "closed"] /\ UNCHANGED unread
          \/ /\ ~((peer[c] # "up" \/ unread[c] > 0) /\ unread[c] = 0)
             /\ unread' = IF peer[c] # "up" \/ unread[c] > 0 THEN [unread EXCEPT ![c] = @ - 1] ELSE unread
      BY <1>2 DEF Event
    <3> QED BY <3>1
  <2>2. unread[c] # 0 => unread[c] - 1 \in 0 .. MaxUnread
    BY <1>0, SendAssumption
  <2>3. unread' \in [Conn -> 0 .. MaxUnread]
    BY <1>0, <2>1, <2>2
  <2> QED BY <1>0, <1>2, <2>3 DEF Event, netVars
<1>3. ASSUME NEW c \in Conn, ClientReads(c) PROVE NetType'
  <2>1. inKernel' \in [Conn -> 0 .. Capacity]
    BY <1>0, <1>3, SendAssumption DEF ClientReads
  <2> QED BY <1>0, <1>3, <2>1 DEF ClientReads, peerVars
<1>4. ASSUME NEW c \in Conn, NEW how \in Departures, ClientLeaves(c, how) PROVE NetType'
  <2>1. how \in {"up", "fin", "gone"}
    BY SendAssumption
  <2>2. peer' = [peer EXCEPT ![c] = how] /\ UNCHANGED <<unread, netVars>>
    BY <1>4 DEF ClientLeaves
  <2> QED BY <1>0, <2>1, <2>2 DEF netVars
<1>5. CASE UNCHANGED <<peerVars, netVars>>
  BY <1>0, <1>5 DEF peerVars, netVars
<1> QED BY <1>1, <1>2, <1>3, <1>4, <1>5, NetSteps

LEMMA NextThreadType == TypeOK /\ Places /\ [Next]_vars => ThreadType'
<1> SUFFICES ASSUME TypeOK, Places, [Next]_vars PROVE ThreadType'
  OBVIOUS
<1>0. ThreadType
  BY TypeParts
<1> USE DEF ThreadType
<1>1. CASE UNCHANGED <<sndVars, evVars>>
  BY <1>0, <1>1 DEF sndVars, evVars
<1>2. CASE SemWait \/ SigPipe \/ Look \/ LockQueue \/ UnlockQueue \/ SkipThrown
  BY <1>0, <1>2 DEF SemWait, SigPipe, Look, LockQueue, UnlockQueue, SkipThrown, SndGo, evVars
<1>3. CASE TakeReply
  <2>1. dest[Current] \in Conn
    BY <1>3, AtCurrent DEF TakeReply
  <2> QED BY <1>0, <1>3, <2>1 DEF TakeReply, SndGo, evVars
<1>4. CASE Send \/ FinishReply \/ Throw \/ EpollOn
  BY <1>0, <1>4 DEF Send, FinishReply, Throw, EpollOn, SndGo, evVars
<1>5. ASSUME NEW c \in Conn, Event(c) PROVE ThreadType'
  BY <1>0, <1>5 DEF Event, sndVars
<1>6. CASE InRecyConnection \/ LowerThrowCount \/ WriteEpollOff \/ WritePost \/ WriteFree
  BY <1>0, <1>6 DEF InRecyConnection, LowerThrowCount, WriteEpollOff, WritePost, WriteFree, EvGo, sndVars
<1>7. CASE WriteSend
  BY <1>0, <1>7 DEF WriteSend, sndVars
<1> QED BY <1>1, <1>2, <1>3, <1>4, <1>5, <1>6, <1>7
        DEF Next, vars, Sender, EventLoop, InSendQueue, DropStale, ClientReads, ClientLeaves

LEMMA NextType == TypeOK /\ Places /\ [Next]_vars => TypeOK'
<1>1. (QueueType /\ ConnType /\ NetType /\ ThreadType)' => TypeOK'
  BY TypeParts DEF TypeOK, QueueType, ConnType, NetType, ThreadType
<1> QED BY <1>1, NextQueueType, NextConnType, NextNetType, NextThreadType

-----------------------------------------------------------------------------
(* Two senders kept apart.                                                 *)

LEMMA InitApart == Init => Apart
<1> SUFFICES ASSUME Init PROVE Apart
  OBVIOUS
<1> USE DEF Init
<1>1. ToSet(sendQueue) = {} /\ IsInjective(sendQueue)
  BY DEF ToSet, IsInjective
<1>2. Places
  BY <1>1 DEF Places, Sending, Writing
<1>3. Counted /\ SenderApart /\ WriterApart
  BY DEF Counted, SenderApart, WriterApart, Sending, Writing
<1> QED BY <1>2, <1>3, InitType DEF Apart

\* What an event of epoll_wait() leads to.
LEMMA EventIs ==
    ASSUME TypeOK, NEW c \in Conn, Event(c)
    PROVE  /\ evPc = "epoll_wait" /\ evConn' = c
           /\ evPc' \in {"epoll_wait", "in_recy", "lower", "w_send"}
           /\ evPc' = "w_send" => peer[c] = "up" /\ epollOut[c]
           /\ evPc' \in {"in_recy", "lower"} => peer[c] # "up"
           /\ evNext' # evNext => evNext' # "w_send"
           /\ \A d \in Conn : conn'[d] # conn[d] => peer[d] # "up"
           /\ UNCHANGED <<queueVars, freed, connVars, peer, netVars, sndVars>>
<1> DEFINE in == peer[c] # "up" \/ unread[c] > 0
           out == peer[c] = "gone" \/ Writable(c)
           next == IF ~out THEN "epoll_wait" ELSE IF peer[c] # "up" THEN "lower" ELSE "w_send"
<1>1. /\ evPc = "epoll_wait" /\ evConn' = c
      /\ UNCHANGED <<queueVars, freed, connVars, peer, netVars, sndVars>>
  BY DEF Event
<1>2. next = "w_send" => peer[c] = "up" /\ epollOut[c]
  BY DEF Writable
<1>3. CASE in /\ unread[c] = 0
  <2>1. peer[c] # "up"
    BY <1>3
  <2>2. /\ conn' = [conn EXCEPT ![c] = "closed"]
        /\ evPc' = "in_recy" /\ evNext' = next
    BY <1>3 DEF Event
  <2> QED BY <1>1, <1>2, <2>1, <2>2 DEF TypeOK
<1>4. CASE ~(in /\ unread[c] = 0)
  <2>1. evPc' = next /\ UNCHANGED <<conn, evNext>>
    BY <1>4 DEF Event
  <2> QED BY <1>1, <1>2, <2>1
<1> QED BY <1>3, <1>4

\* The pc of the two threads.
LEMMA SndPcs ==
    ASSUME Next
    PROVE  \/ UNCHANGED <<sndPc, sndConn>>
           \/ TakeReply \/ Send \/ Throw
           \/ sndPc' \notin Sending
BY DEF Next, Sender, EventLoop, SemWait, SigPipe, Look, LockQueue, UnlockQueue, DropStale,
       SkipThrown, FinishReply, EpollOn, SndGo, Sending, Event, InRecyConnection, LowerThrowCount,
       WriteSend, WriteEpollOff, WritePost, WriteFree, InSendQueue, ClientReads, ClientLeaves,
       sndVars

LEMMA EvPcs ==
    ASSUME Next
    PROVE  \/ UNCHANGED evVars
           \/ (\E c \in Conn : Event(c)) \/ InRecyConnection \/ WriteSend \/ WriteEpollOff
           \/ WritePost \/ WriteFree
           \/ LowerThrowCount /\ evPc' = "epoll_wait" /\ UNCHANGED evNext
BY DEF Next, Sender, EventLoop, SemWait, SigPipe, Look, LockQueue, UnlockQueue, DropStale,
       SkipThrown, TakeReply, Send, FinishReply, Throw, EpollOn, LowerThrowCount, EvGo,
       InSendQueue, ClientReads, ClientLeaves, evVars

\* Only TakeReply gives a connection another reply.
LEMMA SendPkgSteps ==
    ASSUME Next PROVE UNCHANGED sendPkg \/ TakeReply
BY DEF Next, Sender, EventLoop, SemWait, SigPipe, Look, LockQueue, UnlockQueue, DropStale,
       SkipThrown, Send, FinishReply, Throw, EpollOn, Event, InRecyConnection, LowerThrowCount,
       WriteSend, WriteEpollOff, WritePost, WriteFree, InSendQueue, ClientReads, ClientLeaves,
       connVars

LEMMA TakeReplyIs ==
    ASSUME TypeOK, Places, TakeReply
    PROVE  /\ sndPc = "scan" /\ sndPc' = "send" /\ sndConn' \in Conn
           /\ sndConn' = dest[Current] /\ Current \in Reply /\ Current \in ToSet(sendQueue)
           /\ thrown[sndConn'] <= 0
           /\ sendPkg'[sndConn'] = Current /\ sendLength'[sndConn'] = ReplyLength
           /\ \A c \in Conn : c # sndConn' => sendPkg'[c] = sendPkg[c] /\ sendLength'[c] = sendLength[c]
           /\ sendQueue' \in Seq(Reply) /\ IsInjective(sendQueue')
           /\ ToSet(sendQueue') = ToSet(sendQueue) \ {Current}
           /\ UNCHANGED <<dest, freed, thrown, epollOut, conn, peer, netVars, evVars>>
<1>1. /\ sndPc = "scan" /\ sndPc' = "send" /\ sndPos <= Len(sendQueue)
      /\ sndConn' = dest[Current] /\ thrown[dest[Current]] <= 0
      /\ sendPkg' = [sendPkg EXCEPT ![dest[Current]] = Current]
      /\ sendLength' = [sendLength EXCEPT ![dest[Current]] = ReplyLength]
      /\ sendQueue' = RemoveAt(sendQueue, sndPos)
      /\ UNCHANGED <<dest, freed, thrown, epollOut, conn, peer, netVars, evVars>>
  BY DEF TakeReply, SndGo, peerVars
<1>2. sendPkg \in [Conn -> Reply \cup {NoReply}] /\ sendLength \in [Conn -> 0 .. ReplyLength]
  BY DEF TypeOK
<1> QED BY <1>1, <1>2, AtCurrent

LEMMA NextPlaces == TypeOK /\ Places /\ [Next]_vars => Places'
<1> SUFFICES ASSUME TypeOK, Places, Next PROVE Places'
  <2>1. UNCHANGED vars /\ Places => Places'
    BY DEF Places, vars, queueVars, connVars, sndVars, evVars, Sending, Writing
  <2> QED BY <2>1
<1>1. \A c \in Conn : sendPkg[c] # NoReply => sendPkg'[c] # NoReply
  <2>1. CASE TakeReply
    <3>1. sendPkg'[sndConn'] \in Reply
      BY <2>1, TakeReplyIs
    <3> QED BY <2>1, <3>1, TakeReplyIs DEF Reply, NoReply
  <2> QED BY <2>1, SendPkgSteps
<1>2. sndPc' \in Sending => sndConn' \in Conn /\ sendPkg'[sndConn'] # NoReply
  <2>1. CASE UNCHANGED <<sndPc, sndConn>>
    BY <2>1, <1>1 DEF Places
  <2>2. CASE Send \/ Throw
    <3>1. sndPc \in Sending /\ sndConn' = sndConn
      BY <2>2 DEF Send, Throw, SndGo, Sending
    <3> QED BY <3>1, <1>1 DEF Places
  <2>3. CASE TakeReply
    <3>1. sndConn' \in Conn /\ sendPkg'[sndConn'] \in Reply
      BY <2>3, TakeReplyIs
    <3> QED BY <3>1 DEF Reply, NoReply
  <2> QED BY <2>1, <2>2, <2>3, SndPcs
<1>3. /\ evPc' # "epoll_wait" => evConn' \in Conn
      /\ evNext' # "w_send"
      /\ evPc' \in Writing => sendPkg'[evConn'] # NoReply
  <2>1. CASE UNCHANGED evVars
    BY <2>1, <1>1 DEF Places, evVars, Writing
  <2>2. CASE \E c \in Conn : Event(c)
    <3>1. PICK c \in Conn : Event(c)
      BY <2>2
    <3>2. UNCHANGED sendPkg
      BY <3>1 DEF Event, connVars
    <3> QED BY <3>1, <3>2, EventIs DEF Places, Writing
  <2>3. CASE InRecyConnection
    BY <2>3 DEF InRecyConnection, EvGo, Places, TypeOK, Writing
  <2>4. CASE WriteSend
    <3>1. /\ evPc = "w_send" /\ evPc' \in {"epoll_wait", "w_epoll_off", "w_post"}
          /\ UNCHANGED <<evConn, evNext, sendPkg>>
      BY <2>4 DEF WriteSend
    <3> QED BY <3>1 DEF Places, Writing
  <2>5. CASE WriteEpollOff \/ WritePost \/ WriteFree
    BY <2>5 DEF WriteEpollOff, WritePost, WriteFree, EvGo, Places, Writing, connVars
  <2>6. CASE LowerThrowCount /\ evPc' = "epoll_wait" /\ UNCHANGED evNext
    BY <2>6 DEF Places, Writing
  <2> QED BY <2>1, <2>2, <2>3, <2>4, <2>5, <2>6, EvPcs
<1>4. \A c \in Conn : /\ sendLength'[c] >= 1 <=> sendPkg'[c] # NoReply
                      /\ epollOut'[c] => sendPkg'[c] # NoReply
  <2>1. CASE TakeReply
    BY <2>1, <1>1, TakeReplyIs, SendAssumption DEF Places, Reply, NoReply
  <2>2. CASE Send \/ WriteSend
    <3>1. PICK c \in Conn : Sends(c)
      BY <2>2, SendSteps
    <3>2. UNCHANGED <<sendPkg, epollOut>>
      BY <3>1 DEF Sends
    <3>3. sendLength'[c] >= 1 <=> sendLength[c] >= 1
      BY <3>1, SendsType DEF Sends
    <3>4. \A d \in Conn : d # c => sendLength'[d] = sendLength[d]
      BY <3>1 DEF Sends, TypeOK
    <3> QED BY <3>2, <3>3, <3>4 DEF Places
  <2>3. CASE EpollOn
    BY <2>3, <1>1 DEF EpollOn, SndGo, Places, Sending, TypeOK
  <2>4. CASE WriteEpollOff
    BY <2>4 DEF WriteEpollOff, Places, TypeOK
  <2>5. CASE UNCHANGED <<sendPkg, sendLength, epollOut>>
    BY <2>5 DEF Places
  <2>6. \/ TakeReply \/ Send \/ WriteSend \/ EpollOn \/ WriteEpollOff
        \/ UNCHANGED <<sendPkg, sendLength, epollOut>>
    BY ConnSteps DEF FinishReply, Throw, Event, InRecyConnection, LowerThrowCount, connVars
  <2> QED BY <2>1, <2>2, <2>3, <2>4, <2>5, <2>6
<1>5. IsInjective(sendQueue') /\ \A r \in ToSet(sendQueue') : dest'[r] \in Conn
  <2>1. CASE \E r \in Reply, c \in Conn : InSendQueue(r, c)
    <3>0. PICK r \in Reply, c \in Conn : InSendQueue(r, c)
      BY <2>1
    <3>1. dest[r] = NoConn /\ dest' = [dest EXCEPT ![r] = c] /\ sendQueue' = Append(sendQueue, r)
      BY <3>0 DEF InSendQueue
    <3>2. IsInjective(sendQueue') /\ ToSet(sendQueue') = ToSet(sendQueue) \cup {r}
      BY <3>1, AtAppend
    <3>3. ASSUME NEW q \in ToSet(sendQueue), q # r PROVE dest'[q] = dest[q]
      <4>1. q \in Reply /\ dest \in [Reply -> Conn \cup {NoConn}]
        BY QueuedIsReply DEF TypeOK
      <4> QED BY <3>1, <3>3, <4>1
    <3>4. dest'[r] \in Conn
      BY <3>1 DEF TypeOK
    <3> QED BY <3>2, <3>3, <3>4 DEF Places
  <2>2. CASE DropStale
    <3>1. sndPos <= Len(sendQueue) /\ sendQueue' = RemoveAt(sendQueue, sndPos) /\ UNCHANGED dest
      BY <2>2 DEF DropStale
    <3> QED BY <3>1, AtCurrent DEF Places
  <2>3. CASE TakeReply
    BY <2>3, TakeReplyIs DEF Places
  <2>4. CASE UNCHANGED <<sendQueue, dest>>
    BY <2>4 DEF Places
  <2>5. \/ \E r \in Reply, c \in Conn : InSendQueue(r, c)
        \/ DropStale \/ TakeReply \/ UNCHANGED <<sendQueue, dest>>
    BY QueueSteps DEF SemWait, LockQueue, UnlockQueue, FinishReply, WritePost, WriteFree, queueVars
  <2> QED BY <2>1, <2>2, <2>3, <2>4, <2>5
<1> QED BY <1>2, <1>3, <1>4, <1>5 DEF Places

\* A client that has left does not come back.
LEMMA PeerSteps ==
    ASSUME TypeOK, Next
    PROVE  \A c \in Conn : peer'[c] = "up" => peer[c] = "up"
<1>1. ASSUME NEW d \in Conn, NEW how \in Departures, ClientLeaves(d, how)
      PROVE  \A c \in Conn : peer'[c] = "up" => peer[c] = "up"
  BY <1>1, SendAssumption DEF ClientLeaves, TypeOK
<1> QED BY <1>1, NetSteps DEF peerVars, netVars, Sends, Send, WriteSend, Event, ClientReads

\* mThrowSendCount and EPOLLOUT, step by step.
LEMMA ThrownSteps ==
    ASSUME TypeOK, Places, Next
    PROVE  \/ UNCHANGED <<thrown, epollOut>>
           \/ /\ FinishReply /\ sndPc = "finish" /\ sndPc' = "scan" /\ UNCHANGED <<epollOut, evVars>>
              /\ thrown' = [thrown EXCEPT ![sndConn] = 0]
           \/ /\ Throw /\ sndPc = "throw" /\ sndPc' = "epoll_on"
              /\ UNCHANGED <<sndConn, epollOut, evVars>>
              /\ thrown' = [thrown EXCEPT ![sndConn] = @ + 1]
           \/ /\ EpollOn /\ sndPc = "epoll_on" /\ sndPc' = "scan" /\ UNCHANGED <<thrown, evVars>>
              /\ epollOut' = [epollOut EXCEPT ![sndConn] = TRUE]
           \/ /\ LowerThrowCount /\ evPc = "lower" /\ evPc' = "epoll_wait"
              /\ UNCHANGED <<epollOut, sndVars>>
              /\ thrown' = [thrown EXCEPT ![evConn] = @ - 1]
           \/ /\ WriteEpollOff /\ evPc = "w_epoll_off" /\ evPc' = "w_post"
              /\ UNCHANGED <<thrown, evConn, sndVars>>
              /\ epollOut' = [epollOut EXCEPT ![evConn] = FALSE]
BY ConnSteps DEF TakeReply, Send, FinishReply, Throw, EpollOn, Event, InRecyConnection,
                 LowerThrowCount, WriteSend, WriteEpollOff, SndGo, EvGo, connVars

LEMMA NextCounted == Apart /\ Next => Counted'
<1> SUFFICES ASSUME Apart, Next PROVE Counted'
  OBVIOUS
<1> USE DEF Apart
<1>0. \A c \in Conn : peer'[c] = "up" => peer[c] = "up"
  BY PeerSteps
<1>1. evPc' = "in_recy" => evConn' \in Conn /\ peer'[evConn'] # "up"
  <2>1. CASE UNCHANGED evVars
    BY <2>1, <1>0 DEF evVars, Counted, Places
  <2>2. CASE \E c \in Conn : Event(c)
    <3>1. PICK c \in Conn : Event(c)
      BY <2>2
    <3> QED BY <3>1, <1>0, EventIs
  <2>3. CASE InRecyConnection
    BY <2>3, <1>0 DEF InRecyConnection, EvGo, Counted, Places
  <2>4. CASE evPc' # "in_recy"
    BY <2>4
  <2> QED BY <2>1, <2>2, <2>3, <2>4, EvPcs DEF WriteSend, WriteEpollOff, WritePost, WriteFree, EvGo
<1>2. \A c \in Conn : conn'[c] # "open" => peer'[c] # "up"
  <2>1. CASE \E c \in Conn : Event(c)
    <3>1. PICK c \in Conn : Event(c)
      BY <2>1
    <3> QED BY <3>1, EventIs DEF Counted
  <2>2. CASE InRecyConnection
    <3>1. evConn \in Conn /\ peer[evConn] # "up"
      BY <2>2 DEF InRecyConnection, EvGo, Places, Counted
    <3> QED BY <2>2, <3>1, <1>0 DEF InRecyConnection, Counted, TypeOK
  <2>3. CASE UNCHANGED conn
    BY <2>3, <1>0 DEF Counted
  <2> QED BY <2>1, <2>2, <2>3, ConnSteps
          DEF TakeReply, Send, FinishReply, Throw, EpollOn, LowerThrowCount, WriteSend, WriteEpollOff
<1>3. ASSUME NEW c \in Conn, peer'[c] = "up"
      PROVE  thrown'[c] >= 0 /\ (epollOut'[c] => thrown'[c] >= 1)
  <2>1. peer[c] = "up" /\ thrown[c] >= 0 /\ (epollOut[c] => thrown[c] >= 1)
    BY <1>0, <1>3 DEF Counted
  <2>2. thrown \in [Conn -> Int] /\ epollOut \in [Conn -> BOOLEAN]
    BY DEF TypeOK
  <2>3. CASE UNCHANGED <<thrown, epollOut>>
    BY <2>1, <2>3
  <2>4. CASE sndPc = "finish" /\ UNCHANGED epollOut /\ thrown' = [thrown EXCEPT ![sndConn] = 0]
    <3>1. sndConn = c => ~epollOut[c]
      BY <2>1, <2>4 DEF SenderApart, Sending
    <3> QED BY <2>1, <2>2, <2>4, <3>1
  <2>5. CASE UNCHANGED epollOut /\ thrown' = [thrown EXCEPT ![sndConn] = @ + 1]
    BY <2>1, <2>2, <2>5
  <2>6. CASE sndPc = "epoll_on" /\ UNCHANGED thrown /\ epollOut' = [epollOut EXCEPT ![sndConn] = TRUE]
    <3>1. sndConn = c => thrown[c] >= 1
      BY <2>1, <2>6 DEF SenderApart, Sending
    <3> QED BY <2>1, <2>2, <2>6, <3>1
  <2>7. CASE evPc = "lower" /\ UNCHANGED epollOut /\ thrown' = [thrown EXCEPT ![evConn] = @ - 1]
    <3>1. evConn = c => thrown[c] >= 1 /\ ~epollOut[c]
      BY <2>1, <2>7 DEF WriterApart
    <3> QED BY <2>1, <2>2, <2>7, <3>1
  <2>8. CASE UNCHANGED thrown /\ epollOut' = [epollOut EXCEPT ![evConn] = FALSE]
    BY <2>1, <2>2, <2>8
  <2> QED BY <2>3, <2>4, <2>5, <2>6, <2>7, <2>8, ThrownSteps
<1> QED BY <1>1, <1>2, <1>3 DEF Counted

LEMMA NextSenderApart == Apart /\ Next => SenderApart'
<1> SUFFICES ASSUME Apart, Next, (sndPc \in Sending)', (peer[sndConn] = "up")'
             PROVE  ~epollOut'[sndConn'] /\ (sndPc' = "epoll_on" => thrown'[sndConn'] >= 1)
  BY DEF SenderApart
<1> USE DEF Apart, Sending
<1>1. sndConn' \in Conn /\ peer[sndConn'] = "up"
  BY PeerSteps, NextPlaces DEF Places
<1>2. thrown \in [Conn -> Int] /\ epollOut \in [Conn -> BOOLEAN]
  BY DEF TypeOK
<1>3. CASE UNCHANGED <<sndPc, sndConn>>
  <2>1. ~epollOut[sndConn] /\ (sndPc = "epoll_on" => thrown[sndConn] >= 1)
    BY <1>1, <1>3 DEF SenderApart
  <2>2. evPc = "lower" => evConn # sndConn
    BY <1>1, <1>3 DEF WriterApart, Busy
  <2> QED BY <1>1, <1>2, <1>3, <2>1, <2>2, ThrownSteps
<1>4. CASE TakeReply
  <2>1. sndPc' = "send" /\ thrown[sndConn'] <= 0 /\ UNCHANGED epollOut
    BY <1>4, TakeReplyIs
  <2> QED BY <1>1, <1>2, <2>1 DEF Counted
<1>5. CASE Send
  <2>1. sndPc \in Sending /\ sndPc' # "epoll_on" /\ UNCHANGED <<sndConn, epollOut>>
    BY <1>5 DEF Send
  <2> QED BY <1>1, <2>1 DEF SenderApart
<1>6. CASE Throw
  <2>1. sndPc \in Sending /\ UNCHANGED <<sndConn, epollOut>>
        /\ thrown' = [thrown EXCEPT ![sndConn] = @ + 1]
    BY <1>6 DEF Throw, SndGo
  <2>2. ~epollOut[sndConn] /\ thrown[sndConn] >= 0
    BY <1>1, <2>1 DEF SenderApart, Counted
  <2> QED BY <1>1, <1>2, <2>1, <2>2
<1> QED BY <1>3, <1>4, <1>5, <1>6, SndPcs

\* The write handler comes to its end only with everything sent, or without a
\* client to send to.
LEMMA WriteSendIs ==
    ASSUME TypeOK, Places, WriteSend
    PROVE  /\ evPc = "w_send" /\ evConn \in Conn /\ UNCHANGED evConn
           /\ evPc' \in {"epoll_wait", "w_epoll_off", "w_post"}
           /\ evPc' = "w_post" => conn[evConn] # "open" \/ peer[evConn] = "gone"
           /\ UNCHANGED <<thrown, epollOut, sndVars>>
<1> DEFINE n == SendResult(evConn)
           part == n \in 1 .. sendLength[evConn] - 1
<1>1. /\ evPc = "w_send" /\ UNCHANGED <<evConn, thrown, epollOut, sndVars>>
      /\ evPc' = IF part \/ n = -1 THEN "epoll_wait" ELSE IF n > 0 THEN "w_epoll_off" ELSE "w_post"
  BY DEF WriteSend
<1>2. evConn \in Conn /\ sendLength[evConn] \in Nat /\ sendLength[evConn] >= 1
  BY <1>1, SendAssumption DEF Places, Writing, TypeOK
<1>3. conn[evConn] = "open" /\ peer[evConn] # "gone" => n = -1 \/ n > 0
  BY <1>2, SendResultIs
<1> QED BY <1>1, <1>2, <1>3

\* As long as the event loop is writing, or has to lower the count of a client
\* that is there.
Claims == evPc \in Writing \/ (evPc = "lower" /\ peer[evConn] = "up")

LEMMA ClaimKept ==
    ASSUME Apart, Next, Claims, UNCHANGED evConn, evPc # "lower" \/ evPc' = "lower"
    PROVE  thrown'[evConn] >= 1 /\ ~Busy(evConn)'
<1> USE DEF Apart
<1>1. evConn \in Conn /\ thrown[evConn] >= 1 /\ ~Busy(evConn)
  BY DEF Claims, WriterApart, Places, Writing
<1>2. thrown \in [Conn -> Int]
  BY DEF TypeOK
<1>3. sndPc \in Sending => sndConn # evConn
  BY <1>1 DEF Busy
<1>4. thrown'[evConn] >= 1
  BY <1>1, <1>2, <1>3, ThrownSteps DEF Sending
<1>5. ~Busy(evConn)'
  <2>1. CASE UNCHANGED <<sndPc, sndConn>>
    BY <1>1, <2>1 DEF Busy
  <2>2. CASE TakeReply
    <3>1. thrown[sndConn'] <= 0 /\ sndConn' \in Conn
      BY <2>2, TakeReplyIs
    <3>2. sndConn' # evConn
      BY <3>1, <1>1, <1>2
    <3> QED BY <3>2 DEF Busy
  <2>3. CASE Send \/ Throw
    BY <1>3, <2>3 DEF Send, Throw, SndGo, Sending, Busy
  <2> QED BY <2>1, <2>2, <2>3, SndPcs DEF Busy
<1> QED BY <1>4, <1>5

LEMMA EpollKeptOff ==
    ASSUME Apart, Next, peer[evConn] = "up", evPc \in {"w_post", "w_free", "lower"},
           evPc' # "epoll_wait"
    PROVE  ~epollOut'[evConn]
<1> USE DEF Apart
<1>1. evConn \in Conn /\ ~epollOut[evConn] /\ ~Busy(evConn)
  BY DEF WriterApart, Places, Writing
<1> QED BY <1>1, ThrownSteps DEF Busy, Sending, TypeOK

LEMMA NextWriterApart == Apart /\ Next => WriterApart'
<1> SUFFICES ASSUME Apart, Next PROVE WriterApart'
  OBVIOUS
<1> USE DEF Apart
<1>0. \A c \in Conn : peer'[c] = "up" => peer[c] = "up"
  BY PeerSteps
<1>1. CASE UNCHANGED evVars
  <2>1. UNCHANGED <<evPc, evConn>> /\ (evPc # "epoll_wait" => evConn \in Conn)
    BY <1>1 DEF evVars, Places
  <2>2. Claims' => Claims
    BY <1>0, <2>1 DEF Claims, Writing
  <2>3. Claims' => thrown'[evConn'] >= 1 /\ ~Busy(evConn)'
    BY <2>1, <2>2, ClaimKept DEF Busy
  <2>4. evPc' \in {"w_post", "w_free", "lower"} /\ peer'[evConn'] = "up" => ~epollOut'[evConn']
    BY <1>0, <2>1, EpollKeptOff
  <2> QED BY <2>3, <2>4 DEF WriterApart, Claims, Busy
<1>2. CASE \E c \in Conn : Event(c)
  <2>1. PICK c \in Conn : Event(c)
    BY <1>2
  <2>2. /\ evConn' = c /\ UNCHANGED <<thrown, peer, sndPc, sndConn>>
        /\ evPc' \in {"epoll_wait", "in_recy", "lower", "w_send"}
        /\ evPc' = "w_send" => peer[c] = "up" /\ epollOut[c]
        /\ evPc' = "lower" => peer[c] # "up"
    BY <2>1, EventIs DEF connVars, sndVars
  <2>3. peer[c] = "up" /\ epollOut[c] => thrown[c] >= 1 /\ ~Busy(c)
    BY DEF Counted, SenderApart, Busy
  <2> QED BY <2>2, <2>3 DEF WriterApart, Writing, Busy
<1>3. CASE InRecyConnection
  <2>1. evPc' = evNext /\ evNext \in {"epoll_wait", "lower"} /\ evConn' = evConn
        /\ peer'[evConn] # "up"
    BY <1>0, <1>3 DEF InRecyConnection, EvGo, Places, Counted, TypeOK
  <2> QED BY <2>1 DEF WriterApart, Writing
<1>4. CASE WriteSend
  <2>1. /\ evPc = "w_send" /\ evConn \in Conn /\ UNCHANGED evConn
        /\ evPc' \in {"epoll_wait", "w_epoll_off", "w_post"}
        /\ evPc' = "w_post" => conn[evConn] # "open" \/ peer[evConn] = "gone"
    BY <1>4, WriteSendIs
  <2>2. thrown'[evConn'] >= 1 /\ ~Busy(evConn)'
    BY <2>1, ClaimKept DEF Claims, Writing, Busy
  <2>3. evPc' = "w_post" => peer'[evConn] # "up"
    BY <1>0, <2>1 DEF Counted
  <2> QED BY <2>1, <2>2, <2>3 DEF WriterApart, Writing, Busy
<1>5. CASE WriteEpollOff \/ WritePost \/ WriteFree
  <2>1. /\ evPc \in {"w_epoll_off", "w_post", "w_free"} /\ UNCHANGED evConn /\ evConn \in Conn
        /\ evPc' \in {"w_post", "w_free", "lower"}
        /\ evPc = "w_epoll_off" => epollOut' = [epollOut EXCEPT ![evConn] = FALSE]
    BY <1>5 DEF WriteEpollOff, WritePost, WriteFree, EvGo, Places
  <2>2. thrown'[evConn'] >= 1 /\ ~Busy(evConn)'
    BY <2>1, ClaimKept DEF Claims, Writing, Busy
  <2>3. peer'[evConn'] = "up" => ~epollOut'[evConn']
    <3>1. CASE evPc = "w_epoll_off"
      BY <2>1, <3>1 DEF TypeOK
    <3>2. CASE evPc # "w_epoll_off"
      BY <1>0, <2>1, <3>2, EpollKeptOff
    <3> QED BY <3>1, <3>2
  <2> QED BY <2>1, <2>2, <2>3 DEF WriterApart, Writing, Busy
<1>6. CASE LowerThrowCount /\ evPc' = "epoll_wait"
  BY <1>6 DEF WriterApart, Writing
<1> QED BY <1>1, <1>2, <1>3, <1>4, <1>5, <1>6, EvPcs

LEMMA NextApart == Apart /\ [Next]_vars => Apart'
<1>1. CASE Next
  BY <1>1, NextType, NextPlaces, NextCounted, NextSenderApart, NextWriterApart DEF Apart
<1>2. CASE UNCHANGED vars
  <2> SUFFICES ASSUME Apart PROVE Apart'
    BY <1>2
  <2>1. TypeOK' /\ Places'
    BY <1>2, NextType, NextPlaces DEF Apart
  <2> QED BY <1>2, <2>1 DEF Apart, Counted, SenderApart, WriterApart, Busy, Sending, Writing,
          vars, queueVars, connVars, peerVars, netVars, sndVars, evVars
<1> QED BY <1>1, <1>2

\* Every variable keeps its type, whatever the clients do.
THEOREM TypeCorrect == Spec => []TypeOK
<1>1. Apart => TypeOK
  BY DEF Apart
<1> QED BY <1>1, InitApart, NextApart, PTL DEF Spec

\* The two threads never work on the send fields of one connection at once,
\* whatever the clients do.
THEOREM OneSenderAlways == Spec => []OneSender
<1>1. Apart => OneSender
  BY DEF Apart, WriterApart, OneSender, Busy, Sending, Writing
<1> QED BY <1>1, InitApart, NextApart, PTL DEF Spec

-----------------------------------------------------------------------------
(* Memory.                                                                 *)

LEMMA InitFreeing == Init => Freeing
<1> SUFFICES ASSUME Init PROVE Freeing
  OBVIOUS
<1>1. ToSet(sendQueue) = {}
  BY DEF Init, ToSet
<1>2. Owned /\ Kept
  BY <1>1 DEF Init, Owned, Kept, Sending, Writing
<1> QED BY <1>2, InitApart DEF Freeing

\* Who frees what.
LEMMA FreedSteps ==
    ASSUME TypeOK, Places, Next
    PROVE  \/ UNCHANGED freed
           \/ /\ DropStale /\ Current \in ToSet(sendQueue) /\ freed' = [freed EXCEPT ![Current] = @ + 1]
              /\ ToSet(sendQueue') = ToSet(sendQueue) \ {Current} /\ sndPc = "scan" /\ sndPc' = "scan"
              /\ UNCHANGED <<connVars, dest, evVars>>
           \/ /\ FinishReply /\ sndPc = "finish" /\ sndPc' = "scan"
              /\ UNCHANGED <<sendQueue, dest, sendPkg, epollOut, evVars>>
              /\ freed' = [freed EXCEPT ![sendPkg[sndConn]] = @ + 1]
           \/ /\ WriteFree /\ evPc = "w_free" /\ evPc' = "lower"
              /\ UNCHANGED <<sendQueue, dest, connVars, sndVars>>
              /\ freed' = [freed EXCEPT ![sendPkg[evConn]] = @ + 1]
<1>1. CASE DropStale
  <2>1. /\ sndPos <= Len(sendQueue) /\ sendQueue' = RemoveAt(sendQueue, sndPos)
        /\ sndPc = "scan" /\ sndPc' = "scan" /\ UNCHANGED <<connVars, dest, evVars>>
        /\ freed' = [freed EXCEPT ![Current] = @ + 1]
    BY <1>1 DEF DropStale, FreeMemory, sndVars
  <2> QED BY <1>1, <2>1, AtCurrent
<1>2. CASE FinishReply
  BY <1>2 DEF FinishReply, SndGo, FreeMemory, queueVars
<1>3. CASE WriteFree
  BY <1>3 DEF WriteFree, EvGo, FreeMemory, queueVars
<1> QED BY <1>1, <1>2, <1>3, QueueSteps
        DEF InSendQueue, SemWait, LockQueue, UnlockQueue, TakeReply, WritePost

\* Where the send thread stands when it frees, and where the event loop does.
LEMMA ReplyFreed ==
    ASSUME Freeing, Next, NEW c \in Conn, sendPkg[c] # NoReply
    PROVE  \/ freed'[sendPkg[c]] = freed[sendPkg[c]]
           \/ sndPc = "finish" /\ sndPc' = "scan" /\ c = sndConn /\ UNCHANGED <<epollOut, evVars>>
           \/ evPc = "w_free" /\ evPc' = "lower" /\ c = evConn /\ UNCHANGED <<epollOut, sndVars>>
<1> USE DEF Freeing, Apart
<1>1. sendPkg[c] \in Reply /\ dest[sendPkg[c]] = c /\ sendPkg[c] \notin ToSet(sendQueue)
  BY DEF Owned, TypeOK
<1>2. freed \in [Reply -> Nat]
  BY DEF TypeOK
<1>3. sndPc = "finish" => /\ sndConn \in Conn /\ sendPkg[sndConn] # NoReply
                          /\ dest[sendPkg[sndConn]] = sndConn
  BY DEF Places, Sending, Owned
<1>4. evPc = "w_free" => /\ evConn \in Conn /\ sendPkg[evConn] # NoReply
                         /\ dest[sendPkg[evConn]] = evConn
  BY DEF Places, Writing, Owned
<1> QED BY <1>1, <1>2, <1>3, <1>4, FreedSteps DEF connVars

LEMMA NextOwned == Freeing /\ Next => Owned'
<1> SUFFICES ASSUME Freeing, Next PROVE Owned'
  OBVIOUS
<1> USE DEF Freeing, Apart
<1>1. ASSUME NEW r \in Reply, dest'[r] = NoConn PROVE freed'[r] = 0
  <2>1. dest[r] = NoConn
    <3>1. ASSUME NEW q \in Reply, NEW c \in Conn, InSendQueue(q, c) PROVE dest[r] = NoConn
      BY <1>1, <3>1, SendAssumption DEF InSendQueue, TypeOK
    <3> QED BY <1>1, <3>1, QueueSteps
            DEF SemWait, LockQueue, UnlockQueue, DropStale, TakeReply, FinishReply, WritePost,
                WriteFree, queueVars
  <2>2. freed[r] = 0 /\ r \notin ToSet(sendQueue)
    BY <2>1, SendAssumption DEF Owned, Places
  <2>3. /\ sndPc = "finish" => sendPkg[sndConn] # r
        /\ evPc = "w_free" => sendPkg[evConn] # r
    BY <2>1, SendAssumption DEF Places, Sending, Writing, Owned
  <2> QED BY <2>2, <2>3, FreedSteps DEF TypeOK
<1>2. ASSUME NEW c \in Conn, sendPkg'[c] # NoReply
      PROVE  dest'[sendPkg'[c]] = c /\ sendPkg'[c] \notin ToSet(sendQueue')
  <2>1. CASE TakeReply
    <3>1. /\ sndConn' = dest[Current] /\ sendPkg'[sndConn'] = Current /\ UNCHANGED dest
          /\ Current \in ToSet(sendQueue) /\ ToSet(sendQueue') = ToSet(sendQueue) \ {Current}
          /\ c # sndConn' => sendPkg'[c] = sendPkg[c]
      BY <2>1, TakeReplyIs
    <3>2. CASE c = sndConn'
      BY <3>1, <3>2
    <3>3. CASE c # sndConn'
      BY <1>2, <3>1, <3>3 DEF Owned
    <3> QED BY <3>2, <3>3
  <2>2. CASE UNCHANGED sendPkg
    <3>1. sendPkg[c] \in Reply /\ dest[sendPkg[c]] = c /\ sendPkg[c] \notin ToSet(sendQueue)
      BY <1>2, <2>2 DEF Owned, TypeOK
    <3>2. CASE \E q \in Reply, d \in Conn : InSendQueue(q, d)
      <4>1. PICK q \in Reply, d \in Conn : InSendQueue(q, d)
        BY <3>2
      <4>2. dest[q] = NoConn /\ dest' = [dest EXCEPT ![q] = d] /\ sendQueue' = Append(sendQueue, q)
        BY <4>1 DEF InSendQueue
      <4>3. ToSet(sendQueue') = ToSet(sendQueue) \cup {q} /\ q # sendPkg[c]
        BY <3>1, <4>2, AtAppend, SendAssumption
      <4> QED BY <2>2, <3>1, <4>2, <4>3 DEF TypeOK
    <3>3. CASE UNCHANGED dest /\ ToSet(sendQueue') \subseteq ToSet(sendQueue)
      BY <2>2, <3>1, <3>3
    <3>4. DropStale => UNCHANGED dest /\ ToSet(sendQueue') \subseteq ToSet(sendQueue)
      BY AtCurrent DEF DropStale
    <3>5. TakeReply => UNCHANGED dest /\ ToSet(sendQueue') \subseteq ToSet(sendQueue)
      BY TakeReplyIs
    <3> QED BY <3>2, <3>3, <3>4, <3>5, QueueSteps
            DEF SemWait, LockQueue, UnlockQueue, FinishReply, WritePost, WriteFree, queueVars
  <2> QED BY <2>1, <2>2, SendPkgSteps
<1> QED BY <1>1, <1>2 DEF Owned

\* A reply is freed once: what is freed was not freed before.
LEMMA FreedOnce ==
    ASSUME Freeing, Next
    PROVE  /\ \A r \in Reply : freed'[r] <= 1
           /\ \A r \in ToSet(sendQueue') : freed'[r] = 0
<1> USE DEF Freeing, Apart
<1>0. freed \in [Reply -> Nat] /\ ToSet(sendQueue) \subseteq Reply
  BY QueuedIsReply DEF TypeOK
<1>1. /\ sndPc = "finish" => freed[sendPkg[sndConn]] = 0 /\ sendPkg[sndConn] \notin ToSet(sendQueue)
      /\ evPc = "w_free" => freed[sendPkg[evConn]] = 0 /\ sendPkg[evConn] \notin ToSet(sendQueue)
  BY DEF Kept, Sending, Writing, Places, Owned
<1>2. \A r \in Reply : freed'[r] <= 1
  BY <1>0, <1>1, FreedSteps DEF Kept
<1>3. \A r \in ToSet(sendQueue') : freed'[r] = 0
  <2>1. CASE \E q \in Reply, d \in Conn : InSendQueue(q, d)
    <3>1. PICK q \in Reply, d \in Conn : InSendQueue(q, d)
      BY <2>1
    <3>2. dest[q] = NoConn /\ sendQueue' = Append(sendQueue, q) /\ UNCHANGED freed
      BY <3>1 DEF InSendQueue
    <3>3. ToSet(sendQueue') = ToSet(sendQueue) \cup {q}
      BY <3>2, AtAppend
    <3> QED BY <3>2, <3>3 DEF Owned, Kept
  <2>2. CASE TakeReply
    BY <2>2, TakeReplyIs DEF Kept
  <2>3. CASE DropStale
    <3>1. freed' = [freed EXCEPT ![Current] = @ + 1]
      BY <2>3 DEF DropStale, FreeMemory
    <3>2. ToSet(sendQueue') = ToSet(sendQueue) \ {Current}
      BY <2>3, AtCurrent DEF DropStale
    <3> QED BY <1>0, <3>1, <3>2 DEF Kept
  <2>4. CASE UNCHANGED sendQueue /\ ~DropStale
    BY <1>0, <1>1, <2>4, FreedSteps DEF Kept
  <2> QED BY <2>1, <2>2, <2>3, <2>4, QueueSteps
          DEF SemWait, LockQueue, UnlockQueue, FinishReply, WritePost, WriteFree, queueVars
<1> QED BY <1>2, <1>3

LEMMA NextKept == Freeing /\ Next => Kept'
<1> SUFFICES ASSUME Freeing, Next PROVE Kept'
  OBVIOUS
<1> USE DEF Freeing, Apart
<1>1. sndPc' \in Sending => freed'[sendPkg'[sndConn']] = 0
  <2>1. CASE TakeReply
    BY <2>1, TakeReplyIs DEF Kept
  <2>2. ASSUME sndPc \in Sending, UNCHANGED <<sndConn, sendPkg>>, sndPc' \in Sending
        PROVE  freed'[sendPkg'[sndConn']] = 0
    <3>1. sndConn \in Conn /\ sendPkg[sndConn] # NoReply /\ freed[sendPkg[sndConn]] = 0
      BY <2>2 DEF Places, Kept
    <3>2. evPc = "w_free" => evConn # sndConn
      BY <2>2 DEF WriterApart, Busy, Writing
    <3> QED BY <2>2, <3>1, <3>2, ReplyFreed DEF Sending
  <2>3. CASE ~TakeReply
    BY <2>2, <2>3, SndPcs, SendPkgSteps DEF Send, Throw, SndGo, Sending
  <2> QED BY <2>1, <2>3
<1>2. evPc' \in Writing => freed'[sendPkg'[evConn']] = 0
  <2>1. CASE \E c \in Conn : Event(c)
    <3>1. PICK c \in Conn : Event(c)
      BY <2>1
    <3> QED BY <3>1, EventIs DEF Kept, Writing, connVars
  <2>2. ASSUME evPc \in Writing, UNCHANGED evConn, evPc' \in Writing
        PROVE  freed'[sendPkg'[evConn']] = 0
    <3>1. /\ evConn \in Conn /\ sendPkg[evConn] # NoReply /\ freed[sendPkg[evConn]] = 0
          /\ thrown[evConn] >= 1 /\ ~Busy(evConn)
      BY <2>2 DEF Places, Kept, WriterApart, Writing
    <3>2. freed'[sendPkg[evConn]] = 0
      BY <2>2, <3>1, ReplyFreed DEF Busy, Sending, Writing
    <3>3. sendPkg'[evConn] = sendPkg[evConn]
      <4>1. CASE TakeReply
        <5>1. sndConn' \in Conn /\ thrown[sndConn'] <= 0
          BY <4>1, TakeReplyIs
        <5>2. evConn # sndConn'
          BY <3>1, <5>1 DEF TypeOK
        <5> QED BY <3>1, <4>1, <5>2, TakeReplyIs
      <4> QED BY <4>1, SendPkgSteps
    <3> QED BY <2>2, <3>2, <3>3
  <2>3. ~(\E c \in Conn : Event(c)) /\ evPc' \in Writing => evPc \in Writing /\ UNCHANGED evConn
    <3>1. InRecyConnection => evPc' \notin Writing
      BY DEF InRecyConnection, EvGo, Places, TypeOK, Writing
    <3> QED BY <3>1, EvPcs DEF WriteSend, WriteEpollOff, WritePost, WriteFree, EvGo, Writing, evVars
  <2> QED BY <2>1, <2>2, <2>3
<1>3. ASSUME NEW c \in Conn, epollOut'[c], peer'[c] = "up"
      PROVE  freed'[sendPkg'[c]] = 0
  <2>1. peer[c] = "up"
    BY <1>3, PeerSteps
  <2>2. CASE TakeReply
    <3>1. UNCHANGED <<epollOut, freed>> /\ sndConn' \in Conn /\ thrown[sndConn'] <= 0
      BY <2>2, TakeReplyIs
    <3>2. c # sndConn'
      BY <1>3, <2>1, <3>1 DEF Counted, TypeOK
    <3> QED BY <1>3, <2>1, <2>2, <3>1, <3>2, TakeReplyIs DEF Kept
  <2>3. CASE UNCHANGED sendPkg
    <3>1. epollOut[c] \/ (EpollOn /\ sndPc = "epoll_on" /\ c = sndConn)
      BY <1>3, ThrownSteps DEF TypeOK
    <3>2. CASE epollOut[c]
      <4>1. sendPkg[c] # NoReply /\ freed[sendPkg[c]] = 0
        BY <2>1, <3>2 DEF Places, Kept
      <4>2. sndPc = "finish" => c # sndConn
        BY <2>1, <3>2 DEF SenderApart, Sending
      <4>3. evPc = "w_free" => c # evConn
        BY <2>1, <3>2 DEF WriterApart
      <4> QED BY <2>3, <4>1, <4>2, <4>3, ReplyFreed
    <3>3. CASE EpollOn /\ sndPc = "epoll_on" /\ c = sndConn
      <4>1. freed[sendPkg[c]] = 0 /\ UNCHANGED freed
        BY <3>3 DEF Kept, Sending, EpollOn
      <4> QED BY <2>3, <4>1
    <3> QED BY <3>1, <3>2, <3>3
  <2> QED BY <2>2, <2>3, SendPkgSteps
<1> QED BY <1>1, <1>2, <1>3, FreedOnce DEF Kept

LEMMA NextFreeing == Freeing /\ [Next]_vars => Freeing'
<1>1. CASE Next
  BY <1>1, NextApart, NextOwned, NextKept DEF Freeing
<1>2. CASE UNCHANGED vars
  <2>1. Owned /\ Kept => Owned' /\ Kept'
    BY <1>2 DEF Owned, Kept, Sending, Writing, vars, queueVars, connVars, peerVars, sndVars, evVars
  <2> QED BY <1>2, <2>1, NextApart DEF Freeing
<1> QED BY <1>1, <1>2

\* A reply is freed at most once, and not while it is queued or about to be
\* sent from, whatever the clients do.
THEOREM FreedWhenDoneAlways == Spec => []FreedWhenDone
<1>1. Freeing => FreedWhenDone
  BY DEF Freeing, Kept, FreedWhenDone, Sending, Writing
<1> QED BY <1>1, InitFreeing, NextFreeing, PTL DEF Spec

-----------------------------------------------------------------------------
(* What arrives.                                                           *)

\* A piece put behind the bytes it continues.
LEMMA AppendPiece ==
    ASSUME NEW w \in Seq(ByteOfReply), NEW r \in Reply, NEW done \in Nat, NEW n \in Nat \ {0},
           done + n <= ReplyLength, IsInjective(w), Whole(w), EndsAt(w, r, done)
    PROVE  LET v == w \o Piece(r, done, n) IN
           /\ IsInjective(v) /\ Whole(v)
           /\ EndsAt(v, r, done + n)
           /\ Len(v) = Len(w) + n
           /\ \A i \in 1 .. Len(v) : v[i] = IF i <= Len(w) THEN w[i] ELSE <<r, done + (i - Len(w))>>
<1> DEFINE p == Piece(r, done, n)
           v == w \o p
           L == Len(w)
<1>1. /\ p \in Seq(ByteOfReply) /\ Len(p) = n
      /\ \A k \in 1 .. n : p[k] = <<r, done + k>>
  BY PieceProperties
<1> HIDE DEF p
<1>2. /\ v \in Seq(ByteOfReply) /\ Len(v) = L + n
      /\ \A i \in 1 .. L + n : v[i] = IF i <= L THEN w[i] ELSE p[i - L]
  BY <1>1, ConcatProperties
<1>3. L \in Nat /\ DOMAIN v = 1 .. L + n /\ DOMAIN w = 1 .. L
  BY <1>2, LenProperties
<1> HIDE DEF v
<1>4. \A i \in 1 .. L + n : v[i] = IF i <= L THEN w[i] ELSE <<r, done + (i - L)>>
  <2> SUFFICES ASSUME NEW i \in 1 .. L + n
               PROVE  v[i] = IF i <= L THEN w[i] ELSE <<r, done + (i - L)>>
    OBVIOUS
  <2>1. CASE i <= L
    BY <1>2, <2>1
  <2>2. CASE ~(i <= L)
    <3>1. i - L \in 1 .. n
      BY <1>3, <2>2
    <3> QED BY <1>1, <1>2, <2>2, <3>1
  <2> QED BY <2>1, <2>2
<1> HIDE DEF L
<1>5. /\ \A i \in 1 .. L : w[i][1] = r => w[i][2] <= done
      /\ done = 0 => (L # 0 => w[L][2] = ReplyLength)
      /\ done # 0 => L # 0 /\ w[L] = <<r, done>>
  <2>1. w = <<>> <=> L = 0
    BY EmptySeq DEF L
  <2> QED BY <2>1 DEF EndsAt, EndsReply, L
<1>6. IsInjective(v)
  <2> SUFFICES ASSUME NEW i \in 1 .. L + n, NEW j \in 1 .. L + n, v[i] = v[j], i < j
               PROVE  FALSE
    BY <1>3 DEF IsInjective
  <2>1. CASE j <= L
    <3>1. i \in 1 .. L /\ j \in 1 .. L /\ w[i] = w[j]
      BY <1>3, <1>4, <2>1
    <3> QED BY <1>3, <3>1 DEF IsInjective
  <2>2. CASE i <= L /\ ~(j <= L)
    <3>1. /\ i \in 1 .. L /\ v[i] = w[i] /\ v[j] = <<r, done + (j - L)>>
          /\ done + (j - L) \in Int /\ done + (j - L) > done
      BY <1>3, <1>4, <2>2
    <3>2. w[i] = <<r, done + (j - L)>>
      BY <2>2, <3>1
    <3>3. w[i][1] = r /\ w[i][2] = done + (j - L)
      BY <3>2
    <3> QED BY <1>3, <1>5, <3>1, <3>3
  <2>3. CASE ~(i <= L)
    <3>1. <<r, done + (i - L)>> = <<r, done + (j - L)>>
      BY <1>3, <1>4, <2>3
    <3>2. done + (i - L) = done + (j - L)
      BY <3>1
    <3> QED BY <1>3, <3>2
  <2> QED BY <2>1, <2>2, <2>3
<1>7. Whole(v)
  <2> SUFFICES ASSUME NEW i \in 1 .. L + n
               PROVE  IF v[i][2] > 1 THEN i > 1 /\ v[i - 1] = <<v[i][1], v[i][2] - 1>>
                      ELSE i > 1 => v[i - 1][2] = ReplyLength
    BY <1>2 DEF Whole
  <2>1. CASE i <= L
    <3>1. i \in 1 .. L /\ v[i] = w[i] /\ (i > 1 => v[i - 1] = w[i - 1])
      BY <1>3, <1>4, <2>1
    <3> QED BY <3>1 DEF Whole, L
  <2>2. CASE i = L + 1
    <3>1. v[i] = <<r, done + 1>> /\ (i > 1 => v[i - 1] = w[L]) /\ (i > 1 <=> L # 0)
      BY <1>3, <1>4, <2>2
    <3>2. v[i][1] = r /\ v[i][2] = done + 1
      BY <3>1
    <3> QED BY <1>5, <3>1, <3>2
  <2>3. CASE i > L + 1
    <3>1. v[i] = <<r, done + (i - L)>> /\ v[i - 1] = <<r, done + ((i - 1) - L)>>
      BY <1>3, <1>4, <2>3
    <3>2. v[i][1] = r /\ v[i][2] = done + (i - L) /\ done + ((i - 1) - L) = v[i][2] - 1
      BY <1>3, <3>1
    <3> QED BY <1>3, <2>3, <3>1, <3>2
  <2> QED BY <1>3, <2>1, <2>2, <2>3
<1>8. EndsAt(v, r, done + n)
  <2>1. ASSUME NEW i \in 1 .. L + n, v[i][1] = r PROVE v[i][2] <= done + n
    <3>1. CASE i <= L
      <4>1. i \in 1 .. L /\ w[i][1] = r /\ v[i][2] = w[i][2]
        BY <1>3, <1>4, <2>1, <3>1
      <4>2. w[i] \in ByteOfReply
        BY <4>1, ElementOfSeq DEF L
      <4>3. w[i][2] \in Nat
        BY <4>2, SendAssumption DEF ByteOfReply
      <4> QED BY <1>5, <4>1, <4>3
    <3>2. CASE ~(i <= L)
      <4>1. v[i] = <<r, done + (i - L)>>
        BY <1>4, <3>2
      <4>2. v[i][2] = done + (i - L)
        BY <4>1
      <4> QED BY <1>3, <4>2
    <3> QED BY <3>1, <3>2
  <2>2. v # <<>> /\ v[Len(v)] = <<r, done + n>>
    <3>1. L + n \in 1 .. L + n /\ ~(L + n <= L) /\ (L + n) - L = n
      BY <1>3
    <3>2. v[L + n] = <<r, done + n>>
      BY <1>4, <3>1
    <3>3. v # <<>>
      BY <1>2, <1>3, EmptySeq
    <3> QED BY <1>2, <3>2, <3>3
  <2> QED BY <1>2, <2>1, <2>2 DEF EndsAt
<1> QED BY <1>2, <1>4, <1>6, <1>7, <1>8 DEF v, p, L

\* A connection's send() keeps its bytes in order.
LEMMA SendsKeeps ==
    ASSUME TypeOK, Places, NEW c \in Conn, Sends(c), peer[c] # "fin",
           conn[c] # "open" => peer[c] # "up", sendPkg[c] # NoReply,
           IsInjective(wire[c]), Whole(wire[c]),
           peer[c] = "up" => EndsAt(wire[c], sendPkg[c], ReplyLength - sendLength[c])
    PROVE  LET n == SendResult(c) IN
           /\ IsInjective(wire'[c]) /\ Whole(wire'[c])
           /\ \A i \in 1 .. Len(wire'[c]) :
                 (i \in 1 .. Len(wire[c]) /\ wire'[c][i] = wire[c][i]) \/ wire'[c][i][1] = sendPkg[c]
           /\ \A d \in Conn : d # c => wire'[d] = wire[d] /\ sendLength'[d] = sendLength[d]
           /\ peer[c] = "up" =>
                 IF n = -1 \/ n \in 1 .. sendLength[c] - 1
                 THEN EndsAt(wire'[c], sendPkg[c], ReplyLength - sendLength'[c])
                 ELSE n > 0 /\ EndsReply(wire'[c])
<1> DEFINE n == SendResult(c)
           w == wire[c]
           done == ReplyLength - sendLength[c]
<1>1. /\ sendLength[c] \in 0 .. ReplyLength /\ sendLength[c] >= 1 /\ ReplyLength \in Nat
      /\ sendPkg[c] \in Reply /\ done \in Nat /\ w \in Seq(ByteOfReply)
      /\ wire \in [Conn -> Seq(ByteOfReply)] /\ sendLength \in [Conn -> 0 .. ReplyLength]
  <2>1. /\ sendLength \in [Conn -> 0 .. ReplyLength] /\ wire \in [Conn -> Seq(ByteOfReply)]
        /\ sendPkg \in [Conn -> Reply \cup {NoReply}] /\ ReplyLength \in Nat
    BY SendAssumption DEF TypeOK
  <2>2. sendLength[c] >= 1
    BY DEF Places
  <2> QED BY <2>1, <2>2
<1>2. /\ n \in Int
      /\ n > 0 => n <= sendLength[c] /\ n <= Capacity - inKernel[c] /\ peer[c] = "up"
      /\ peer[c] = "up" => n = -1 \/ n > 0
  <2>1. peer[c] \in {"up", "gone"} /\ (peer[c] = "up" => conn[c] = "open")
    BY DEF TypeOK
  <2> QED BY <2>1, <1>1, SendResultIs
<1>3. /\ IF n > 0 THEN Transmit(c, n) ELSE UNCHANGED netVars
      /\ IF n \in 1 .. sendLength[c] - 1
         THEN sendLength' = [sendLength EXCEPT ![c] = @ - n]
         ELSE UNCHANGED sendLength
  BY DEF Sends
<1>4. \A d \in Conn : d # c => sendLength'[d] = sendLength[d]
  BY <1>1, <1>3
<1> HIDE DEF n
<1>5. CASE ~(n > 0)
  <2>1. UNCHANGED wire
    BY <1>3, <1>5 DEF netVars
  <2>2. peer[c] = "up" => n = -1 /\ UNCHANGED sendLength
    BY <1>2, <1>3, <1>5
  <2> QED BY <1>4, <2>1, <2>2 DEF n
<1>6. CASE n > 0
  <2>1. n \in Nat \ {0} /\ Transmit(c, n) /\ done + n <= ReplyLength /\ peer[c] = "up"
    BY <1>1, <1>2, <1>3, <1>6
  <2>2. wire' = [wire EXCEPT ![c] = @ \o Piece(sendPkg[c], done, n)]
    BY <1>2, <1>6, <2>1, TransmitIs
  <2>3. wire'[c] = w \o Piece(sendPkg[c], done, n) /\ \A d \in Conn : d # c => wire'[d] = wire[d]
    BY <1>1, <2>2
  <2>4. EndsAt(w, sendPkg[c], done) /\ IsInjective(w) /\ Whole(w)
    BY <2>1
  <2> HIDE DEF done, w
  <2>5. /\ IsInjective(wire'[c]) /\ Whole(wire'[c]) /\ EndsAt(wire'[c], sendPkg[c], done + n)
        /\ Len(wire'[c]) = Len(w) + n
        /\ \A i \in 1 .. Len(wire'[c]) :
              wire'[c][i] = IF i <= Len(w) THEN w[i] ELSE <<sendPkg[c], done + (i - Len(w))>>
    BY <1>1, <2>1, <2>3, <2>4, AppendPiece
  <2>6. ASSUME NEW i \in 1 .. Len(wire'[c])
        PROVE  (i \in 1 .. Len(w) /\ wire'[c][i] = w[i]) \/ wire'[c][i][1] = sendPkg[c]
    <3>1. CASE i <= Len(w)
      <4>1. i \in 1 .. Len(w)
        BY <3>1, <1>1, LenProperties
      <4> QED BY <2>5, <3>1, <4>1
    <3>2. CASE ~(i <= Len(w))
      <4>1. wire'[c][i] = <<sendPkg[c], done + (i - Len(w))>>
        BY <2>5, <3>2
      <4> QED BY <4>1
    <3> QED BY <3>1, <3>2
  <2>7. CASE n \in 1 .. sendLength[c] - 1
    <3>1. ReplyLength - sendLength'[c] = done + n
      BY <1>1, <1>3, <2>7 DEF done
    <3> QED BY <1>4, <2>3, <2>5, <2>6, <2>7, <3>1 DEF n, w
  <2>8. CASE n \notin 1 .. sendLength[c] - 1
    <3>1. done + n = ReplyLength /\ done + n # 0
      BY <1>1, <1>2, <1>6, <2>8 DEF done
    <3>2. wire'[c][Len(wire'[c])] = <<sendPkg[c], ReplyLength>>
      BY <2>5, <3>1 DEF EndsAt
    <3>3. EndsReply(wire'[c])
      BY <3>2 DEF EndsReply
    <3>4. n # -1
      BY <1>6
    <3> QED BY <1>4, <1>6, <2>3, <2>5, <2>6, <2>8, <3>3, <3>4 DEF n, w
  <2> QED BY <2>7, <2>8
<1> QED BY <1>5, <1>6

\* Besides taking and sending, no step touches what has been sent, or whether
\* there is more of it to come.
LEMMA Between ==
    ASSUME Freeing, Next, ~TakeReply, ~Send, ~WriteSend
    PROVE  /\ UNCHANGED <<wire, sendPkg, sendLength>>
           /\ sndPc' # "killed" => sndPc # "killed"
           /\ sndPc' # "killed" => \A c \in Conn : peer[c] = "up" => (Partly(c)' <=> Partly(c))
<1> USE DEF Freeing, Apart
<1>1. UNCHANGED <<sendPkg, sendLength>>
  BY ConnSteps DEF FinishReply, Throw, EpollOn, Event, InRecyConnection, LowerThrowCount,
                   WriteEpollOff, connVars
<1>2. UNCHANGED wire
  BY NetSteps DEF Event, ClientReads, ClientLeaves, netVars
<1>4. sndPc' # "killed" => sndPc # "killed" /\ ~SigPipe
  BY DEF Next, Sender, EventLoop, SemWait, SigPipe, Look, LockQueue, UnlockQueue, DropStale,
         SkipThrown, FinishReply, Throw, EpollOn, SndGo, InSendQueue, ClientReads, ClientLeaves,
         sndVars
<1>3. ASSUME NEW c \in Conn, peer[c] = "up", ~SigPipe PROVE Partly(c)' <=> Partly(c)
  <2>1. CASE UNCHANGED <<sndPc, sndConn, epollOut>> /\ ~WriteEpollOff
    <3>1. evPc' = "w_epoll_off" /\ evConn' = c <=> evPc = "w_epoll_off" /\ evConn = c
      <4>1. CASE \E d \in Conn : Event(d)
        BY <4>1, EventIs
      <4>2. InRecyConnection => evPc = "in_recy" /\ evPc' # "w_epoll_off"
        BY DEF InRecyConnection, EvGo, TypeOK
      <4> QED BY <2>1, <4>1, <4>2, EvPcs DEF WritePost, WriteFree, LowerThrowCount, EvGo, evVars
    <3> QED BY <2>1, <3>1 DEF Partly
  <2>2. CASE Throw
    BY <2>2 DEF Throw, SndGo, Partly, evVars
  <2>3. CASE FinishReply
    BY <2>3 DEF FinishReply, SndGo, Partly, evVars
  <2>4. CASE EpollOn
    <3>1. /\ sndPc = "epoll_on" /\ sndPc' = "scan" /\ sndConn \in Conn /\ UNCHANGED evVars
          /\ epollOut' = [epollOut EXCEPT ![sndConn] = TRUE]
      BY <2>4 DEF EpollOn, SndGo, Places, Sending
    <3>2. ~(evPc = "w_epoll_off" /\ evConn = sndConn)
      BY <3>1 DEF WriterApart, Busy, Sending, Writing
    <3> QED BY <3>1, <3>2 DEF Partly, evVars, TypeOK
  <2>5. CASE WriteEpollOff
    <3>1. /\ evPc = "w_epoll_off" /\ evPc' = "w_post" /\ evConn \in Conn
          /\ UNCHANGED <<sndVars, evConn>>
          /\ epollOut' = [epollOut EXCEPT ![evConn] = FALSE]
      BY <2>5 DEF WriteEpollOff, EvGo, Places
    <3>2. ~(sndPc \in Sending /\ sndConn = evConn)
      BY <3>1 DEF WriterApart, Busy, Writing
    <3> QED BY <3>1, <3>2 DEF Partly, sndVars, Sending, TypeOK
  <2>6. CASE sndPc \notin Sending /\ sndPc' \notin Sending /\ UNCHANGED <<epollOut, evVars>>
    BY <2>6 DEF Partly, Sending, evVars
  <2>7. \/ UNCHANGED <<sndPc, sndConn, epollOut>> \/ Throw \/ FinishReply \/ EpollOn \/ WriteEpollOff
        \/ sndPc \notin Sending /\ sndPc' \notin Sending /\ UNCHANGED <<epollOut, evVars>>
    BY <1>3 DEF Next, Sender, EventLoop, SemWait, Look, LockQueue, UnlockQueue,
           DropStale, SkipThrown, SndGo, Sending, Event, InRecyConnection, LowerThrowCount,
           WritePost, WriteFree, InSendQueue, ClientReads, ClientLeaves, connVars, sndVars
  <2> QED BY <2>1, <2>2, <2>3, <2>4, <2>5, <2>6, <2>7
<1> QED BY <1>1, <1>2, <1>3, <1>4

\* Both kinds of send(), the send thread's and the event loop's.
LEMMA SendKeepsSent ==
    ASSUME Freeing, Sent, Next, Send \/ WriteSend
    PROVE  /\ \A c \in Conn : IsInjective(wire'[c]) /\ Whole(wire'[c]) /\ Untaken(c)'
           /\ \A c \in Conn : peer[c] = "up" => Located(c)'
<1> USE DEF Freeing, Apart
<1>0. Places
  OBVIOUS
<1> HIDE DEF Freeing, Apart
<1>1. PICK c \in Conn : Sends(c) /\ ((Send /\ c = sndConn) \/ (WriteSend /\ c = evConn))
  BY <1>0, SendSteps
<1> USE DEF Freeing, Apart
<1> DEFINE n == SendResult(c)
           more == n = -1 \/ n \in 1 .. sendLength[c] - 1
<1>2. UNCHANGED <<sendPkg, epollOut, sendQueue, dest, sndConn, evConn>>
  BY <1>1 DEF Send, WriteSend, queueVars, sndVars, evVars
<1>3. /\ sendPkg[c] # NoReply /\ dest[sendPkg[c]] = c /\ sendPkg[c] \notin ToSet(sendQueue)
      /\ conn[c] # "open" => peer[c] # "up"
      /\ peer[c] # "fin" /\ IsInjective(wire[c]) /\ Whole(wire[c]) /\ Untaken(c)
  <2>1. sendPkg[c] # NoReply
    BY <1>1 DEF Send, WriteSend, Places, Sending, Writing
  <2> QED BY <2>1 DEF Owned, Counted, Sent
<1>4. peer[c] = "up" => Partly(c)
  <2>1. CASE Send /\ c = sndConn
    BY <2>1 DEF Send, Partly
  <2>2. CASE WriteSend /\ c = evConn
    BY <2>2 DEF WriteSend, Partly, Sent
  <2> QED BY <1>1, <2>1, <2>2
<1>13. sndPc # "killed"
  <2>1. Send => sndPc = "send"
    BY DEF Send
  <2>2. WriteSend => evPc = "w_send" /\ evPc' \in {"epoll_wait", "w_epoll_off", "w_post"}
    BY DEF WriteSend
  <2>3. sndPc = "killed" => UNCHANGED evPc
    BY DEF Next, Sender, EventLoop, SemWait, SigPipe, Look, LockQueue, UnlockQueue, DropStale,
           SkipThrown, TakeReply, Send, FinishReply, Throw, EpollOn, SndGo, InSendQueue,
           ClientReads, ClientLeaves, evVars
  <2> QED BY <2>1, <2>2, <2>3
<1>5. peer[c] = "up" => EndsAt(wire[c], sendPkg[c], ReplyLength - sendLength[c])
  BY <1>13, <1>4 DEF Sent, Located
<1>6. /\ IsInjective(wire'[c]) /\ Whole(wire'[c])
      /\ \A i \in 1 .. Len(wire'[c]) :
            (i \in 1 .. Len(wire[c]) /\ wire'[c][i] = wire[c][i]) \/ wire'[c][i][1] = sendPkg[c]
      /\ \A d \in Conn : d # c => wire'[d] = wire[d] /\ sendLength'[d] = sendLength[d]
      /\ peer[c] = "up" =>
            IF more THEN EndsAt(wire'[c], sendPkg[c], ReplyLength - sendLength'[c])
            ELSE n > 0 /\ EndsReply(wire'[c])
  BY <1>1, <1>3, <1>5, SendsKeeps
<1>7. n \in Int
  BY <1>1, SendResultIs
<1> HIDE DEF n
<1>8. peer[c] = "up" => (Partly(c)' <=> more)
  <2>1. CASE Send /\ c = sndConn
    <3>1. sndPc' = (IF more THEN "throw" ELSE "finish") /\ sndPc = "send"
          /\ UNCHANGED <<sndConn, epollOut, evVars>>
      BY <2>1 DEF Send, n
    <3>2. peer[c] = "up" => ~epollOut[c]
      BY <2>1, <3>1 DEF SenderApart, Sending
    <3> QED BY <2>1, <3>1, <3>2 DEF Partly
  <2>2. CASE WriteSend /\ c = evConn
    <3>1. /\ evPc = "w_send" /\ UNCHANGED <<evConn, epollOut, sndVars>>
          /\ evPc' = IF more THEN "epoll_wait" ELSE IF n > 0 THEN "w_epoll_off" ELSE "w_post"
      BY <2>2 DEF WriteSend, n
    <3>2. ~(sndPc \in Sending /\ sndConn = c) /\ (peer[c] = "up" => epollOut[c])
      BY <2>2, <3>1 DEF WriterApart, Busy, Writing, Sent
    <3>3. peer[c] = "up" /\ ~more => n > 0
      BY <1>6
    <3> QED BY <2>2, <3>1, <3>2, <3>3 DEF Partly, sndVars, Sending
  <2> QED BY <1>1, <2>1, <2>2
<1>9. Untaken(c)'
  BY <1>2, <1>3, <1>6 DEF Untaken
<1>10. ASSUME NEW d \in Conn, d # c PROVE Partly(d)' <=> Partly(d)
  BY <1>1, <1>2, <1>10 DEF Partly, Send, WriteSend, sndVars, evVars
<1>11. ASSUME NEW d \in Conn, d # c
       PROVE  /\ IsInjective(wire'[d]) /\ Whole(wire'[d]) /\ Untaken(d)'
              /\ peer[d] = "up" => Located(d)'
  BY <1>13, <1>2, <1>6, <1>10, <1>11 DEF Sent, Untaken, Located
<1>12. peer[c] = "up" => Located(c)'
  BY <1>2, <1>6, <1>8 DEF Located
<1> QED BY <1>6, <1>9, <1>11, <1>12

LEMMA NextSent == "fin" \notin Departures /\ Freeing /\ Sent /\ Next => Sent'
<1> SUFFICES ASSUME "fin" \notin Departures, Freeing, Sent, Next PROVE Sent'
  OBVIOUS
<1> USE DEF Freeing, Apart
<1>1. \A c \in Conn : peer'[c] # "fin"
  <2>1. ASSUME NEW d \in Conn, NEW how \in Departures, ClientLeaves(d, how)
        PROVE  \A c \in Conn : peer'[c] # "fin"
    BY <2>1 DEF ClientLeaves, Sent, TypeOK
  <2> QED BY <2>1, NetSteps DEF peerVars, Send, WriteSend, Event, ClientReads, Sent
<1>2. \A c \in Conn : peer'[c] = "up" => peer[c] = "up"
  BY PeerSteps
<1>3. evPc' = "w_send" /\ peer'[evConn'] = "up" => epollOut'[evConn']
  <2>1. CASE \E c \in Conn : Event(c)
    BY <2>1, EventIs DEF connVars
  <2>2. CASE UNCHANGED evVars
    <3>1. evPc = "w_send" => evConn \in Conn
      BY DEF Places
    <3>2. evPc = "w_send" /\ peer[evConn] = "up" => epollOut[evConn]
      BY DEF Sent
    <3> QED BY <1>2, <2>2, <3>1, <3>2, ThrownSteps DEF evVars, TypeOK
  <2>3. InRecyConnection \/ WriteSend \/ WriteEpollOff \/ WritePost \/ WriteFree => evPc' # "w_send"
    BY WriteSendIs DEF InRecyConnection, WriteEpollOff, WritePost, WriteFree, EvGo, Places
  <2> QED BY <2>1, <2>2, <2>3, EvPcs
<1>4. CASE Send \/ WriteSend
  BY <1>1, <1>2, <1>3, <1>4, SendKeepsSent DEF Sent
<1>5. CASE TakeReply
  <2>1. /\ sndConn' \in Conn /\ sndConn' = dest[Current] /\ thrown[sndConn'] <= 0
        /\ Current \in ToSet(sendQueue) /\ ToSet(sendQueue') = ToSet(sendQueue) \ {Current}
        /\ sendPkg'[sndConn'] = Current /\ sendLength'[sndConn'] = ReplyLength
        /\ \A c \in Conn : c # sndConn' => sendPkg'[c] = sendPkg[c] /\ sendLength'[c] = sendLength[c]
        /\ UNCHANGED <<dest, epollOut, wire, evVars>> /\ sndPc = "scan" /\ sndPc' = "send"
    BY <1>5, TakeReplyIs DEF netVars
  <2>2. \A c \in Conn : Untaken(c)'
    BY <2>1 DEF Sent, Untaken
  <2>3. ASSUME NEW c \in Conn, peer[c] = "up", c # sndConn' PROVE Located(c)'
    <3>1. Partly(c)' <=> Partly(c)
      BY <2>1, <2>3 DEF Partly, evVars
    <3> QED BY <2>1, <2>3, <3>1 DEF Sent, Located
  <2>4. peer[sndConn'] = "up" => Located(sndConn)'
    <3>1. SUFFICES ASSUME peer[sndConn'] = "up" PROVE Located(sndConn)'
      OBVIOUS
    <3>2. ~epollOut[sndConn']
      BY <2>1, <3>1 DEF Counted, TypeOK
    <3>3. ~Partly(sndConn') /\ Partly(sndConn)'
      BY <2>1, <3>2 DEF Partly
    <3>4. EndsReply(wire[sndConn']) /\ Untaken(sndConn')
      BY <2>1, <3>1, <3>3 DEF Sent, Located
    <3>5. EndsAt(wire[sndConn'], Current, 0)
      BY <2>1, <3>4 DEF EndsAt, Untaken
    <3>6. ReplyLength - sendLength'[sndConn'] = 0
      BY <2>1, SendAssumption
    <3> QED BY <2>1, <3>3, <3>5, <3>6 DEF Located
  <2>5. \A c \in Conn : peer'[c] = "up" => Located(c)'
    BY <1>2, <2>3, <2>4
  <2> QED BY <1>1, <1>3, <2>1, <2>2, <2>5 DEF Sent
<1>6. CASE ~TakeReply /\ ~Send /\ ~WriteSend
  <2>1. UNCHANGED <<wire, sendPkg, sendLength>>
    BY <1>6, Between
  <2>2. sndPc' # "killed" =>
            sndPc # "killed" /\ \A c \in Conn : peer[c] = "up" => (Partly(c)' <=> Partly(c))
    BY <1>6, Between
  <2>3. sndPc' # "killed" => \A c \in Conn : peer'[c] = "up" => Located(c)'
    BY <1>2, <2>1, <2>2 DEF Sent, Located
  <2>4. \A c \in Conn : Untaken(c)'
    <3>1. CASE \E r \in Reply, d \in Conn : InSendQueue(r, d)
      <4>1. PICK r \in Reply, d \in Conn : InSendQueue(r, d)
        BY <3>1
      <4>2. dest[r] = NoConn /\ dest' = [dest EXCEPT ![r] = d] /\ sendQueue' = Append(sendQueue, r)
        BY <4>1 DEF InSendQueue
      <4>3. ToSet(sendQueue') = ToSet(sendQueue) \cup {r}
        BY <4>2, AtAppend
      <4>4. ASSUME NEW c \in Conn, NEW i \in 1 .. Len(wire[c])
            PROVE  dest'[wire[c][i][1]] = c /\ wire[c][i][1] \notin ToSet(sendQueue')
        <5>1. dest[wire[c][i][1]] = c /\ wire[c][i][1] \notin ToSet(sendQueue)
          BY DEF Sent, Untaken
        <5>2. wire[c][i][1] # r
          BY <4>2, <5>1, SendAssumption
        <5>3. dest'[wire[c][i][1]] = dest[wire[c][i][1]]
          BY <4>2, <5>2 DEF TypeOK
        <5> QED BY <4>3, <5>1, <5>2, <5>3
      <4> QED BY <2>1, <4>4 DEF Untaken
    <3>2. CASE UNCHANGED dest /\ ToSet(sendQueue') \subseteq ToSet(sendQueue)
      BY <2>1, <3>2 DEF Sent, Untaken
    <3>3. DropStale => UNCHANGED dest /\ ToSet(sendQueue') \subseteq ToSet(sendQueue)
      BY AtCurrent DEF DropStale
    <3> QED BY <1>6, <3>1, <3>2, <3>3, QueueSteps
            DEF SemWait, LockQueue, UnlockQueue, FinishReply, WritePost, WriteFree, queueVars
  <2> QED BY <1>1, <1>3, <2>1, <2>3, <2>4 DEF Sent
<1> QED BY <1>4, <1>5, <1>6

LEMMA InitSent == Init => Sent
<1> SUFFICES ASSUME Init PROVE Sent
  OBVIOUS
<1>1. evPc # "w_send" /\ \A c \in Conn : wire[c] = <<>> /\ peer[c] = "up" /\ ~Partly(c)
  BY DEF Init, Partly
<1>2. IsInjective(<<>>) /\ Whole(<<>>) /\ EndsReply(<<>>)
  BY DEF IsInjective, Whole, EndsReply
<1>3. \A c \in Conn : Untaken(c)
  BY <1>1 DEF Untaken
<1>4. \A c \in Conn : IsInjective(wire[c]) /\ Whole(wire[c]) /\ Located(c)
  BY <1>1, <1>2, Zenon DEF Located
<1> QED BY <1>1, <1>3, <1>4 DEF Sent

\* What a client receives is whole replies one after another and no byte twice,
\* as long as no client shuts down only its sending side.
THEOREM WireIntegrityAlways ==
    ASSUME "fin" \notin Departures PROVE Spec => []WireIntegrity
<1>1. Init => Intact
  BY InitFreeing, InitSent DEF Intact
<1>2. Intact /\ [Next]_vars => Intact'
  <2>1. CASE Next
    BY <2>1, NextFreeing, NextSent DEF Intact
  <2>2. CASE UNCHANGED vars
    <3>1. Sent => Sent'
      BY <2>2 DEF Sent, Untaken, Located, Partly, vars, queueVars, connVars, peerVars, netVars,
                  sndVars, evVars
    <3> QED BY <2>2, <3>1, NextFreeing DEF Intact
  <2> QED BY <2>1, <2>2
<1>3. Intact => WireIntegrity
  BY DEF Intact, Sent, Whole, WireIntegrity
<1> QED BY <1>1, <1>2, <1>3, PTL DEF Spec
=============================================================================
