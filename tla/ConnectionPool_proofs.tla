----------------------- MODULE ConnectionPool_proofs -----------------------
(***************************************************************************)
(* Proofs about ConnectionPool for every pool, set of clients, descriptor  *)
(* set, waiting time and kernel: the types, OneHolder, HeaderMatchesClient *)
(* and Quarantine, from two inductive invariants; and that the pool        *)
(* implements Leases.                                                      *)
(*                                                                         *)
(* All but the types need SafeAccept: either the kernel knows accept4() or *)
(* making a socket non-blocking never fails.  Without it they are false.   *)
(***************************************************************************)
EXTENDS ConnectionPool, ListLemmas

-----------------------------------------------------------------------------
(* Types.  That a thread holds an object exactly where its code uses one   *)
(* is what makes the types inductive.                                      *)

HoldsWhereUsed ==
    /\ evPc \in {"set_nonblocking", "epoll_add", "in_recy"} <=> evConn \in Conn
    /\ evPc \in {"get_free", "set_nonblocking", "epoll_add"} <=> evFd \in Fd
    /\ rcPc = "put" <=> rcConn \in Conn

Typing == TypeOK /\ HoldsWhereUsed

LEMMA InitTyping == Init => Typing
<1> SUFFICES ASSUME Init PROVE Typing
  OBVIOUS
<1>1. ToSet(InitFree) \subseteq Conn
  BY PoolAssumption, LenProperties, ElementOfSeq DEF ToSet
<1>2. recy \in Seq(Conn)
  BY EmptySeq DEF Init
<1> QED BY <1>1, <1>2, PoolAssumption, NoneAssumption, TimeAssumption
        DEF Init, Typing, TypeOK, HoldsWhereUsed

LEMMA CloseConnectionType ==
    ASSUME TypeOK, NEW c \in Conn, CloseConnection(c)
    PROVE  /\ free' \in Seq(Conn) /\ seq' \in [Conn -> Nat]
           /\ peer' \in [Fd -> Client \cup {NoClient}]
           /\ reg' \in [Fd -> Conn \cup {NoConn}]
<1>1. Append(free, c) \in Seq(Conn)
  BY AppendProperties DEF TypeOK
<1>2. free' \in Seq(Conn) /\ seq' \in [Conn -> Nat]
  BY <1>1 DEF TypeOK, CloseConnection, FreeConnection
<1>3. \A fd : CloseFd(fd) => /\ peer' \in [Fd -> Client \cup {NoClient}]
                             /\ reg' \in [Fd -> Conn \cup {NoConn}]
  BY DEF TypeOK, CloseFd
<1> QED BY <1>2, <1>3 DEF CloseConnection

LEMMA NextTyping == Typing /\ [Next]_vars => Typing'
<1> SUFFICES ASSUME Typing, [Next]_vars PROVE Typing'
  OBVIOUS
<1> USE NoneAssumption DEF Typing, TypeOK, HoldsWhereUsed
<1>1. ASSUME NEW k \in Client, NEW fd \in Fd, AcceptConn(k, fd) PROVE Typing'
  BY <1>1 DEF AcceptConn, objVars, rcVars
<1>2. CASE GetFreeConnection
  <2>1. PICK c \in Conn : /\ GetOneToUse(c)
                          /\ pool' \in {pool, pool \cup {c}}
                          /\ free' \in Seq(Conn)
    <3>1. CASE free # <<>>
      <4>1. Head(free) \in Conn /\ Tail(free) \in Seq(Conn)
        BY <3>1, HeadTailProperties
      <4> QED BY <1>2, <3>1, <4>1 DEF GetFreeConnection
    <3>2. CASE free = <<>>
      BY <1>2, <3>2 DEF GetFreeConnection
    <3> QED BY <3>1, <3>2
  <2>2. /\ seq' \in [Conn -> Nat] /\ sockFd' \in [Conn -> Fd \cup {NoFd}]
        /\ inRecyTime' = inRecyTime /\ evConn' \in Conn /\ pool' \subseteq Conn
    <3>1. seq \in [Conn -> Nat] /\ sockFd \in [Conn -> Fd \cup {NoFd}] /\ pool \subseteq Conn
      OBVIOUS
    <3>2. evFd \in Fd \cup {NoFd}
      OBVIOUS
    <3>3. /\ seq' = [seq EXCEPT ![c] = seq[c] + 1]
          /\ sockFd' = [sockFd EXCEPT ![c] = evFd]
          /\ inRecyTime' = inRecyTime /\ evConn' = c /\ pool' \in {pool, pool \cup {c}}
      BY <2>1 DEF GetOneToUse
    <3>4. seq' \in [Conn -> Nat] /\ sockFd' \in [Conn -> Fd \cup {NoFd}]
      <4> HIDE DEF TypeOK, Typing
      <4> QED BY <3>1, <3>2, <3>3
    <3> QED BY <3>1, <3>3, <3>4
  <2>3. evPc' \in {"set_nonblocking", "epoll_add"} /\ evFd' = evFd /\ evFd \in Fd
    BY <1>2 DEF GetFreeConnection
  <2> QED BY <1>2, <2>1, <2>2, <2>3 DEF GetFreeConnection, kernelVars, rcVars
<1>3. CASE SetNonBlocking
  <2>1. evConn \in Conn /\ evPc' = "epoll_add" /\ evFd \in Fd
    BY <1>3 DEF SetNonBlocking
  <2>2. /\ free' \in Seq(Conn) /\ seq' \in [Conn -> Nat]
        /\ peer' \in [Fd -> Client \cup {NoClient}]
        /\ reg' \in [Fd -> Conn \cup {NoConn}]
    <3>1. UNCHANGED <<free, seq, peer, reg>> \/ CloseConnection(evConn)
      BY <1>3 DEF SetNonBlocking
    <3> QED BY <2>1, <3>1, CloseConnectionType
  <2> QED BY <1>3, <2>1, <2>2 DEF SetNonBlocking, rcVars
<1>4. CASE EpollAdd
  <2>1. evConn \in Conn /\ evPc' = "epoll_wait" /\ evFd \in Fd
        /\ evConn' = NoConn /\ evFd' = NoFd
    BY <1>4 DEF EpollAdd
  <2>2. /\ free' \in Seq(Conn) /\ seq' \in [Conn -> Nat]
        /\ peer' \in [Fd -> Client \cup {NoClient}]
        /\ reg' \in [Fd -> Conn \cup {NoConn}]
    <3>1. \/ reg' = [reg EXCEPT ![evFd] = evConn] /\ UNCHANGED <<free, seq, peer>>
          \/ CloseConnection(evConn)
      BY <1>4 DEF EpollAdd
    <3> QED BY <2>1, <3>1, CloseConnectionType
  <2> QED BY <1>4, <2>1, <2>2 DEF EpollAdd, rcVars
<1>5. ASSUME NEW fd \in Fd, RecvRequest(fd) PROVE Typing'
  <2>1. headers' \subseteq Header
    BY <1>5 DEF RecvRequest, Open, Header
  <2> QED BY <1>5, <2>1 DEF RecvRequest, objVars, kernelVars, loopVars, rcVars
<1>6. ASSUME NEW fd \in Fd, RecvClosed(fd) PROVE Typing'
  BY <1>6 DEF RecvClosed, CloseFd, objVars, rcVars
<1>7. CASE InRecyConnection
  <2>1. Append(recy, evConn) \in Seq(Conn)
    BY <1>7, AppendProperties DEF InRecyConnection
  <2> QED BY <1>7, <2>1 DEF InRecyConnection, kernelVars, rcVars
<1>8. CASE RcWake
  BY <1>8 DEF RcWake, objVars, kernelVars, loopVars
<1>9. CASE RcLock
  BY <1>9 DEF RcLock, objVars, kernelVars, loopVars
<1>10. CASE RcErase
  <2>1. PICK i \in 1 .. Len(recy) : rcConn' = recy[i] /\ recy' = RemoveAt(recy, i)
    BY <1>10 DEF RcErase
  <2>2. recy[i] \in Conn /\ recy' \in Seq(Conn)
    BY <2>1, ElementOfSeq, RemoveAtType
  <2> QED BY <1>10, <2>1, <2>2 DEF RcErase, objVars, kernelVars, loopVars
<1>11. CASE RcPut
  <2>1. Append(free, rcConn) \in Seq(Conn)
    BY <1>11, AppendProperties DEF RcPut
  <2> QED BY <1>11, <2>1 DEF RcPut, FreeConnection, kernelVars, loopVars
<1>12. CASE RcUnlock
  BY <1>12 DEF RcUnlock, objVars, kernelVars, loopVars
<1>13. CASE Tick
  BY <1>13 DEF Tick, objVars, kernelVars, loopVars, rcVars
<1>14. ASSUME NEW k \in Client, ClientLeaves(k) PROVE Typing'
  BY <1>14 DEF ClientLeaves, objVars, loopVars, rcVars
<1>15. CASE UNCHANGED vars
  BY <1>15 DEF vars, objVars, kernelVars, loopVars, rcVars
<1> QED BY <1>1, <1>2, <1>3, <1>4, <1>5, <1>6, <1>7, <1>8, <1>9, <1>10, <1>11, <1>12,
           <1>13, <1>14, <1>15 DEF Next, Loop, Recycler

\* Every variable keeps its type, whatever the kernel answers.
THEOREM TypeCorrect == Spec => []TypeOK
<1>1. Typing => TypeOK
  BY DEF Typing
<1> QED BY <1>1, InitTyping, NextTyping, PTL DEF Spec

-----------------------------------------------------------------------------
(* Ownership.  Each object has one holder; a registered descriptor is open *)
(* and is the mSockFd of its object; an object being set up is bound to    *)
(* the open, still unregistered descriptor of its client.                  *)

SafeAccept == KernelHasAccept4 \/ NonBlockingResults \subseteq {TRUE}

Exclusive ==
    /\ IsInjective(free) /\ IsInjective(recy)
    /\ \A c \in Conn :
          /\ c \in ToSet(free) => c \notin ToSet(recy) /\ c # evConn /\ c # rcConn
          /\ c \in ToSet(recy) => c # evConn /\ c # rcConn
          /\ c = evConn => c # rcConn
          /\ \A fd \in Fd : reg[fd] = c =>
                 c \notin ToSet(free) /\ c \notin ToSet(recy) /\ c # evConn /\ c # rcConn

NoLeak ==
    \A c \in Conn : c \in pool <=>
        \/ c \in ToSet(free) \/ c \in ToSet(recy) \/ c = evConn \/ c = rcConn
        \/ \E fd \in Fd : reg[fd] = c

Binding ==
    /\ \A fd \in Fd : reg[fd] # NoConn => peer[fd] # NoClient /\ sockFd[reg[fd]] = fd
    /\ evFd \in Fd => peer[evFd] # NoClient /\ reg[evFd] = NoConn
    /\ evPc \in {"set_nonblocking", "epoll_add"} => sockFd[evConn] = evFd
    /\ KernelHasAccept4 => useAccept4
    /\ evPc = "set_nonblocking" => ~useAccept4

Ownership == Typing /\ Exclusive /\ NoLeak /\ Binding

LEMMA InitOwnership == Init => Ownership
<1> SUFFICES ASSUME Init PROVE Ownership
  OBVIOUS
<1>1. Typing
  BY InitTyping
<1>2. DOMAIN recy = {} /\ ToSet(recy) = {}
  BY DEF Init, ToSet
<1>3. Exclusive
  <2>1. IsInjective(free)
    BY PoolAssumption, LenProperties DEF Init, IsInjective
  <2>2. IsInjective(recy)
    BY <1>2 DEF IsInjective
  <2> QED BY <2>1, <2>2, <1>2, NoneAssumption DEF Init, Exclusive
<1>4. NoLeak
  BY <1>2, NoneAssumption DEF Init, NoLeak
<1>5. Binding
  BY NoneAssumption, KernelAssumption DEF Init, Binding
<1> QED BY <1>1, <1>3, <1>4, <1>5 DEF Ownership

\* The pool after ser_close_connection() of the object being set up.
LEMMA CloseNewConnection ==
    ASSUME Ownership, evPc = "epoll_add", CloseConnection(evConn)
    PROVE  /\ ToSet(free') = ToSet(free) \cup {evConn} /\ IsInjective(free')
           /\ reg' = reg
           /\ peer' = [peer EXCEPT ![evFd] = NoClient]
           /\ seq' = [seq EXCEPT ![evConn] = @ + 1]
<1> USE DEF Ownership, Typing, TypeOK, HoldsWhereUsed
<1>1. evConn \in Conn /\ evFd \in Fd /\ sockFd[evConn] = evFd /\ reg[evFd] = NoConn
  BY DEF Binding
<1>2. evConn \notin ToSet(free) /\ IsInjective(free)
  BY <1>1 DEF Exclusive
<1>3. ToSet(free') = ToSet(free) \cup {evConn} /\ IsInjective(free')
  BY <1>1, <1>2, AppendElements DEF CloseConnection, FreeConnection
<1> QED BY <1>1, <1>3 DEF CloseConnection, FreeConnection, CloseFd

LEMMA NextOwnership ==
    ASSUME SafeAccept, Ownership, [Next]_vars
    PROVE  Ownership'
<1>0. Typing'
  BY NextTyping DEF Ownership
<1> USE NoneAssumption, <1>0 DEF Ownership, Typing, TypeOK, HoldsWhereUsed
<1>1. ASSUME NEW k \in Client, NEW fd \in Fd, AcceptConn(k, fd) PROVE Ownership'
  <2>1. peer[fd] = NoClient /\ reg[fd] = NoConn
    BY <1>1 DEF AcceptConn, Open, Binding
  <2>2. Exclusive' /\ NoLeak'
    BY <1>1 DEF AcceptConn, objVars, rcVars, Exclusive, NoLeak
  <2>3. Binding'
    BY <1>1, <2>1, KernelAssumption DEF AcceptConn, objVars, rcVars, Binding
  <2> QED BY <2>2, <2>3
<1>2. CASE GetFreeConnection
  <2>1. evConn \notin Conn /\ evFd \in Fd
    BY <1>2 DEF GetFreeConnection
  <2>2. PICK c \in Conn :
          /\ GetOneToUse(c)
          /\ c \notin ToSet(recy) /\ c # rcConn /\ \A fd \in Fd : reg[fd] # c
          /\ c \notin ToSet(free') /\ IsInjective(free')
          /\ \A d \in Conn \ {c} : d \in ToSet(free') <=> d \in ToSet(free)
          /\ pool' = pool \cup {c}
    <3>1. CASE free # <<>>
      <4> DEFINE c == Head(free)
      <4>1. /\ c \in ToSet(free) /\ c \in Conn
            /\ ToSet(Tail(free)) = ToSet(free) \ {c} /\ IsInjective(Tail(free))
        BY <3>1, TailElements, HeadTailProperties DEF Exclusive
      <4>2. GetOneToUse(c) /\ free' = Tail(free) /\ pool' = pool
        BY <1>2, <3>1 DEF GetFreeConnection
      <4>3. c \notin ToSet(recy) /\ c # rcConn /\ c \in pool /\ \A fd \in Fd : reg[fd] # c
        BY <4>1 DEF Exclusive, NoLeak
      <4> HIDE DEF c
      <4>4. pool' = pool \cup {c}
        BY <4>2, <4>3
      <4> QED BY <4>1, <4>2, <4>3, <4>4
    <3>2. CASE free = <<>>
      <4>1. PICK c \in Conn \ pool : GetOneToUse(c) /\ pool' = pool \cup {c} /\ free' = free
        BY <1>2, <3>2 DEF GetFreeConnection
      <4> QED BY <4>1 DEF NoLeak, Exclusive
    <3> QED BY <3>1, <3>2
  <2>3. /\ recy' = recy /\ reg' = reg /\ peer' = peer /\ rcConn' = rcConn
        /\ evFd' = evFd /\ useAccept4' = useAccept4
        /\ evPc' = IF useAccept4 THEN "epoll_add" ELSE "set_nonblocking"
        /\ evConn' = c
        /\ sockFd' = [sockFd EXCEPT ![c] = evFd]
    BY <1>2, <2>2 DEF GetFreeConnection, GetOneToUse, kernelVars, rcVars
  <2>4. Exclusive'
    BY <2>1, <2>2, <2>3 DEF Exclusive
  <2>5. NoLeak'
    BY <2>1, <2>2, <2>3 DEF NoLeak
  <2>6. Binding'
    BY <2>1, <2>2, <2>3 DEF Binding
  <2> QED BY <2>4, <2>5, <2>6
<1>3. CASE SetNonBlocking
  <2>1. UNCHANGED <<free, seq, peer, reg>>
    <3>1. NonBlockingResults \subseteq {TRUE}
      BY <1>3 DEF SetNonBlocking, SafeAccept, Binding
    <3> QED BY <1>3, <3>1 DEF SetNonBlocking
  <2>2. Exclusive' /\ NoLeak'
    BY <1>3, <2>1 DEF SetNonBlocking, rcVars, Exclusive, NoLeak
  <2>3. Binding'
    BY <1>3, <2>1 DEF SetNonBlocking, rcVars, Binding
  <2> QED BY <2>2, <2>3
<1>4. CASE EpollAdd
  <2>1. /\ evPc = "epoll_add" /\ evConn \in Conn /\ evFd \in Fd
        /\ recy' = recy /\ pool' = pool /\ sockFd' = sockFd /\ rcConn' = rcConn
        /\ useAccept4' = useAccept4
        /\ evConn' = NoConn /\ evFd' = NoFd /\ evPc' = "epoll_wait"
        /\ sockFd[evConn] = evFd /\ reg[evFd] = NoConn /\ peer[evFd] # NoClient
    BY <1>4 DEF EpollAdd, rcVars, Binding
  <2>2. CASE CloseConnection(evConn)
    <3>1. /\ ToSet(free') = ToSet(free) \cup {evConn} /\ IsInjective(free')
          /\ reg' = reg
          /\ peer' = [peer EXCEPT ![evFd] = NoClient]
      BY <2>1, <2>2, CloseNewConnection DEF Ownership, Typing, TypeOK, HoldsWhereUsed
    <3>2. Exclusive'
      BY <2>1, <3>1 DEF Exclusive
    <3>3. NoLeak'
      BY <2>1, <3>1 DEF NoLeak
    <3>4. Binding'
      BY <2>1, <3>1 DEF Binding
    <3> QED BY <3>2, <3>3, <3>4
  <2>3. CASE reg' = [reg EXCEPT ![evFd] = evConn] /\ UNCHANGED <<free, seq, peer>>
    <3>1. Exclusive'
      BY <2>1, <2>3 DEF Exclusive
    <3>2. NoLeak'
      BY <2>1, <2>3 DEF NoLeak
    <3>3. Binding'
      BY <2>1, <2>3 DEF Binding
    <3> QED BY <3>1, <3>2, <3>3
  <2> QED BY <1>4, <2>2, <2>3 DEF EpollAdd
<1>5. ASSUME NEW fd \in Fd, RecvRequest(fd) PROVE Ownership'
  BY <1>5 DEF RecvRequest, objVars, kernelVars, loopVars, rcVars, Exclusive, NoLeak, Binding
<1>6. ASSUME NEW fd \in Fd, RecvClosed(fd) PROVE Ownership'
  <2>1. /\ evConn \notin Conn /\ evFd \notin Fd /\ reg[fd] \in Conn
        /\ sockFd[reg[fd]] = fd
        /\ peer' = [peer EXCEPT ![fd] = NoClient] /\ reg' = [reg EXCEPT ![fd] = NoConn]
        /\ evPc' = "in_recy" /\ evConn' = reg[fd]
    BY <1>6 DEF RecvClosed, CloseFd, Binding
  <2>2. \A g \in Fd \ {fd} : reg[g] # reg[fd]
    BY <2>1 DEF Binding
  <2>3. UNCHANGED <<free, recy, pool, sockFd, useAccept4, evFd, rcConn>>
    BY <1>6 DEF RecvClosed, objVars, rcVars
  <2>4. Exclusive'
    BY <2>1, <2>2, <2>3 DEF Exclusive
  <2>5. NoLeak'
    BY <2>1, <2>2, <2>3 DEF NoLeak
  <2>6. Binding'
    BY <2>1, <2>2, <2>3 DEF Binding
  <2> QED BY <2>4, <2>5, <2>6
<1>7. CASE InRecyConnection
  <2>1. /\ evConn \in Conn /\ evFd \notin Fd /\ recy' = Append(recy, evConn)
        /\ evPc' = "epoll_wait" /\ evConn' = NoConn
        /\ UNCHANGED <<free, pool, sockFd, peer, reg, useAccept4, evFd, rcConn>>
    BY <1>7 DEF InRecyConnection, kernelVars, rcVars
  <2>2. ToSet(recy') = ToSet(recy) \cup {evConn} /\ IsInjective(recy')
    BY <2>1, AppendElements DEF Exclusive
  <2>3. Exclusive'
    BY <2>1, <2>2 DEF Exclusive
  <2>4. NoLeak' /\ Binding'
    BY <2>1, <2>2 DEF NoLeak, Binding
  <2> QED BY <2>3, <2>4
<1>8. CASE RcWake \/ RcLock \/ RcUnlock
  BY <1>8 DEF RcWake, RcLock, RcUnlock, objVars, kernelVars, loopVars,
              Exclusive, NoLeak, Binding
<1>9. CASE RcErase
  <2>1. PICK i \in 1 .. Len(recy) : rcConn' = recy[i] /\ recy' = RemoveAt(recy, i)
    BY <1>9 DEF RcErase
  <2>2. /\ ToSet(recy') = ToSet(recy) \ {recy[i]} /\ IsInjective(recy')
    BY <2>1, RemoveAtElements DEF Exclusive
  <2>3. recy[i] \in Conn /\ recy[i] \in ToSet(recy)
    BY EntryIsElement
  <2>4. /\ rcConn \notin Conn
        /\ UNCHANGED <<free, pool, sockFd, peer, reg, useAccept4, evPc, evConn, evFd>>
    BY <1>9 DEF RcErase, objVars, kernelVars, loopVars
  <2>5. Exclusive'
    BY <2>1, <2>2, <2>3, <2>4 DEF Exclusive
  <2>6. NoLeak'
    BY <2>1, <2>2, <2>3, <2>4 DEF NoLeak
  <2>7. Binding'
    BY <2>4 DEF Binding
  <2> QED BY <2>5, <2>6, <2>7
<1>10. CASE RcPut
  <2>1. /\ rcConn \in Conn /\ free' = Append(free, rcConn) /\ rcConn' = NoConn
        /\ UNCHANGED <<recy, pool, sockFd, peer, reg, useAccept4, evPc, evConn, evFd>>
    BY <1>10 DEF RcPut, FreeConnection, kernelVars, loopVars
  <2>2. ToSet(free') = ToSet(free) \cup {rcConn} /\ IsInjective(free')
    BY <2>1, AppendElements DEF Exclusive
  <2>3. Exclusive'
    BY <2>1, <2>2 DEF Exclusive
  <2>4. NoLeak' /\ Binding'
    BY <2>1, <2>2 DEF NoLeak, Binding
  <2> QED BY <2>3, <2>4
<1>11. CASE Tick
  BY <1>11 DEF Tick, objVars, kernelVars, loopVars, rcVars, Exclusive, NoLeak, Binding
<1>12. ASSUME NEW k \in Client, ClientLeaves(k) PROVE Ownership'
  BY <1>12 DEF ClientLeaves, objVars, loopVars, rcVars, Exclusive, NoLeak, Binding
<1>13. CASE UNCHANGED vars
  BY <1>13 DEF vars, objVars, kernelVars, loopVars, rcVars, Exclusive, NoLeak, Binding
<1> QED BY <1>1, <1>2, <1>3, <1>4, <1>5, <1>6, <1>7, <1>8, <1>9, <1>10, <1>11, <1>12, <1>13
        DEF Next, Loop, Recycler

LEMMA OwnershipOneHolder == Ownership => OneHolder
<1> SUFFICES ASSUME Ownership PROVE OneHolder
  OBVIOUS
<1> USE NoneAssumption DEF Ownership, Typing, TypeOK
<1>1. \A c \in Conn : /\ c \in Held["free"] <=> c \in ToSet(free)
                      /\ c \in Held["recy"] <=> c \in ToSet(recy)
                      /\ c \in Held["epoll"] <=> \E fd \in Fd : reg[fd] = c
                      /\ c \in Held["loop"] <=> c = evConn
                      /\ c \in Held["recycler"] <=> c = rcConn
  BY DEF Held
<1>2. \A c \in Conn : \A p, q \in Holder : c \in Held[p] /\ c \in Held[q] => p = q
  BY <1>1 DEF Holder, Exclusive
<1>3. \A c \in Conn : c \in pool <=> \E p \in Holder : c \in Held[p]
  BY <1>1 DEF Holder, NoLeak
<1>4. \A f, g \in Fd : reg[f] = reg[g] /\ reg[f] # NoConn => f = g
  BY DEF Binding
<1> QED BY <1>2, <1>3, <1>4 DEF OneHolder, Exclusive

\* No object is lost by the pool or held by two of its users at once.
THEOREM OneHolderAlways == SafeAccept /\ Spec => []OneHolder
<1>1. SafeAccept /\ Ownership /\ [Next]_vars => Ownership'
  BY NextOwnership
<1>2. SafeAccept => SafeAccept'
  BY DEF SafeAccept
<1> QED BY <1>1, <1>2, InitOwnership, OwnershipOneHolder, PTL DEF Spec

-----------------------------------------------------------------------------
(* Quarantine.  The recycler judges by a clock value read earlier, which   *)
(* can only be too small.                                                  *)

ClockRead == rcTime <= now

QuarantineInv == Quarantine /\ ClockRead

LEMMA InitQuarantine == Init => QuarantineInv
  BY TimeAssumption DEF Init, QuarantineInv, Quarantine, ClockRead

LEMMA NextQuarantine ==
    ASSUME Ownership, Ownership', QuarantineInv, [Next]_vars
    PROVE  QuarantineInv'
<1> USE TimeAssumption DEF Ownership, Typing, TypeOK, QuarantineInv, Quarantine, ClockRead
<1>1. CASE InRecyConnection
  <2>1. /\ evConn \in Conn /\ recy' = Append(recy, evConn)
        /\ inRecyTime' = [inRecyTime EXCEPT ![evConn] = now]
        /\ UNCHANGED <<rcTime, now>>
    BY <1>1 DEF InRecyConnection, rcVars, HoldsWhereUsed
  <2>2. ToSet(recy') = ToSet(recy) \cup {evConn}
    BY <2>1, AppendElements
  <2> QED BY <2>1, <2>2
<1>2. CASE RcErase
  <2>1. PICK i \in 1 .. Len(recy) : Expired(recy[i]) /\ recy' = RemoveAt(recy, i)
    BY <1>2 DEF RcErase
  <2>2. /\ ToSet(recy') = ToSet(recy) \ {recy[i]} /\ recy[i] \in Conn
        /\ UNCHANGED <<inRecyTime, rcTime, now>>
    <3>1. IsInjective(recy)
      BY DEF Exclusive
    <3>2. ToSet(recy') = ToSet(recy) \ {recy[i]}
      <4>1. recy \in Seq(Conn)
        OBVIOUS
      <4> HIDE DEF Ownership, QuarantineInv, TypeOK
      <4> QED BY <2>1, <3>1, <4>1, RemoveAtElements
    <3>3. recy[i] \in Conn
      BY EntryIsElement
    <3>4. UNCHANGED <<inRecyTime, rcTime, now>>
      BY <1>2 DEF RcErase, objVars
    <3> QED BY <3>2, <3>3, <3>4
  <2>3. inRecyTime[recy[i]] + RecyWaiteTime <= now
    BY <2>1, <2>2 DEF Expired
  <2> QED BY <2>2, <2>3
<1>3. CASE RcWake
  BY <1>3 DEF RcWake, objVars
<1>4. CASE Tick
  BY <1>4 DEF Tick, objVars, rcVars
<1>5. CASE UNCHANGED <<recy, inRecyTime, rcTime, now>>
  BY <1>5
<1>6. CASE GetFreeConnection
  <2>1. inRecyTime' = inRecyTime
    BY <1>6 DEF GetFreeConnection, GetOneToUse
  <2> QED BY <1>6, <2>1, <1>5 DEF GetFreeConnection, rcVars
<1>7. ASSUME NEW k \in Client, NEW fd \in Fd, AcceptConn(k, fd) PROVE QuarantineInv'
  BY <1>7, <1>5 DEF AcceptConn, objVars, rcVars
<1>8. CASE SetNonBlocking \/ EpollAdd
  BY <1>8, <1>5 DEF SetNonBlocking, EpollAdd, rcVars
<1>9. ASSUME NEW fd \in Fd, RecvRequest(fd) \/ RecvClosed(fd) PROVE QuarantineInv'
  BY <1>9, <1>5 DEF RecvRequest, RecvClosed, objVars, rcVars
<1>10. CASE RcLock \/ RcPut \/ RcUnlock
  BY <1>10, <1>5 DEF RcLock, RcPut, RcUnlock, objVars, rcVars
<1>11. ASSUME NEW k \in Client, ClientLeaves(k) PROVE QuarantineInv'
  BY <1>11, <1>5 DEF ClientLeaves, objVars, rcVars
<1>12. CASE UNCHANGED vars
  BY <1>12, <1>5 DEF vars, objVars, rcVars
<1> QED BY <1>1, <1>2, <1>3, <1>4, <1>6, <1>7, <1>8, <1>9, <1>10, <1>11, <1>12
        DEF Next, Loop, Recycler

\* No object is reused within mRecyWaiteTime seconds of its retirement.
THEOREM QuarantineAlways == SafeAccept /\ Spec => []Quarantine
<1>1. SafeAccept /\ Ownership /\ [Next]_vars => Ownership'
  BY NextOwnership
<1>2. SafeAccept => SafeAccept'
  BY DEF SafeAccept
<1>3. Ownership /\ Ownership' /\ QuarantineInv /\ [Next]_vars => QuarantineInv'
  BY NextQuarantine
<1>4. QuarantineInv => Quarantine
  BY DEF QuarantineInv
<1> QED BY <1>1, <1>2, <1>3, <1>4, InitOwnership, InitQuarantine, PTL DEF Spec

-----------------------------------------------------------------------------
(* Headers.  A sequence number in a header is never ahead of the object's; *)
(* it equals it only while the object is bound to the header's client.     *)

HeadersPast == \A h \in headers : h.seq <= seq[h.conn]

HeaderInv == HeadersPast /\ HeaderMatchesClient

LEMMA InitHeader == Init => HeaderInv
  BY DEF Init, HeaderInv, HeadersPast, HeaderMatchesClient

\* Raising the number of an object nobody is bound to disturbs no header.
LEMMA RaiseSequence ==
    ASSUME headers \subseteq Header, seq \in [Conn -> Nat], HeaderInv, NEW c \in Conn,
           seq' = [seq EXCEPT ![c] = @ + 1], headers' = headers,
           \A d \in Conn \ {c}, k \in Client : BoundTo(d, k) => BoundTo(d, k)',
           \A d \in Conn \ {c} :
              evPc = "in_recy" /\ evConn = d => evPc' = "in_recy" /\ evConn' = d
    PROVE  HeaderInv'
<1> USE DEF HeaderInv, HeadersPast, HeaderMatchesClient
<1>1. ASSUME NEW h \in headers PROVE h.conn \in Conn /\ h.seq \in Nat /\ h.client \in Client
  BY DEF Header
<1>2. ASSUME NEW h \in headers, h.conn = c PROVE h.seq <= seq'[c] /\ h.seq # seq'[c]
  BY <1>1, <1>2
<1>3. ASSUME NEW h \in headers, h.conn # c PROVE seq'[h.conn] = seq[h.conn]
  BY <1>1, <1>3
<1>4. HeadersPast'
  BY <1>1, <1>2, <1>3
<1>5. HeaderMatchesClient'
  <2> SUFFICES ASSUME NEW h \in headers, h.seq = seq'[h.conn]
               PROVE  \/ BoundTo(h.conn, h.client)'
                      \/ evPc' = "in_recy" /\ evConn' = h.conn
    OBVIOUS
  <2>1. h.conn # c /\ h.conn \in Conn /\ h.client \in Client
    BY <1>1, <1>2
  <2>2. h.seq = seq[h.conn]
    BY <1>3, <2>1
  <2>3. CASE BoundTo(h.conn, h.client)
    BY <2>1, <2>3
  <2>4. CASE evPc = "in_recy" /\ evConn = h.conn
    BY <2>1, <2>4
  <2> QED BY <2>2, <2>3, <2>4
<1> QED BY <1>4, <1>5

\* Nor does a step that keeps the numbers and the bindings, or starts to retire
\* an object.
LEMMA KeepSequence ==
    ASSUME headers \subseteq Header, HeaderInv, seq' = seq, headers' = headers,
           \A d \in Conn, k \in Client : BoundTo(d, k) =>
               BoundTo(d, k)' \/ (evPc' = "in_recy" /\ evConn' = d),
           evPc = "in_recy" => evPc' = "in_recy" /\ evConn' = evConn
    PROVE  HeaderInv'
<1> USE DEF HeaderInv, HeadersPast, HeaderMatchesClient
<1>1. ASSUME NEW h \in headers PROVE h.conn \in Conn /\ h.client \in Client
  BY DEF Header
<1>2. HeadersPast'
  OBVIOUS
<1>3. HeaderMatchesClient'
  BY <1>1
<1> QED BY <1>2, <1>3

LEMMA NextHeader ==
    ASSUME SafeAccept, Ownership, Ownership', HeaderInv, [Next]_vars
    PROVE  HeaderInv'
<1> USE NoneAssumption DEF Ownership, Typing, TypeOK, HoldsWhereUsed
<1>2. ASSUME NEW k \in Client, NEW fd \in Fd, AcceptConn(k, fd) PROVE HeaderInv'
  <2>1. /\ peer' = [peer EXCEPT ![fd] = k] /\ peer[fd] = NoClient
        /\ evPc # "in_recy" /\ UNCHANGED <<seq, headers, reg, sockFd>>
    BY <1>2 DEF AcceptConn, objVars, Open
  <2>2. ASSUME NEW d \in Conn, NEW j \in Client, BoundTo(d, j) PROVE BoundTo(d, j)'
    BY <2>1, <2>2 DEF BoundTo
  <2> QED BY <2>1, <2>2, KeepSequence
<1>3. CASE GetFreeConnection
  <2>1. PICK c \in Conn : GetOneToUse(c) /\ \A fd \in Fd : reg[fd] # c
    <3>1. CASE free # <<>>
      <4>1. GetOneToUse(Head(free))
        BY <1>3, <3>1 DEF GetFreeConnection
      <4>2. Head(free) \in ToSet(free) /\ Head(free) \in Conn
        BY <3>1, TailElements, HeadTailProperties DEF Exclusive
      <4> QED BY <4>1, <4>2 DEF Exclusive
    <3>2. CASE free = <<>>
      <4>1. PICK c \in Conn \ pool : GetOneToUse(c)
        BY <1>3, <3>2 DEF GetFreeConnection
      <4> QED BY <4>1 DEF NoLeak
    <3> QED BY <3>1, <3>2
  <2>2. /\ seq' = [seq EXCEPT ![c] = @ + 1] /\ sockFd' = [sockFd EXCEPT ![c] = evFd]
        /\ UNCHANGED <<reg, peer, headers>> /\ evPc # "in_recy"
    BY <1>3, <2>1 DEF GetFreeConnection, GetOneToUse, kernelVars
  <2>3. ASSUME NEW d \in Conn \ {c}, NEW j \in Client, BoundTo(d, j) PROVE BoundTo(d, j)'
    BY <2>2, <2>3 DEF BoundTo
  <2> QED BY <2>2, <2>3, RaiseSequence
<1>4. CASE SetNonBlocking
  <2>1. ~(NonBlockingResults \subseteq {TRUE}) => FALSE
    BY <1>4 DEF SetNonBlocking, SafeAccept, Binding
  <2>2. UNCHANGED <<seq, peer, reg, sockFd, headers>> /\ evPc # "in_recy"
    BY <1>4, <2>1 DEF SetNonBlocking
  <2> QED BY <2>2, KeepSequence DEF BoundTo
<1>5. CASE EpollAdd
  <2>1. /\ evPc = "epoll_add" /\ evConn \in Conn /\ evFd \in Fd
        /\ sockFd' = sockFd /\ headers' = headers
        /\ reg[evFd] = NoConn
    BY <1>5 DEF EpollAdd, Binding
  <2>2. CASE CloseConnection(evConn)
    <3>1. /\ reg' = reg /\ peer' = [peer EXCEPT ![evFd] = NoClient]
          /\ seq' = [seq EXCEPT ![evConn] = @ + 1]
      BY <2>1, <2>2, CloseNewConnection DEF Ownership, Typing, TypeOK, HoldsWhereUsed
    <3>2. ASSUME NEW d \in Conn \ {evConn}, NEW j \in Client, BoundTo(d, j)
          PROVE  BoundTo(d, j)'
      BY <2>1, <3>1, <3>2 DEF BoundTo
    <3> QED BY <2>1, <3>1, <3>2, RaiseSequence
  <2>3. CASE reg' = [reg EXCEPT ![evFd] = evConn] /\ UNCHANGED <<free, seq, peer>>
    <3>1. ASSUME NEW d \in Conn, NEW j \in Client, BoundTo(d, j) PROVE BoundTo(d, j)'
      BY <2>1, <2>3, <3>1 DEF BoundTo
    <3> QED BY <2>1, <2>3, <3>1, KeepSequence
  <2> QED BY <1>5, <2>2, <2>3 DEF EpollAdd
<1>6. ASSUME NEW fd \in Fd, RecvRequest(fd) PROVE HeaderInv'
  <2> DEFINE new == [conn |-> reg[fd], seq |-> seq[reg[fd]], client |-> peer[fd]]
  <2>1. /\ sockFd[reg[fd]] = fd /\ reg[fd] \in Conn
        /\ headers' = headers \cup {new}
        /\ UNCHANGED <<seq, sockFd, peer, reg, evPc, evConn>>
    BY <1>6 DEF RecvRequest, Binding, objVars, kernelVars, loopVars
  <2>2. BoundTo(new.conn, new.client) /\ new.seq = seq[new.conn] /\ seq[new.conn] \in Nat
    BY <2>1 DEF BoundTo
  <2> HIDE DEF new
  <2>3. \A d, j : BoundTo(d, j)' <=> BoundTo(d, j)
    BY <2>1 DEF BoundTo
  <2> QED BY <2>1, <2>2, <2>3 DEF HeaderInv, HeadersPast, HeaderMatchesClient
<1>7. ASSUME NEW fd \in Fd, RecvClosed(fd) PROVE HeaderInv'
  <2>1. /\ sockFd[reg[fd]] = fd /\ reg[fd] \in Conn
        /\ peer' = [peer EXCEPT ![fd] = NoClient] /\ reg' = [reg EXCEPT ![fd] = NoConn]
        /\ evPc' = "in_recy" /\ evConn' = reg[fd] /\ evPc # "in_recy"
        /\ UNCHANGED <<seq, headers, sockFd>>
    BY <1>7 DEF RecvClosed, CloseFd, Binding, objVars
  <2>2. ASSUME NEW d \in Conn, NEW j \in Client, BoundTo(d, j)
        PROVE  BoundTo(d, j)' \/ evConn' = d
    BY <2>1, <2>2 DEF BoundTo
  <2> QED BY <2>1, <2>2, KeepSequence
<1>8. CASE InRecyConnection
  <2>1. /\ evConn \in Conn /\ seq' = [seq EXCEPT ![evConn] = @ + 1]
        /\ UNCHANGED <<peer, reg, sockFd, headers>>
    BY <1>8 DEF InRecyConnection, kernelVars
  <2>2. ASSUME NEW d \in Conn, NEW j \in Client, BoundTo(d, j) PROVE BoundTo(d, j)'
    BY <2>1, <2>2 DEF BoundTo
  <2> QED BY <2>1, <2>2, RaiseSequence
<1>9. CASE RcPut
  <2>1. /\ rcConn \in Conn /\ seq' = [seq EXCEPT ![rcConn] = @ + 1]
        /\ UNCHANGED <<peer, reg, sockFd, headers, evPc, evConn>>
    BY <1>9 DEF RcPut, FreeConnection, kernelVars, loopVars
  <2>2. ASSUME NEW d \in Conn, NEW j \in Client, BoundTo(d, j) PROVE BoundTo(d, j)'
    BY <2>1, <2>2 DEF BoundTo
  <2> QED BY <2>1, <2>2, RaiseSequence
<1>10. CASE UNCHANGED <<seq, headers, peer, reg, sockFd, evPc, evConn>>
  BY <1>10, KeepSequence DEF BoundTo
<1>11. CASE RcWake \/ RcLock \/ RcErase \/ RcUnlock
  BY <1>11, <1>10 DEF RcWake, RcLock, RcErase, RcUnlock, objVars, kernelVars, loopVars
<1>12. CASE Tick
  BY <1>12, <1>10 DEF Tick, objVars, kernelVars, loopVars
<1>13. ASSUME NEW k \in Client, ClientLeaves(k) PROVE HeaderInv'
  BY <1>13, <1>10 DEF ClientLeaves, objVars, loopVars
<1>14. CASE UNCHANGED vars
  BY <1>14, <1>10 DEF vars, objVars, kernelVars, loopVars
<1> QED BY <1>2, <1>3, <1>4, <1>5, <1>6, <1>7, <1>8, <1>9, <1>11, <1>12, <1>13, <1>14
        DEF Next, Loop, Recycler

\* A header whose sequence number is still current names an object bound to
\* the client that sent the request.
THEOREM HeaderMatchesClientAlways == SafeAccept /\ Spec => []HeaderMatchesClient
<1>1. SafeAccept /\ Ownership /\ [Next]_vars => Ownership'
  BY NextOwnership
<1>2. SafeAccept => SafeAccept'
  BY DEF SafeAccept
<1>3. SafeAccept /\ Ownership /\ Ownership' /\ HeaderInv /\ [Next]_vars => HeaderInv'
  BY NextHeader
<1>4. HeaderInv => HeaderMatchesClient
  BY DEF HeaderInv
<1> QED BY <1>1, <1>2, <1>3, <1>4, InitOwnership, InitHeader, PTL DEF Spec

-----------------------------------------------------------------------------
(* Leases.                                                                 *)

\* A client has one descriptor, from accept() on.
Clients ==
    /\ \A f, g \in Fd : peer[f] = peer[g] /\ peer[f] # NoClient => f = g
    /\ \A f \in Fd : peer[f] # NoClient => client[peer[f]] # "connecting"

LEMMA InitClients == Init => Clients
BY DEF Init, Clients

LEMMA NextClients ==
    ASSUME Ownership, Clients, [Next]_vars
    PROVE  Clients'
<1> USE NoneAssumption DEF Ownership, Typing, TypeOK, HoldsWhereUsed
<1>1. ASSUME \A f \in Fd : peer'[f] \in {peer[f], NoClient},
             \A k \in Client : client[k] # "connecting" => client'[k] # "connecting"
      PROVE  Clients'
  <2>1. \A f \in Fd : peer'[f] # NoClient => peer'[f] = peer[f] /\ peer[f] \in Client
    BY <1>1
  <2> QED BY <1>1, <2>1 DEF Clients
<1>2. ASSUME NEW k \in Client, NEW fd \in Fd, AcceptConn(k, fd) PROVE Clients'
  <2>1. /\ \A f \in Fd : peer'[f] = IF f = fd THEN k ELSE peer[f]
        /\ \A j \in Client : client'[j] = IF j = k THEN "connected" ELSE client[j]
        /\ \A f \in Fd : peer[f] # k
    BY <1>2 DEF AcceptConn, Clients
  <2>2. \A f, g \in Fd : peer'[f] = peer'[g] /\ peer'[f] # NoClient => f = g
    <3> HIDE DEF Ownership, Typing, TypeOK
    <3>1. \A f, g \in Fd : peer[f] = peer[g] /\ peer[f] # NoClient => f = g
      BY DEF Clients
    <3>2. ASSUME NEW f \in Fd, NEW g \in Fd, peer'[f] = peer'[g], peer'[f] # NoClient, f # g
          PROVE  FALSE
      <4>1. f # fd /\ g # fd
        BY <2>1, <3>2
      <4>2. peer'[f] = peer[f] /\ peer'[g] = peer[g]
        BY <2>1, <4>1
      <4> QED BY <3>1, <3>2, <4>2
    <3> QED BY <3>2
  <2>3. ASSUME NEW f \in Fd, peer'[f] # NoClient PROVE client'[peer'[f]] # "connecting"
    <3>1. CASE f = fd
      BY <2>1, <3>1
    <3>2. CASE f # fd
      <4>1. peer'[f] = peer[f] /\ peer[f] \in Client /\ peer[f] # k
        BY <2>1, <2>3, <3>2
      <4> QED BY <2>1, <2>3, <4>1 DEF Clients
    <3> QED BY <3>1, <3>2
  <2> QED BY <2>2, <2>3 DEF Clients
<1>3. \A fd : CloseFd(fd) => \A f \in Fd : peer'[f] \in {peer[f], NoClient}
  BY DEF CloseFd
<1>4. CASE SetNonBlocking \/ EpollAdd
  BY <1>1, <1>3, <1>4 DEF SetNonBlocking, EpollAdd, CloseConnection
<1>5. ASSUME NEW fd \in Fd, RecvRequest(fd) \/ RecvClosed(fd) PROVE Clients'
  BY <1>1, <1>3, <1>5 DEF RecvRequest, RecvClosed, kernelVars
<1>6. CASE GetFreeConnection \/ InRecyConnection \/ Recycler \/ Tick
  BY <1>1, <1>6 DEF GetFreeConnection, InRecyConnection, Recycler, RcWake, RcLock, RcErase, RcPut,
                    RcUnlock, Tick, kernelVars
<1>7. ASSUME NEW k \in Client, ClientLeaves(k) PROVE Clients'
  BY <1>1, <1>7 DEF ClientLeaves
<1>8. CASE UNCHANGED vars
  BY <1>1, <1>8 DEF vars, kernelVars
<1> QED BY <1>2, <1>4, <1>5, <1>6, <1>7, <1>8 DEF Next, Loop

\* An object is leased as long as it is registered, to the client behind its
\* descriptor.
Registered(c) == \E fd \in Fd : reg[fd] = c

LEMMA LeasedWhenRegistered ==
    ASSUME Ownership, NEW c \in Conn
    PROVE  /\ Registered(c) => /\ sockFd[c] \in Fd /\ reg[sockFd[c]] = c
                               /\ LeasedTo[c] = peer[sockFd[c]] /\ LeasedTo[c] \in Client
           /\ ~Registered(c) => LeasedTo[c] = NoClient
<1> USE NoneAssumption DEF Ownership, Typing, TypeOK
<1>1. LeasedTo[c] = IF Registered(c) THEN peer[sockFd[c]] ELSE NoClient
  BY DEF LeasedTo, Registered
<1>2. ASSUME Registered(c)
      PROVE  sockFd[c] \in Fd /\ reg[sockFd[c]] = c /\ peer[sockFd[c]] \in Client
  <2>1. PICK fd \in Fd : reg[fd] = c
    BY <1>2 DEF Registered
  <2>2. reg[fd] # NoConn
    BY <2>1
  <2>3. sockFd[c] = fd /\ peer[fd] # NoClient
    BY <2>1, <2>2 DEF Binding
  <2> QED BY <2>1, <2>3
<1> QED BY <1>1, <1>2

\* The number of an object without a client is in no header, before and after it
\* is raised.
LEMMA RaiseUnbound ==
    ASSUME Ownership, HeaderInv, NEW c \in Conn, ~Registered(c), c \notin Ending,
           seq' = [seq EXCEPT ![c] = @ + 1], headers' = headers
    PROVE  Current' = Current /\ \A h \in Current : h.conn # c
<1> USE DEF Ownership, Typing, TypeOK
<1>1. \A h \in headers : h.conn \in Conn /\ h.seq \in Nat
  BY DEF Header
<1>2. ASSUME NEW h \in headers, h.conn = c PROVE h.seq # seq[c] /\ h.seq # seq'[c]
  <2>1. h.seq <= seq[c]
    BY <1>2 DEF HeaderInv, HeadersPast
  <2>2. h.seq # seq[c]
    BY <1>2 DEF HeaderInv, HeaderMatchesClient, BoundTo, Registered, Ending
  <2> QED BY <1>1, <2>1, <2>2
<1>3. \A h \in headers : h.seq = seq'[h.conn] <=> h.seq = seq[h.conn]
  BY <1>1, <1>2
<1> QED BY <1>2, <1>3 DEF Current

LEMMA InitPromise == Init => Promise!Init
<1> SUFFICES ASSUME Init PROVE Promise!Init
  OBVIOUS
<1>1. LeasedTo = [c \in Conn |-> NoClient]
  BY NoneAssumption DEF Init, LeasedTo
<1>2. Ending = {} /\ Current = {} /\ headers = {} /\ ToSet(recy) = {}
  BY DEF Init, Ending, Current, ToSet
<1>3. now \in Nat /\ inRecyTime \in [Conn -> Nat]
  BY TimeAssumption DEF Init
<1> QED BY <1>1, <1>2, <1>3 DEF Promise!Init

LEMMA NextPromise ==
    ASSUME SafeAccept, Ownership, ClockRead, HeaderInv, Clients, [Next]_vars
    PROVE  [Promise!Next]_(Promise!vars)
<1> USE NoneAssumption DEF Ownership, Typing, TypeOK, HoldsWhereUsed
<1>1. \A c \in Conn : /\ Registered(c) => /\ sockFd[c] \in Fd /\ reg[sockFd[c]] = c
                                          /\ LeasedTo[c] = peer[sockFd[c]] /\ LeasedTo[c] \in Client
                      /\ ~Registered(c) => LeasedTo[c] = NoClient
  BY LeasedWhenRegistered
<1>2. ASSUME UNCHANGED reg,
             \A c \in Conn : Registered(c) => /\ sockFd'[c] = sockFd[c]
                                              /\ peer'[sockFd[c]] = peer[sockFd[c]]
      PROVE  LeasedTo' = LeasedTo
  BY <1>2 DEF LeasedTo, Registered
<1>3. UNCHANGED <<seq, headers>> => UNCHANGED Current
  BY DEF Current
<1>4. UNCHANGED <<evPc, evConn>> \/ (evPc # "in_recy" /\ evPc' # "in_recy") => UNCHANGED Ending
  BY DEF Ending
<1>5. ASSUME UNCHANGED <<recy, inRecyTime, now, headers, Current, Ending, LeasedTo>>
      PROVE  UNCHANGED Promise!vars
  BY <1>5 DEF Promise!vars
<1>6. ASSUME NEW k \in Client, NEW fd \in Fd, AcceptConn(k, fd) PROVE UNCHANGED Promise!vars
  <2>1. /\ peer' = [peer EXCEPT ![fd] = k] /\ peer[fd] = NoClient
        /\ evPc # "in_recy" /\ evPc' # "in_recy"
        /\ UNCHANGED <<seq, headers, reg, sockFd, recy, inRecyTime, now>>
    BY <1>6 DEF AcceptConn, objVars, Open
  <2>2. \A c \in Conn : Registered(c) => peer'[sockFd[c]] = peer[sockFd[c]]
    BY <1>1, <2>1
  <2> QED BY <1>2, <1>3, <1>4, <1>5, <2>1, <2>2
<1>7. CASE GetFreeConnection
  <2>1. PICK c \in Conn : GetOneToUse(c) /\ ~Registered(c)
    <3>1. CASE free # <<>>
      <4>1. GetOneToUse(Head(free))
        BY <1>7, <3>1 DEF GetFreeConnection
      <4>2. Head(free) \in ToSet(free) /\ Head(free) \in Conn
        BY <3>1, TailElements, HeadTailProperties DEF Exclusive
      <4> QED BY <4>1, <4>2 DEF Exclusive, Registered
    <3>2. CASE free = <<>>
      <4>1. PICK c \in Conn \ pool : GetOneToUse(c)
        BY <1>7, <3>2 DEF GetFreeConnection
      <4> QED BY <4>1 DEF NoLeak, Registered
    <3> QED BY <3>1, <3>2
  <2>2. /\ seq' = [seq EXCEPT ![c] = @ + 1] /\ sockFd' = [sockFd EXCEPT ![c] = evFd]
        /\ evPc # "in_recy" /\ evPc' # "in_recy"
        /\ UNCHANGED <<reg, peer, headers, inRecyTime, recy, now>>
    BY <1>7, <2>1 DEF GetFreeConnection, GetOneToUse, kernelVars
  <2>3. UNCHANGED Current
    BY <2>1, <2>2, RaiseUnbound DEF Ending
  <2>4. \A d \in Conn : Registered(d) => sockFd'[d] = sockFd[d]
    BY <2>1, <2>2
  <2> QED BY <1>2, <1>4, <1>5, <2>2, <2>3, <2>4
<1>8. CASE SetNonBlocking
  <2>1. ~(NonBlockingResults \subseteq {TRUE}) => FALSE
    BY <1>8 DEF SetNonBlocking, SafeAccept, Binding
  <2>2. /\ UNCHANGED <<seq, peer, reg, sockFd, headers, recy, inRecyTime, now>>
        /\ evPc # "in_recy" /\ evPc' # "in_recy"
    BY <1>8, <2>1 DEF SetNonBlocking
  <2> QED BY <1>2, <1>3, <1>4, <1>5, <2>2
<1>9. CASE EpollAdd
  <2>1. PICK c \in Conn : c = evConn
    BY <1>9 DEF EpollAdd
  <2>2. /\ evPc = "epoll_add" /\ evPc' = "epoll_wait" /\ evFd \in Fd
        /\ UNCHANGED <<sockFd, headers, recy, inRecyTime, now>>
        /\ reg[evFd] = NoConn /\ sockFd[c] = evFd /\ peer[evFd] \in Client
        /\ ~Registered(c) /\ c \notin ToSet(recy) /\ c \notin Ending
    BY <1>9, <2>1 DEF EpollAdd, Binding, Exclusive, Registered, Ending
  <2>3. UNCHANGED Ending
    BY <1>4, <2>2
  <2>4. CASE CloseConnection(evConn)
    <3>1. /\ reg' = reg /\ peer' = [peer EXCEPT ![evFd] = NoClient]
          /\ seq' = [seq EXCEPT ![c] = @ + 1]
      BY <2>1, <2>2, <2>4, CloseNewConnection DEF Ownership, Typing, TypeOK, HoldsWhereUsed
    <3>2. UNCHANGED Current
      BY <2>2, <3>1, RaiseUnbound
    <3>3. \A d \in Conn : Registered(d) => peer'[sockFd[d]] = peer[sockFd[d]]
      BY <1>1, <2>2, <3>1
    <3> QED BY <1>2, <1>5, <2>2, <2>3, <3>1, <3>2, <3>3
  <2>5. CASE reg' = [reg EXCEPT ![evFd] = evConn] /\ UNCHANGED <<free, seq, peer>>
    <3> DEFINE k == peer[evFd]
    <3>1. UNCHANGED Current
      BY <1>3, <2>2, <2>5
    <3>2. \A d \in Conn : Registered(d)' <=> Registered(d) \/ d = c
      BY <2>1, <2>2, <2>5 DEF Registered
    <3>3. \A d \in Conn : LeasedTo'[d] = IF d = c THEN k ELSE LeasedTo[d]
      BY <2>2, <2>5, <3>2 DEF LeasedTo, Registered
    <3>4. LeasedTo' = [LeasedTo EXCEPT ![c] = k]
      BY <3>3 DEF LeasedTo
    <3>5. \A d \in Conn : LeasedTo[d] # k
      <4>1. ASSUME NEW d \in Conn, Registered(d) PROVE LeasedTo[d] # k
        <5>1. LeasedTo[d] = peer[sockFd[d]] /\ sockFd[d] \in Fd /\ sockFd[d] # evFd
          BY <1>1, <2>2, <4>1
        <5> QED BY <2>2, <5>1 DEF Clients
      <4> QED BY <1>1, <2>2, <4>1
    <3>6. \A h \in Current : h.conn # c
      <4>1. ASSUME NEW h \in Current, h.conn = c PROVE FALSE
        BY <2>2, <4>1 DEF Current, HeaderInv, HeaderMatchesClient, BoundTo, Registered, Ending
      <4> QED BY <4>1
    <3>7. Promise!Lease(c, k)
      BY <1>1, <2>2, <2>3, <3>1, <3>4, <3>5, <3>6 DEF Promise!Lease, Promise!Idle
    <3> QED BY <2>2, <3>7 DEF Promise!Next
  <2> QED BY <1>9, <2>4, <2>5 DEF EpollAdd
<1>10. ASSUME NEW fd \in Fd, RecvRequest(fd) PROVE Promise!Next
  <2> DEFINE c == reg[fd]
             new == [conn |-> c, seq |-> seq[c], client |-> peer[fd]]
  <2>1. /\ sockFd[c] = fd /\ c \in Conn /\ Registered(c)
        /\ headers' = headers \cup {new}
        /\ UNCHANGED <<seq, sockFd, peer, reg, evPc, evConn, recy, inRecyTime, now>>
    BY <1>10 DEF RecvRequest, Binding, Registered, objVars, kernelVars, loopVars
  <2>2. LeasedTo[c] = peer[fd] /\ LeasedTo[c] # NoClient
    BY <1>1, <2>1
  <2>3. UNCHANGED LeasedTo /\ UNCHANGED Ending
    BY <1>2, <1>4, <2>1
  <2>4. new.conn = c /\ new.client = peer[fd] /\ new.seq = seq[c]
    OBVIOUS
  <2> HIDE DEF new
  <2>5. Current' = Current \cup (headers' \ headers)
    BY <2>1, <2>4 DEF Current
  <2>6. Promise!Issue(c)
    BY <2>1, <2>2, <2>3, <2>4, <2>5 DEF Promise!Issue
  <2> QED BY <2>1, <2>6 DEF Promise!Next
<1>11. ASSUME NEW fd \in Fd, RecvClosed(fd) PROVE Promise!Next
  <2> DEFINE c == reg[fd]
  <2>1. /\ sockFd[c] = fd /\ c \in Conn /\ Registered(c)
        /\ peer' = [peer EXCEPT ![fd] = NoClient] /\ reg' = [reg EXCEPT ![fd] = NoConn]
        /\ evPc' = "in_recy" /\ evConn' = c /\ evPc = "epoll_wait"
        /\ UNCHANGED <<seq, headers, sockFd, recy, inRecyTime, now>>
    BY <1>11 DEF RecvClosed, CloseFd, Binding, Registered, objVars
  <2>2. \A g \in Fd : reg[g] = c => g = fd
    BY <2>1 DEF Binding
  <2>3. \A d \in Conn : Registered(d)' <=> Registered(d) /\ d # c
    BY <2>1, <2>2 DEF Registered
  <2>4. \A d \in Conn : LeasedTo'[d] = IF d = c THEN NoClient ELSE LeasedTo[d]
    <3>1. \A d \in Conn : Registered(d) /\ d # c => peer'[sockFd[d]] = peer[sockFd[d]]
      BY <1>1, <2>1
    <3> QED BY <2>1, <2>3, <3>1 DEF LeasedTo, Registered
  <2>5. LeasedTo' = [LeasedTo EXCEPT ![c] = NoClient]
    BY <2>4 DEF LeasedTo
  <2>6. Ending' = Ending \cup {c}
    BY <2>1 DEF Ending
  <2>7. LeasedTo[c] # NoClient /\ UNCHANGED Current
    BY <1>1, <1>3, <2>1
  <2>8. Promise!HangUp(c)
    BY <2>1, <2>5, <2>6, <2>7 DEF Promise!HangUp
  <2> QED BY <2>1, <2>8 DEF Promise!Next
<1>12. CASE InRecyConnection
  <2>1. PICK c \in Conn : c = evConn
    BY <1>12 DEF InRecyConnection
  <2>2. /\ evPc = "in_recy" /\ evPc' = "epoll_wait"
        /\ seq' = [seq EXCEPT ![c] = @ + 1] /\ inRecyTime' = [inRecyTime EXCEPT ![c] = now]
        /\ recy' = Append(recy, c)
        /\ UNCHANGED <<peer, reg, sockFd, headers, now>>
    BY <1>12, <2>1 DEF InRecyConnection, kernelVars
  <2>3. ToSet(recy') = ToSet(recy) \cup {c}
    BY <2>2, AppendElements
  <2>4. c \in Ending /\ Ending' = Ending \ {c}
    BY <2>1, <2>2 DEF Ending
  <2>5. Current' = {h \in Current : h.conn # c}
    <3>1. \A h \in headers : h.conn \in Conn /\ h.seq \in Nat /\ h.seq <= seq[h.conn]
      BY DEF Header, HeaderInv, HeadersPast
    <3>2. \A h \in headers : h.seq = seq'[h.conn] <=> h.seq = seq[h.conn] /\ h.conn # c
      BY <2>2, <3>1
    <3> QED BY <2>2, <3>2 DEF Current
  <2>6. UNCHANGED LeasedTo
    BY <1>2, <2>2
  <2>7. Promise!Retire(c)
    BY <2>2, <2>3, <2>4, <2>5, <2>6 DEF Promise!Retire
  <2> QED BY <2>7 DEF Promise!Next
<1>13. CASE RcErase
  <2>1. PICK i \in 1 .. Len(recy) : Expired(recy[i]) /\ recy' = RemoveAt(recy, i)
    BY <1>13 DEF RcErase
  <2>2. ToSet(recy') = ToSet(recy) \ {recy[i]}
    <3>1. recy \in Seq(Conn) /\ IsInjective(recy)
      BY DEF Exclusive
    <3> HIDE DEF Ownership, TypeOK
    <3> QED BY <2>1, <3>1, RemoveAtElements
  <2>3. recy[i] \in Conn /\ recy[i] \in ToSet(recy)
    BY EntryIsElement
  <2>4. UNCHANGED <<seq, headers, reg, peer, sockFd, evPc, evConn, inRecyTime, now>>
    BY <1>13 DEF RcErase, objVars, kernelVars, loopVars
  <2>5. inRecyTime[recy[i]] + RecyWaiteTime <= now
    BY <2>1, <2>3, TimeAssumption DEF Expired, ClockRead
  <2>6. UNCHANGED <<LeasedTo, Ending, Current>>
    BY <1>2, <1>3, <1>4, <2>4
  <2>7. Promise!Release(recy[i])
    BY <2>2, <2>3, <2>4, <2>5, <2>6 DEF Promise!Release
  <2> QED BY <2>3, <2>7 DEF Promise!Next
<1>14. CASE RcPut
  <2>1. PICK c \in Conn : c = rcConn
    BY <1>14 DEF RcPut
  <2>2. /\ seq' = [seq EXCEPT ![c] = @ + 1]
        /\ UNCHANGED <<peer, reg, sockFd, headers, evPc, evConn, recy, inRecyTime, now>>
    BY <1>14, <2>1 DEF RcPut, FreeConnection, kernelVars, loopVars
  <2>3. ~Registered(c) /\ c \notin Ending
    BY <2>1 DEF Exclusive, Registered, Ending
  <2>4. UNCHANGED Current
    BY <2>2, <2>3, RaiseUnbound
  <2> QED BY <1>2, <1>4, <1>5, <2>2, <2>4
<1>15. CASE Tick
  <2>1. now' > now /\ UNCHANGED <<seq, headers, reg, peer, sockFd, evPc, evConn, recy, inRecyTime>>
    BY <1>15 DEF Tick, objVars, kernelVars, loopVars
  <2>2. Promise!Tick
    BY <1>2, <1>3, <1>4, <2>1 DEF Promise!Tick
  <2> QED BY <2>2 DEF Promise!Next
<1>16. CASE RcWake \/ RcLock \/ RcUnlock \/ (\E k \in Client : ClientLeaves(k)) \/ UNCHANGED vars
  <2>1. UNCHANGED <<seq, headers, reg, peer, sockFd, evPc, evConn, recy, inRecyTime, now>>
    BY <1>16 DEF RcWake, RcLock, RcUnlock, ClientLeaves, vars, objVars, kernelVars, loopVars
  <2> QED BY <1>2, <1>3, <1>4, <1>5, <2>1
<1> QED BY <1>6, <1>7, <1>8, <1>9, <1>10, <1>11, <1>12, <1>13, <1>14, <1>15, <1>16
        DEF Next, Loop, Recycler

\* The pool implements Leases, for any pool, clients, descriptors and times: an
\* object serves one client after the other with mRecyWaiteTime seconds between
\* two of them, and a header that is out of date stays so.
THEOREM Implementation == SafeAccept /\ Spec => ImplementsLeases
<1> DEFINE IInv == Ownership /\ QuarantineInv /\ HeaderInv /\ Clients
<1>1. Init => IInv
  BY InitOwnership, InitQuarantine, InitHeader, InitClients
<1>2. SafeAccept /\ IInv /\ [Next]_vars => IInv'
  BY NextOwnership, NextQuarantine, NextHeader, NextClients
<1>3. SafeAccept /\ IInv /\ [Next]_vars => [Promise!Next]_(Promise!vars)
  BY NextPromise DEF QuarantineInv
<1>4. SafeAccept => SafeAccept'
  BY DEF SafeAccept
<1> QED BY <1>1, <1>2, <1>3, <1>4, InitPromise, PTL DEF Spec, ImplementsLeases, Promise!Spec
=============================================================================
