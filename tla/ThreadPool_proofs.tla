-------------------------- MODULE ThreadPool_proofs --------------------------
(***************************************************************************)
(* Proofs about ThreadPool for any number of threads and packages: types,  *)
(* NoLostWakeUp, PackageInOnePlace and the refinement of MessagePool, from *)
(* three inductive invariants.                                             *)
(***************************************************************************)
EXTENDS ThreadPool, SequenceTheorems, FiniteSetTheorems, TLAPS

-----------------------------------------------------------------------------
(* Types.  That mRunningThreadNumber stays non-negative needs its meaning: *)
(* the number of threads between the increment and the decrement.          *)

Busy == {t \in Thread : pc[t] \in {"process", "uncount"}}

HasPackage == \A t \in Thread : package[t] # 0 <=> pc[t] \in {"count", "process"}

Typing == TypeOK /\ running = Cardinality(Busy) /\ HasPackage

LEMMA InitTyping == Init => Typing
<1> SUFFICES ASSUME Init PROVE Typing
  OBVIOUS
<1>1. Busy = {}
  BY DEF Busy, Init
<1>2. running = Cardinality(Busy)
  BY <1>1, FS_EmptySet DEF Init
<1>3. queue \in Seq(Msg)
  BY EmptySeq DEF Init
<1>4. running \in Nat /\ pushed \in 0 .. MaxMsg
  BY MsgAssumption DEF Init
<1>5. TypeOK
  BY <1>3, <1>4 DEF Init, TypeOK
<1>6. HasPackage
  BY DEF Init, HasPackage
<1> QED BY <1>2, <1>5, <1>6 DEF Typing

\* Busy threads can be counted.
LEMMA BusyCount ==
    /\ Busy \subseteq Thread /\ IsFiniteSet(Busy) /\ Cardinality(Busy) \in Nat
    /\ \A t \in Thread \ Busy : Cardinality(Busy \cup {t}) = Cardinality(Busy) + 1
    /\ \A t \in Busy : Cardinality(Busy \ {t}) = Cardinality(Busy) - 1
                       /\ Cardinality(Busy \ {t}) \in Nat
<1>1. Busy \subseteq Thread
  BY DEF Busy
<1>2. IsFiniteSet(Busy)
  BY <1>1, ThreadAssumption, FS_Subset
<1>3. ASSUME NEW t PROVE IsFiniteSet(Busy \ {t})
  BY <1>2, FS_RemoveElement
<1> QED BY <1>1, <1>2, <1>3, FS_CardinalityType, FS_AddElement, FS_RemoveElement

\* A thread that moves between two steps both inside or both outside the busy
\* part leaves the count alone.
LEMMA SameBusy ==
    ASSUME Typing, NEW t \in Thread, NEW to,
           pc' = [pc EXCEPT ![t] = to], running' = running,
           pc[t] \in {"process", "uncount"} <=> to \in {"process", "uncount"}
    PROVE  running' = Cardinality(Busy')
<1>1. Busy' = Busy
  BY DEF Busy, Typing, TypeOK
<1> QED BY <1>1 DEF Typing

LEMMA ThreadTyping ==
    ASSUME Typing, NEW t \in Thread, ThreadFunc(t) \/ SpuriousWakeUp(t)
    PROVE  Typing'
<1> USE DEF Typing, TypeOK, HasPackage, Go
<1>1. CASE Lock(t)
  <2>1. running' = Cardinality(Busy')
    BY <1>1, SameBusy DEF Lock
  <2> QED BY <1>1, <2>1 DEF Lock
<1>2. CASE NothingToDo(t)
  <2>1. running' = Cardinality(Busy')
    BY <1>2, SameBusy DEF NothingToDo
  <2> QED BY <1>2, <2>1 DEF NothingToDo
<1>3. CASE CondWait(t)
  <2>1. running' = Cardinality(Busy')
    BY <1>3, SameBusy DEF CondWait
  <2> QED BY <1>3, <2>1 DEF CondWait
<1>4. CASE Leave(t)
  <2>1. running' = Cardinality(Busy')
    BY <1>4, SameBusy DEF Leave
  <2> QED BY <1>4, <2>1 DEF Leave
<1>5. CASE Take(t)
  <2>1. running' = Cardinality(Busy')
    BY <1>5, SameBusy DEF Take
  <2>2. Head(queue) \in Msg /\ Tail(queue) \in Seq(Msg)
    BY <1>5, HeadTailProperties DEF Take
  <2>3. 0 \notin Msg
    BY DEF Msg
  <2> QED BY <1>5, <2>1, <2>2, <2>3 DEF Take
<1>6. CASE Count(t)
  <2>1. Busy' = Busy \cup {t} /\ t \notin Busy
    BY <1>6 DEF Count, Busy
  <2>2. running' = Cardinality(Busy') /\ running' \in Nat
    BY <1>6, <2>1, BusyCount DEF Count
  <2> QED BY <1>6, <2>2 DEF Count
<1>7. CASE Process(t)
  <2>1. running' = Cardinality(Busy')
    BY <1>7, SameBusy DEF Process
  <2>2. package[t] \in Msg
    BY <1>7 DEF Process
  <2> QED BY <1>7, <2>1, <2>2 DEF Process
<1>8. CASE Uncount(t)
  <2>1. Busy' = Busy \ {t} /\ t \in Busy
    BY <1>8 DEF Uncount, Busy
  <2>2. running' = Cardinality(Busy') /\ running' \in Nat
    BY <1>8, <2>1, BusyCount DEF Uncount
  <2> QED BY <1>8, <2>2 DEF Uncount
<1>9. CASE SpuriousWakeUp(t)
  <2>1. running' = Cardinality(Busy')
    BY <1>9, SameBusy DEF SpuriousWakeUp
  <2> QED BY <1>9, <2>1 DEF SpuriousWakeUp
<1> QED BY <1>1, <1>2, <1>3, <1>4, <1>5, <1>6, <1>7, <1>8, <1>9 DEF ThreadFunc

LEMMA MainTyping == Typing /\ (Main \/ UNCHANGED vars) => Typing'
<1> SUFFICES ASSUME Typing, Main \/ UNCHANGED vars PROVE Typing'
  OBVIOUS
<1> USE DEF Typing, TypeOK, HasPackage, MainGo
<1>1. ASSUME NEW t \in Thread, CreateThread(t) PROVE Typing'
  <2>1. running' = Cardinality(Busy')
    BY <1>1, SameBusy DEF CreateThread, Go
  <2> QED BY <1>1, <2>1 DEF CreateThread, Go
<1>2. ASSUME pc' = pc /\ running' = running PROVE running' = Cardinality(Busy')
  BY <1>2 DEF Busy
<1>3. CASE AllCreated
  BY <1>2, <1>3 DEF AllCreated, threadVars
<1>4. CASE CreateReturns
  BY <1>2, <1>4 DEF CreateReturns, threadVars
<1>5. CASE Push
  <2>1. pushed + 1 \in Msg /\ pushed' \in 0 .. MaxMsg
    BY <1>5, MsgAssumption DEF Push, Msg
  <2>2. queue' \in Seq(Msg)
    BY <1>5, <2>1, AppendProperties DEF Push
  <2> QED BY <1>2, <1>5, <2>1, <2>2 DEF Push, threadVars
<1>6. CASE Call
  <2>1. CASE Waiting = {}
    BY <1>2, <1>6, <2>1 DEF Call
  <2>2. ASSUME NEW t \in Waiting, pc' = [pc EXCEPT ![t] = "lock"] PROVE Typing'
    <3>1. t \in Thread /\ pc[t] = "waiting"
      BY DEF Waiting
    <3>2. running' = Cardinality(Busy')
      BY <1>6, <2>2, <3>1, SameBusy DEF Call
    <3> QED BY <1>6, <2>2, <3>1, <3>2 DEF Call
  <2> QED BY <1>6, <2>1, <2>2 DEF Call
<1>7. CASE SetShutDown
  BY <1>2, <1>7 DEF SetShutDown, threadVars
<1>8. CASE Broadcast
  <2>1. Busy' = Busy
    BY <1>8 DEF Broadcast, Busy, Waiting
  <2> QED BY <1>8, <2>1 DEF Broadcast, Waiting
<1>9. CASE Join
  BY <1>2, <1>9 DEF Join, threadVars
<1>10. CASE ClearMsgRecvQueue
  <2>1. ToSet(queue) \subseteq Msg
    BY LenProperties, ElementOfSeq DEF ToSet
  <2>2. queue' \in Seq(Msg)
    BY <1>10, EmptySeq DEF ClearMsgRecvQueue
  <2> QED BY <1>2, <1>10, <2>1, <2>2 DEF ClearMsgRecvQueue, threadVars
<1>11. CASE UNCHANGED vars
  BY <1>2, <1>11 DEF vars, threadVars
<1> QED BY <1>1, <1>3, <1>4, <1>5, <1>6, <1>7, <1>8, <1>9, <1>10, <1>11 DEF Main

LEMMA NextTyping == Typing /\ [Next]_vars => Typing'
BY ThreadTyping, MainTyping DEF Next

\* Every variable keeps its type; mRunningThreadNumber never falls below 0.
THEOREM TypeCorrect == Spec => []TypeOK
<1>1. Typing => TypeOK
  BY DEF Typing
<1> QED BY <1>1, InitTyping, NextTyping, PTL DEF Spec

-----------------------------------------------------------------------------
(* Wake-ups.  A thread that is about to wait holds the mutex and has seen  *)
(* the queue empty, so that the queue is still empty when it waits; and a  *)
(* thread that has ended did so because the pool was shut down.            *)

MutexHolder == \A t \in Thread : pc[t] \in {"check", "to_wait"} <=> mutex = t

WaitsOnEmpty == \A t \in Thread : pc[t] = "to_wait" => queue = <<>>

EndsWhenShut == \A t \in Thread : pc[t] = "done" => shutDown

Wake == MutexHolder /\ WaitsOnEmpty /\ EndsWhenShut /\ NoLostWakeUp

LEMMA InitWake == Init => Wake
BY ThreadAssumption DEF Init, Wake, MutexHolder, WaitsOnEmpty, EndsWhenShut, NoLostWakeUp

LEMMA ThreadWake ==
    ASSUME Typing, Wake, NEW t \in Thread, ThreadFunc(t) \/ SpuriousWakeUp(t)
    PROVE  Wake'
<1> USE ThreadAssumption
        DEF Wake, Typing, TypeOK, Go, MutexHolder, WaitsOnEmpty, EndsWhenShut, NoLostWakeUp,
            Asleep
<1>1. CASE Lock(t)
  BY <1>1 DEF Lock
<1>2. CASE NothingToDo(t)
  BY <1>2 DEF NothingToDo
<1>3. CASE CondWait(t)
  BY <1>3 DEF CondWait
<1>4. CASE Leave(t)
  BY <1>4 DEF Leave
<1>5. CASE Take(t)
  BY <1>5 DEF Take
<1>6. CASE Count(t)
  BY <1>6 DEF Count
<1>7. CASE Process(t)
  BY <1>7 DEF Process
<1>8. CASE Uncount(t)
  BY <1>8 DEF Uncount
<1>9. CASE SpuriousWakeUp(t)
  BY <1>9 DEF SpuriousWakeUp
<1> QED BY <1>1, <1>2, <1>3, <1>4, <1>5, <1>6, <1>7, <1>8, <1>9 DEF ThreadFunc

LEMMA MainWake == Typing /\ Wake /\ (Main \/ UNCHANGED vars) => Wake'
<1> SUFFICES ASSUME Typing, Wake, Main \/ UNCHANGED vars PROVE Wake'
  OBVIOUS
<1> USE ThreadAssumption
        DEF Wake, Typing, TypeOK, MainGo, MutexHolder, WaitsOnEmpty, EndsWhenShut,
            NoLostWakeUp, Asleep
<1>1. ASSUME NEW t \in Thread, CreateThread(t) PROVE Wake'
  BY <1>1 DEF CreateThread, Go
<1>2. CASE AllCreated
  BY <1>2 DEF AllCreated, threadVars
<1>3. CASE CreateReturns
  BY <1>3 DEF CreateReturns, threadVars
<1>4. CASE Push
  BY <1>4 DEF Push, threadVars
<1>5. CASE Call
  <2>1. CASE Waiting = {}
    BY <1>5, <2>1 DEF Call, Waiting
  <2>2. ASSUME NEW t \in Waiting, pc' = [pc EXCEPT ![t] = "lock"] PROVE Wake'
    <3>1. t \in Thread /\ pc[t] = "waiting" /\ pc'[t] = "lock"
      BY <2>2 DEF Waiting
    <3> QED BY <1>5, <2>2, <3>1 DEF Call
  <2> QED BY <1>5, <2>1, <2>2 DEF Call
<1>6. CASE SetShutDown
  BY <1>6 DEF SetShutDown, threadVars
<1>7. CASE Broadcast
  BY <1>7 DEF Broadcast, Waiting
<1>8. CASE Join
  BY <1>8 DEF Join, threadVars
<1>9. CASE ClearMsgRecvQueue
  BY <1>9 DEF ClearMsgRecvQueue, threadVars
<1>10. CASE UNCHANGED vars
  BY <1>10 DEF vars, threadVars
<1> QED BY <1>1, <1>2, <1>3, <1>4, <1>5, <1>6, <1>7, <1>8, <1>9, <1>10 DEF Main

LEMMA NextWake == Typing /\ Wake /\ [Next]_vars => Wake'
BY ThreadWake, MainWake DEF Next

\* No signal is lost although Call() sends it without the mutex.
THEOREM NoLostWakeUpAlways == Spec => []NoLostWakeUp
<1>1. Init => Typing /\ Wake
  BY InitTyping, InitWake
<1>2. Typing /\ Wake /\ [Next]_vars => (Typing /\ Wake)'
  BY NextTyping, NextWake
<1>3. Wake => NoLostWakeUp
  BY DEF Wake
<1> QED BY <1>1, <1>2, <1>3, PTL DEF Spec

-----------------------------------------------------------------------------
(* Order.  The queue is always the latest packages in order; everything    *)
(* older is with one thread or has been freed.  StopAll() goes through its *)
(* steps with mIfShutDown set and frees the queue when no thread is left.  *)

Taken == pushed - Len(queue)

Closing == /\ shutDown <=> mainPc \in {"broadcast", "join", "stopped", "exited"}
           /\ mainPc \in {"stopped", "exited"} => \A t \in Thread : pc[t] = "done"

Consecutive == Len(queue) <= pushed /\ \A i \in 1 .. Len(queue) : queue[i] = Taken + i

OldOnly == /\ \A t \in Thread : package[t] <= Taken
           /\ \A m \in freed : m <= Taken

OnePlace == \A t \in Thread :
                /\ package[t] \notin freed
                /\ \A u \in Thread : package[t] = package[u] /\ package[t] # 0 => t = u

Accounted == \A m \in 1 .. Taken :
                m \in freed \/ \E t \in Thread : package[t] = m

Order == Closing /\ Consecutive /\ OldOnly /\ OnePlace /\ Accounted

LEMMA InitOrder == Init => Order
<1> SUFFICES ASSUME Init PROVE Order
  OBVIOUS
<1>1. queue = <<>> /\ pushed = 0
  BY DEF Init
<1>2. Len(queue) = 0
  BY <1>1
<1>3. Taken = 0
  <2>1. pushed = 0
    BY DEF Init
  <2> QED BY <1>2, <2>1 DEF Taken
<1> QED BY <1>2, <1>3 DEF Init, Order, Closing, Consecutive, OldOnly, OnePlace, Accounted

LEMMA QueueSet ==
    ASSUME Typing, Consecutive
    PROVE  /\ Len(queue) \in Nat /\ pushed \in Nat /\ Taken \in Nat
           /\ ToSet(queue) = (Taken + 1) .. pushed
<1>1. /\ Len(queue) \in Nat /\ DOMAIN queue = 1 .. Len(queue)
      /\ pushed \in Nat /\ Taken \in Nat
  BY MsgAssumption, LenProperties DEF Typing, TypeOK, Consecutive, Taken
<1>2. ASSUME NEW m \in (Taken + 1) .. pushed PROVE m \in ToSet(queue)
  <2>1. m - Taken \in 1 .. Len(queue) /\ Taken + (m - Taken) = m
    BY <1>1 DEF Taken
  <2> QED BY <2>1, <1>1 DEF Consecutive, ToSet
<1>3. ASSUME NEW m \in ToSet(queue) PROVE m \in (Taken + 1) .. pushed
  <2>1. PICK i \in 1 .. Len(queue) : m = queue[i]
    BY <1>1 DEF ToSet
  <2> QED BY <2>1, <1>1 DEF Consecutive, Taken
<1> QED BY <1>1, <1>2, <1>3

\* What the steps that touch neither queue nor packages keep.
LEMMA KeepOrder ==
    ASSUME Order, queue' = queue, pushed' = pushed, package' = package, freed' = freed,
           Closing'
    PROVE  Order'
<1>1. Taken' = Taken
  BY DEF Taken
<1> QED BY <1>1 DEF Order, Consecutive, OldOnly, OnePlace, Accounted

LEMMA TakeOrder ==
    ASSUME Typing, Order, NEW t \in Thread, Take(t)
    PROVE  Order' /\ Taken' = Taken + 1 /\ package'[t] = Taken + 1
<1>1. /\ Len(queue) \in Nat \ {0} /\ Head(queue) = queue[1]
      /\ queue' = Tail(queue) /\ pushed' = pushed /\ freed' = freed
      /\ package' = [package EXCEPT ![t] = Head(queue)]
  BY LenProperties, EmptySeq DEF Take, Typing, TypeOK
<1>2. /\ Len(queue') = Len(queue) - 1
      /\ \A i \in 1 .. Len(queue') : queue'[i] = queue[i + 1]
  BY <1>1, HeadTailProperties DEF Take, Typing, TypeOK
<1>3. pushed \in Nat /\ Taken \in Nat
  BY QueueSet DEF Order
<1>4. Taken' = Taken + 1
  BY <1>1, <1>2, <1>3 DEF Taken
<1>5. Head(queue) = Taken + 1
  BY <1>1 DEF Order, Consecutive
<1>6. /\ package'[t] = Taken + 1 /\ package[t] = 0
      /\ \A u \in Thread \ {t} : package'[u] = package[u]
  BY <1>1, <1>5 DEF Take, Go, Typing, TypeOK, HasPackage
<1>7. Consecutive'
  BY <1>1, <1>2, <1>3, <1>4 DEF Order, Consecutive
<1>8. \A u \in Thread : package[u] \in Nat
  BY DEF Typing, TypeOK, Msg
<1>9. freed \subseteq Nat
  BY DEF Typing, TypeOK, Msg
<1>10. OldOnly'
  BY <1>1, <1>3, <1>4, <1>6, <1>8, <1>9 DEF Order, OldOnly
<1>11. OnePlace'
  BY <1>1, <1>3, <1>6, <1>8, <1>9 DEF Order, OldOnly, OnePlace
<1>12. Accounted'
  <2>1. ASSUME NEW m \in 1 .. Taken + 1
        PROVE  m \in freed \/ \E u \in Thread : package'[u] = m
    <3>1. CASE m = Taken + 1
      BY <3>1, <1>6
    <3>2. CASE m \in 1 .. Taken
      <4>1. m \in freed \/ \E u \in Thread : package[u] = m
        BY <3>2 DEF Order, Accounted
      <4>2. ASSUME NEW u \in Thread, package[u] = m PROVE package'[u] = m
        BY <4>2, <3>2, <1>6
      <4> QED BY <4>1, <4>2
    <3> QED BY <3>1, <3>2, <1>3
  <2> QED BY <2>1, <1>1, <1>4 DEF Accounted
<1>13. Closing'
  BY DEF Take, Go, Typing, TypeOK, Order, Closing
<1> QED BY <1>4, <1>6, <1>7, <1>10, <1>11, <1>12, <1>13 DEF Order

LEMMA ProcessOrder ==
    ASSUME Typing, Order, NEW t \in Thread, Process(t)
    PROVE  Order' /\ Taken' = Taken
<1>1. /\ queue' = queue /\ pushed' = pushed
      /\ freed' = freed \cup {package[t]}
      /\ package' = [package EXCEPT ![t] = 0]
  BY DEF Process
<1>2. Taken' = Taken /\ Taken \in Nat
  BY <1>1, QueueSet DEF Taken, Order
<1>3. /\ package[t] \in Nat \ {0} /\ package'[t] = 0
      /\ \A u \in Thread \ {t} : package'[u] = package[u]
      /\ \A u \in Thread : package[u] \in Nat
  BY <1>1 DEF Process, Go, Typing, TypeOK, HasPackage, Msg
<1>4. freed \subseteq Nat \ {0}
  BY DEF Typing, TypeOK, Msg
<1>5. Consecutive'
  BY <1>1, <1>2 DEF Order, Consecutive
<1>6. OldOnly'
  BY <1>1, <1>2, <1>3, <1>4 DEF Order, OldOnly
<1>7. OnePlace'
  BY <1>1, <1>3, <1>4 DEF Order, OnePlace
<1>8. Accounted'
  BY <1>1, <1>2, <1>3 DEF Order, Accounted
<1>9. Closing'
  BY DEF Process, Go, Typing, TypeOK, Order, Closing
<1> QED BY <1>2, <1>5, <1>6, <1>7, <1>8, <1>9 DEF Order

LEMMA ThreadOrder ==
    ASSUME Typing, Order, NEW t \in Thread, ThreadFunc(t) \/ SpuriousWakeUp(t)
    PROVE  Order'
<1>1. ASSUME NEW from, NEW to, Go(t, from, to), from # "done",
             shutDown' = shutDown, mainPc' = mainPc
      PROVE  Closing'
  BY <1>1 DEF Go, Order, Closing, Typing, TypeOK
<1>2. CASE Lock(t)
  BY <1>1, <1>2, KeepOrder DEF Lock
<1>3. CASE NothingToDo(t)
  BY <1>1, <1>3, KeepOrder DEF NothingToDo
<1>4. CASE CondWait(t)
  BY <1>1, <1>4, KeepOrder DEF CondWait
<1>5. CASE Leave(t)
  BY <1>1, <1>5, KeepOrder DEF Leave
<1>6. CASE Take(t)
  BY <1>6, TakeOrder
<1>7. CASE Count(t)
  BY <1>1, <1>7, KeepOrder DEF Count
<1>8. CASE Process(t)
  BY <1>8, ProcessOrder
<1>9. CASE Uncount(t)
  BY <1>1, <1>9, KeepOrder DEF Uncount
<1>10. CASE SpuriousWakeUp(t)
  BY <1>1, <1>10, KeepOrder DEF SpuriousWakeUp
<1> QED BY <1>2, <1>3, <1>4, <1>5, <1>6, <1>7, <1>8, <1>9, <1>10 DEF ThreadFunc

LEMMA PushOrder ==
    ASSUME Typing, Order, Push
    PROVE  Order' /\ Taken' = Taken
<1>1. /\ pushed' = pushed + 1 /\ queue' = Append(queue, pushed + 1)
      /\ package' = package /\ freed' = freed
  BY DEF Push, threadVars
<1>2. pushed + 1 \in Msg /\ queue \in Seq(Msg)
  BY MsgAssumption DEF Push, Msg, Typing, TypeOK
<1>3. /\ Len(queue') = Len(queue) + 1
      /\ \A i \in 1 .. Len(queue) : queue'[i] = queue[i]
      /\ queue'[Len(queue) + 1] = pushed + 1
  BY <1>1, <1>2, AppendProperties
<1>4. Len(queue) \in Nat /\ pushed \in Nat /\ Taken \in Nat
  BY QueueSet DEF Order
<1>5. Taken' = Taken
  BY <1>1, <1>3, <1>4 DEF Taken
<1>6. Consecutive'
  <2>1. ASSUME NEW i \in 1 .. Len(queue) + 1 PROVE queue'[i] = Taken + i
    <3>1. CASE i = Len(queue) + 1
      BY <3>1, <1>3, <1>4 DEF Taken
    <3>2. CASE i \in 1 .. Len(queue)
      BY <3>2, <1>3 DEF Order, Consecutive
    <3> QED BY <3>1, <3>2, <1>4
  <2> QED BY <2>1, <1>1, <1>3, <1>4, <1>5 DEF Order, Consecutive
<1>7. OldOnly' /\ OnePlace' /\ Accounted'
  BY <1>1, <1>5 DEF Order, OldOnly, OnePlace, Accounted
<1>8. Closing'
  BY DEF Push, MainGo, threadVars, Order, Closing
<1> QED BY <1>5, <1>6, <1>7, <1>8 DEF Order

LEMMA ClearOrder ==
    ASSUME Typing, Order, ClearMsgRecvQueue
    PROVE  /\ Order' /\ Taken' = pushed
           /\ \A t \in Thread : package[t] = 0
<1>1. /\ queue' = <<>> /\ pushed' = pushed /\ package' = package
      /\ freed' = freed \cup ToSet(queue)
  BY DEF ClearMsgRecvQueue, threadVars
<1>2. \A t \in Thread : package[t] = 0
  BY DEF ClearMsgRecvQueue, MainGo, Order, Closing, Typing, HasPackage
<1>3. /\ Taken \in Nat /\ pushed \in Nat /\ Taken <= pushed
      /\ ToSet(queue) = (Taken + 1) .. pushed
  <2>1. Len(queue) \in Nat /\ pushed \in Nat /\ Taken \in Nat
    BY QueueSet DEF Order
  <2>2. Taken <= pushed
    BY <2>1 DEF Taken
  <2> QED BY <2>1, <2>2, QueueSet DEF Order
<1>4. Len(queue') = 0 /\ Taken' = pushed
  BY <1>1, <1>3, EmptySeq DEF Taken
<1>5. freed \subseteq Nat \ {0}
  BY DEF Typing, TypeOK, Msg
<1>6. Consecutive'
  BY <1>1, <1>3, <1>4 DEF Consecutive
<1>7. OldOnly'
  BY <1>1, <1>2, <1>3, <1>4, <1>5 DEF Order, OldOnly
<1>8. OnePlace'
  BY <1>1, <1>2, <1>3, <1>5 DEF OnePlace
<1>9. Accounted'
  BY <1>1, <1>2, <1>3, <1>4 DEF Order, Accounted
<1>10. Closing'
  BY DEF ClearMsgRecvQueue, MainGo, threadVars, Order, Closing
<1> QED BY <1>2, <1>4, <1>6, <1>7, <1>8, <1>9, <1>10 DEF Order

LEMMA MainOrder == Typing /\ Order /\ (Main \/ UNCHANGED vars) => Order'
<1> SUFFICES ASSUME Typing, Order, Main \/ UNCHANGED vars PROVE Order'
  OBVIOUS
<1>1. ASSUME NEW t \in Thread, CreateThread(t) PROVE Order'
  <2>1. Closing'
    BY <1>1 DEF CreateThread, Order, Closing
  <2> QED BY <1>1, <2>1, KeepOrder DEF CreateThread
<1>2. CASE AllCreated
  <2>1. Closing'
    BY <1>2 DEF AllCreated, MainGo, threadVars, Order, Closing
  <2> QED BY <1>2, <2>1, KeepOrder DEF AllCreated, threadVars
<1>3. CASE CreateReturns
  <2>1. Closing'
    BY <1>3 DEF CreateReturns, MainGo, threadVars, Order, Closing
  <2> QED BY <1>3, <2>1, KeepOrder DEF CreateReturns, threadVars
<1>4. CASE Push
  BY <1>4, PushOrder
<1>5. CASE Call
  <2>1. Closing'
    BY <1>5 DEF Call, MainGo, Order, Closing
  <2> QED BY <1>5, <2>1, KeepOrder DEF Call
<1>6. CASE SetShutDown
  <2>1. Closing'
    BY <1>6 DEF SetShutDown, MainGo, threadVars, Order, Closing
  <2> QED BY <1>6, <2>1, KeepOrder DEF SetShutDown, threadVars
<1>7. CASE Broadcast
  <2>1. Closing'
    BY <1>7 DEF Broadcast, MainGo, Order, Closing
  <2> QED BY <1>7, <2>1, KeepOrder DEF Broadcast
<1>8. CASE Join
  <2>1. Closing'
    BY <1>8 DEF Join, MainGo, threadVars, Order, Closing
  <2> QED BY <1>8, <2>1, KeepOrder DEF Join, threadVars
<1>9. CASE ClearMsgRecvQueue
  BY <1>9, ClearOrder
<1>10. CASE UNCHANGED vars
  <2>1. Closing'
    BY <1>10 DEF vars, threadVars, Order, Closing
  <2> QED BY <1>10, <2>1, KeepOrder DEF vars, threadVars
<1> QED BY <1>1, <1>2, <1>3, <1>4, <1>5, <1>6, <1>7, <1>8, <1>9, <1>10 DEF Main

LEMMA NextOrder == Typing /\ Order /\ [Next]_vars => Order'
BY ThreadOrder, MainOrder DEF Next

LEMMA OrderOnePlace == Typing /\ Order => PackageInOnePlace
<1> SUFFICES ASSUME Typing, Order PROVE PackageInOnePlace
  OBVIOUS
<1>1. /\ Taken \in Nat /\ pushed \in Nat
      /\ ToSet(queue) = (Taken + 1) .. pushed
  BY QueueSet DEF Order
<1>2. IsInjective(queue)
  <2>1. DOMAIN queue = 1 .. Len(queue) /\ Len(queue) \in Nat
    BY LenProperties DEF Typing, TypeOK
  <2>2. ASSUME NEW i \in 1 .. Len(queue), NEW j \in 1 .. Len(queue), queue[i] = queue[j]
        PROVE  i = j
    <3>1. Taken + i = Taken + j
      BY <2>2 DEF Order, Consecutive
    <3> QED BY <3>1, <1>1
  <2> QED BY <2>1, <2>2 DEF IsInjective
<1>3. \A t \in Thread : package[t] \in Nat
  BY DEF Typing, TypeOK, Msg
<1>4. freed \subseteq Nat
  BY DEF Typing, TypeOK, Msg
<1> QED BY <1>1, <1>2, <1>3, <1>4 DEF Order, OldOnly, OnePlace, PackageInOnePlace

\* A package is never queued twice, never with two threads, and is freed only
\* when neither the queue nor a thread has it.
THEOREM PackageInOnePlaceAlways == Spec => []PackageInOnePlace
<1>1. Init => Typing /\ Order
  BY InitTyping, InitOrder
<1>2. Typing /\ Order /\ [Next]_vars => (Typing /\ Order)'
  BY NextTyping, NextOrder
<1> QED BY <1>1, <1>2, OrderOnePlace, PTL DEF Spec

-----------------------------------------------------------------------------
(* Refinement.  The status MessagePool gives a package follows from        *)
(* pushed, Taken and freed alone.                                          *)

Phase(m) == IF m > pushed THEN "new"
            ELSE IF m > Taken THEN "queued"
            ELSE IF m \in freed THEN "released"
            ELSE "busy"

Phases == [m \in Msg |-> Phase(m)]

LEMMA StatusIsPhase ==
    Typing /\ Order => [m \in Msg |-> StatusOf(m)] = Phases
<1> SUFFICES ASSUME Typing, Order, NEW m \in Msg PROVE StatusOf(m) = Phase(m)
  BY DEF Phases
<1>1. /\ Taken \in Nat /\ pushed \in Nat /\ Taken <= pushed
      /\ m \in ToSet(queue) <=> m > Taken /\ m <= pushed
  <2>1. /\ Len(queue) \in Nat /\ Taken \in Nat /\ pushed \in Nat
        /\ ToSet(queue) = (Taken + 1) .. pushed
    BY QueueSet DEF Order
  <2>2. Taken <= pushed
    BY <2>1 DEF Taken
  <2> QED BY <2>1, <2>2 DEF Msg
<1>2. m \in Nat \ {0}
  BY DEF Msg
<1>3. m \in freed => m <= Taken
  BY DEF Order, OldOnly
<1>4. m \in Hand => m <= Taken /\ m \notin freed
  BY DEF Hand, Order, OldOnly, OnePlace
<1>5. m <= Taken => m \in freed \/ m \in Hand
  BY <1>1, <1>2 DEF Hand, Order, Accounted
<1>6. CASE m > pushed
  <2>1. m \notin ToSet(queue) /\ m \notin Hand /\ m \notin freed
    BY <1>1, <1>2, <1>3, <1>4, <1>6
  <2> QED BY <2>1, <1>6 DEF StatusOf, Phase
<1>7. CASE m > Taken /\ ~(m > pushed)
  <2>1. m \in ToSet(queue)
    BY <1>1, <1>2, <1>7
  <2>2. m \notin Hand /\ m \notin freed
    BY <1>1, <1>2, <1>3, <1>4, <1>7
  <2> QED BY <2>1, <2>2, <1>7 DEF StatusOf, Phase
<1>8. CASE ~(m > Taken) /\ ~(m > pushed)
  <2>1. m \notin ToSet(queue)
    BY <1>1, <1>8
  <2>2. m \in freed <=> m \notin Hand
    BY <1>1, <1>2, <1>4, <1>5, <1>8
  <2> QED BY <2>1, <2>2, <1>8 DEF StatusOf, Phase
<1> QED BY <1>1, <1>2, <1>6, <1>7, <1>8

\* MessagePool's actions, with the status of a package replaced by its phase.
LEMMA SamePhases ==
    ASSUME pushed' = pushed, Taken' = Taken, freed' = freed
    PROVE  Phases' = Phases
BY DEF Phases, Phase

LEMMA TakePhases ==
    ASSUME Typing, Order, NEW t \in Thread, Take(t)
    PROVE  \E m \in Msg : /\ \A n \in Msg : n < m => Phases[n] # "queued"
                         /\ Phases[m] = "queued"
                         /\ Phases' = [Phases EXCEPT ![m] = "busy"]
<1>1. /\ Taken \in Nat /\ pushed \in Nat
      /\ ToSet(queue) = (Taken + 1) .. pushed
  BY QueueSet DEF Order
<1>2. pushed' = pushed /\ freed' = freed /\ Taken' = Taken + 1
  BY TakeOrder DEF Take
<1>3. Taken + 1 <= pushed
  <2>1. Len(queue) \in Nat \ {0}
    BY LenProperties, EmptySeq DEF Take, Typing, TypeOK
  <2> QED BY <2>1, <1>1 DEF Taken
<1>4. pushed <= MaxMsg
  BY DEF Typing, TypeOK
<1>5. Taken + 1 \in Msg
  BY <1>1, <1>3, <1>4, MsgAssumption DEF Msg
<1>6. Taken + 1 \notin freed
  BY <1>1 DEF Order, OldOnly
<1>7. \A n \in Msg : n \in Nat
  BY DEF Msg
<1>8. \A n \in Msg : n < Taken + 1 => Phases[n] # "queued"
  BY <1>1, <1>3, <1>7 DEF Phases, Phase
<1>9. Phases[Taken + 1] = "queued"
  BY <1>1, <1>3, <1>5 DEF Phases, Phase
<1>10. Phases' = [Phases EXCEPT ![Taken + 1] = "busy"]
  <2>1. ASSUME NEW n \in Msg
        PROVE  Phase(n)' = IF n = Taken + 1 THEN "busy" ELSE Phase(n)
    BY <1>1, <1>2, <1>3, <1>6, <1>7 DEF Phase
  <2> QED BY <2>1 DEF Phases
<1> QED BY <1>5, <1>8, <1>9, <1>10

LEMMA ProcessPhases ==
    ASSUME Typing, Order, NEW t \in Thread, Process(t)
    PROVE  \E m \in Msg : /\ Phases[m] = "busy"
                         /\ Phases' = [Phases EXCEPT ![m] = "released"]
<1> DEFINE m == package[t]
<1>1. m \in Msg
  BY DEF Process, Go, Typing, TypeOK, HasPackage
<1>2. /\ Taken \in Nat /\ pushed \in Nat /\ Taken <= pushed
  <2>1. Len(queue) \in Nat /\ Taken \in Nat /\ pushed \in Nat
    BY QueueSet DEF Order
  <2> QED BY <2>1 DEF Taken
<1>3. pushed' = pushed /\ Taken' = Taken /\ freed' = freed \cup {m}
  BY ProcessOrder DEF Process
<1>4. m <= Taken /\ m \notin freed
  BY DEF Order, OldOnly, OnePlace
<1>5. \A n \in Msg : n \in Nat
  BY DEF Msg
<1> HIDE DEF m
<1>6. Phases[m] = "busy"
  BY <1>1, <1>2, <1>4, <1>5 DEF Phases, Phase
<1>7. ASSUME NEW n \in Msg
      PROVE  Phase(n)' = IF n = m THEN "released" ELSE Phase(n)
  BY <1>1, <1>2, <1>3, <1>4, <1>5 DEF Phase
<1>8. Phases' = [Phases EXCEPT ![m] = "released"]
  BY <1>7 DEF Phases
<1> QED BY <1>1, <1>6, <1>8

LEMMA PushPhases ==
    ASSUME Typing, Order, Push
    PROVE  \E m \in Msg : /\ \A n \in Msg : n < m => Phases[n] # "new"
                         /\ Phases[m] = "new"
                         /\ Phases' = [Phases EXCEPT ![m] = "queued"]
<1>1. /\ Taken \in Nat /\ pushed \in Nat /\ Taken <= pushed
  <2>1. Len(queue) \in Nat /\ Taken \in Nat /\ pushed \in Nat
    BY QueueSet DEF Order
  <2> QED BY <2>1 DEF Taken
<1>2. pushed' = pushed + 1 /\ Taken' = Taken /\ freed' = freed
  BY PushOrder DEF Push
<1>3. pushed + 1 \in Msg
  BY <1>1, MsgAssumption DEF Push, Msg
<1>4. \A n \in Msg : n \in Nat
  BY DEF Msg
<1>5. Phases[pushed + 1] = "new" /\ \A n \in Msg : n < pushed + 1 => Phases[n] # "new"
  BY <1>1, <1>3, <1>4 DEF Phases, Phase
<1>6. ASSUME NEW n \in Msg
      PROVE  Phase(n)' = IF n = pushed + 1 THEN "queued" ELSE Phase(n)
  BY <1>1, <1>2, <1>4 DEF Phase
<1>7. Phases' = [Phases EXCEPT ![pushed + 1] = "queued"]
  BY <1>6 DEF Phases
<1> QED BY <1>3, <1>5, <1>7

LEMMA ClearPhases ==
    ASSUME Typing, Order, ClearMsgRecvQueue
    PROVE  /\ \A m \in Msg : Phases[m] # "busy"
           /\ Phases' = [m \in Msg |-> IF Phases[m] = "queued" THEN "released" ELSE Phases[m]]
<1>1. /\ Taken \in Nat /\ pushed \in Nat /\ Taken <= pushed
      /\ ToSet(queue) = (Taken + 1) .. pushed
  <2>1. /\ Len(queue) \in Nat /\ Taken \in Nat /\ pushed \in Nat
        /\ ToSet(queue) = (Taken + 1) .. pushed
    BY QueueSet DEF Order
  <2> QED BY <2>1 DEF Taken
<1>2. /\ pushed' = pushed /\ Taken' = pushed
      /\ freed' = freed \cup ToSet(queue)
  BY ClearOrder DEF ClearMsgRecvQueue
<1>3. \A m \in Msg : m \in Nat \ {0}
  BY DEF Msg
<1>4. \A m \in Msg : m <= Taken => m \in freed
  BY <1>1, <1>3, ClearOrder DEF Order, Accounted
<1>5. \A m \in Msg : Phase(m) # "busy"
  BY <1>1, <1>3, <1>4 DEF Phase
<1>6. \A m \in Msg : Phase(m)' = IF Phase(m) = "queued" THEN "released" ELSE Phase(m)
  BY <1>1, <1>2, <1>3, <1>4 DEF Phase
<1> QED BY <1>5, <1>6 DEF Phases

LEMMA InitPromise == Init => Promise!Init
<1> SUFFICES ASSUME Init PROVE Promise!Init
  OBVIOUS
<1>1. queue = <<>> /\ pushed = 0
  BY DEF Init
<1>2. Len(queue) = 0
  BY <1>1
<1>3. Taken = 0
  <2>1. pushed = 0
    BY DEF Init
  <2> QED BY <1>2, <2>1 DEF Taken
<1>4. \A m \in Msg : m > 0
  BY DEF Msg
<1>5. Phases = [m \in Msg |-> "new"]
  BY <1>1, <1>3, <1>4 DEF Phases, Phase
<1>6. [m \in Msg |-> StatusOf(m)] = [m \in Msg |-> "new"]
  BY <1>5, InitTyping, InitOrder, StatusIsPhase
<1> QED BY <1>6 DEF Init, Promise!Init

ShowsPhases == [m \in Msg |-> StatusOf(m)] = Phases

LEMMA StatusStep == Typing /\ Order /\ Typing' /\ Order' => ShowsPhases /\ ShowsPhases'
<1>1. Typing /\ Order => ShowsPhases
  BY StatusIsPhase DEF ShowsPhases
<1> QED BY <1>1, PTL

\* Every step of the pool is a step of MessagePool, or changes nothing of it.
LEMMA NextPromise ==
    ASSUME Typing, Order, Typing', Order', [Next]_vars
    PROVE  [Promise!Next]_(Promise!vars)
<1> DEFINE status == [m \in Msg |-> StatusOf(m)]
<1>1. status = Phases /\ status' = Phases'
  BY StatusStep DEF ShowsPhases
<1> HIDE DEF status
<1>2. ASSUME Phases' = Phases, shutDown' = shutDown PROVE UNCHANGED Promise!vars
  BY <1>1, <1>2 DEF Promise!vars, status
<1>3. CASE Main
  <2>1. CASE Push
    <3>1. PICK m \in Msg : /\ \A n \in Msg : n < m => Phases[n] # "new"
                          /\ Phases[m] = "new"
                          /\ Phases' = [Phases EXCEPT ![m] = "queued"]
      BY <2>1, PushPhases
    <3>2. shutDown' = shutDown /\ ~shutDown
      BY <2>1 DEF Push, MainGo, Order, Closing, Typing, TypeOK
    <3>3. Promise!Submit(m)
      BY <1>1, <3>1, <3>2 DEF Promise!Submit, Promise!Oldest, Promise!Move, status
    <3> QED BY <3>3 DEF Promise!Next
  <2>2. CASE SetShutDown
    <3>1. Phases' = Phases
      BY <2>2, SamePhases DEF SetShutDown, Taken
    <3>2. Promise!Close
      BY <1>1, <2>2, <3>1 DEF SetShutDown, Promise!Close, status
    <3> QED BY <3>2 DEF Promise!Next
  <2>3. CASE ClearMsgRecvQueue
    <3>1. shutDown /\ shutDown' = shutDown
      BY <2>3 DEF ClearMsgRecvQueue, MainGo, Order, Closing, Typing, TypeOK
    <3>2. Promise!Discard
      BY <1>1, <2>3, <3>1, ClearPhases DEF Promise!Discard, status
    <3> QED BY <3>2 DEF Promise!Next
  <2>4. ASSUME \/ \E t \in Thread : CreateThread(t)
               \/ AllCreated \/ CreateReturns \/ Call \/ Broadcast \/ Join
        PROVE  UNCHANGED Promise!vars
    <3>1. /\ queue' = queue /\ pushed' = pushed /\ freed' = freed /\ shutDown' = shutDown
      BY <2>4 DEF CreateThread, AllCreated, CreateReturns, Call, Broadcast, Join
    <3> QED BY <1>2, <3>1, SamePhases DEF Taken
  <2> QED BY <1>3, <2>1, <2>2, <2>3, <2>4 DEF Main
<1>4. ASSUME NEW t \in Thread, ThreadFunc(t) \/ SpuriousWakeUp(t)
      PROVE  [Promise!Next]_(Promise!vars)
  <2>1. CASE Take(t)
    <3>1. PICK m \in Msg : /\ \A n \in Msg : n < m => Phases[n] # "queued"
                          /\ Phases[m] = "queued"
                          /\ Phases' = [Phases EXCEPT ![m] = "busy"]
      BY <2>1, TakePhases
    <3>2. Promise!Start(m)
      BY <1>1, <2>1, <3>1 DEF Take, Promise!Start, Promise!Oldest, Promise!Move, status
    <3> QED BY <3>2 DEF Promise!Next
  <2>2. CASE Process(t)
    <3>1. PICK m \in Msg : /\ Phases[m] = "busy"
                          /\ Phases' = [Phases EXCEPT ![m] = "released"]
      BY <2>2, ProcessPhases
    <3>2. Promise!Finish(m)
      BY <1>1, <2>2, <3>1 DEF Process, Promise!Finish, Promise!Move, status
    <3> QED BY <3>2 DEF Promise!Next
  <2>3. ASSUME \/ Lock(t) \/ NothingToDo(t) \/ CondWait(t) \/ Leave(t)
               \/ Count(t) \/ Uncount(t) \/ SpuriousWakeUp(t)
        PROVE  UNCHANGED Promise!vars
    <3>1. /\ queue' = queue /\ pushed' = pushed /\ freed' = freed /\ shutDown' = shutDown
      BY <2>3 DEF Lock, NothingToDo, CondWait, Leave, Count, Uncount, SpuriousWakeUp
    <3> QED BY <1>2, <3>1, SamePhases DEF Taken
  <2> QED BY <1>4, <2>1, <2>2, <2>3 DEF ThreadFunc
<1>5. CASE UNCHANGED vars
  <2>1. /\ queue' = queue /\ pushed' = pushed /\ freed' = freed /\ shutDown' = shutDown
    BY <1>5 DEF vars
  <2> QED BY <1>2, <2>1, SamePhases DEF Taken
<1> QED BY <1>3, <1>4, <1>5 DEF Next

\* The pool implements MessagePool, for any number of threads and packages.
THEOREM Implementation == Spec => ImplementsMessagePool
<1>1. Init => Typing /\ Order
  BY InitTyping, InitOrder
<1>2. Typing /\ Order /\ [Next]_vars => (Typing /\ Order)'
  BY NextTyping, NextOrder
<1>3. Typing /\ Order /\ (Typing /\ Order)' /\ [Next]_vars => [Promise!Next]_(Promise!vars)
  BY NextPromise
<1> QED BY <1>1, <1>2, <1>3, InitPromise, PTL DEF Spec, ImplementsMessagePool, Promise!Spec

=============================================================================
