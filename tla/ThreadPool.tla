----------------------------- MODULE ThreadPool -----------------------------
(***************************************************************************)
(* SerThreadPool: the logic threads of a worker process.  The main thread  *)
(* creates the pool, then, as the event loop, pushes every complete        *)
(* package and signals the condition variable after it has released the    *)
(* mutex; the pool threads take packages, process and free them.  StopAll()*)
(* sets mIfShutDown and broadcasts without taking the mutex.               *)
(*                                                                         *)
(* The code calls StopAll() behind a loop that has no exit: StopAllowed    *)
(* says whether the main thread may get there.  A failing pthread_create() *)
(* ends the process and is not modelled, nor is the log line that warns    *)
(* when every thread is busy.                                              *)
(***************************************************************************)
EXTENDS Integers, Sequences, SequencesExt, FiniteSets

CONSTANTS
    Thread,       \* the pool's threads
    MaxMsg,       \* bound: packages the event loop receives
    NoOne,        \* nobody holds the mutex
    StopAllowed   \* whether the event loop may be left

ASSUME ThreadAssumption == Thread # {} /\ IsFiniteSet(Thread) /\ NoOne \notin Thread
ASSUME MsgAssumption == MaxMsg \in Nat
ASSUME StopAssumption == StopAllowed \in BOOLEAN

Msg == 1 .. MaxMsg

VARIABLES
    queue,      \* mMsgRecvQueue
    mutex,      \* mThreadMutex: its holder
    shutDown,   \* mIfShutDown
    running,    \* mRunningThreadNumber
    started,    \* mIfRunning of each thread
    pc,         \* next step of each thread
    package,    \* pPkgData of each thread, 0 for none
    mainPc,     \* next step of the main thread
    pushed,     \* packages pushed so far
    freed       \* packages whose memory was returned

threadVars == <<started, pc, package>>
vars == <<queue, mutex, shutDown, running, threadVars, mainPc, pushed, freed>>

Init ==
    /\ queue = <<>> /\ mutex = NoOne /\ shutDown = FALSE /\ running = 0
    /\ started = [t \in Thread |-> FALSE]
    /\ pc = [t \in Thread |-> "none"]
    /\ package = [t \in Thread |-> 0]
    /\ mainPc = "create" /\ pushed = 0 /\ freed = {}

Go(t, from, to) == pc[t] = from /\ pc' = [pc EXCEPT ![t] = to]

-----------------------------------------------------------------------------
(* A pool thread: ThreadFunc().                                            *)

\* At the top of the loop, and on the way out of pthread_cond_wait().
Lock(t) ==
    /\ Go(t, "lock", "check")
    /\ mutex = NoOne /\ mutex' = t
    /\ UNCHANGED <<queue, shutDown, running, started, package, mainPc, pushed, freed>>

\* Mutant: the mutex is released before the thread waits.
NothingToDoUnlocks(t) ==
    /\ Go(t, "check", "to_wait")
    /\ queue = <<>> /\ ~shutDown
    /\ started' = [started EXCEPT ![t] = TRUE]
    /\ mutex' = NoOne
    /\ UNCHANGED <<queue, shutDown, running, package, mainPc, pushed, freed>>

NothingToDo(t) ==
    /\ Go(t, "check", "to_wait")
    /\ queue = <<>> /\ ~shutDown
    /\ started' = [started EXCEPT ![t] = TRUE]
    /\ UNCHANGED <<queue, mutex, shutDown, running, package, mainPc, pushed, freed>>

\* pthread_cond_wait() releases the mutex and starts to wait in one step.
CondWait(t) ==
    /\ Go(t, "to_wait", "waiting")
    /\ mutex' = NoOne
    /\ UNCHANGED <<queue, shutDown, running, started, package, mainPc, pushed, freed>>

SpuriousWakeUp(t) ==
    /\ Go(t, "waiting", "lock")
    /\ UNCHANGED <<queue, mutex, shutDown, running, started, package, mainPc, pushed, freed>>

Leave(t) ==
    /\ Go(t, "check", "done")
    /\ shutDown
    /\ mutex' = NoOne
    /\ UNCHANGED <<queue, shutDown, running, started, package, mainPc, pushed, freed>>

\* Mutant: the package stays in the queue.
TakeKeeps(t) ==
    /\ Go(t, "check", "count")
    /\ queue # <<>> /\ ~shutDown
    /\ package' = [package EXCEPT ![t] = Head(queue)]
    /\ mutex' = NoOne
    /\ UNCHANGED <<queue, shutDown, running, started, mainPc, pushed, freed>>

\* mIfShutDown is read a second time after the loop condition: whoever takes a
\* package has seen it FALSE then.
Take(t) ==
    /\ Go(t, "check", "count")
    /\ queue # <<>> /\ ~shutDown
    /\ package' = [package EXCEPT ![t] = Head(queue)]
    /\ queue' = Tail(queue)
    /\ mutex' = NoOne
    /\ UNCHANGED <<shutDown, running, started, mainPc, pushed, freed>>

\* Mutant: the busy thread is not counted.
CountForgets(t) ==
    /\ Go(t, "count", "process")
    /\ UNCHANGED <<queue, mutex, shutDown, running, started, package, mainPc, pushed, freed>>

Count(t) ==
    /\ Go(t, "count", "process")
    /\ running' = running + 1
    /\ UNCHANGED <<queue, mutex, shutDown, started, package, mainPc, pushed, freed>>

\* ser_thread_process_message() returns, and the package is freed.
Process(t) ==
    /\ Go(t, "process", "uncount")
    /\ freed' = freed \cup {package[t]}
    /\ package' = [package EXCEPT ![t] = 0]
    /\ UNCHANGED <<queue, mutex, shutDown, running, started, mainPc, pushed>>

Uncount(t) ==
    /\ Go(t, "uncount", "lock")
    /\ running' = running - 1
    /\ UNCHANGED <<queue, mutex, shutDown, started, package, mainPc, pushed, freed>>

ThreadFunc(t) == \/ Lock(t) \/ NothingToDo(t) \/ CondWait(t) \/ Leave(t)
                 \/ Take(t) \/ Count(t) \/ Process(t) \/ Uncount(t)

-----------------------------------------------------------------------------
(* The main thread.                                                        *)

MainGo(from, to) == mainPc = from /\ mainPc' = to

CreateThread(t) ==
    /\ mainPc = "create" /\ Go(t, "none", "lock")
    /\ UNCHANGED <<queue, mutex, shutDown, running, started, package, mainPc, pushed, freed>>

AllCreated ==
    /\ MainGo("create", "poll")
    /\ \A t \in Thread : pc[t] # "none"
    /\ UNCHANGED <<queue, mutex, shutDown, running, threadVars, pushed, freed>>

\* Create() polls mIfRunning until every thread has set it.
CreateReturns ==
    /\ MainGo("poll", "loop")
    /\ \A t \in Thread : started[t]
    /\ UNCHANGED <<queue, mutex, shutDown, running, threadVars, pushed, freed>>

\* InMsgRecvQueueAndSignal(): the package is queued under the mutex ...
Push ==
    /\ MainGo("loop", "signal")
    /\ mutex = NoOne
    /\ pushed < MaxMsg
    /\ pushed' = pushed + 1 /\ queue' = Append(queue, pushed + 1)
    /\ UNCHANGED <<mutex, shutDown, running, threadVars, freed>>

Waiting == {t \in Thread : pc[t] = "waiting"}

\* Mutant: nobody is woken.
CallWakesNobody ==
    /\ MainGo("signal", "loop")
    /\ UNCHANGED <<queue, mutex, shutDown, running, threadVars, pushed, freed>>

\* ... and Call() signals the condition variable without it.
Call ==
    /\ MainGo("signal", "loop")
    /\ IF Waiting = {} THEN UNCHANGED pc
       ELSE \E t \in Waiting : pc' = [pc EXCEPT ![t] = "lock"]
    /\ UNCHANGED <<queue, mutex, shutDown, running, started, package, pushed, freed>>

\* StopAll(), in the order of the code.
SetShutDown ==
    /\ StopAllowed
    /\ MainGo("loop", "broadcast")
    /\ shutDown' = TRUE
    /\ UNCHANGED <<queue, mutex, running, threadVars, pushed, freed>>

Broadcast ==
    /\ MainGo("broadcast", "join")
    /\ pc' = [t \in Thread |-> IF t \in Waiting THEN "lock" ELSE pc[t]]
    /\ UNCHANGED <<queue, mutex, shutDown, running, started, package, pushed, freed>>

\* Mutant: the threads are not waited for.
JoinAtOnce ==
    /\ MainGo("join", "stopped")
    /\ UNCHANGED <<queue, mutex, shutDown, running, threadVars, pushed, freed>>

Join ==
    /\ MainGo("join", "stopped")
    /\ \A t \in Thread : pc[t] = "done"
    /\ UNCHANGED <<queue, mutex, shutDown, running, threadVars, pushed, freed>>

\* The destructor of the pool.
ClearMsgRecvQueue ==
    /\ MainGo("stopped", "exited")
    /\ freed' = freed \cup ToSet(queue) /\ queue' = <<>>
    /\ UNCHANGED <<mutex, shutDown, running, threadVars, pushed>>

Main == \/ \E t \in Thread : CreateThread(t)
        \/ AllCreated \/ CreateReturns \/ Push \/ Call
        \/ SetShutDown \/ Broadcast \/ Join \/ ClearMsgRecvQueue

Next == Main \/ \E t \in Thread : ThreadFunc(t) \/ SpuriousWakeUp(t)

Spec == Init /\ [][Next]_vars

\* Every thread runs; a lock that is free again and again is obtained.  The
\* main thread takes its steps, but need not receive packages or stop.
Fairness ==
    /\ \A t \in Thread : WF_vars(ThreadFunc(t)) /\ SF_vars(Lock(t))
    /\ WF_vars(\E t \in Thread : CreateThread(t)) /\ WF_vars(AllCreated)
    /\ WF_vars(CreateReturns) /\ WF_vars(Call)
    /\ WF_vars(Broadcast) /\ WF_vars(Join) /\ WF_vars(ClearMsgRecvQueue)

FairSpec == Spec /\ Fairness

-----------------------------------------------------------------------------
TypeOK ==
    /\ queue \in Seq(Msg)
    /\ mutex \in Thread \cup {NoOne}
    /\ shutDown \in BOOLEAN
    /\ running \in Nat
    /\ started \in [Thread -> BOOLEAN]
    /\ pc \in [Thread -> {"none", "lock", "check", "to_wait", "waiting", "count",
                          "process", "uncount", "done"}]
    /\ package \in [Thread -> Msg \cup {0}]
    /\ mainPc \in {"create", "poll", "loop", "signal", "broadcast", "join", "stopped", "exited"}
    /\ pushed \in 0 .. MaxMsg
    /\ freed \subseteq Msg

Asleep(t) == pc[t] \in {"to_wait", "waiting", "done"}

\* No wake-up is lost although the signal is sent without the mutex: while a
\* package is queued and the pool is open, some thread is on its way to the
\* queue or the signal for that package is still to come.
NoLostWakeUp ==
    queue # <<>> /\ ~shutDown => mainPc = "signal" \/ \E t \in Thread : ~Asleep(t)

\* A package is in one place: not queued twice, not in the hands of two
\* threads, and its memory is not freed while a thread or the queue has it.
PackageInOnePlace ==
    /\ IsInjective(queue)
    /\ \A t, u \in Thread : package[t] = package[u] /\ package[t] # 0 => t = u
    /\ \A t \in Thread : package[t] \notin ToSet(queue) \cup freed
    /\ ToSet(queue) \cap freed = {}

\* The pool, seen from outside.
Hand == {package[t] : t \in Thread}
StatusOf(m) == CASE m \in ToSet(queue) -> "queued"
                 [] m \in Hand         -> "busy"
                 [] m \in freed        -> "released"
                 [] OTHER              -> "new"

Promise == INSTANCE MessagePool WITH status <- [m \in Msg |-> StatusOf(m)],
                                     closed <- shutDown

\* The pool implements MessagePool: packages are started in the order they
\* were pushed, each is processed and freed once, and none is discarded
\* before the threads are gone.
ImplementsMessagePool == Promise!Spec

\* Every package pushed is processed and freed unless the pool is shut down.
PushedIsFreed == \A m \in Msg : m <= pushed ~> m \in freed \/ shutDown

=============================================================================
