----------------------------- MODULE Processes -----------------------------
(***************************************************************************)
(* The master process: it blocks its signals, forks the workers, and from  *)
(* then on sleeps in sigsuspend(), which lets signals in for as long as it *)
(* lasts.  Signals of one kind do not queue: several workers may end       *)
(* behind one SIGCHLD.                                                     *)
(*                                                                         *)
(* No handler returns.  Before anything that another process could see,    *)
(* ser_signal_handler() logs its signal, and passes si_uid, a number, for  *)
(* %s; PrintLog() reads through it whatever the log level is, and user ids *)
(* (0, or about 1000) are no addresses of the process.  That ends the      *)
(* process that gets a handled signal, master or worker, before waitpid()  *)
(* is reached.  The workers that are left go on as children of init, and   *)
(* nobody replaces a worker.                                               *)
(***************************************************************************)
EXTENDS Integers

CONSTANTS
    WorkerProcesses,  \* from server.conf
    Signal,           \* the handled signals other than SIGCHLD
    DaemonResults,    \* what may come of Daemon in server.conf and ser_daemon()
    MaskResults,      \* outcomes of sigprocmask() considered
    ForkResults       \* outcomes of fork() considered

ASSUME ProcessAssumption ==
    /\ WorkerProcesses \in Nat
    /\ "SIGCHLD" \notin Signal
    /\ DaemonResults \subseteq {"not_asked", "child", "failed"}
    /\ MaskResults \subseteq BOOLEAN /\ ForkResults \subseteq BOOLEAN

Worker == 1 .. WorkerProcesses
AnySignal == Signal \cup {"SIGCHLD"}

VARIABLES
    mainPc,    \* next step of the master outside of handlers
    masked,    \* the signals have been blocked
    spawned,   \* calls of ser_spawn_process()
    worker,    \* what has become of each worker
    pending,   \* kernel: signals sent to the master and not delivered
    handling   \* signals whose handler the master has entered

vars == <<mainPc, masked, spawned, worker, pending, handling>>

\* A master that has ended called exit() or was killed from outside, or its
\* own handler killed it.
Alive == mainPc \notin {"exited", "killed"}

Zombies == {w \in Worker : worker[w] = "zombie"}

\* main(), once the handlers are installed.
Init ==
    /\ mainPc = "daemon" /\ masked = FALSE
    /\ spawned = 0 /\ worker = [w \in Worker |-> "none"]
    /\ pending = {} /\ handling = {}

-----------------------------------------------------------------------------
(* The master, outside of handlers.                                        *)

MainGo(from, to) == handling = {} /\ mainPc = from /\ mainPc' = to

\* ser_daemon(): the child goes on as the master, and inherits no signal that
\* was pending for its parent.
BecomeDaemon ==
    /\ \E result \in DaemonResults :
          /\ MainGo("daemon", IF result = "failed" THEN "exited" ELSE "block")
          /\ pending' = IF result = "child" THEN {} ELSE pending
    /\ UNCHANGED <<masked, spawned, worker, handling>>

\* A failing sigprocmask() is logged and ignored.
Block ==
    /\ MainGo("block", "spawn")
    /\ masked' \in MaskResults
    /\ UNCHANGED <<spawned, worker, pending, handling>>

\* ser_spawn_process(), which a failing fork() leaves without a worker.
SpawnProcess(w) ==
    /\ spawned' = w
    /\ \E ok \in ForkResults :
          worker' = [worker EXCEPT ![w] = IF ok THEN "starting" ELSE "failed"]
    /\ UNCHANGED <<masked, pending, handling>>

\* Mutant: one worker too many.
SpawnOneMore ==
    /\ MainGo("spawn", "spawn")
    /\ spawned <= WorkerProcesses
    /\ SpawnProcess(spawned + 1)

Spawn ==
    /\ MainGo("spawn", "spawn")
    /\ spawned < WorkerProcesses
    /\ SpawnProcess(spawned + 1)

AllSpawned ==
    /\ MainGo("spawn", "loop")
    /\ spawned = WorkerProcesses
    /\ UNCHANGED <<masked, spawned, worker, pending, handling>>

SigSuspend ==
    /\ MainGo("loop", "sigsuspend")
    /\ UNCHANGED <<masked, spawned, worker, pending, handling>>

Main == BecomeDaemon \/ Block \/ Spawn \/ AllSpawned \/ SigSuspend

-----------------------------------------------------------------------------
(* Signals in the master.                                                  *)

\* Mutant: signals are let in before the master sleeps.
DeliverableInLoop(s) ==
    /\ s \in pending \ handling
    /\ handling # {} \/ ~masked \/ mainPc \in {"loop", "sigsuspend"}


\* The mask of sigsuspend() is empty, and so is that of a handler but for the
\* signals being handled.
Deliverable(s) ==
    /\ s \in pending \ handling
    /\ handling # {} \/ ~masked \/ mainPc = "sigsuspend"

Deliver(s) ==
    /\ Alive /\ Deliverable(s)
    /\ pending' = pending \ {s}
    /\ handling' = handling \cup {s}
    /\ UNCHANGED <<mainPc, masked, spawned, worker>>

\* The end of the master: what it leaves unwaited for is left to init.
EndOfMaster(how) ==
    /\ mainPc' = how
    /\ pending' = {} /\ handling' = {}
    /\ worker' = [w \in Worker |-> IF w \in Zombies THEN "reaped" ELSE worker[w]]
    /\ UNCHANGED <<masked, spawned>>

\* Mutant: the log line does no harm, and the handler returns without having
\* waited for a worker.
SignalHandlerReturns ==
    \E s \in handling :
       /\ handling' = handling \ {s}
       /\ mainPc' = IF handling = {s} /\ mainPc = "sigsuspend" THEN "loop" ELSE mainPc
       /\ UNCHANGED <<masked, spawned, worker, pending>>

\* ser_signal_handler(): ser_reap is set, and read only after the log line that
\* the handler does not survive.
SignalHandler == handling # {} /\ EndOfMaster("killed")

-----------------------------------------------------------------------------
(* Workers and others.                                                     *)

\* ser_worker_process_init(): mask, threads, sockets, epoll.
WorkerInit(w) ==
    /\ worker[w] = "starting"
    /\ worker' = [worker EXCEPT ![w] = "running"]
    /\ UNCHANGED <<mainPc, masked, spawned, pending, handling>>

\* exit() when the initialisation fails, or any signal, one that has a handler
\* included.  The parent gets SIGCHLD; without the master that is init, which
\* waits for the worker.
WorkerEnds(w) ==
    /\ worker[w] \in {"starting", "running"}
    /\ worker' = [worker EXCEPT ![w] = IF Alive THEN "zombie" ELSE "reaped"]
    /\ pending' = IF Alive THEN pending \cup {"SIGCHLD"} ELSE pending
    /\ UNCHANGED <<mainPc, masked, spawned, handling>>

\* The master is killed from outside at any point.
MasterEnds == Alive /\ EndOfMaster("exited")

\* Anybody may send the master a signal, SIGCHLD included.
Kill(s) ==
    /\ Alive
    /\ pending' = pending \cup {s}
    /\ UNCHANGED <<mainPc, masked, spawned, worker, handling>>

Next == \/ Main
        \/ \E s \in AnySignal : Deliver(s) \/ Kill(s)
        \/ SignalHandler
        \/ \E w \in Worker : WorkerInit(w) \/ WorkerEnds(w)
        \/ MasterEnds

Spec == Init /\ [][Next]_vars

\* The master runs, in its handlers too, and the kernel does not put off SIGCHLD
\* forever.
Fairness == /\ WF_vars(Main)
            /\ WF_vars(Deliver("SIGCHLD"))
            /\ WF_vars(SignalHandler)

FairSpec == Spec /\ Fairness

-----------------------------------------------------------------------------
TypeOK ==
    /\ mainPc \in {"daemon", "block", "spawn", "loop", "sigsuspend", "exited", "killed"}
    /\ masked \in BOOLEAN
    /\ spawned \in 0 .. WorkerProcesses
    /\ worker \in [Worker -> {"none", "failed", "starting", "running", "zombie", "reaped"}]
    /\ pending \subseteq AnySignal
    /\ handling \subseteq AnySignal

\* While the master forks, and whenever it is not asleep, no handler runs: the
\* blocked signals "protect the code" from the first fork on.  A signal that
\* kills the master does so with every worker forked.
SpawnUninterrupted ==
    masked => /\ mainPc \in {"spawn", "loop"} => handling = {}
              /\ mainPc = "killed" => spawned = WorkerProcesses

\* The master never goes on past the end of a worker: although one SIGCHLD may
\* stand for several workers, and may come while its handler runs, a zombie
\* means that the signal is still pending or that its handler has been entered,
\* from which there is no return.
ZombieIsSignalled == Zombies # {} => "SIGCHLD" \in pending \cup handling


=============================================================================
