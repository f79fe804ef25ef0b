-------------------------- MODULE Processes_proofs --------------------------
(***************************************************************************)
(* Proofs about Processes for any number of workers and any set of other   *)
(* signals: types, SpawnUninterrupted and ZombieIsSignalled.               *)
(***************************************************************************)
EXTENDS Processes, TLAPS

-----------------------------------------------------------------------------
(* Types.                                                                  *)

LEMMA InitType == Init => TypeOK
<1>1. 0 \in 0 .. WorkerProcesses
  BY ProcessAssumption
<1> QED BY <1>1 DEF Init, TypeOK

LEMMA NextType == TypeOK /\ [Next]_vars => TypeOK'
<1> SUFFICES ASSUME TypeOK, [Next]_vars PROVE TypeOK'
  OBVIOUS
<1> USE DEF TypeOK
<1>1. CASE Main
  <2>1. CASE BecomeDaemon
    BY <2>1 DEF BecomeDaemon, MainGo
  <2>2. CASE Block
    BY <2>2, ProcessAssumption DEF Block, MainGo
  <2>3. CASE Spawn
    <3>1. spawned + 1 \in 0 .. WorkerProcesses
      BY <2>3, ProcessAssumption DEF Spawn
    <3>2. worker' \in [Worker -> {"none", "failed", "starting", "running", "zombie", "reaped"}]
      BY <2>3 DEF Spawn, SpawnProcess
    <3> QED BY <2>3, <3>1, <3>2 DEF Spawn, SpawnProcess, MainGo
  <2>4. CASE AllSpawned \/ SigSuspend
    BY <2>4 DEF AllSpawned, SigSuspend, MainGo
  <2> QED BY <1>1, <2>1, <2>2, <2>3, <2>4 DEF Main
<1>2. ASSUME NEW s \in AnySignal, Deliver(s) \/ Kill(s) PROVE TypeOK'
  BY <1>2 DEF Deliver, Kill
<1>3. CASE SignalHandler \/ MasterEnds
  BY <1>3 DEF SignalHandler, MasterEnds, EndOfMaster
<1>4. ASSUME NEW w \in Worker, WorkerInit(w) PROVE TypeOK'
  BY <1>4 DEF WorkerInit
<1>5. ASSUME NEW w \in Worker, WorkerEnds(w) PROVE TypeOK'
  BY <1>5 DEF WorkerEnds, AnySignal
<1>6. CASE UNCHANGED vars
  BY <1>6 DEF vars
<1> QED BY <1>1, <1>2, <1>3, <1>4, <1>5, <1>6 DEF Next

\* Every variable keeps its type, and no more workers are forked than
\* configured.
THEOREM TypeCorrect == Spec => []TypeOK
BY InitType, NextType, PTL DEF Spec

-----------------------------------------------------------------------------
(* The mask.  That a masked master dies of a signal only once it has       *)
(* forked every worker is not inductive: handlers run only in              *)
(* sigsuspend(), and the loop around it comes after the forking.           *)

MaskInv == /\ masked => mainPc \notin {"daemon", "block"}
           /\ mainPc \in {"loop", "sigsuspend"} => spawned = WorkerProcesses
           /\ ~Alive => handling = {}
           /\ SpawnUninterrupted

LEMMA NextMask == TypeOK /\ MaskInv /\ [Next]_vars => MaskInv'
<1> SUFFICES ASSUME TypeOK, MaskInv, [Next]_vars PROVE MaskInv'
  OBVIOUS
<1> USE DEF MaskInv, SpawnUninterrupted, Alive
<1>1. CASE BecomeDaemon
  BY <1>1 DEF BecomeDaemon, MainGo
<1>2. CASE Block
  BY <1>2 DEF Block, MainGo
<1>3. CASE Spawn
  BY <1>3 DEF Spawn, SpawnProcess, MainGo
<1>4. CASE AllSpawned \/ SigSuspend
  BY <1>4 DEF AllSpawned, SigSuspend, MainGo
<1>5. ASSUME NEW s \in AnySignal, Deliver(s) PROVE MaskInv'
  \* No signal comes in between the forks: nothing runs that is not masked.
  <2>1. ~(masked /\ mainPc \in {"spawn", "loop"})
    BY <1>5 DEF Deliver, Deliverable
  <2> QED BY <1>5, <2>1 DEF Deliver
<1>6. CASE SignalHandler
  \* The master was asleep, and so had forked every worker.
  <2>1. handling # {} /\ mainPc' = "killed" /\ UNCHANGED <<masked, spawned>>
    BY <1>6 DEF SignalHandler, EndOfMaster
  <2>2. masked => mainPc = "sigsuspend"
    BY <2>1 DEF TypeOK
  <2> QED BY <1>6, <2>1, <2>2 DEF SignalHandler, EndOfMaster
<1>7. CASE MasterEnds
  BY <1>7 DEF MasterEnds, EndOfMaster
<1>8. ASSUME NEW s \in AnySignal, Kill(s) PROVE MaskInv'
  BY <1>8 DEF Kill
<1>9. ASSUME NEW w \in Worker, WorkerInit(w) \/ WorkerEnds(w) PROVE MaskInv'
  BY <1>9 DEF WorkerInit, WorkerEnds
<1>10. CASE UNCHANGED vars
  BY <1>10 DEF vars
<1> QED BY <1>1, <1>2, <1>3, <1>4, <1>5, <1>6, <1>7, <1>8, <1>9, <1>10 DEF Next, Main

\* Once the signals are blocked, no handler interrupts the forking, and a
\* master killed by its own handler has forked every worker.
THEOREM SpawnUninterruptedAlways == Spec => []SpawnUninterrupted
<1>1. Init => MaskInv
  BY DEF Init, MaskInv, SpawnUninterrupted, Alive
<1>2. MaskInv => SpawnUninterrupted
  BY DEF MaskInv
<1> QED BY <1>1, <1>2, InitType, NextType, NextMask, PTL DEF Spec

-----------------------------------------------------------------------------
(* Zombies.  The one step of a living master that loses pending signals is *)
(* ser_daemon(), when there are no workers yet; that is what makes the     *)
(* property inductive.                                                     *)

NoWorkerYet == mainPc = "daemon" => \A w \in Worker : worker[w] = "none"

LEMMA NextNoWorkerYet == NoWorkerYet /\ [Next]_vars => NoWorkerYet'
<1> SUFFICES ASSUME NoWorkerYet, [Next]_vars, mainPc' = "daemon"
             PROVE  \A w \in Worker : worker'[w] = "none"
  BY DEF NoWorkerYet
<1> USE DEF Next, Main, MainGo, BecomeDaemon, Block, Spawn, AllSpawned, SigSuspend, Deliver,
            SignalHandler, Kill, WorkerInit, WorkerEnds, MasterEnds, EndOfMaster, vars
<1>1. mainPc = "daemon"
  OBVIOUS
<1>2. \A w \in Worker : worker[w] = "none"
  BY <1>1 DEF NoWorkerYet
<1>3. UNCHANGED worker
  BY <1>1, <1>2
<1> QED BY <1>2, <1>3

LEMMA NextSignalled ==
    TypeOK /\ NoWorkerYet /\ ZombieIsSignalled /\ [Next]_vars => ZombieIsSignalled'
<1> SUFFICES ASSUME TypeOK, NoWorkerYet, ZombieIsSignalled, [Next]_vars, Zombies' # {}
             PROVE  "SIGCHLD" \in pending' \cup handling'
  BY DEF ZombieIsSignalled
<1>0. Zombies # {} => "SIGCHLD" \in pending \cup handling
  BY DEF ZombieIsSignalled
<1>1. CASE BecomeDaemon
  <2>1. Zombies' = {}
    BY <1>1 DEF BecomeDaemon, MainGo, NoWorkerYet, Zombies
  <2> QED BY <2>1
<1>2. CASE Spawn
  <2>1. worker' \in [Worker -> {"none", "failed", "starting", "running", "zombie", "reaped"}]
    BY NextType DEF TypeOK
  <2>2. Zombies' \subseteq Zombies
    BY <1>2, <2>1 DEF Spawn, SpawnProcess, Zombies, TypeOK
  <2> QED BY <1>0, <1>2, <2>2 DEF Spawn, SpawnProcess
<1>3. CASE Block \/ AllSpawned \/ SigSuspend
  BY <1>0, <1>3 DEF Block, AllSpawned, SigSuspend, Zombies
<1>4. ASSUME NEW s \in AnySignal, Deliver(s) \/ Kill(s)
      PROVE  "SIGCHLD" \in pending' \cup handling'
  BY <1>0, <1>4 DEF Deliver, Kill, Zombies
<1>5. CASE SignalHandler \/ MasterEnds
  <2>1. Zombies' = {}
    BY <1>5 DEF SignalHandler, MasterEnds, EndOfMaster, Zombies
  <2> QED BY <2>1
<1>6. ASSUME NEW w \in Worker, WorkerInit(w)
      PROVE  "SIGCHLD" \in pending' \cup handling'
  <2>1. Zombies' \subseteq Zombies
    BY <1>6 DEF WorkerInit, Zombies, TypeOK
  <2> QED BY <1>0, <1>6, <2>1 DEF WorkerInit
<1>7. ASSUME NEW w \in Worker, WorkerEnds(w)
      PROVE  "SIGCHLD" \in pending' \cup handling'
  <2>1. CASE Alive
    BY <1>7, <2>1 DEF WorkerEnds
  <2>2. CASE ~Alive
    <3>1. Zombies' \subseteq Zombies
      BY <1>7, <2>2 DEF WorkerEnds, Zombies, TypeOK
    <3> QED BY <1>0, <1>7, <2>2, <3>1 DEF WorkerEnds
  <2> QED BY <2>1, <2>2
<1>8. CASE UNCHANGED vars
  BY <1>0, <1>8 DEF vars, Zombies
<1> QED BY <1>1, <1>2, <1>3, <1>4, <1>5, <1>6, <1>7, <1>8 DEF Next, Main

\* As long as the master lives and a worker has ended, SIGCHLD is pending or
\* its handler, which is the end of the master, has been entered.
THEOREM ZombieIsSignalledAlways == Spec => []ZombieIsSignalled
<1>1. Init => NoWorkerYet /\ ZombieIsSignalled
  BY DEF Init, NoWorkerYet, ZombieIsSignalled, Zombies
<1> QED BY <1>1, InitType, NextType, NextNoWorkerYet, NextSignalled, PTL DEF Spec

=============================================================================
