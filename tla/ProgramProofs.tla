------------------------------ MODULE ProgramProofs ------------------------------
(***************************************************************************)
(* Theorems about the two programs whose life is modelled: the process     *)
(* (ProcessLifecycle), for any number of brokers and editors, starts and   *)
(* stops, and juiz_create_component (ComponentTool), for any templates,    *)
(* command lines, names and edits.                                         *)
(***************************************************************************)
EXTENDS ProcessLifecycle, ComponentTool, Integers, TLAPS

(***************************************************************************)
(* The process.  What the owner may rely on in each phase is what its last *)
(* loop established for the runners it has visited; IInv says it for every *)
(* loop, and that no runner undoes it.                                     *)
(***************************************************************************)
Starting == at \in {"spawn", "poll"}
Stopping == at \in {"shutdown", "join"}
Ending == at \in {"clear", "release", "reap", "destroyed"}

\* What state and started_ are in each phase.
PhaseKnown ==
  /\ Starting => state = "starting" /\ ~started
  /\ at = "wait" => state = "started" /\ started
  /\ at = "idle" => \/ state = "started" /\ started
                    \/ state \in {"created", "stopped"} /\ ~started
  /\ Stopping => state = "stopping"
  /\ Ending => state \in {"created", "stopped"} /\ ~started
  /\ at = "reap" => idx \in Brokers
  /\ at \in {"idle", "spawn", "poll", "wait"} => within # "dtor"
  /\ Ending => within = "dtor"

\* A process never started has nothing that runs.
CreatedMeansBare ==
  state = "created" => /\ \A r \in Runners : run[r] = "none"
                       /\ \A b \in Brokers : bstate[b] = "none"

\* A broker without an object has no threads, and one that says "running" has
\* come past CRUDBrokerBase::run.
BrokerKnown ==
  \A b \in Brokers :
    /\ bstate[b] = "none" => run[b] = "none" /\ server[b] = "none"
    /\ IsRunning(b) => run[b] \notin {"none", "begun"}

\* What the spawning and polling loops have established so far.
AnnouncedSoFar ==
  /\ Starting => \A b \in Brokers : bstate[b] # "none"
  /\ at = "spawn" => /\ \A r \in Runners : r < idx => run[r] # "none"
                     /\ \A r \in Runners : r >= idx => run[r] \in {"none", "returned"}
                     /\ \A b \in Brokers : b >= idx => ~IsRunning(b)
  /\ at = "poll" => /\ \A r \in Runners : run[r] # "none"
                    /\ \A b \in Brokers : b < idx => IsRunning(b)
  /\ ~Starting => \A b \in Brokers : run[b] # "begun"
  /\ state = "started" => \A b \in Brokers : IsRunning(b)

\* What the shutdown loop and the joins have established so far.
StoppedSoFar ==
  /\ at = "idle" /\ ~started => \A b \in Brokers : ~IsRunning(b)
  /\ at = "shutdown" => \A b \in Brokers : b < idx => ~IsRunning(b)
  /\ at = "join" => \A b \in Brokers : ~IsRunning(b)
  /\ \A r \in Runners : run[r] # "none" => \E j \in 1..Len(threads) : threads[j] = r
  /\ at = "join" => \/ idx = 1 /\ joined > 0
                    \/ /\ joined = idx - 1
                       /\ \A j \in 1..joined : run[threads[j]] = "returned"

\* What the destructor's loop has established so far.
ReleasedSoFar ==
  /\ at \in {"release", "reap"} =>
       \A b \in Brokers : b < idx => server[b] \in {"none", "down"}
  /\ NoServerOutlivesProcess

IInv == /\ TypeOK /\ PhaseKnown /\ CreatedMeansBare /\ BrokerKnown
        /\ AnnouncedSoFar /\ StoppedSoFar /\ ReleasedSoFar
        /\ StoppedMeansReturned /\ StoppedBrokersSaySo

\* A first life has nothing behind it: no joined thread and no server's thread.
FirstLife ==
  starts <= 1 =>
    /\ \A b \in Brokers : run[b] \in {"none", "begun", "announced"} => server[b] = "none"
    /\ starts = 0 \/ at = "spawn" => \A r \in Runners : r >= idx \/ starts = 0 => run[r] = "none"
    /\ starts = 0 => threads = <<>> /\ ~Starting
    /\ (started /\ at # "join") \/ Starting \/ at = "wait" => joined = 0
    /\ within = "dtor" /\ at = "shutdown" => joined = 0
    /\ stops = 0 /\ within # "dtor" => ~Stopping /\ joined = 0
    /\ stops = 1 /\ at = "shutdown" => joined = 0
    /\ stops <= 1 /\ at = "join" => joined = idx - 1
OnceInv == IInv /\ FirstLife /\ UsedOnceNeverThrows
------------------------------------------------------------------------------
\* A process is created without threads and without brokers (ProcessImpl).
LEMMA IInit == Init => IInv
  <1> SUFFICES ASSUME Init PROVE IInv
    OBVIOUS
  <1> USE SizeAssumption, BoundAssumption DEF Init, Runners, Brokers, N
  <1>1. TypeOK
    <2>1. threads \in Seq(Runners) /\ Len(threads) = 0
      OBVIOUS
    <2>2. joined \in 0..Len(threads)
      BY <2>1
    <2>3. /\ run \in [Runners -> {"none", "begun", "announced", "serving", "waiting",
                                  "woken", "returned"}]
          /\ bstate \in [Brokers -> {"none", "created", "running", "stopped"}]
          /\ server \in [Brokers -> {"none", "spawned", "up", "down"}]
      OBVIOUS
    <2>4. idx \in Nat \ {0} /\ starts \in Nat /\ stops \in Nat
      OBVIOUS
    <2>6. heard \subseteq Runners
      OBVIOUS
    <2>7. started \in BOOLEAN
      OBVIOUS
    <2>5. /\ at = "idle" /\ within = "user" /\ state = "created" /\ fault = "none"
      OBVIOUS
    <2> HIDE DEF Runners, Brokers, Init
    <2> QED
      BY <2>1, <2>2, <2>3, <2>4, <2>5, <2>6, <2>7, Zenon DEF TypeOK
  <1>2. PhaseKnown /\ CreatedMeansBare /\ BrokerKnown /\ AnnouncedSoFar
    BY DEF PhaseKnown, CreatedMeansBare, BrokerKnown, AnnouncedSoFar, Starting, Stopping,
           Ending, IsRunning
  <1>3. StoppedSoFar /\ ReleasedSoFar /\ StoppedMeansReturned /\ StoppedBrokersSaySo
    BY DEF StoppedSoFar, ReleasedSoFar, StoppedMeansReturned, StoppedBrokersSaySo,
           NoServerOutlivesProcess, IsRunning
  <1> QED
    BY <1>1, <1>2, <1>3 DEF IInv

\* A runner that comes to serve or returns from run() disturbs nothing the owner
\* relies on (run of the brokers and of the editor).
LEMMA RunnerMoves ==
  ASSUME IInv, NEW r \in Runners, NEW l \in {"serving", "returned"},
         run[r] = IF l = "serving" THEN "announced" ELSE "woken",
         Set(r, l),
         UNCHANGED <<at, idx, started, state, threads, joined, bstate, heard, callVars>>,
         server' \in [Brokers -> {"none", "spawned", "up", "down"}],
         fault' \in {"none", "joinedTwice", "terminated", "nullServer"},
         \A b \in Brokers : /\ b # r => server'[b] = server[b]
                            /\ l = "returned" /\ server[b] \in {"none", "down"} => server'[b] = server[b]
  PROVE  IInv'
  <1>1. TypeOK
    BY DEF IInv
  <1>2. /\ run[r] \in {"announced", "woken"} /\ run'[r] \in {"serving", "returned"}
        /\ \A q \in Runners : q # r => run'[q] = run[q]
    BY <1>1 DEF TypeOK, Set
  <1>3. Brokers \subseteq Runners
    BY SizeAssumption DEF Brokers, Runners, N
  <1>4. TypeOK'
    BY <1>1 DEF TypeOK, Set, callVars
  <1>5. PhaseKnown'
    BY DEF IInv, PhaseKnown, Starting, Stopping, Ending, callVars
  <1>6. state \notin {"created", "stopped"}
    BY <1>2 DEF IInv, CreatedMeansBare, StoppedMeansReturned
  <1>7. CreatedMeansBare' /\ StoppedMeansReturned' /\ StoppedBrokersSaySo'
    BY <1>6 DEF CreatedMeansBare, StoppedMeansReturned, StoppedBrokersSaySo
  <1>8. ~Ending
    BY <1>6 DEF IInv, PhaseKnown
  <1>9. ReleasedSoFar'
    BY <1>8 DEF ReleasedSoFar, Ending, NoServerOutlivesProcess
  <1>10. BrokerKnown'
    BY <1>2, <1>3 DEF IInv, BrokerKnown, IsRunning
  <1>11. AnnouncedSoFar'
    <2>1. \A q \in Runners : /\ run[q] # "none" => run'[q] # "none"
                             /\ run[q] # "begun" => run'[q] # "begun"
                             /\ run[q] \in {"none", "returned"} => run'[q] = run[q]
      BY <1>2
    <2> QED
      BY <1>3, <2>1 DEF IInv, AnnouncedSoFar, Starting, IsRunning
  <1>12. StoppedSoFar'
    <2>1. \A q \in Runners : /\ run'[q] # "none" => run[q] # "none"
                             /\ run[q] = "returned" => run'[q] = "returned"
      BY <1>2
    <2>2. \A j \in 1..Len(threads) : threads[j] \in Runners
      BY <1>1 DEF TypeOK
    <2>3. \A j \in 1..joined : j \in 1..Len(threads)
      BY <1>1 DEF TypeOK
    <2> QED
      BY <2>1, <2>2, <2>3 DEF IInv, StoppedSoFar, IsRunning
  <1> QED
    BY <1>4, <1>5, <1>7, <1>9, <1>10, <1>11, <1>12 DEF IInv

\* start_broker and start_systemEditor preserve the invariant.
LEMMA SpawnStep == IInv /\ Spawn => IInv'
  <1> SUFFICES ASSUME IInv, Spawn PROVE IInv'
    OBVIOUS
  <1>1. TypeOK
    BY DEF IInv
  <1>2. /\ at = "spawn" /\ at' = "spawn" /\ idx \in Runners /\ idx' = idx + 1
        /\ run'[idx] = "begun" /\ \A q \in Runners : q # idx => run'[q] = run[q]
        /\ UNCHANGED <<started, state, joined, bstate, server, heard, fault, within>>
    BY <1>1, SizeAssumption DEF Spawn, OwnerAt, TypeOK, Runners, N, Set, callVars
  <1>3. Brokers \subseteq Runners /\ Runners \subseteq Nat
    BY SizeAssumption DEF Brokers, Runners, N
  <1>4. Len(threads) \in Nat
    BY <1>1 DEF TypeOK
  <1>5. /\ threads' \in Seq(Runners) /\ Len(threads') = Len(threads) + 1
        /\ threads'[Len(threads) + 1] = idx
        /\ \A j \in 1..Len(threads) : threads'[j] = threads[j]
    BY <1>1, <1>2 DEF TypeOK, Spawn
  <1>6. TypeOK'
    <2>1. joined' \in 0..Len(threads')
      BY <1>1, <1>2, <1>4, <1>5 DEF TypeOK
    <2>2. idx' \in Nat \ {0} /\ run' \in [Runners -> {"none", "begun", "announced", "serving",
                                                     "waiting", "woken", "returned"}]
      BY <1>1, <1>2 DEF TypeOK, Spawn, Set
    <2> QED
      BY <1>1, <1>2, <1>5, <2>1, <2>2 DEF TypeOK, Spawn, callVars
  <1>7. PhaseKnown' /\ state = "starting"
    BY <1>2 DEF IInv, PhaseKnown, Starting, Stopping, Ending
  <1>8. CreatedMeansBare' /\ StoppedMeansReturned' /\ StoppedBrokersSaySo' /\ ReleasedSoFar'
    BY <1>2, <1>7 DEF CreatedMeansBare, StoppedMeansReturned, StoppedBrokersSaySo,
                      ReleasedSoFar, NoServerOutlivesProcess
  <1>9. BrokerKnown' /\ AnnouncedSoFar'
    <2>1. \A b \in Brokers : bstate[b] # "none" /\ (b >= idx => ~IsRunning(b))
      BY <1>2 DEF IInv, AnnouncedSoFar, Starting
    <2>2. idx \in Nat
      BY <1>2, <1>3
    <2>3. BrokerKnown'
      BY <1>2, <1>3, <2>1, <2>2 DEF IInv, BrokerKnown, IsRunning
    <2>4. \A r \in Runners : /\ r < idx + 1 => run'[r] # "none"
                             /\ r >= idx + 1 => run'[r] \in {"none", "returned"}
      BY <1>2, <1>3, <2>2 DEF IInv, AnnouncedSoFar
    <2>5. \A b \in Brokers : b >= idx + 1 => ~IsRunning(b)
      BY <1>3, <2>1, <2>2
    <2> QED
      BY <1>2, <1>7, <2>1, <2>3, <2>4, <2>5 DEF AnnouncedSoFar, Starting, IsRunning
  <1>10. StoppedSoFar'
    <2>1. ASSUME NEW r \in Runners, run'[r] # "none"
          PROVE  \E j \in 1..Len(threads') : threads'[j] = r
      <3>1. CASE r = idx
        BY <1>4, <1>5, <3>1
      <3>2. CASE r # idx
        <4>1. PICK j \in 1..Len(threads) : threads[j] = r
          BY <1>2, <2>1, <3>2 DEF IInv, StoppedSoFar
        <4>2. j \in 1..Len(threads') /\ threads'[j] = r
          BY <1>4, <1>5, <4>1
        <4> QED
          BY <4>2
      <3> QED
        BY <3>1, <3>2
    <2> QED
      BY <1>2, <2>1 DEF StoppedSoFar
  <1> QED
    BY <1>6, <1>7, <1>8, <1>9, <1>10 DEF IInv

\* Every step of the owner, of a runner or of a server preserves the invariant
\* (process_impl.cpp, run and shutdown of the brokers).
LEMMA INext == IInv /\ [Next]_vars => IInv'
  <1> SUFFICES ASSUME IInv, [Next]_vars PROVE IInv'
    OBVIOUS
  <1> USE SizeAssumption, BoundAssumption
      DEF IInv, TypeOK, Runners, Brokers, N, PhaseKnown, CreatedMeansBare, BrokerKnown,
          AnnouncedSoFar, StoppedSoFar, ReleasedSoFar, StoppedMeansReturned,
          StoppedBrokersSaySo, NoServerOutlivesProcess, Starting, Stopping, Ending,
          IsRunning, Alive, OwnerAt, RunnerAt, Set, runnerVars, callVars
  <1>1. ASSUME NEW by \in {"user", "start"}, StartAsync(by) PROVE IInv'
    BY <1>1 DEF StartAsync
  <1>2. CASE Spawn
    BY <1>2, SpawnStep
  <1>3. CASE Spawned
    BY <1>3 DEF Spawned
  <1>4. CASE Poll
    BY <1>4 DEF Poll
  <1>5. CASE Started
    BY <1>5 DEF Started
  <1>6. CASE WaitReturns
    BY <1>6 DEF WaitReturns
  <1>7. CASE Stop
    BY <1>7 DEF Stop
  <1>8. CASE Shutdown
    BY <1>8 DEF Shutdown
  <1>9. CASE AllTold
    BY <1>9 DEF AllTold
  <1>10. CASE Join
    <2>1. TypeOK'
      <3>1. CASE idx <= joined
        BY <1>10, <3>1 DEF Join
      <3>2. CASE ~(idx <= joined)
        BY <1>10, <3>2 DEF Join
      <3> QED
        BY <3>1, <3>2
    <2>2. PhaseKnown' /\ CreatedMeansBare'
      BY <1>10 DEF Join
    <2>3. BrokerKnown'
      BY <1>10 DEF Join
    <2>4. AnnouncedSoFar'
      BY <1>10 DEF Join
    <2>5. StoppedSoFar'
      <3>1. CASE idx <= joined
        <4>1. UNCHANGED <<at, idx, started, state, threads, joined, run, bstate>>
          BY <1>10, <3>1 DEF Join
        <4> QED
          BY <4>1
      <3>2. CASE ~(idx <= joined)
        BY <1>10, <3>2 DEF Join
      <3> QED
        BY <3>1, <3>2
    <2>6. ReleasedSoFar' /\ StoppedMeansReturned' /\ StoppedBrokersSaySo'
      BY <1>10 DEF Join
    <2> QED
      BY <2>1, <2>2, <2>3, <2>4, <2>5, <2>6
  <1>11. CASE Stopped
    <2>1. TypeOK'
      BY <1>11 DEF Stopped
    <2>2. PhaseKnown' /\ CreatedMeansBare'
      BY <1>11 DEF Stopped
    <2>3. BrokerKnown'
      BY <1>11 DEF Stopped
    <2>4. AnnouncedSoFar'
      BY <1>11 DEF Stopped
    <2>5. StoppedSoFar'
      BY <1>11 DEF Stopped
    <2>6. ReleasedSoFar' /\ StoppedMeansReturned' /\ StoppedBrokersSaySo'
      BY <1>11 DEF Stopped
    <2> QED
      BY <2>1, <2>2, <2>3, <2>4, <2>5, <2>6
  <1>12. ASSUME NEW r \in Runners, Announce(r) PROVE IInv'
    <2>1. TypeOK'
      BY <1>12 DEF Announce
    <2>2. PhaseKnown' /\ CreatedMeansBare'
      BY <1>12 DEF Announce
    <2>3. BrokerKnown'
      BY <1>12 DEF Announce
    <2>4. AnnouncedSoFar'
      BY <1>12 DEF Announce
    <2>5. StoppedSoFar'
      BY <1>12 DEF Announce
    <2>6. ReleasedSoFar' /\ StoppedMeansReturned' /\ StoppedBrokersSaySo'
      BY <1>12 DEF Announce
    <2> QED
      BY <2>1, <2>2, <2>3, <2>4, <2>5, <2>6
  <1>13. ASSUME NEW r \in Runners, RunBackground(r) PROVE IInv'
    <2>1. CASE r \in Brokers /\ server[r] # "none"
      <3>1. /\ fault' = "terminated"
            /\ UNCHANGED <<at, idx, started, state, threads, joined, runnerVars, heard, callVars>>
        BY <1>13, <2>1 DEF RunBackground
      <3> QED
        BY <3>1
    <2>2. CASE ~(r \in Brokers /\ server[r] # "none")
      <3>1. /\ run[r] = "announced" /\ Set(r, "serving")
            /\ server' = [b \in Brokers |-> IF b = r THEN "spawned" ELSE server[b]]
            /\ UNCHANGED <<at, idx, started, state, threads, joined, bstate, heard, fault, callVars>>
        BY <1>13, <2>2 DEF RunBackground
      <3>2. /\ server' \in [Brokers -> {"none", "spawned", "up", "down"}]
            /\ \A b \in Brokers : b # r => server'[b] = server[b]
        BY <3>1
      <3> QED
        BY <3>1, <3>2, RunnerMoves
    <2> QED
      BY <2>1, <2>2
  <1>14. ASSUME NEW r \in Runners, BeginWait(r) PROVE IInv'
    BY <1>14 DEF BeginWait
  <1>15. ASSUME NEW r \in Runners, SpuriousWakeup(r) PROVE IInv'
    BY <1>15 DEF SpuriousWakeup
  <1>16. ASSUME NEW r \in Runners, TerminateBackground(r) PROVE IInv'
    <2>1. /\ run[r] = "woken" /\ run' = [run EXCEPT ![r] = "returned"]
          /\ UNCHANGED <<at, idx, started, state, threads, joined, bstate, heard, callVars>>
      BY <1>16 DEF TerminateBackground
    <2>2. /\ server' \in [Brokers -> {"none", "spawned", "up", "down"}]
          /\ fault' \in {"none", "joinedTwice", "terminated", "nullServer"}
          /\ \A b \in Brokers : server[b] \in {"none", "down"} => server'[b] = server[b]
      <3>1. CASE r \in Brokers
        <4>1. StopServer(r)
          BY <1>16, <3>1 DEF TerminateBackground
        <4> QED
          BY <4>1 DEF StopServer
      <3>2. CASE r \notin Brokers
        BY <1>16, <3>2 DEF TerminateBackground
      <3> QED
        BY <3>1, <3>2
    <2> QED
      BY <1>16, <2>1, <2>2, RunnerMoves DEF TerminateBackground
  <1>17. ASSUME NEW b \in Brokers, Listen(b) PROVE IInv'
    BY <1>17 DEF Listen
  <1>18. ASSUME NEW b \in Brokers, ListenFails(b) PROVE IInv'
    BY <1>18 DEF ListenFails
  <1>19. CASE Destroy
    BY <1>19 DEF Destroy
  <1>20. CASE ClearObjects
    BY <1>20 DEF ClearObjects
  <1>21. CASE ReleaseBroker
    <2>1. CASE bstate[idx] = "none"
      BY <1>21, <2>1 DEF ReleaseBroker
    <2>2. CASE bstate[idx] # "none"
      <3>1. /\ StopServer(idx) /\ at = "release" /\ idx \in Brokers /\ at' = "reap"
            /\ UNCHANGED <<idx, started, state, threads, joined, run, bstate, heard, callVars>>
        BY <1>21, <2>2 DEF ReleaseBroker
      <3>2. /\ server' \in [Brokers -> {"none", "spawned", "up", "down"}]
            /\ fault' \in {"none", "joinedTwice", "terminated", "nullServer"}
            /\ \A b \in Brokers : server[b] \in {"none", "down"} => server'[b] = server[b]
        BY <3>1 DEF StopServer
      <3>3. TypeOK'
        BY <3>1, <3>2
      <3>4. PhaseKnown' /\ CreatedMeansBare' /\ BrokerKnown'
        BY <3>1, <3>2
      <3>5. AnnouncedSoFar' /\ StoppedSoFar'
        BY <3>1
      <3>6. ReleasedSoFar' /\ StoppedMeansReturned' /\ StoppedBrokersSaySo'
        BY <3>1, <3>2
      <3> QED
        BY <3>3, <3>4, <3>5, <3>6
    <2> QED
      BY <2>1, <2>2
  <1>22. CASE ReapServer
    BY <1>22 DEF ReapServer
  <1>23. CASE Destroyed
    BY <1>23 DEF Destroyed
  <1>24. CASE UNCHANGED vars
    <2>1. TypeOK'
      BY <1>24 DEF vars
    <2>2. PhaseKnown' /\ CreatedMeansBare'
      BY <1>24 DEF vars
    <2>3. BrokerKnown'
      BY <1>24 DEF vars
    <2>4. AnnouncedSoFar'
      BY <1>24 DEF vars
    <2>5. StoppedSoFar'
      BY <1>24 DEF vars
    <2>6. ReleasedSoFar' /\ StoppedMeansReturned' /\ StoppedBrokersSaySo'
      BY <1>24 DEF vars
    <2> QED
      BY <2>1, <2>2, <2>3, <2>4, <2>5, <2>6
  <1> HIDE DEF IInv, TypeOK, PhaseKnown, CreatedMeansBare, BrokerKnown,
               AnnouncedSoFar, StoppedSoFar, ReleasedSoFar, StoppedMeansReturned,
               StoppedBrokersSaySo, NoServerOutlivesProcess, OwnerAt, RunnerAt, Set, Runners, Brokers
  <1> QED
    BY <1>1, <1>2, <1>3, <1>4, <1>5, <1>6, <1>7, <1>8, <1>9, <1>10, <1>11, <1>12, <1>13, <1>14, <1>15, <1>16, <1>17, <1>18, <1>19, <1>20, <1>21, <1>22, <1>23, <1>24
    DEF Next, Owner, Environment, Runner, Server

\* The invariant holds of every reachable state, whatever the constants
\* (process_impl.cpp).
THEOREM Inductive == Spec => []IInv
  BY IInit, INext, PTL DEF Spec

\* Every variable keeps its type; in particular joined never passes the end of
\* threads_ and no loop visits a runner that does not exist.
THEOREM TypeCorrect == Spec => []TypeOK
  BY Inductive, PTL DEF IInv

\* While the process is started, and until stop begins, every broker has come past
\* CRUDBrokerBase::run and says so, however many there are (startAsync).
THEOREM AnnouncedWhenStarted == Spec => []StartedMeansAnnounced
  <1>1. IInv => StartedMeansAnnounced
    BY DEF IInv, AnnouncedSoFar, BrokerKnown, StartedMeansAnnounced
  <1> QED
    BY <1>1, Inductive, PTL

\* Once stop has returned, run() of no broker and no editor is in progress (stop).
THEOREM ReturnedWhenStopped == Spec => []StoppedMeansReturned
  BY Inductive, PTL DEF IInv

\* No broker of a stopped process still says "running" (stop, startAsync).
THEOREM SaySoWhenStopped == Spec => []StoppedBrokersSaySo
  BY Inductive, PTL DEF IInv

\* A destroyed process leaves no thread that serves requests (~HttpServerImpl,
\* ~WSServerImpl).
THEOREM ServersEnded == Spec => []NoServerOutlivesProcess
  BY Inductive, PTL DEF IInv, ReleasedSoFar
------------------------------------------------------------------------------
\* Nothing is joined or replaced before there was a first life (ProcessImpl).
LEMMA OnceInit == Init => FirstLife /\ UsedOnceNeverThrows
  BY DEF Init, FirstLife, UsedOnceNeverThrows, Starting, Stopping

\* Every step keeps a first life clean; it uses the phases IInv knows
\* (startAsync, stop, ~ProcessImpl, runBackground).
LEMMA OnceNext == OnceInv /\ [Next]_vars => FirstLife' /\ UsedOnceNeverThrows'
  <1> SUFFICES ASSUME OnceInv, [Next]_vars PROVE FirstLife' /\ UsedOnceNeverThrows'
    OBVIOUS
  <1>a. TypeOK /\ PhaseKnown /\ CreatedMeansBare /\ FirstLife /\ UsedOnceNeverThrows
    BY DEF OnceInv, IInv
  <1>b. Len(threads) \in Nat /\ Brokers \subseteq Runners /\ Runners \subseteq Nat \ {0}
    BY <1>a, SizeAssumption DEF TypeOK, Brokers, Runners, N
  <1> USE DEF FirstLife, UsedOnceNeverThrows, PhaseKnown, Starting, Stopping, Ending, TypeOK,
              Alive, OwnerAt, RunnerAt, Set, runnerVars, callVars
  <1>1. ASSUME NEW by \in {"user", "start"}, StartAsync(by) PROVE FirstLife' /\ UsedOnceNeverThrows'
    BY <1>a, <1>b, <1>1 DEF StartAsync
  <1>2. CASE Spawn
    <2>1. /\ idx \in Runners /\ idx' = idx + 1 /\ at = "spawn" /\ at' = "spawn"
          /\ run'[idx] = "begun" /\ \A r \in Runners : r # idx => run'[r] = run[r]
          /\ UNCHANGED <<started, joined, server, fault, callVars>>
      BY <1>a, <1>2, SizeAssumption DEF Spawn, Runners, N
    <2>2. starts <= 1 => starts = 1 /\ run[idx] = "none"
      BY <1>a, <1>b, <1>2, <2>1 DEF Spawn
    <2> QED
      BY <1>a, <1>b, <2>1, <2>2
  <1>3. CASE Spawned
    BY <1>a, <1>b, <1>3 DEF Spawned
  <1>4. CASE Poll
    BY <1>a, <1>b, <1>4 DEF Poll
  <1>5. CASE Started
    BY <1>a, <1>b, <1>5 DEF Started
  <1>6. CASE WaitReturns
    BY <1>a, <1>b, <1>6 DEF WaitReturns
  <1>7. CASE Stop
    BY <1>a, <1>b, <1>7 DEF Stop
  <1>8. CASE Shutdown
    BY <1>a, <1>b, <1>8 DEF Shutdown
  <1>9. CASE AllTold
    BY <1>a, <1>b, <1>9 DEF AllTold
  <1>10. CASE Join
    BY <1>a, <1>b, <1>10 DEF Join
  <1>11. CASE Stopped
    BY <1>a, <1>b, <1>11 DEF Stopped
  <1>12. ASSUME NEW r \in Runners, Announce(r) PROVE FirstLife' /\ UsedOnceNeverThrows'
    BY <1>a, <1>b, <1>12 DEF Announce
  <1>13. ASSUME NEW r \in Runners, RunBackground(r) PROVE FirstLife' /\ UsedOnceNeverThrows'
    BY <1>a, <1>b, <1>13 DEF RunBackground
  <1>14. ASSUME NEW r \in Runners, BeginWait(r) PROVE FirstLife' /\ UsedOnceNeverThrows'
    BY <1>a, <1>b, <1>14 DEF BeginWait
  <1>15. ASSUME NEW r \in Runners, SpuriousWakeup(r) PROVE FirstLife' /\ UsedOnceNeverThrows'
    BY <1>a, <1>b, <1>15 DEF SpuriousWakeup
  <1>16. ASSUME NEW r \in Runners, TerminateBackground(r) PROVE FirstLife' /\ UsedOnceNeverThrows'
    BY <1>a, <1>b, <1>16 DEF TerminateBackground, StopServer
  <1>17. ASSUME NEW b \in Brokers, Listen(b) PROVE FirstLife' /\ UsedOnceNeverThrows'
    BY <1>a, <1>b, <1>17 DEF Listen
  <1>18. ASSUME NEW b \in Brokers, ListenFails(b) PROVE FirstLife' /\ UsedOnceNeverThrows'
    BY <1>a, <1>b, <1>18 DEF ListenFails
  <1>19. CASE Destroy
    BY <1>a, <1>b, <1>19 DEF Destroy
  <1>20. CASE ClearObjects
    BY <1>a, <1>b, <1>20 DEF ClearObjects
  <1>21. CASE ReleaseBroker
    BY <1>a, <1>b, <1>21 DEF ReleaseBroker, StopServer
  <1>22. CASE ReapServer
    BY <1>a, <1>b, <1>22 DEF ReapServer
  <1>23. CASE Destroyed
    BY <1>a, <1>b, <1>23 DEF Destroyed
  <1>24. CASE UNCHANGED vars
    BY <1>a, <1>24 DEF vars
  <1> HIDE DEF FirstLife, UsedOnceNeverThrows, PhaseKnown, TypeOK, OwnerAt, RunnerAt, Set
  <1> QED
    BY <1>1, <1>2, <1>3, <1>4, <1>5, <1>6, <1>7, <1>8, <1>9, <1>10, <1>11, <1>12, <1>13, <1>14, <1>15, <1>16, <1>17, <1>18, <1>19, <1>20, <1>21, <1>22, <1>23, <1>24
    DEF Next, Owner, Environment, Runner, Server

\* A process started once and stopped at most once, by stop or by start, never joins
\* a thread twice and never replaces one it has not joined (~ProcessImpl, stop).
THEOREM OnceNeverThrows == Spec => []UsedOnceNeverThrows
  <1>1. Init => OnceInv
    BY IInit, OnceInit DEF OnceInv
  <1>2. OnceInv /\ [Next]_vars => OnceInv'
    BY INext, OnceNext DEF OnceInv
  <1> QED
    BY <1>1, <1>2, PTL DEF Spec, OnceInv

(***************************************************************************)
(* juiz_create_component.  ToolInv says what the steps that are left will  *)
(* do: they come in main's order, an update that has begun renames, opens  *)
(* and fills one file, and the directory as it will be when that file is   *)
(* there (Settled) agrees with itself, but for what the steps still list   *)
(* and shelve (Progress).  A run that will loop (Doomed) never fills what  *)
(* it has opened: all that is said of it is what the disk keeps.           *)
(***************************************************************************)
Kinds == Parts \cup {"component"}
IsASeq(s) == s \in Seq(Range(s))
Bases == [component |-> 0, container |-> 4, container_operation |-> 8, operation |-> 12]
Rank(s) ==
  CASE s.do = "rename" -> -3
    [] s.do = "open" -> -2
    [] s.do \in {"fill", "loop"} -> -1
    [] s.do = "check" -> 8
    [] s.do = "generate" -> Bases[s.kind] + 1
    [] s.do = "list" -> Bases[s.kind] + 2
    [] s.do = "shelve" -> Bases[s.kind] + 3
Ordered(steps) == \A i, j \in DOMAIN steps : i < j => Rank(steps[i]) < Rank(steps[j])
IsContent(c) ==
  /\ {"kind", "marks"} \subseteq DOMAIN c
  /\ c.kind = "cmake" =>
       /\ {"project", "lists"} \subseteq DOMAIN c
       /\ DOMAIN c.lists = Parts
       /\ \A p \in Parts : IsASeq(c.lists[p])
  /\ c.kind = "shelf" =>
       /\ {"containers", "operations", "keys"} \subseteq DOMAIN c
       /\ IsASeq(c.operations)
       /\ \A k \in DOMAIN c.containers :
            /\ {"form", "operations"} \subseteq DOMAIN c.containers[k]
            /\ IsASeq(c.containers[k].operations)
\* Names of files that are no backups; the only shelf is the component's.
IsFileOf(f, n) == f[3] = 0 /\ (f[2] = "jshelf" => f = File(<<n>>, "jshelf"))
ShelvesAre(files, n) == \A f \in DOMAIN files : f[3] = 0 => IsFileOf(f, n)
TemplateFor(kind) ==
  CASE kind = "component" -> <<"CMakeLists">>
    [] kind = "container" -> <<"ContainerName">>
    [] kind = "container_operation" -> <<"ContainerName", "containerOperationName">>
    [] kind = "operation" -> <<"operationName">>
IsStep(s, o, n) ==
  /\ s.do \in {"rename", "open", "fill", "loop", "check", "generate", "list", "shelve"}
  /\ s.do \in {"rename", "open", "fill"} => IsFileOf(s.file, n)
  /\ s.do = "fill" => IsContent(s.content)
  /\ s.do = "check" => s.kind = "container_operation" /\ o.container_operation # ""
  /\ s.do = "generate" =>
       /\ {"do", "kind", "left"} \subseteq DOMAIN s
       /\ s.kind \in Kinds
       /\ s.left \subseteq {t \in Templates[o.templateDir] : Matches(s.kind, t)}
  /\ s.do \in {"list", "shelve"} => s.kind \in Parts
  /\ s.do \in {"generate", "list", "shelve"} /\ s.kind \in Parts => o[s.kind] # ""
\* Of steps q: what is still to be done for a part, and whether the run will loop.
Pending(q, do, kind) == \E s \in Range(q) : s.do = do /\ s.kind = kind
HasTemplate(q, kind) ==
  \E s \in Range(q) : s.do = "generate" /\ s.kind = kind /\ \E t \in s.left : t.words = TemplateFor(kind)
Doomed(q) == \E s \in Range(q) : s.do = "loop"
\* The directory as it will be when the file that is being rewritten is there.
Fills(q) == {s \in Range(q) : s.do = "fill"}
Settled(q, files) ==
  IF Fills(q) = {} THEN files
  ELSE LET s == CHOOSE x \in Fills(q) : TRUE IN With(files, s.file, s.content)
\* An update renames what is there, opens what is not, and fills what is empty.
Closes(s, f) == s.do = "loop" \/ (s.do = "fill" /\ s.file = f)
Updating(q, files) ==
  q # <<>> =>
    /\ Head(q).do = "rename" =>
         /\ Head(q).file \in DOMAIN files
         /\ Len(q) > 2 /\ q[2].do = "open" /\ q[2].file = Head(q).file /\ Closes(q[3], Head(q).file)
    /\ Head(q).do = "open" =>
         Head(q).file \notin DOMAIN files /\ Len(q) > 1 /\ Closes(q[2], Head(q).file)
    /\ Head(q).do = "fill" =>
         Head(q).file \in DOMAIN files /\ files[Head(q).file] = Blank
ComponentOK(files) ==
  IsComponent(files) =>
    /\ ShelvesAre(files, files[CMakeLists].project)
    /\ PreloadedIn(files) \subseteq ListedIn(files)
    /\ \A words \in ListedIn(files) : HasSource(files, words)
ListOf(files, p) == IF IsComponent(files) THEN Range(files[CMakeLists].lists[p]) ELSE {}
PartDone(p, q, files, o) ==
  /\ HasTemplate(q, p) \/ HasSource(files, Words(o, p))
  /\ Pending(q, "list", p) \/ Words(o, p) \in ListOf(files, p)
  /\ Pending(q, "shelve", p) \/ Words(o, p) \in PreloadedIn(files)
  /\ Pending(q, "generate", p) => Pending(q, "list", p)
  /\ Pending(q, "list", p) => Pending(q, "shelve", p)
Unshelved(q, files, o) ==
  \A w \in ListedIn(files) :
    w \in PreloadedIn(files) \/ \E p \in Parts : Pending(q, "shelve", p) /\ w = Words(o, p)
Progress(q, files, o, n, c) ==
  /\ ComponentOK(files)
  /\ ShelvesAre(files, n)
  /\ CMakeLists \in DOMAIN files => IsComponent(files) /\ files[CMakeLists].project = n
  /\ CMakeLists \in DOMAIN files \/ HasTemplate(q, "component")
  /\ Pending(q, "generate", "component") => PreloadedIn(files) = {} /\ ListedIn(files) = {}
  /\ \A p \in Parts : o[p] # "" => PartDone(p, q, files, o)
  /\ ~c => Unshelved(q, files, o)
Running(q, files, o, n, c) ==
  /\ o.templateDir \in DOMAIN Templates
  /\ o.container_operation # "" => o.container # ""
  /\ Ordered(q)
  /\ \A s \in Range(q) : IsStep(s, o, n)
  /\ Updating(q, files)
  /\ ShelvesAre(files, n)
  /\ IsComponent(files) => files[CMakeLists].project = n
  /\ ~Doomed(q) => Progress(q, Settled(q, files), o, n, c)
BusyKnown == now = "busy" => Running(todo, disk[dir], options, name, cut)
DiskKnown ==
  /\ \A d \in DOMAIN disk :
       /\ \A f \in DOMAIN disk[d] : IsContent(disk[d][f])
       /\ ComponentOK(disk[d])
       /\ ~cut /\ IsComponent(disk[d]) /\ ~(now # "idle" /\ d = dir) => ListedIn(disk[d]) \subseteq PreloadedIn(disk[d])
RunKnown ==
  /\ now \in {"idle", "busy", "loops"}
  /\ now # "idle" => dir \in DOMAIN disk
  /\ now = "idle" /\ exit = "0" /\ Asked # {} =>
       dir \in DOMAIN disk /\ Asked \subseteq ListedIn(disk[dir]) \cap PreloadedIn(disk[dir])
  /\ clock \in Nat \ {0} /\ edits \in Nat
  /\ IsASeq(todo)
ToolInv == RunKnown /\ DiskKnown /\ BusyKnown

LEMMA WithFacts ==
  ASSUME NEW f, NEW x, NEW v
  PROVE  /\ DOMAIN With(f, x, v) = DOMAIN f \cup {x}
         /\ With(f, x, v)[x] = v
         /\ \A y \in DOMAIN f : y # x => With(f, x, v)[y] = f[y]
  BY DEF With

LEMMA WithoutFacts ==
  ASSUME NEW f, NEW x
  PROVE  /\ DOMAIN Without(f, x) = DOMAIN f \ {x}
         /\ \A y \in DOMAIN f : y # x => Without(f, x)[y] = f[y]
  BY DEF Without

LEMMA AppendFacts ==
  ASSUME NEW s, IsASeq(s), NEW x
  PROVE  IsASeq(Append(s, x)) /\ Range(Append(s, x)) = Range(s) \cup {x}
<1> DEFINE S == Range(s) \cup {x}
<1>1. s \in Seq(S)
  BY DEF IsASeq, Range
<1>2. /\ Append(s, x) \in Seq(S)
      /\ Len(Append(s, x)) = Len(s) + 1
      /\ Append(s, x)[Len(s) + 1] = x
      /\ \A i \in 1 .. Len(s) : Append(s, x)[i] = s[i]
  BY <1>1
<1>3. /\ DOMAIN s = 1 .. Len(s) /\ DOMAIN Append(s, x) = 1 .. Len(s) + 1 /\ Len(s) \in Nat
  BY <1>1, <1>2
<1>4. Range(Append(s, x)) = S
  BY <1>1, <1>2, <1>3 DEF Range
<1> QED
  BY <1>2, <1>4 DEF IsASeq

LEMMA EmptyFacts == IsASeq(<<>>) /\ Range(<<>>) = {}
  BY DEF IsASeq, Range

LEMMA ConsFacts ==
  ASSUME NEW s, IsASeq(s), s # <<>>
  PROVE  /\ IsASeq(Tail(s))
         /\ Range(s) = {Head(s)} \cup Range(Tail(s))
         /\ Len(s) \in Nat \ {0} /\ Len(Tail(s)) = Len(s) - 1
         /\ DOMAIN s = 1 .. Len(s) /\ DOMAIN Tail(s) = 1 .. Len(s) - 1
         /\ Head(s) = s[1] /\ \A i \in 1 .. Len(s) - 1 : Tail(s)[i] = s[i + 1]
<1> DEFINE S == Range(s)
<1>1. s \in Seq(S) /\ Tail(s) \in Seq(S)
  BY DEF IsASeq
<1>2. /\ Len(s) \in Nat \ {0} /\ Len(Tail(s)) = Len(s) - 1
      /\ DOMAIN s = 1 .. Len(s) /\ DOMAIN Tail(s) = 1 .. Len(s) - 1
      /\ Head(s) = s[1] /\ \A i \in 1 .. Len(s) - 1 : Tail(s)[i] = s[i + 1]
  BY <1>1
<1>3. Range(s) = {Head(s)} \cup Range(Tail(s))
  <2>1. ASSUME NEW i \in DOMAIN s, i # 1 PROVE s[i] \in Range(Tail(s))
    <3>1. i - 1 \in DOMAIN Tail(s) /\ Tail(s)[i - 1] = s[i]
      BY <1>2, <2>1
    <3> QED
      BY <3>1 DEF Range
  <2>2. ASSUME NEW i \in DOMAIN Tail(s) PROVE Tail(s)[i] \in Range(s)
    <3>1. i + 1 \in DOMAIN s
      BY <1>2
    <3> QED
      BY <1>2, <3>1 DEF Range
  <2> QED
    BY <1>2, <2>1, <2>2 DEF Range
<1>4. IsASeq(Tail(s))
  <2> DEFINE q == Tail(s)
  <2>1. q \in Seq(S) /\ \A i \in 1 .. Len(q) : q[i] \in Range(q)
    BY <1>1, <1>2 DEF Range
  <2> HIDE DEF q
  <2>2. q \in Seq(Range(q))
    BY <2>1
  <2> QED
    BY <2>2 DEF IsASeq, q
<1> QED
  BY <1>2, <1>3, <1>4

LEMMA JoinFacts ==
  ASSUME NEW s, IsASeq(s), NEW t, IsASeq(t)
  PROVE  /\ IsASeq(s \o t)
         /\ Range(s \o t) = Range(s) \cup Range(t)
         /\ Len(s) \in Nat /\ Len(t) \in Nat /\ Len(s \o t) = Len(s) + Len(t)
         /\ DOMAIN s = 1 .. Len(s) /\ DOMAIN t = 1 .. Len(t) /\ DOMAIN (s \o t) = 1 .. Len(s) + Len(t)
         /\ \A i \in 1 .. Len(s) + Len(t) :
              (s \o t)[i] = IF i <= Len(s) THEN s[i] ELSE t[i - Len(s)]
<1> DEFINE S == Range(s) \cup Range(t)
<1>1. s \in Seq(S) /\ t \in Seq(S)
  BY DEF IsASeq, Range
<1>2. /\ Len(s) \in Nat /\ Len(t) \in Nat /\ Len(s \o t) = Len(s) + Len(t)
      /\ DOMAIN s = 1 .. Len(s) /\ DOMAIN t = 1 .. Len(t) /\ DOMAIN (s \o t) = 1 .. Len(s) + Len(t)
      /\ \A i \in 1 .. Len(s) + Len(t) :
           (s \o t)[i] = IF i <= Len(s) THEN s[i] ELSE t[i - Len(s)]
      /\ s \o t \in Seq(S)
  BY <1>1
<1>3. Range(s \o t) \subseteq S
  BY <1>2 DEF Range
<1>4. ASSUME NEW i \in DOMAIN s PROVE s[i] \in Range(s \o t)
  <2>1. i \in DOMAIN (s \o t) /\ (s \o t)[i] = s[i]
    BY <1>2
  <2> QED
    BY <2>1 DEF Range
<1>5. ASSUME NEW i \in DOMAIN t PROVE t[i] \in Range(s \o t)
  <2>1. i + Len(s) \in DOMAIN (s \o t) /\ (s \o t)[i + Len(s)] = t[i]
    BY <1>2
  <2> QED
    BY <2>1 DEF Range
<1>6. Range(s \o t) = S
  <2>1. Range(s) \subseteq Range(s \o t)
    BY <1>4 DEF Range
  <2>2. Range(t) \subseteq Range(s \o t)
    BY <1>5 DEF Range
  <2> QED
    BY <2>1, <2>2, <1>3
<1> QED
  BY <1>2, <1>6 DEF IsASeq

\* What is done first comes first, also when a step puts steps before the others.
LEMMA OrderedTail ==
  ASSUME NEW s, IsASeq(s), s # <<>>, Ordered(s)
  PROVE  /\ Ordered(Tail(s))
         /\ \A x \in Range(Tail(s)) : Rank(Head(s)) < Rank(x)
<1>1. /\ Len(s) \in Nat \ {0} /\ DOMAIN s = 1 .. Len(s) /\ DOMAIN Tail(s) = 1 .. Len(s) - 1
      /\ Head(s) = s[1] /\ \A i \in 1 .. Len(s) - 1 : Tail(s)[i] = s[i + 1]
  BY ConsFacts
<1>2. ASSUME NEW i \in DOMAIN Tail(s), NEW j \in DOMAIN Tail(s), i < j
      PROVE  Rank(Tail(s)[i]) < Rank(Tail(s)[j])
  BY <1>1, <1>2 DEF Ordered
<1>3. ASSUME NEW i \in DOMAIN Tail(s)
      PROVE  Rank(Head(s)) < Rank(Tail(s)[i])
  BY <1>1, <1>3 DEF Ordered
<1> QED
  BY <1>2, <1>3 DEF Ordered, Range

LEMMA OrderedJoin ==
  ASSUME NEW s, IsASeq(s), NEW t, IsASeq(t), Ordered(s), Ordered(t),
         \A x \in Range(s), y \in Range(t) : Rank(x) < Rank(y)
  PROVE  Ordered(s \o t)
<1> DEFINE u == s \o t
<1>1. /\ Len(s) \in Nat /\ Len(t) \in Nat
      /\ DOMAIN s = 1 .. Len(s) /\ DOMAIN t = 1 .. Len(t) /\ DOMAIN u = 1 .. Len(s) + Len(t)
      /\ \A i \in 1 .. Len(s) + Len(t) : u[i] = IF i <= Len(s) THEN s[i] ELSE t[i - Len(s)]
  BY JoinFacts
<1> HIDE DEF u
<1> SUFFICES ASSUME NEW i \in DOMAIN u, NEW j \in DOMAIN u, i < j PROVE Rank(u[i]) < Rank(u[j])
  BY DEF Ordered, u
<1>2. CASE j <= Len(s)
  BY <1>1, <1>2 DEF Ordered
<1>3. CASE i > Len(s)
  <2>1. i - Len(s) \in DOMAIN t /\ j - Len(s) \in DOMAIN t /\ i - Len(s) < j - Len(s)
    BY <1>1, <1>3
  <2> QED
    BY <1>1, <1>3, <2>1 DEF Ordered
<1>4. CASE i <= Len(s) /\ j > Len(s)
  <2>1. u[i] = s[i] /\ i \in DOMAIN s /\ u[j] = t[j - Len(s)] /\ j - Len(s) \in DOMAIN t
    BY <1>1, <1>4
  <2> QED
    BY <2>1 DEF Range
<1> QED
  BY <1>1, <1>2, <1>3, <1>4

\* The steps that one update of a file consists of, before what is left of the run.
LEMMA SingleFacts ==
  ASSUME NEW a
  PROVE  IsASeq(<<a>>) /\ Range(<<a>>) = {a} /\ Len(<<a>>) = 1 /\ <<a>>[1] = a /\ DOMAIN <<a>> = {1}
<1>1. DOMAIN <<a>> = {1} /\ <<a>>[1] = a /\ Len(<<a>>) = 1
  OBVIOUS
<1>2. Range(<<a>>) = {a}
  BY <1>1 DEF Range
<1>3. <<a>> \in Seq({a})
  OBVIOUS
<1> QED
  BY <1>1, <1>2, <1>3 DEF IsASeq

LEMMA SingleOrdered ==
  ASSUME NEW a
  PROVE  Ordered(<<a>>)
  BY SingleFacts DEF Ordered

Renaming(f) == [do |-> "rename", file |-> f]
OpeningOf(f) == [do |-> "open", file |-> f]

LEMMA OpeningFacts ==
  ASSUME NEW f
  PROVE  /\ IsASeq(Opening(f)) /\ Ordered(Opening(f))
         /\ Range(Opening(f)) \subseteq {Renaming(f), OpeningOf(f)}
         /\ Present(f) => Len(Opening(f)) = 2 /\ Opening(f)[1] = Renaming(f) /\ Opening(f)[2] = OpeningOf(f)
         /\ ~Present(f) => Len(Opening(f)) = 1 /\ Opening(f)[1] = OpeningOf(f)
<1>0. Rank(Renaming(f)) = -3 /\ Rank(OpeningOf(f)) = -2
  BY DEF Rank, Renaming, OpeningOf
<1> DEFINE u == <<Renaming(f)>>
           w == <<OpeningOf(f)>>
           q == u \o w
<1>a. IsASeq(u) /\ Ordered(u) /\ Range(u) = {Renaming(f)} /\ Len(u) = 1 /\ u[1] = Renaming(f)
  BY SingleFacts, SingleOrdered
<1>b. IsASeq(w) /\ Ordered(w) /\ Range(w) = {OpeningOf(f)} /\ Len(w) = 1 /\ w[1] = OpeningOf(f)
  BY SingleFacts, SingleOrdered
<1>1. CASE Present(f)
  <2>1. Opening(f) = q
    BY <1>1 DEF Opening, Renaming, OpeningOf
  <2> HIDE DEF u, w
  <2>2. Ordered(q)
    <3>1. \A x \in Range(u), y \in Range(w) : Rank(x) < Rank(y)
      BY <1>0, <1>a, <1>b
    <3> QED
      BY <3>1, <1>a, <1>b, OrderedJoin
  <2>3. IsASeq(q) /\ Range(q) = {Renaming(f)} \cup {OpeningOf(f)}
    BY <1>a, <1>b, JoinFacts
  <2>a. /\ Len(q) = Len(u) + Len(w)
        /\ \A i \in 1 .. Len(u) + Len(w) : q[i] = IF i <= Len(u) THEN u[i] ELSE w[i - Len(u)]
    BY <1>a, <1>b, JoinFacts
  <2> HIDE DEF q
  <2>4. Len(q) = 1 + 1 /\ \A i \in 1 .. 1 + 1 : q[i] = IF i <= 1 THEN u[i] ELSE w[i - 1]
    BY <2>a, <1>a, <1>b
  <2>5. 1 \in 1 .. 1 + 1 /\ 2 \in 1 .. 1 + 1 /\ ~(2 <= 1) /\ 2 - 1 = 1 /\ 1 + 1 = 2
    OBVIOUS
  <2>6. q[1] = u[1] /\ q[2] = w[1]
    BY <2>4, <2>5
  <2> QED
    BY <1>1, <1>a, <1>b, <2>1, <2>2, <2>3, <2>4, <2>5, <2>6
<1>2. CASE ~Present(f)
  <2>1. Opening(f) = <<>> \o <<OpeningOf(f)>>
    BY <1>2 DEF Opening, OpeningOf
  <2>2. <<>> \o <<OpeningOf(f)>> = <<OpeningOf(f)>>
    OBVIOUS
  <2> QED
    BY <1>2, <2>1, <2>2, SingleFacts, SingleOrdered
<1> QED
  BY <1>1, <1>2

\* From here on a step is what it says, not how it is written.
UpdateOf(n, f, close, rest) == n = (Opening(f) \o <<close>>) \o rest

LEMMA UpdateFacts ==
  ASSUME NEW n, NEW f, NEW close, NEW rest, UpdateOf(n, f, close, rest),
         Closes(close, f), IsASeq(rest), Ordered(rest), \A s \in Range(rest) : Rank(s) \in Nat
  PROVE  /\ IsASeq(n) /\ Ordered(n) /\ n # <<>>
         /\ Range(n) = Range(Opening(f)) \cup {close} \cup Range(rest)
         /\ Range(Opening(f)) \subseteq {Renaming(f), OpeningOf(f)}
         /\ Present(f) => /\ Len(n) > 2
                          /\ Head(n) = Renaming(f) /\ n[2] = OpeningOf(f) /\ n[3] = close
         /\ ~Present(f) => Len(n) > 1 /\ Head(n) = OpeningOf(f) /\ n[2] = close
<1> DEFINE o == Opening(f)
           m == o \o <<close>>
<1>0. /\ Rank(Renaming(f)) = -3 /\ Rank(OpeningOf(f)) = -2 /\ Rank(close) = -1
      /\ Renaming(f).do = "rename" /\ OpeningOf(f).do = "open"
  BY DEF Rank, Renaming, OpeningOf, Closes
<1>1. n = m \o rest
  BY DEF UpdateOf
<1>2. IsASeq(o) /\ Ordered(o) /\ Range(o) \subseteq {Renaming(f), OpeningOf(f)}
  BY OpeningFacts
<1>3. IsASeq(<<close>>) /\ Ordered(<<close>>) /\ Range(<<close>>) = {close} /\ Len(<<close>>) = 1 /\ <<close>>[1] = close
  BY SingleFacts, SingleOrdered
<1>4. /\ Present(f) => Len(o) = 2 /\ o[1] = Renaming(f) /\ o[2] = OpeningOf(f)
      /\ ~Present(f) => Len(o) = 1 /\ o[1] = OpeningOf(f)
  BY OpeningFacts
<1> HIDE DEF o
<1>5. IsASeq(m) /\ Range(m) = Range(o) \cup {close}
  BY <1>2, <1>3, JoinFacts
<1>6. /\ Len(m) = Len(o) + 1 /\ Len(o) \in Nat
      /\ \A i \in 1 .. Len(o) + 1 : m[i] = IF i <= Len(o) THEN o[i] ELSE <<close>>[i - Len(o)]
  BY <1>2, <1>3, JoinFacts
<1>7. Ordered(m)
  <2>1. \A x \in Range(o), y \in Range(<<close>>) : Rank(x) < Rank(y)
    BY <1>0, <1>2, <1>3
  <2> QED
    BY <2>1, <1>2, <1>3, OrderedJoin
<1>8. \A x \in Range(m), y \in Range(rest) : Rank(x) < Rank(y)
  <2> SUFFICES ASSUME NEW x \in Range(m), NEW y \in Range(rest) PROVE Rank(x) < Rank(y)
    OBVIOUS
  <2>1. Rank(x) \in {-3, -2, -1}
    BY <1>0, <1>2, <1>5
  <2>2. Rank(y) \in Nat
    OBVIOUS
  <2> QED
    BY <2>1, <2>2
<1>e. \A i \in 1 .. Len(o) : m[i] = o[i]
  BY <1>6
<1>f. m[Len(o) + 1] = close
  <2>1. Len(o) + 1 \in 1 .. Len(o) + 1 /\ ~(Len(o) + 1 <= Len(o)) /\ Len(o) + 1 - Len(o) = 1
    BY <1>6
  <2>2. m[Len(o) + 1] = <<close>>[Len(o) + 1 - Len(o)]
    BY <1>6, <2>1
  <2> QED
    BY <2>1, <2>2, <1>3
<1> HIDE DEF m
<1>9. IsASeq(n) /\ Ordered(n) /\ Range(n) = Range(m) \cup Range(rest)
  BY <1>1, <1>5, <1>7, <1>8, JoinFacts, OrderedJoin
<1>10. /\ Len(n) = Len(m) + Len(rest) /\ Len(rest) \in Nat /\ Len(m) \in Nat
       /\ \A i \in 1 .. Len(m) + Len(rest) : n[i] = IF i <= Len(m) THEN m[i] ELSE rest[i - Len(m)]
  BY <1>1, <1>5, JoinFacts
<1>11. n # <<>> /\ Head(n) = n[1]
  <2>1. Len(n) > 0
    BY <1>6, <1>10
  <2>2. n # <<>>
    BY <2>1
  <2> QED
    BY <2>2, <1>9, ConsFacts
<1>12. CASE Present(f)
  <2>0. Len(o) = 2 /\ o[1] = Renaming(f) /\ o[2] = OpeningOf(f)
    BY <1>12, <1>4
  <2>a. Len(m) = 2 + 1 /\ m[2 + 1] = close /\ \A i \in 1 .. 2 : m[i] = o[i]
    BY <2>0, <1>6, <1>e, <1>f
  <2>1. Len(m) = 3 /\ m[1] = Renaming(f) /\ m[2] = OpeningOf(f) /\ m[3] = close
    BY <2>0, <2>a
  <2>2. Len(n) > 2
    BY <2>1, <1>10
  <2>3. 1 \in 1 .. Len(m) + Len(rest) /\ 2 \in 1 .. Len(m) + Len(rest) /\ 3 \in 1 .. Len(m) + Len(rest)
    BY <2>1, <1>10
  <2>4. n[1] = m[1] /\ n[2] = m[2] /\ n[3] = m[3]
    BY <2>1, <2>3, <1>10
  <2> QED
    BY <1>12, <2>1, <2>2, <2>4, <1>2, <1>5, <1>9, <1>11 DEF o
<1>13. CASE ~Present(f)
  <2>0. Len(o) = 1 /\ o[1] = OpeningOf(f)
    BY <1>13, <1>4
  <2>a. Len(m) = 1 + 1 /\ m[1 + 1] = close /\ \A i \in 1 .. 1 : m[i] = o[i]
    BY <2>0, <1>6, <1>e, <1>f
  <2>1. Len(m) = 2 /\ m[1] = OpeningOf(f) /\ m[2] = close
    BY <2>0, <2>a
  <2>2. Len(n) > 1
    BY <2>1, <1>10
  <2>3. 1 \in 1 .. Len(m) + Len(rest) /\ 2 \in 1 .. Len(m) + Len(rest)
    BY <2>1, <1>10
  <2>4. n[1] = m[1] /\ n[2] = m[2]
    BY <2>1, <2>3, <1>10
  <2> QED
    BY <1>13, <2>1, <2>2, <2>4, <1>2, <1>5, <1>9, <1>11 DEF o
<1> QED
  BY <1>12, <1>13

\* What a directory lists and preloads after one of its files changed.
LEMMA SameLists ==
  ASSUME NEW F, NEW G, CMakeLists \in DOMAIN F <=> CMakeLists \in DOMAIN G,
         CMakeLists \in DOMAIN F => F[CMakeLists] = G[CMakeLists]
  PROVE  (IsComponent(F) <=> IsComponent(G)) /\ ListedIn(F) = ListedIn(G)
  BY DEF IsComponent, ListedIn

LEMMA PreloadedWhere ==
  ASSUME NEW F, NEW w
  PROVE  w \in PreloadedIn(F) <=> \E f \in Shelves(F) : w \in PreloadedBy(F[f])
  BY DEF PreloadedIn

LEMMA FewerShelves ==
  ASSUME NEW F, NEW G, \A f \in Shelves(F) : f \in Shelves(G) /\ F[f] = G[f]
  PROVE  PreloadedIn(F) \subseteq PreloadedIn(G)
<1> SUFFICES ASSUME NEW w, w \in PreloadedIn(F) PROVE w \in PreloadedIn(G)
  OBVIOUS
<1>1. PICK f \in Shelves(F) : w \in PreloadedBy(F[f])
  BY PreloadedWhere
<1>2. f \in Shelves(G) /\ w \in PreloadedBy(G[f])
  BY <1>1
<1> QED
  BY <1>2, PreloadedWhere

LEMMA WithNoLists ==
  ASSUME NEW F, NEW f, NEW v, f # CMakeLists
  PROVE  LET G == With(F, f, v)
         IN  /\ (CMakeLists \in DOMAIN G <=> CMakeLists \in DOMAIN F)
             /\ (CMakeLists \in DOMAIN F => G[CMakeLists] = F[CMakeLists])
             /\ (IsComponent(G) <=> IsComponent(F))
             /\ ListedIn(G) = ListedIn(F)
<1> DEFINE G == With(F, f, v)
<1>1. /\ (CMakeLists \in DOMAIN G <=> CMakeLists \in DOMAIN F)
      /\ (CMakeLists \in DOMAIN F => G[CMakeLists] = F[CMakeLists])
  BY DEF With
<1> HIDE DEF G
<1>2. (IsComponent(F) <=> IsComponent(G)) /\ ListedIn(F) = ListedIn(G)
  BY <1>1, SameLists
<1> QED
  BY <1>1, <1>2 DEF G

LEMMA WithNoShelf ==
  ASSUME NEW F, NEW f, NEW v, f[2] # "jshelf" \/ f[3] # 0
  PROVE  PreloadedIn(With(F, f, v)) = PreloadedIn(F)
<1> DEFINE G == With(F, f, v)
<1>1. \A g : g \in Shelves(F) => g \in Shelves(G) /\ F[g] = G[g]
  BY DEF Shelves, With
<1>2. \A g : g \in Shelves(G) => g \in Shelves(F) /\ F[g] = G[g]
  BY DEF Shelves, With
<1> HIDE DEF G
<1>3. PreloadedIn(F) \subseteq PreloadedIn(G) /\ PreloadedIn(G) \subseteq PreloadedIn(F)
  BY <1>1, <1>2, FewerShelves
<1> QED
  BY <1>3 DEF G

LEMMA WithLists ==
  ASSUME NEW F, NEW v
  PROVE  LET G == With(F, CMakeLists, v)
         IN  /\ CMakeLists \in DOMAIN G /\ G[CMakeLists] = v
             /\ IsComponent(G) <=> v.kind = "cmake"
             /\ ListedIn(G) = IF v.kind = "cmake" THEN UNION {Range(v.lists[p]) : p \in Parts} ELSE {}
  BY DEF With, IsComponent, ListedIn

LEMMA WithShelf ==
  ASSUME NEW F, NEW n, ShelvesAre(F, n), NEW v
  PROVE  PreloadedIn(With(F, File(<<n>>, "jshelf"), v)) = IF v.kind = "shelf" THEN PreloadedBy(v) ELSE {}
<1> DEFINE f == File(<<n>>, "jshelf")
           G == With(F, f, v)
<1>1. f[2] = "jshelf" /\ f[3] = 0
  BY DEF File
<1>2. \A g \in DOMAIN F : g[2] = "jshelf" /\ g[3] = 0 => g = f
  BY DEF ShelvesAre, IsFileOf
<1> HIDE DEF f
<1>3. \A g : g \in Shelves(G) <=> g = f /\ v.kind = "shelf"
  BY <1>1, <1>2 DEF Shelves, With
<1>4. G[f] = v
  BY DEF With
<1> HIDE DEF G
<1>5. \A w : w \in PreloadedIn(G) <=> v.kind = "shelf" /\ w \in PreloadedBy(v)
  BY <1>3, <1>4, PreloadedWhere
<1> QED
  BY <1>5 DEF G, f

LEMMA WithoutNoLists ==
  ASSUME NEW F, NEW f, f # CMakeLists
  PROVE  LET G == Without(F, f)
         IN  /\ (CMakeLists \in DOMAIN G <=> CMakeLists \in DOMAIN F)
             /\ (CMakeLists \in DOMAIN F => G[CMakeLists] = F[CMakeLists])
             /\ (IsComponent(G) <=> IsComponent(F))
             /\ ListedIn(G) = ListedIn(F)
<1> DEFINE G == Without(F, f)
<1>1. /\ (CMakeLists \in DOMAIN G <=> CMakeLists \in DOMAIN F)
      /\ (CMakeLists \in DOMAIN F => G[CMakeLists] = F[CMakeLists])
  BY DEF Without
<1> HIDE DEF G
<1>2. (IsComponent(F) <=> IsComponent(G)) /\ ListedIn(F) = ListedIn(G)
  BY <1>1, SameLists
<1> QED
  BY <1>1, <1>2 DEF G

LEMMA WithoutShelves ==
  ASSUME NEW F, NEW f
  PROVE  PreloadedIn(Without(F, f)) \subseteq PreloadedIn(F)
<1> DEFINE G == Without(F, f)
<1>1. \A g : g \in Shelves(G) => g \in Shelves(F) /\ F[g] = G[g]
  BY DEF Shelves, Without
<1> HIDE DEF G
<1>2. PreloadedIn(G) \subseteq PreloadedIn(F)
  BY <1>1, FewerShelves
<1> QED
  BY <1>2 DEF G

\* How a file's name differs from those of others.
LEMMA NameFacts ==
  /\ CMakeLists[2] = "txt" /\ CMakeLists[3] = 0
  /\ \A n : File(<<n>>, "jshelf") # CMakeLists
  /\ \A n : IsFileOf(CMakeLists, n)
  BY DEF CMakeLists, File, IsFileOf

LEMMA BackupFacts ==
  ASSUME clock \in Nat \ {0}, NEW f
  PROVE  /\ Backup(f)[1] = f[1] /\ Backup(f)[2] = f[2] /\ Backup(f)[3] # 0
         /\ Backup(f) # CMakeLists
         /\ f[3] = 0 => Backup(f) # f
  BY NameFacts DEF Backup

\* The order of steps.
Micro == {"rename", "open", "fill", "loop"}
Big == {"check", "generate", "list", "shelve"}

LEMMA RankFacts ==
  ASSUME NEW s, NEW o, NEW n, IsStep(s, o, n)
  PROVE  /\ s.do \in Micro => Rank(s) \in {-3, -2, -1}
         /\ s.do \in Big => Rank(s) \in Nat
         /\ s.do \in Micro \cup Big
         /\ s.do = "rename" <=> Rank(s) = -3
         /\ s.do = "open" <=> Rank(s) = -2
         /\ s.do \in {"fill", "loop"} <=> Rank(s) = -1
<1>1. /\ s.do \in Micro \cup Big
      /\ s.do = "check" => Rank(s) = 8
  BY DEF IsStep, Rank, Micro, Big
<1>2. ASSUME s.do \in {"generate", "list", "shelve"} PROVE Rank(s) \in Nat
  <2>1. s.kind \in {"component", "container", "container_operation", "operation"}
    BY <1>2 DEF IsStep, Parts, Kinds
  <2>2. Bases[s.kind] \in Nat
    BY <2>1 DEF Bases
  <2> QED
    BY <1>2, <2>2 DEF Rank
<1>3. /\ s.do = "rename" => Rank(s) = -3
      /\ s.do = "open" => Rank(s) = -2
      /\ s.do \in {"fill", "loop"} => Rank(s) = -1
  BY DEF Rank
<1> QED
  BY <1>1, <1>2, <1>3 DEF Micro, Big

LEMMA RankOfKind ==
  ASSUME NEW s, NEW o, NEW n, IsStep(s, o, n)
  PROVE  /\ s.kind = "container" /\ s.do = "list" => Rank(s) = 6
         /\ s.kind = "container" /\ s.do = "shelve" => Rank(s) = 7
         /\ s.do = "check" => Rank(s) = 8
         /\ s.kind = "container_operation" /\ s.do = "shelve" => Rank(s) = 11
         /\ s.kind = "component" /\ s.do = "generate" => Rank(s) = 1
         /\ s.kind # "component" /\ s.do \in {"generate", "list", "shelve"} => Rank(s) > 4
         /\ s.do = "generate" => Rank(s) = Bases[s.kind] + 1
         /\ s.do = "list" => Rank(s) = Bases[s.kind] + 2
         /\ s.do = "shelve" => Rank(s) = Bases[s.kind] + 3
         /\ s.do \in {"generate", "list", "shelve"} => Bases[s.kind] \in Nat
<1>1. /\ s.do = "generate" => Rank(s) = Bases[s.kind] + 1
      /\ s.do = "list" => Rank(s) = Bases[s.kind] + 2
      /\ s.do = "shelve" => Rank(s) = Bases[s.kind] + 3
      /\ s.do = "check" => Rank(s) = 8
  BY DEF Rank
<1>2. /\ Bases["component"] = 0 /\ Bases["container"] = 4
      /\ Bases["container_operation"] = 8 /\ Bases["operation"] = 12
  BY DEF Bases
<1>3. s.do \in {"generate", "list", "shelve"} =>
        s.kind \in {"component", "container", "container_operation", "operation"}
  BY DEF IsStep, Parts, Kinds
<1> QED
  BY <1>1, <1>2, <1>3

\* There is at most one file on its way.
LEMMA FillsFacts ==
  ASSUME NEW q, IsASeq(q), Ordered(q), NEW files
  PROVE  /\ Fills(q) = {} => Settled(q, files) = files
         /\ \A s \in Fills(q) : Settled(q, files) = With(files, s.file, s.content)
         /\ \A s \in Fills(q) : ~Doomed(q)
<1>1. ASSUME NEW x \in Range(q), NEW y \in Range(q), x.do \in {"fill", "loop"}, y.do \in {"fill", "loop"}
      PROVE  x = y
  <2>1. PICK i \in DOMAIN q : x = q[i]
    BY DEF Range
  <2>2. PICK j \in DOMAIN q : y = q[j]
    BY DEF Range
  <2>3. Rank(x) = -1 /\ Rank(y) = -1
    BY <1>1 DEF Rank
  <2>4. DOMAIN q = 1 .. Len(q) /\ Len(q) \in Nat
    BY DEF IsASeq
  <2>5. i = j
    BY <2>1, <2>2, <2>3, <2>4 DEF Ordered
  <2> QED
    BY <2>1, <2>2, <2>5
<1>2. ASSUME NEW s \in Fills(q)
      PROVE  Settled(q, files) = With(files, s.file, s.content) /\ ~Doomed(q)
  <2> DEFINE t == CHOOSE x \in Fills(q) : TRUE
  <2>1. t \in Fills(q) /\ Fills(q) # {}
    OBVIOUS
  <2>2. t = s
    BY <1>1, <2>1 DEF Fills
  <2>3. Settled(q, files) = With(files, t.file, t.content)
    BY <2>1 DEF Settled
  <2>4. ~Doomed(q)
    <3> SUFFICES ASSUME NEW y \in Range(q), y.do = "loop" PROVE FALSE
      BY DEF Doomed
    <3>1. s \in Range(q) /\ s.do = "fill"
      BY DEF Fills
    <3> QED
      BY <3>1, <1>1
  <2> HIDE DEF t
  <2> QED
    BY <2>2, <2>3, <2>4
<1> QED
  BY <1>2 DEF Settled

\* Before a step of main's own, no update is in progress.
LEMMA BigHead ==
  ASSUME NEW q, NEW o, NEW n, IsASeq(q), Ordered(q), q # <<>>, \A s \in Range(q) : IsStep(s, o, n), Head(q).do \in Big
  PROVE  /\ Fills(q) = {} /\ ~Doomed(q)
         /\ \A s \in Range(q) : s.do \in Big
         /\ Rank(Head(q)) \in Nat /\ \A s \in Range(Tail(q)) : Rank(s) \in Nat /\ Rank(Head(q)) < Rank(s)
<1>1. Range(q) = {Head(q)} \cup Range(Tail(q))
  BY ConsFacts
<1>2. Rank(Head(q)) \in Nat
  BY <1>1, RankFacts
<1>3. ASSUME NEW s \in Range(Tail(q)) PROVE s.do \in Big /\ Rank(s) \in Nat /\ Rank(Head(q)) < Rank(s)
  <2>1. Rank(Head(q)) < Rank(s) /\ IsStep(s, o, n)
    BY <1>1, OrderedTail
  <2>2. s.do \notin Micro
    <3> SUFFICES ASSUME s.do \in Micro PROVE FALSE
      OBVIOUS
    <3>1. Rank(s) \in {-3, -2, -1}
      BY <2>1, RankFacts
    <3> QED
      BY <1>2, <2>1, <3>1
  <2> QED
    BY <2>1, <2>2, RankFacts
<1>4. \A s \in Range(q) : s.do \in Big
  BY <1>1, <1>3
<1> QED
  BY <1>2, <1>3, <1>4 DEF Fills, Doomed, Big

\* An update that a step of main puts first.
LEMMA UpdateSteps ==
  ASSUME NEW q, NEW o, NEW n, NEW f, NEW close, NEW rest, UpdateOf(q, f, close, rest),
         Closes(close, f), IsASeq(rest), Ordered(rest),
         \A s \in Range(rest) : Rank(s) \in Nat /\ IsStep(s, o, n),
         IsFileOf(f, n), close.do = "fill" => IsContent(close.content)
  PROVE  /\ IsASeq(q) /\ Ordered(q)
         /\ \A s \in Range(q) : IsStep(s, o, n)
         /\ Updating(q, disk[dir])
         /\ Doomed(q) <=> close.do = "loop"
         /\ close.do = "fill" => Settled(q, disk[dir]) = With(disk[dir], f, close.content)
         /\ \A do \in {"generate", "list", "shelve"} : \A kind :
              Pending(q, do, kind) <=> Pending(rest, do, kind)
         /\ \A kind : HasTemplate(q, kind) <=> HasTemplate(rest, kind)
<1>1. /\ IsASeq(q) /\ Ordered(q) /\ q # <<>>
      /\ Range(q) = Range(Opening(f)) \cup {close} \cup Range(rest)
      /\ Range(Opening(f)) \subseteq {Renaming(f), OpeningOf(f)}
      /\ Present(f) => /\ Len(q) > 2
                       /\ Head(q) = Renaming(f) /\ q[2] = OpeningOf(f) /\ q[3] = close
      /\ ~Present(f) => Len(q) > 1 /\ Head(q) = OpeningOf(f) /\ q[2] = close
  BY UpdateFacts
<1>2. /\ Renaming(f).do = "rename" /\ Renaming(f).file = f
      /\ OpeningOf(f).do = "open" /\ OpeningOf(f).file = f
  BY DEF Renaming, OpeningOf
<1>3. close.do \in {"fill", "loop"} /\ (close.do = "fill" => close.file = f)
  BY DEF Closes
<1>4. \A s \in Range(q) : s = Renaming(f) \/ s = OpeningOf(f) \/ s = close \/ s \in Range(rest)
  BY <1>1
<1>5. \A s \in Range(rest) : s.do \notin Micro
  <2> SUFFICES ASSUME NEW s \in Range(rest), s.do \in Micro PROVE FALSE
    OBVIOUS
  <2>1. Rank(s) \in {-3, -2, -1} /\ Rank(s) \in Nat
    BY RankFacts
  <2> QED
    BY <2>1
<1>6. \A s \in Range(q) : IsStep(s, o, n)
  <2>1. IsStep(Renaming(f), o, n) /\ IsStep(OpeningOf(f), o, n)
    BY <1>2 DEF IsStep
  <2>2. IsStep(close, o, n)
    BY <1>3 DEF IsStep
  <2> QED
    BY <1>4, <2>1, <2>2
<1>7. Updating(q, disk[dir])
  BY <1>1, <1>2 DEF Updating, Present
<1>8. Doomed(q) <=> close.do = "loop"
  BY <1>1, <1>2, <1>3, <1>4, <1>5 DEF Doomed, Micro
<1>9. ASSUME close.do = "fill"
      PROVE  Settled(q, disk[dir]) = With(disk[dir], f, close.content)
  <2>1. close \in Fills(q)
    BY <1>1, <1>9 DEF Fills
  <2> QED
    BY <2>1, <1>1, <1>3, <1>9, FillsFacts
<1>10. ASSUME NEW s, s.do \in {"generate", "list", "shelve"}
       PROVE  s \in Range(q) <=> s \in Range(rest)
  BY <1>1, <1>2, <1>3, <1>4, <1>10
<1>11. \A do \in {"generate", "list", "shelve"} : \A kind :
         Pending(q, do, kind) <=> Pending(rest, do, kind)
  BY <1>10 DEF Pending
<1>12. \A kind : HasTemplate(q, kind) <=> HasTemplate(rest, kind)
  BY <1>10 DEF HasTemplate
<1> QED
  BY <1>1, <1>6, <1>7, <1>8, <1>9, <1>11, <1>12

\* A directory that looks like another to the tool and to a process.
Looks(F, G, n) ==
  /\ CMakeLists \in DOMAIN F <=> CMakeLists \in DOMAIN G
  /\ CMakeLists \in DOMAIN F => F[CMakeLists] = G[CMakeLists]
  /\ PreloadedIn(F) = PreloadedIn(G)
  /\ \A w : HasSource(F, w) => HasSource(G, w)
  /\ ShelvesAre(F, n) => ShelvesAre(G, n)

LEMMA LooksSame ==
  ASSUME NEW F, NEW G, NEW n, Looks(F, G, n), IsComponent(F) => F[CMakeLists].project = n
  PROVE  /\ IsComponent(F) <=> IsComponent(G)
         /\ ListedIn(F) = ListedIn(G)
         /\ IsComponent(F) => F[CMakeLists] = G[CMakeLists]
         /\ ComponentOK(F) => ComponentOK(G)
         /\ \A p : ListOf(F, p) = ListOf(G, p)
<1>1. (IsComponent(F) <=> IsComponent(G)) /\ ListedIn(F) = ListedIn(G)
  BY SameLists DEF Looks
<1>2. IsComponent(F) => F[CMakeLists] = G[CMakeLists]
  BY DEF Looks, IsComponent
<1>3. \A p : ListOf(F, p) = ListOf(G, p)
  BY <1>1, <1>2 DEF ListOf
<1> QED
  BY <1>1, <1>2, <1>3 DEF ComponentOK, Looks

LEMMA ProgressKept ==
  ASSUME NEW q, NEW F, NEW r, NEW G, NEW o, NEW n, NEW c, Progress(q, F, o, n, c), Looks(F, G, n),
         \A k \in Parts : /\ Pending(r, "list", k) <=> Pending(q, "list", k)
                          /\ Pending(r, "shelve", k) <=> Pending(q, "shelve", k),
         \A k \in Kinds : Pending(r, "generate", k) => Pending(q, "generate", k),
         \A k \in Parts : HasTemplate(q, k) => HasTemplate(r, k) \/ HasSource(G, Words(o, k)),
         HasTemplate(q, "component") => HasTemplate(r, "component") \/ CMakeLists \in DOMAIN G
  PROVE  Progress(r, G, o, n, c)
<1>1. /\ IsComponent(F) <=> IsComponent(G)
      /\ ListedIn(F) = ListedIn(G)
      /\ IsComponent(F) => F[CMakeLists] = G[CMakeLists]
      /\ ComponentOK(F) => ComponentOK(G)
      /\ \A p : ListOf(F, p) = ListOf(G, p)
  BY LooksSame DEF Progress, IsComponent
<1>2. /\ CMakeLists \in DOMAIN F <=> CMakeLists \in DOMAIN G
      /\ PreloadedIn(F) = PreloadedIn(G)
      /\ \A w : HasSource(F, w) => HasSource(G, w)
      /\ ShelvesAre(F, n) => ShelvesAre(G, n)
  BY DEF Looks
<1>3. ASSUME NEW p \in Parts, PartDone(p, q, F, o) PROVE PartDone(p, r, G, o)
  BY <1>1, <1>2, <1>3 DEF PartDone, Kinds
<1>4. Unshelved(q, F, o) => Unshelved(r, G, o)
  BY <1>1, <1>2 DEF Unshelved
<1>5. "component" \in Kinds
  BY DEF Kinds
<1> QED
  BY <1>1, <1>2, <1>3, <1>4, <1>5 DEF Progress

\* What renaming, opening and filling a file leave of a directory.
Renamed(F, f) == With(Without(F, f), Backup(f), F[f])

LEMMA RenamedFacts ==
  ASSUME clock \in Nat \ {0}, NEW F, NEW f \in DOMAIN F, f[3] = 0
  PROVE  /\ f \notin DOMAIN Renamed(F, f)
         /\ \A g \in DOMAIN Renamed(F, f) : \E h \in DOMAIN F : Renamed(F, f)[g] = F[h]
         /\ \A n : ShelvesAre(F, n) => ShelvesAre(Renamed(F, f), n)
         /\ ComponentOK(F) => ComponentOK(Renamed(F, f))
         /\ IsComponent(Renamed(F, f)) => IsComponent(F) /\ Renamed(F, f)[CMakeLists] = F[CMakeLists]
         /\ \A c : \A n : Looks(With(F, f, c), With(Renamed(F, f), f, c), n)
<1> DEFINE B == Backup(f)
           W == Without(F, f)
           R == Renamed(F, f)
<1>1. B[1] = f[1] /\ B[2] = f[2] /\ B[3] # 0 /\ B # CMakeLists /\ B # f
  BY BackupFacts
<1>2. /\ DOMAIN W = DOMAIN F \ {f}
      /\ \A g \in DOMAIN W : W[g] = F[g]
  BY DEF Without
<1>3. R = With(W, B, F[f])
  BY DEF Renamed
<1> HIDE DEF B, W, R
<1>4. /\ DOMAIN R = (DOMAIN F \ {f}) \cup {B}
      /\ R[B] = F[f]
      /\ \A g \in DOMAIN F \ {f, B} : R[g] = F[g]
  BY <1>2, <1>3 DEF With
<1>5. \A n : ShelvesAre(F, n) => ShelvesAre(R, n)
  BY <1>1, <1>4 DEF ShelvesAre
<1>6. \A w : HasSource(F, w) => HasSource(R, w)
  <2> SUFFICES ASSUME NEW w, HasSource(F, w) PROVE HasSource(R, w)
    OBVIOUS
  <2>1. PICK g \in DOMAIN F : g[1] = w
    BY DEF HasSource
  <2>2. CASE g = f
    BY <1>1, <1>4, <2>1, <2>2 DEF HasSource
  <2>3. CASE g # f
    BY <1>4, <2>1, <2>3 DEF HasSource
  <2> QED
    BY <2>2, <2>3
<1>7. ComponentOK(F) => ComponentOK(R)
  <2> SUFFICES ASSUME ComponentOK(F), IsComponent(R) PROVE ComponentOK(R)
    BY DEF ComponentOK
  <2>1. f # CMakeLists /\ CMakeLists \in DOMAIN F /\ R[CMakeLists] = F[CMakeLists]
    BY <1>1, <1>4 DEF IsComponent
  <2>2. ListedIn(R) = ListedIn(F) /\ IsComponent(F)
    <3>1. CMakeLists \in DOMAIN F <=> CMakeLists \in DOMAIN R
      BY <2>1 DEF IsComponent
    <3> QED
      BY <2>1, <3>1, SameLists
  <2>3. PreloadedIn(R) \subseteq PreloadedIn(F)
    <3>1. \A g : g \in Shelves(R) => g \in Shelves(F) /\ R[g] = F[g]
      BY <1>1, <1>4 DEF Shelves
    <3> QED
      BY <3>1, FewerShelves
  <2> QED
    BY <2>1, <2>2, <2>3, <1>5, <1>6 DEF ComponentOK
<1>8. ASSUME NEW c PROVE \A n : Looks(With(F, f, c), With(R, f, c), n)
  <2> DEFINE X == With(F, f, c)
             Y == With(R, f, c)
  <2>1. /\ DOMAIN X = DOMAIN F \cup {f} /\ X[f] = c
        /\ \A g \in DOMAIN F \ {f} : X[g] = F[g]
    BY DEF With
  <2>2. /\ DOMAIN Y = DOMAIN R \cup {f} /\ Y[f] = c
        /\ \A g \in DOMAIN R \ {f} : Y[g] = R[g]
    BY DEF With
  <2> HIDE DEF X, Y
  <2>3. \A g : g[3] = 0 => (g \in DOMAIN X <=> g \in DOMAIN Y) /\ (g \in DOMAIN X => X[g] = Y[g])
    <3> SUFFICES ASSUME NEW g, g[3] = 0
                 PROVE  (g \in DOMAIN X <=> g \in DOMAIN Y) /\ (g \in DOMAIN X => X[g] = Y[g])
      OBVIOUS
    <3>1. g # B
      BY <1>1
    <3>2. g = f => g \in DOMAIN X /\ g \in DOMAIN Y /\ X[g] = Y[g]
      BY <2>1, <2>2
    <3>3. g # f => (g \in DOMAIN R <=> g \in DOMAIN F) /\ (g \in DOMAIN R => R[g] = F[g])
      BY <1>4, <3>1
    <3>4. g # f => (g \in DOMAIN X <=> g \in DOMAIN F) /\ (g \in DOMAIN X => X[g] = F[g])
      BY <2>1
    <3>5. g # f => (g \in DOMAIN Y <=> g \in DOMAIN R) /\ (g \in DOMAIN R => Y[g] = R[g])
      BY <2>2
    <3> QED
      BY <3>2, <3>3, <3>4, <3>5
  <2>4. CMakeLists[3] = 0
    BY NameFacts
  <2>5. PreloadedIn(X) = PreloadedIn(Y)
    <3>1. \A g : g \in Shelves(X) => g \in Shelves(Y) /\ X[g] = Y[g]
      BY <2>3 DEF Shelves
    <3>2. \A g : g \in Shelves(Y) => g \in Shelves(X) /\ Y[g] = X[g]
      BY <2>3 DEF Shelves
    <3>3. PreloadedIn(X) \subseteq PreloadedIn(Y)
      BY <3>1, FewerShelves
    <3>4. PreloadedIn(Y) \subseteq PreloadedIn(X)
      BY <3>2, FewerShelves
    <3> QED
      BY <3>3, <3>4
  <2>6. DOMAIN X \subseteq DOMAIN Y
    BY <1>4, <2>1, <2>2
  <2>7. \A w : HasSource(X, w) => HasSource(Y, w)
    BY <2>6 DEF HasSource
  <2>8. \A n : ShelvesAre(X, n) => ShelvesAre(Y, n)
    BY <2>3 DEF ShelvesAre
  <2> QED
    BY <2>3, <2>4, <2>5, <2>7, <2>8 DEF Looks, X, Y
<1>9. \A g \in DOMAIN R : \E h \in DOMAIN F : R[g] = F[h]
  BY <1>4
<1>10. f \notin DOMAIN R
  BY <1>1, <1>4
<1>11. IsComponent(R) => IsComponent(F) /\ R[CMakeLists] = F[CMakeLists]
  BY <1>1, <1>4 DEF IsComponent
<1> QED
  BY <1>11, <1>5, <1>7, <1>8, <1>9, <1>10 DEF R

LEMMA OpenedFacts ==
  ASSUME NEW F, NEW f, f \notin DOMAIN F, NEW n, IsFileOf(f, n), ShelvesAre(F, n),
         IsComponent(F) => F[CMakeLists].project = n
  PROVE  /\ ShelvesAre(With(F, f, Blank), n)
         /\ ComponentOK(F) => ComponentOK(With(F, f, Blank))
         /\ IsComponent(With(F, f, Blank)) =>
              IsComponent(F) /\ With(F, f, Blank)[CMakeLists] = F[CMakeLists]
         /\ \A c : With(With(F, f, Blank), f, c) = With(F, f, c)
<1> DEFINE X == With(F, f, Blank)
<1>1. /\ DOMAIN X = DOMAIN F \cup {f} /\ X[f] = Blank
      /\ \A g \in DOMAIN F : X[g] = F[g]
  BY DEF With
<1>2. \A c : With(X, f, c) = With(F, f, c)
  BY DEF With
<1> HIDE DEF X
<1>3. Blank.kind = "blank"
  BY DEF Blank
<1>4. ShelvesAre(X, n)
  BY <1>1 DEF ShelvesAre
<1>5. ComponentOK(F) => ComponentOK(X)
  <2> SUFFICES ASSUME ComponentOK(F), IsComponent(X) PROVE ComponentOK(X)
    BY DEF ComponentOK
  <2>1. CMakeLists \in DOMAIN F /\ X[CMakeLists] = F[CMakeLists] /\ f # CMakeLists
    BY <1>1, <1>3 DEF IsComponent
  <2>2. ListedIn(X) = ListedIn(F) /\ IsComponent(F)
    <3>1. CMakeLists \in DOMAIN F <=> CMakeLists \in DOMAIN X
      BY <2>1, <1>1
    <3> QED
      BY <2>1, <3>1, SameLists
  <2>3. PreloadedIn(X) \subseteq PreloadedIn(F)
    <3>1. \A g : g \in Shelves(X) => g \in Shelves(F) /\ X[g] = F[g]
      BY <1>1, <1>3 DEF Shelves
    <3> QED
      BY <3>1, FewerShelves
  <2>4. \A w : HasSource(F, w) => HasSource(X, w)
    BY <1>1 DEF HasSource
  <2>5. ShelvesAre(X, F[CMakeLists].project)
    BY <1>4, <2>2
  <2> QED
    BY <2>1, <2>2, <2>3, <2>4, <2>5 DEF ComponentOK
<1>6. IsComponent(X) => IsComponent(F) /\ X[CMakeLists] = F[CMakeLists]
  BY <1>1, <1>3 DEF IsComponent
<1> QED
  BY <1>2, <1>4, <1>5, <1>6 DEF X

\* The three steps of an update.
LEMMA TailFacts ==
  ASSUME NEW q, IsASeq(q), q # <<>>, NEW F, NEW o, NEW n, NEW c, Running(q, F, o, n, c)
  PROVE  /\ IsASeq(Tail(q)) /\ Ordered(Tail(q)) /\ Range(q) = {Head(q)} \cup Range(Tail(q))
         /\ \A s \in Range(Tail(q)) : IsStep(s, o, n) /\ Rank(Head(q)) < Rank(s)
         /\ IsStep(Head(q), o, n)
         /\ Len(q) > 1 => Tail(q) # <<>> /\ Head(Tail(q)) = q[2]
         /\ Len(q) > 2 => Len(Tail(q)) > 1 /\ Tail(q)[2] = q[3]
<1>1. /\ Range(q) = {Head(q)} \cup Range(Tail(q)) /\ IsASeq(Tail(q))
      /\ Len(q) \in Nat \ {0} /\ Len(Tail(q)) = Len(q) - 1
      /\ \A i \in 1 .. Len(q) - 1 : Tail(q)[i] = q[i + 1]
  BY ConsFacts
<1>2. Ordered(Tail(q)) /\ \A x \in Range(Tail(q)) : Rank(Head(q)) < Rank(x)
  BY OrderedTail DEF Running
<1>3. \A s \in Range(q) : IsStep(s, o, n)
  BY DEF Running
<1>4. ASSUME Len(q) > 1 PROVE Tail(q) # <<>> /\ Head(Tail(q)) = q[2]
  <2>1. Len(Tail(q)) > 0 /\ Tail(q)[1] = q[1 + 1]
    BY <1>1, <1>4
  <2> DEFINE t == Tail(q)
  <2>a. IsASeq(t) /\ Len(t) > 0
    BY <1>1, <2>1
  <2> HIDE DEF t
  <2>b. t # <<>>
    BY <2>a
  <2>c. Head(t) = t[1]
    BY <2>a, <2>b, ConsFacts
  <2>2. Tail(q) # <<>>
    BY <2>b DEF t
  <2>3. Head(Tail(q)) = Tail(q)[1]
    BY <2>c DEF t
  <2> QED
    BY <2>1, <2>2, <2>3
<1>5. ASSUME Len(q) > 2 PROVE Len(Tail(q)) > 1 /\ Tail(q)[2] = q[3]
  <2>1. Len(Tail(q)) > 1 /\ 2 \in 1 .. Len(q) - 1
    BY <1>1, <1>5
  <2>2. Tail(q)[2] = q[2 + 1]
    BY <1>1, <2>1
  <2> QED
    BY <2>1, <2>2
<1> QED
  BY <1>1, <1>2, <1>3, <1>4, <1>5

\* The steps of q that are no part of an update stay when its first step is done.
LEMMA TailPending ==
  ASSUME NEW q, IsASeq(q), q # <<>>, Head(q).do \in Micro
  PROVE  /\ \A do \in {"generate", "list", "shelve"} : \A kind :
              Pending(Tail(q), do, kind) <=> Pending(q, do, kind)
         /\ \A kind : HasTemplate(Tail(q), kind) <=> HasTemplate(q, kind)
<1>1. Range(q) = {Head(q)} \cup Range(Tail(q))
  BY ConsFacts
<1>2. \A s : s.do \in {"generate", "list", "shelve"} => (s \in Range(q) <=> s \in Range(Tail(q)))
  BY <1>1 DEF Micro
<1> QED
  BY <1>2 DEF Pending, HasTemplate

LEMMA SameProgress ==
  ASSUME NEW q, IsASeq(q), q # <<>>, Head(q).do \in Micro, NEW F, NEW G, NEW n, Looks(F, G, n),
         NEW o, NEW c, Progress(q, F, o, n, c)
  PROVE  Progress(Tail(q), G, o, n, c)
<1>1. /\ \A do \in {"generate", "list", "shelve"} : \A kind :
           Pending(Tail(q), do, kind) <=> Pending(q, do, kind)
      /\ \A kind : HasTemplate(Tail(q), kind) <=> HasTemplate(q, kind)
  BY TailPending
<1> DEFINE r == Tail(q)
<1>2. /\ \A k \in Parts : /\ Pending(r, "list", k) <=> Pending(q, "list", k)
                          /\ Pending(r, "shelve", k) <=> Pending(q, "shelve", k)
      /\ \A k \in Kinds : Pending(r, "generate", k) => Pending(q, "generate", k)
      /\ \A k \in Parts : HasTemplate(q, k) => HasTemplate(r, k) \/ HasSource(G, Words(o, k))
      /\ HasTemplate(q, "component") => HasTemplate(r, "component") \/ CMakeLists \in DOMAIN G
  BY <1>1
<1> HIDE DEF r
<1>3. Progress(r, G, o, n, c)
  BY <1>2, ProgressKept
<1> QED
  BY <1>3 DEF r

LEMMA LooksLikeItself == \A F : \A n : Looks(F, F, n)
  BY DEF Looks

LEMMA RenameStep ==
  ASSUME NEW q, IsASeq(q), q # <<>>, NEW F, NEW o, NEW n, NEW c, Running(q, F, o, n, c),
         clock \in Nat \ {0}, Head(q).do = "rename"
  PROVE  /\ Head(q).file \in DOMAIN F /\ Head(q).file[3] = 0
         /\ Running(Tail(q), Renamed(F, Head(q).file), o, n, c)
<1> DEFINE f == Head(q).file
           t == Tail(q)
           R == Renamed(F, f)
<1>1. /\ IsASeq(t) /\ Ordered(t) /\ Range(q) = {Head(q)} \cup Range(t)
      /\ \A s \in Range(t) : IsStep(s, o, n)
      /\ IsStep(Head(q), o, n)
      /\ Len(q) > 1 => t # <<>> /\ Head(t) = q[2]
      /\ Len(q) > 2 => Len(t) > 1 /\ t[2] = q[3]
  BY TailFacts
<1>2. f \in DOMAIN F /\ Len(q) > 2 /\ q[2].do = "open" /\ q[2].file = f /\ Closes(q[3], f)
  BY DEF Running, Updating
<1>3. f[3] = 0
  BY <1>1 DEF IsStep, IsFileOf
<1>4. Head(q).do \in Micro
  BY DEF Micro
<1>a. /\ f \notin DOMAIN R
      /\ ShelvesAre(F, n) => ShelvesAre(R, n)
      /\ IsComponent(R) => IsComponent(F) /\ R[CMakeLists] = F[CMakeLists]
  BY <1>2, <1>3, RenamedFacts
<1>b. \A x : Looks(With(F, f, x), With(R, f, x), n)
  BY <1>2, <1>3, RenamedFacts
<1> HIDE DEF f, R
<1>5. Updating(t, R)
  <2>1. Len(q) > 1 /\ t # <<>> /\ Head(t) = q[2] /\ Len(t) > 1 /\ t[2] = q[3]
    <3>1. Len(q) > 1
      BY <1>2, ConsFacts
    <3> QED
      BY <3>1, <1>1, <1>2
  <2>2. Head(t).do = "open" /\ Head(t).file = f
    BY <1>2, <2>1
  <2> HIDE DEF t
  <2> QED
    BY <2>1, <2>2, <1>2, <1>a DEF Updating
<1>6. ASSUME ~Doomed(t) PROVE Progress(t, Settled(t, R), o, n, c)
  <2>1. q[3] \in Range(q) /\ q[3] \in Range(t)
    <3>1. 3 \in DOMAIN q
      BY <1>2, ConsFacts
    <3>2. q[3] # Head(q)
      BY <1>2 DEF Closes
    <3> QED
      BY <1>1, <3>1, <3>2 DEF Range
  <2>2. ~Doomed(q)
    BY <1>1, <1>6 DEF Doomed
  <2>3. q[3].do = "fill" /\ q[3].file = f
    BY <1>2, <2>1, <2>2 DEF Closes, Doomed
  <2>4. q[3] \in Fills(q) /\ q[3] \in Fills(t)
    BY <2>1, <2>3 DEF Fills
  <2>5. Settled(q, F) = With(F, f, q[3].content)
    BY <2>3, <2>4, FillsFacts DEF Running
  <2>6. Settled(t, R) = With(R, f, q[3].content)
    BY <1>1, <2>3, <2>4, FillsFacts
  <2>7. Progress(q, Settled(q, F), o, n, c)
    BY <2>2 DEF Running
  <2>8. Looks(Settled(q, F), Settled(t, R), n)
    BY <1>b, <2>5, <2>6
  <2> QED
    BY <1>4, <2>7, <2>8, SameProgress
<1> HIDE DEF t
<1>7. Running(t, R, o, n, c)
  BY <1>1, <1>5, <1>6, <1>a DEF Running
<1> QED
  BY <1>2, <1>3, <1>7 DEF f, t, R

LEMMA OpenStep ==
  ASSUME NEW q, IsASeq(q), q # <<>>, NEW F, NEW o, NEW n, NEW c, Running(q, F, o, n, c),
         Head(q).do = "open"
  PROVE  /\ Head(q).file \notin DOMAIN F
         /\ IsFileOf(Head(q).file, n) /\ ShelvesAre(F, n) /\ (IsComponent(F) => F[CMakeLists].project = n)
         /\ Running(Tail(q), With(F, Head(q).file, Blank), o, n, c)
<1> DEFINE f == Head(q).file
           t == Tail(q)
           X == With(F, f, Blank)
<1>1. /\ IsASeq(t) /\ Ordered(t) /\ Range(q) = {Head(q)} \cup Range(t)
      /\ \A s \in Range(t) : IsStep(s, o, n)
      /\ IsStep(Head(q), o, n)
      /\ Len(q) > 1 => t # <<>> /\ Head(t) = q[2]
  BY TailFacts
<1>2. f \notin DOMAIN F /\ Len(q) > 1 /\ Closes(q[2], f)
  BY DEF Running, Updating
<1>3. IsFileOf(f, n)
  BY <1>1 DEF IsStep
<1>4. Head(q).do \in Micro
  BY DEF Micro
<1>5. ShelvesAre(F, n) /\ (IsComponent(F) => F[CMakeLists].project = n)
  BY DEF Running
<1>a. /\ ShelvesAre(X, n)
      /\ IsComponent(X) => IsComponent(F) /\ X[CMakeLists] = F[CMakeLists]
      /\ \A x : With(X, f, x) = With(F, f, x)
  BY <1>2, <1>3, <1>5, OpenedFacts
<1>b. f \in DOMAIN X /\ X[f] = Blank
  BY DEF With
<1> HIDE DEF f, X
<1>6. Updating(t, X)
  <2>1. t # <<>> /\ Head(t) = q[2]
    BY <1>1, <1>2
  <2>2. Head(t).do \in {"fill", "loop"} /\ (Head(t).do = "fill" => Head(t).file = f)
    BY <1>2, <2>1 DEF Closes
  <2> HIDE DEF t
  <2> QED
    BY <2>1, <2>2, <1>b DEF Updating
<1>7. ASSUME ~Doomed(t) PROVE Progress(t, Settled(t, X), o, n, c)
  <2>1. q[2] \in Range(q) /\ q[2] \in Range(t)
    <3>1. 2 \in DOMAIN q
      BY <1>2, ConsFacts
    <3>2. q[2] # Head(q)
      BY <1>2 DEF Closes
    <3> QED
      BY <1>1, <3>1, <3>2 DEF Range
  <2>2. ~Doomed(q)
    BY <1>1, <1>7 DEF Doomed
  <2>3. q[2].do = "fill" /\ q[2].file = f
    BY <1>2, <2>1, <2>2 DEF Closes, Doomed
  <2>4. q[2] \in Fills(q) /\ q[2] \in Fills(t)
    BY <2>1, <2>3 DEF Fills
  <2>5. Settled(q, F) = With(F, f, q[2].content)
    BY <2>3, <2>4, FillsFacts DEF Running
  <2>6. Settled(t, X) = With(X, f, q[2].content)
    BY <1>1, <2>3, <2>4, FillsFacts
  <2>7. Progress(q, Settled(q, F), o, n, c)
    BY <2>2 DEF Running
  <2>8. Looks(Settled(q, F), Settled(t, X), n)
    BY <1>a, <2>5, <2>6, LooksLikeItself
  <2> QED
    BY <1>4, <2>7, <2>8, SameProgress
<1> HIDE DEF t
<1>8. Running(t, X, o, n, c)
  BY <1>1, <1>5, <1>6, <1>7, <1>a DEF Running
<1> QED
  BY <1>2, <1>3, <1>5, <1>8 DEF f, t, X

LEMMA FillStep ==
  ASSUME NEW q, IsASeq(q), q # <<>>, NEW F, NEW o, NEW n, NEW c, Running(q, F, o, n, c),
         Head(q).do = "fill"
  PROVE  /\ Head(q).file \in DOMAIN F /\ F[Head(q).file] = Blank /\ IsContent(Head(q).content)
         /\ ComponentOK(With(F, Head(q).file, Head(q).content))
         /\ Running(Tail(q), With(F, Head(q).file, Head(q).content), o, n, c)
<1> DEFINE f == Head(q).file
           t == Tail(q)
           X == With(F, f, Head(q).content)
<1>1. /\ IsASeq(t) /\ Ordered(t) /\ Range(q) = {Head(q)} \cup Range(t)
      /\ \A s \in Range(t) : IsStep(s, o, n) /\ Rank(Head(q)) < Rank(s)
      /\ IsStep(Head(q), o, n)
  BY TailFacts
<1>2. f \in DOMAIN F /\ F[f] = Blank
  BY DEF Running, Updating
<1>3. IsContent(Head(q).content)
  BY <1>1 DEF IsStep
<1>4. Head(q).do \in Micro
  BY DEF Micro
<1>5. Head(q) \in Fills(q)
  BY <1>1 DEF Fills
<1>6. Settled(q, F) = X /\ ~Doomed(q)
  BY <1>5, FillsFacts DEF Running
<1>7. Progress(q, X, o, n, c)
  BY <1>6 DEF Running
<1> HIDE DEF f, X
<1>8. \A s \in Range(t) : s.do \notin Micro
  <2> SUFFICES ASSUME NEW s \in Range(t), s.do \in Micro PROVE FALSE
    OBVIOUS
  <2>1. Rank(s) \in {-3, -2, -1} /\ Rank(Head(q)) = -1 /\ Rank(Head(q)) < Rank(s)
    BY <1>1, RankFacts
  <2> QED
    BY <2>1
<1>9. Fills(t) = {}
  BY <1>8 DEF Fills, Micro
<1>10. Settled(t, X) = X
  BY <1>9 DEF Settled
<1>11. Progress(t, X, o, n, c)
  <2>1. Looks(X, X, n)
    BY LooksLikeItself
  <2> QED
    BY <1>4, <1>7, <2>1, SameProgress
<1>12. Updating(t, X)
  <2>1. t # <<>> => Head(t) \in Range(t)
    BY <1>1, ConsFacts
  <2> HIDE DEF t
  <2> QED
    BY <2>1, <1>8 DEF Updating, Micro
<1>13. /\ ComponentOK(X) /\ ShelvesAre(X, n)
       /\ IsComponent(X) => X[CMakeLists].project = n
  BY <1>7 DEF Progress, IsComponent
<1>14. /\ o.templateDir \in DOMAIN Templates
       /\ o.container_operation # "" => o.container # ""
  BY DEF Running
<1> HIDE DEF t
<1>15. Running(t, X, o, n, c)
  BY <1>1, <1>10, <1>11, <1>12, <1>13, <1>14 DEF Running
<1> QED
  BY <1>2, <1>3, <1>13, <1>15 DEF f, t, X

\* What a step of main's own does to the steps: it goes, ...
LEMMA DropStep ==
  ASSUME NEW q, IsASeq(q), q # <<>>, NEW F, NEW o, NEW n, NEW c, Running(q, F, o, n, c),
         Head(q).do = "check" \/ (Head(q).do = "generate" /\ Head(q).left = {})
  PROVE  Running(Tail(q), F, o, n, c)
<1> DEFINE t == Tail(q)
<1>1. /\ IsASeq(t) /\ Ordered(t) /\ Range(q) = {Head(q)} \cup Range(t)
      /\ \A s \in Range(t) : IsStep(s, o, n)
  BY TailFacts
<1>2. Head(q).do \in Big
  BY DEF Big
<1>3. Fills(q) = {} /\ ~Doomed(q) /\ \A s \in Range(q) : s.do \in Big
  BY <1>2, BigHead DEF Running
<1>4. Fills(t) = {} /\ ~Doomed(t) /\ \A s \in Range(t) : s.do \in Big
  BY <1>1, <1>3 DEF Fills, Doomed, Big
<1>5. Settled(q, F) = F /\ Settled(t, F) = F
  BY <1>3, <1>4 DEF Settled
<1>6. /\ \A k \in Parts : /\ Pending(t, "list", k) <=> Pending(q, "list", k)
                          /\ Pending(t, "shelve", k) <=> Pending(q, "shelve", k)
      /\ \A k \in Kinds : Pending(t, "generate", k) => Pending(q, "generate", k)
      /\ \A k : HasTemplate(q, k) => HasTemplate(t, k)
  BY <1>1 DEF Pending, HasTemplate
<1>7. Updating(t, F)
  <2>1. t # <<>> => Head(t) \in Range(t)
    BY <1>1, ConsFacts
  <2> HIDE DEF t
  <2> QED
    BY <2>1, <1>4 DEF Updating, Big
<1> HIDE DEF t
<1>8. Progress(q, F, o, n, c) /\ Looks(F, F, n)
  BY <1>3, <1>5, LooksLikeItself DEF Running
<1>9. Progress(t, F, o, n, c)
  BY <1>6, <1>8, ProgressKept
<1>10. Running(t, F, o, n, c)
  BY <1>1, <1>5, <1>7, <1>9 DEF Running
<1> QED
  BY <1>10 DEF t

\* ... or an update of a file comes before what is left.
LEMMA BigUpdate ==
  ASSUME NEW q, NEW o, NEW n, NEW c, Running(q, disk[dir], o, n, c),
         NEW r, NEW f, NEW close, NEW rest, UpdateOf(r, f, close, rest), Closes(close, f),
         IsASeq(rest), Ordered(rest), \A s \in Range(rest) : Rank(s) \in Nat /\ IsStep(s, o, n),
         IsFileOf(f, n),
         close.do = "fill" => /\ IsContent(close.content)
                              /\ Progress(rest, With(disk[dir], f, close.content), o, n, c)
  PROVE  IsASeq(r) /\ Running(r, disk[dir], o, n, c)
<1> DEFINE F == disk[dir]
           G == With(F, f, close.content)
<1>1. /\ IsASeq(r) /\ Ordered(r)
      /\ \A s \in Range(r) : IsStep(s, o, n)
      /\ Updating(r, F)
      /\ Doomed(r) <=> close.do = "loop"
      /\ close.do = "fill" => Settled(r, F) = G
      /\ \A do \in {"generate", "list", "shelve"} : \A kind :
           Pending(r, do, kind) <=> Pending(rest, do, kind)
      /\ \A kind : HasTemplate(r, kind) <=> HasTemplate(rest, kind)
  BY UpdateSteps
<1> HIDE DEF F, G
<1>2. ASSUME ~Doomed(r) PROVE Progress(r, Settled(r, F), o, n, c)
  <2>1. Settled(r, F) = G /\ Progress(rest, G, o, n, c) /\ Looks(G, G, n)
    BY <1>1, <1>2, LooksLikeItself DEF Closes, F, G
  <2>2. /\ \A k \in Parts : /\ Pending(r, "list", k) <=> Pending(rest, "list", k)
                            /\ Pending(r, "shelve", k) <=> Pending(rest, "shelve", k)
        /\ \A k \in Kinds : Pending(r, "generate", k) => Pending(rest, "generate", k)
        /\ \A k : HasTemplate(rest, k) => HasTemplate(r, k)
    BY <1>1
  <2>3. Progress(r, G, o, n, c)
    BY <2>1, <2>2, ProgressKept
  <2> QED
    BY <2>1, <2>3
<1> QED
  BY <1>1, <1>2 DEF Running, F

\* The steps that are left at a step of main's own, and what it knows by then.
LEMMA AtBig ==
  ASSUME NEW q, IsASeq(q), q # <<>>, NEW F, NEW o, NEW n, NEW c, Running(q, F, o, n, c),
         Head(q).do \in Big
  PROVE  /\ IsASeq(Tail(q)) /\ Ordered(Tail(q)) /\ Range(q) = {Head(q)} \cup Range(Tail(q))
         /\ \A s \in Range(Tail(q)) : Rank(s) \in Nat /\ IsStep(s, o, n) /\ Rank(Head(q)) < Rank(s)
         /\ IsStep(Head(q), o, n) /\ Rank(Head(q)) \in Nat
         /\ \A s \in Range(q) : IsStep(s, o, n) /\ Rank(s) \in Nat /\ Rank(Head(q)) <= Rank(s)
         /\ Progress(q, F, o, n, c)
<1>1. /\ IsASeq(Tail(q)) /\ Ordered(Tail(q)) /\ Range(q) = {Head(q)} \cup Range(Tail(q))
      /\ \A s \in Range(Tail(q)) : IsStep(s, o, n) /\ Rank(Head(q)) < Rank(s)
      /\ IsStep(Head(q), o, n)
  BY TailFacts
<1>2. /\ Fills(q) = {} /\ ~Doomed(q)
      /\ Rank(Head(q)) \in Nat /\ \A s \in Range(Tail(q)) : Rank(s) \in Nat
  BY BigHead DEF Running
<1>3. Settled(q, F) = F
  BY <1>2 DEF Settled
<1>4. Progress(q, F, o, n, c)
  BY <1>2, <1>3 DEF Running
<1> QED
  BY <1>1, <1>2, <1>4

LEMMA NoneBefore ==
  ASSUME NEW q, NEW o, NEW n, NEW r \in Nat,
         \A s \in Range(q) : IsStep(s, o, n) /\ Rank(s) \in Nat /\ r <= Rank(s)
  PROVE  \A kind \in Kinds :
           /\ Bases[kind] \in Nat
           /\ r > Bases[kind] + 1 => ~Pending(q, "generate", kind) /\ ~HasTemplate(q, kind)
           /\ r > Bases[kind] + 2 => ~Pending(q, "list", kind)
           /\ r > Bases[kind] + 3 => ~Pending(q, "shelve", kind)
<1> SUFFICES ASSUME NEW kind \in Kinds
             PROVE  /\ Bases[kind] \in Nat
                    /\ r > Bases[kind] + 1 => ~Pending(q, "generate", kind) /\ ~HasTemplate(q, kind)
                    /\ r > Bases[kind] + 2 => ~Pending(q, "list", kind)
                    /\ r > Bases[kind] + 3 => ~Pending(q, "shelve", kind)
  OBVIOUS
<1>1. Bases[kind] \in Nat
  BY DEF Bases, Kinds, Parts
<1>2. \A s \in Range(q) :
        /\ s.do = "generate" => Rank(s) = Bases[s.kind] + 1
        /\ s.do = "list" => Rank(s) = Bases[s.kind] + 2
        /\ s.do = "shelve" => Rank(s) = Bases[s.kind] + 3
  BY RankOfKind
<1>3. r > Bases[kind] + 1 => ~Pending(q, "generate", kind)
  BY <1>1, <1>2 DEF Pending
<1>4. r > Bases[kind] + 2 => ~Pending(q, "list", kind)
  BY <1>1, <1>2 DEF Pending
<1>5. r > Bases[kind] + 3 => ~Pending(q, "shelve", kind)
  BY <1>1, <1>2 DEF Pending
<1>6. ~Pending(q, "generate", kind) => ~HasTemplate(q, kind)
  BY DEF Pending, HasTemplate
<1> QED
  BY <1>1, <1>3, <1>4, <1>5, <1>6

LEMMA BaseFacts ==
  /\ Bases["component"] = 0
  /\ \A p \in Parts : Bases[p] \in Nat /\ Bases[p] > 3
<1>1. /\ Bases["component"] = 0 /\ Bases["container"] = 4
      /\ Bases["container_operation"] = 8 /\ Bases["operation"] = 12
  BY DEF Bases
<1> QED
  BY <1>1 DEF Parts

\* A name goes to the lists, and to the shelf.
LEMMA ListedFacts ==
  ASSUME NEW names, IsASeq(names), NEW words
  PROVE  IsASeq(Listed(names, words)) /\ Range(Listed(names, words)) = Range(names) \cup {words}
  BY AppendFacts DEF Listed

LEMMA PushedFacts ==
  ASSUME NEW list, IsASeq(list), NEW op
  PROVE  IsASeq(PushedBack(list, op)) /\ Range(PushedBack(list, op)) = Range(list) \cup {op}
  BY AppendFacts DEF PushedBack

LEMMA ListStep ==
  ASSUME NEW q, IsASeq(q), q # <<>>, NEW F, NEW o, NEW n, NEW c, Running(q, F, o, n, c),
         Head(q).do = "list", \A f \in DOMAIN F : IsContent(F[f])
  PROVE  LET p == Head(q).kind
             new == [F[CMakeLists] EXCEPT !.lists[p] = Listed(@, Words(o, p))]
         IN  /\ CMakeLists \in DOMAIN F /\ F[CMakeLists].kind = "cmake"
             /\ IsContent(new)
             /\ Progress(Tail(q), With(F, CMakeLists, new), o, n, c)
<1> DEFINE p == Head(q).kind
           old == F[CMakeLists]
           new == [old EXCEPT !.lists[p] = Listed(@, Words(o, p))]
           G == With(F, CMakeLists, new)
           t == Tail(q)
           h == Rank(Head(q))
<1>a. Head(q).do \in Big
  BY DEF Big
<1>1. /\ Range(q) = {Head(q)} \cup Range(t)
      /\ \A s \in Range(t) : Rank(s) \in Nat /\ IsStep(s, o, n) /\ h < Rank(s)
      /\ IsStep(Head(q), o, n) /\ h \in Nat
      /\ \A s \in Range(q) : IsStep(s, o, n) /\ Rank(s) \in Nat /\ h <= Rank(s)
      /\ Progress(q, F, o, n, c)
  BY <1>a, AtBig
<1>2. p \in Parts /\ o[p] # "" /\ p \in Kinds /\ "component" \in Kinds
  BY <1>1 DEF IsStep, Kinds
<1>3. h = Bases[p] + 2 /\ Bases[p] \in Nat
  BY <1>1, RankOfKind
<1> HIDE DEF p, h, t
<1>4. Bases["component"] = 0 /\ Bases[p] > 3
  BY <1>2, BaseFacts
<1>5. /\ ~Pending(q, "generate", p) /\ ~HasTemplate(q, p)
      /\ ~Pending(q, "generate", "component") /\ ~HasTemplate(q, "component")
  <2>1. h > Bases[p] + 1 /\ h > Bases["component"] + 1
    BY <1>3, <1>4
  <2>2. /\ h > Bases[p] + 1 => ~Pending(q, "generate", p) /\ ~HasTemplate(q, p)
        /\ h > Bases["component"] + 1 => ~Pending(q, "generate", "component") /\ ~HasTemplate(q, "component")
    BY <1>1, <1>2, NoneBefore
  <2> QED
    BY <2>1, <2>2
<1>6. ~Pending(t, "list", p)
  <2>1. \A s \in Range(t) : s.do = "list" => Rank(s) = Bases[s.kind] + 2
    BY <1>1, RankOfKind
  <2> QED
    BY <1>1, <1>3, <2>1 DEF Pending
<1>7. /\ IsComponent(F) /\ CMakeLists \in DOMAIN F /\ old.kind = "cmake" /\ old.project = n
      /\ ComponentOK(F) /\ ShelvesAre(F, n)
      /\ \A k \in Parts : o[k] # "" => PartDone(k, q, F, o)
      /\ ~c => Unshelved(q, F, o)
  BY <1>1, <1>5 DEF Progress, IsComponent
<1>8. /\ {"kind", "marks", "project", "lists"} \subseteq DOMAIN old
      /\ DOMAIN old.lists = Parts /\ \A k \in Parts : IsASeq(old.lists[k])
  BY <1>7 DEF IsContent
<1>9. /\ DOMAIN new = DOMAIN old
      /\ new.kind = "cmake" /\ new.project = n
      /\ DOMAIN new.lists = Parts
      /\ new.lists[p] = Listed(old.lists[p], Words(o, p))
      /\ \A k \in Parts \ {p} : new.lists[k] = old.lists[k]
  BY <1>2, <1>7, <1>8
<1>10. \A k \in Parts : /\ IsASeq(new.lists[k])
                        /\ Range(new.lists[k]) = Range(old.lists[k]) \cup IF k = p THEN {Words(o, p)} ELSE {}
  <2> HIDE DEF new, old
  <2>a. IsASeq(old.lists[p])
    BY <1>2, <1>8
  <2>b. /\ IsASeq(Listed(old.lists[p], Words(o, p)))
        /\ Range(Listed(old.lists[p], Words(o, p))) = Range(old.lists[p]) \cup {Words(o, p)}
    BY <2>a, ListedFacts
  <2>1. IsASeq(new.lists[p]) /\ Range(new.lists[p]) = Range(old.lists[p]) \cup {Words(o, p)}
    BY <2>b, <1>9
  <2> QED
    BY <1>8, <1>9, <2>1
<1> HIDE DEF new
<1>11. IsContent(new)
  BY <1>8, <1>9, <1>10 DEF IsContent
<1>12. /\ CMakeLists \in DOMAIN G /\ G[CMakeLists] = new
       /\ IsComponent(G)
       /\ ListedIn(G) = UNION {Range(new.lists[k]) : k \in Parts}
  BY <1>9, WithLists
<1>13. PreloadedIn(G) = PreloadedIn(F)
  BY NameFacts, WithNoShelf
<1>14. /\ \A w : HasSource(F, w) => HasSource(G, w)
       /\ ShelvesAre(G, n)
  <2>1. DOMAIN G = DOMAIN F \cup {CMakeLists}
    BY DEF With
  <2>2. IsFileOf(CMakeLists, n)
    BY NameFacts
  <2> HIDE DEF G
  <2> QED
    BY <1>7, <2>1, <2>2 DEF HasSource, ShelvesAre
<1> HIDE DEF G
<1>15. ListedIn(F) = UNION {Range(old.lists[k]) : k \in Parts}
  BY <1>7 DEF ListedIn
<1> HIDE DEF old
<1>16. ListedIn(G) = ListedIn(F) \cup {Words(o, p)}
  <2>1. \A w : w \in ListedIn(G) <=> \E k \in Parts : w \in Range(new.lists[k])
    BY <1>12
  <2>2. \A w : w \in ListedIn(F) <=> \E k \in Parts : w \in Range(old.lists[k])
    BY <1>15
  <2> QED
    BY <1>2, <1>10, <2>1, <2>2
<1>17. \A k \in Parts : ListOf(G, k) = ListOf(F, k) \cup IF k = p THEN {Words(o, p)} ELSE {}
  BY <1>7, <1>10, <1>12 DEF ListOf, old
<1>18. HasSource(F, Words(o, p)) /\ Pending(q, "shelve", p)
  <2>1. Pending(q, "list", p)
    BY <1>1, <1>2 DEF Pending, p
  <2> QED
    BY <1>2, <1>5, <1>7, <2>1 DEF PartDone
<1>19. /\ \A k : k # p => (Pending(t, "list", k) <=> Pending(q, "list", k))
       /\ \A k : Pending(t, "shelve", k) <=> Pending(q, "shelve", k)
       /\ \A k : Pending(t, "generate", k) <=> Pending(q, "generate", k)
       /\ \A k : HasTemplate(t, k) <=> HasTemplate(q, k)
  <2>1. Head(q).do = "list" /\ Head(q).kind = p
    BY DEF p
  <2> QED
    BY <1>1, <2>1 DEF Pending, HasTemplate
<1>20. ComponentOK(G)
  <2>1. PreloadedIn(F) \subseteq ListedIn(F) /\ \A w \in ListedIn(F) : HasSource(F, w)
    BY <1>7 DEF ComponentOK
  <2>2. PreloadedIn(G) \subseteq ListedIn(G)
    BY <1>13, <1>16, <2>1
  <2>3. \A w \in ListedIn(G) : HasSource(G, w)
    BY <1>14, <1>16, <1>18, <2>1
  <2>4. ShelvesAre(G, G[CMakeLists].project)
    BY <1>9, <1>12, <1>14
  <2> QED
    BY <2>2, <2>3, <2>4 DEF ComponentOK
<1>21. ASSUME NEW k \in Parts, o[k] # "" PROVE PartDone(k, t, G, o)
  <2>1. PartDone(k, q, F, o)
    BY <1>7, <1>21
  <2>2. HasTemplate(t, k) \/ HasSource(G, Words(o, k))
    BY <1>14, <1>19, <2>1 DEF PartDone
  <2>3. Pending(t, "list", k) \/ Words(o, k) \in ListOf(G, k)
    BY <1>17, <1>19, <2>1 DEF PartDone
  <2>4. Pending(t, "shelve", k) \/ Words(o, k) \in PreloadedIn(G)
    BY <1>13, <1>19, <2>1 DEF PartDone
  <2>5. Pending(t, "generate", k) => Pending(t, "list", k)
    BY <1>5, <1>19, <2>1 DEF PartDone
  <2>6. Pending(t, "list", k) => Pending(t, "shelve", k)
    BY <1>6, <1>19, <2>1 DEF PartDone
  <2> QED
    BY <2>2, <2>3, <2>4, <2>5, <2>6 DEF PartDone
<1>22. ~c => Unshelved(t, G, o)
  <2> SUFFICES ASSUME ~c, NEW w \in ListedIn(G)
               PROVE  w \in PreloadedIn(G) \/ \E k \in Parts : Pending(t, "shelve", k) /\ w = Words(o, k)
    BY DEF Unshelved
  <2>1. CASE w = Words(o, p)
    BY <1>2, <1>18, <1>19, <2>1
  <2>2. CASE w \in ListedIn(F)
    <3>1. w \in PreloadedIn(F) \/ \E k \in Parts : Pending(q, "shelve", k) /\ w = Words(o, k)
      BY <1>7, <2>2 DEF Unshelved
    <3> QED
      BY <1>13, <1>19, <3>1
  <2> QED
    BY <1>16, <2>1, <2>2
<1>23. ~Pending(t, "generate", "component")
  BY <1>5, <1>19
<1>24. Progress(t, G, o, n, c)
  BY <1>9, <1>12, <1>14, <1>20, <1>21, <1>22, <1>23 DEF Progress
<1> QED
  BY <1>7, <1>11, <1>24 DEF old, new, G, p, t

IsShelf(v) == IsContent(v) /\ v.kind = "shelf"

LEMMA PreloadedByWhere ==
  ASSUME NEW v, NEW w
  PROVE  w \in PreloadedBy(v) <=>
           \/ \E k \in DOMAIN v.containers : w = <<k>>
           \/ \E k \in DOMAIN v.containers : \E op \in Range(v.containers[k].operations) : w = <<k, op>>
           \/ \E op \in Range(v.operations) : w = <<op>>
  BY DEF PreloadedBy

LEMMA ShelfValueFacts ==
  ASSUME \A f \in DOMAIN disk[dir] : IsContent(disk[dir][f]), ShelvesAre(disk[dir], name)
  PROVE  IsShelf(ShelfValue) /\ PreloadedBy(ShelfValue) = PreloadedIn(disk[dir])
<1> DEFINE F == disk[dir]
           f == ShelfFile
           v == F[f]
<1>0. f[2] = "jshelf" /\ f[3] = 0
  BY DEF ShelfFile, File
<1>1. \A g \in DOMAIN F : g[2] = "jshelf" /\ g[3] = 0 => g = f
  BY DEF ShelvesAre, IsFileOf, ShelfFile
<1> HIDE DEF f
<1>2. CASE f \in DOMAIN F /\ v.kind = "shelf"
  <2>1. ShelfValue = [v EXCEPT !.marks = {}]
    BY <1>2 DEF ShelfValue, Read, Present, f
  <2>2. IsContent(v)
    BY <1>2
  <2>3. \A g : g \in Shelves(F) <=> g = f
    BY <1>0, <1>1, <1>2 DEF Shelves
  <2>4. \A w : w \in PreloadedIn(F) <=> w \in PreloadedBy(v)
    BY <2>3, PreloadedWhere
  <2> HIDE DEF v, F
  <2>5. {"kind", "marks", "containers", "operations", "keys"} \subseteq DOMAIN v
    BY <1>2, <2>2 DEF IsContent
  <2>6. /\ DOMAIN ShelfValue = DOMAIN v /\ ShelfValue.kind = "shelf"
        /\ ShelfValue.containers = v.containers /\ ShelfValue.operations = v.operations
    BY <1>2, <2>1, <2>5
  <2>7. IsShelf(ShelfValue)
    BY <1>2, <2>2, <2>6 DEF IsContent, IsShelf
  <2>8. PreloadedBy(ShelfValue) = PreloadedBy(v)
    BY <2>6 DEF PreloadedBy
  <2> QED
    BY <2>4, <2>7, <2>8 DEF F
<1>3. CASE ~(f \in DOMAIN F /\ v.kind = "shelf")
  <2>1. ShelfValue = EmptyShelf
    <3>1. Blank.kind # "shelf"
      BY DEF Blank
    <3> QED
      BY <1>3, <3>1 DEF ShelfValue, Read, Present, f
  <2>2. Shelves(F) = {}
    BY <1>0, <1>1, <1>3 DEF Shelves
  <2>3. \A w : w \notin PreloadedIn(F)
    BY <2>2, PreloadedWhere
  <2>4. EmptyShelf.containers = <<>> /\ EmptyShelf.operations = <<>> /\ EmptyShelf.kind = "shelf"
    BY DEF EmptyShelf
  <2>5. DOMAIN <<>> = {} /\ IsASeq(<<>>) /\ Range(<<>>) = {}
    BY EmptyFacts DEF Range
  <2>6. \A w : w \notin PreloadedBy(EmptyShelf)
    BY <2>4, <2>5, PreloadedByWhere
  <2>7. IsShelf(EmptyShelf)
    <3>1. DOMAIN EmptyShelf = {"kind", "containers", "operations", "keys", "marks"}
      BY DEF EmptyShelf
    <3> QED
      BY <2>4, <2>5, <3>1 DEF IsShelf, IsContent
  <2> QED
    BY <2>1, <2>3, <2>6, <2>7
<1> QED
  BY <1>2, <1>3

LEMMA WithContainerFacts ==
  ASSUME NEW v, IsShelf(v), NEW c
  PROVE  LET u == WithContainer(v, c)
         IN  /\ IsShelf(u) /\ c \in DOMAIN u.containers
             /\ PreloadedBy(u) = PreloadedBy(v) \cup {<<c>>}
<1>1. CASE c \in DOMAIN v.containers
  <2>1. WithContainer(v, c) = v
    BY <1>1 DEF WithContainer
  <2>2. <<c>> \in PreloadedBy(v)
    BY <1>1, PreloadedByWhere
  <2> QED
    BY <1>1, <2>1, <2>2
<1>2. CASE c \notin DOMAIN v.containers
  <2> DEFINE x == [form |-> "object", operations |-> <<>>]
             u == WithContainer(v, c)
             m == With(v.containers, c, x)
  <2>0. DOMAIN x = {"form", "operations"} /\ x.operations = <<>>
    OBVIOUS
  <2>1. DOMAIN m = DOMAIN v.containers \cup {c} /\ m[c] = x /\ \A k \in DOMAIN v.containers : m[k] = v.containers[k]
    BY <1>2 DEF With
  <2>2. u = [v EXCEPT !.containers = m]
    BY <1>2 DEF WithContainer
  <2> HIDE DEF m, u, x
  <2>3. {"kind", "marks", "containers", "operations", "keys"} \subseteq DOMAIN v /\ v.kind = "shelf"
    BY DEF IsShelf, IsContent
  <2>4. /\ DOMAIN u = DOMAIN v /\ u.kind = "shelf" /\ u.operations = v.operations
        /\ u.containers = m
    BY <2>2, <2>3
  <2>5. IsShelf(u)
    <3>1. \A k \in DOMAIN m : {"form", "operations"} \subseteq DOMAIN m[k] /\ IsASeq(m[k].operations)
      BY <2>0, <2>1, <2>3, EmptyFacts DEF IsShelf, IsContent
    <3> QED
      BY <2>3, <2>4, <3>1 DEF IsShelf, IsContent
  <2>6. \A w : w \in PreloadedBy(u) <=> w \in PreloadedBy(v) \/ w = <<c>>
    <3>1. Range(m[c].operations) = {}
      BY <2>0, <2>1, EmptyFacts
    <3> SUFFICES ASSUME NEW w PROVE w \in PreloadedBy(u) <=> w \in PreloadedBy(v) \/ w = <<c>>
      OBVIOUS
    <3>2. (\E k \in DOMAIN m : w = <<k>>) <=> (\E k \in DOMAIN v.containers : w = <<k>>) \/ w = <<c>>
      BY <2>1
    <3>3. (\E k \in DOMAIN m : \E op \in Range(m[k].operations) : w = <<k, op>>)
            <=> \E k \in DOMAIN v.containers : \E op \in Range(v.containers[k].operations) : w = <<k, op>>
      BY <2>1, <3>1
    <3>4. w \in PreloadedBy(u) <=>
            \/ \E k \in DOMAIN m : w = <<k>>
            \/ \E k \in DOMAIN m : \E op \in Range(m[k].operations) : w = <<k, op>>
            \/ \E op \in Range(v.operations) : w = <<op>>
      BY <2>4, PreloadedByWhere
    <3>5. w \in PreloadedBy(v) <=>
           \/ \E k \in DOMAIN v.containers : w = <<k>>
           \/ \E k \in DOMAIN v.containers : \E op \in Range(v.containers[k].operations) : w = <<k, op>>
           \/ \E op \in Range(v.operations) : w = <<op>>
      BY PreloadedByWhere
    <3> QED
      BY <3>2, <3>3, <3>4, <3>5
  <2> QED
    BY <2>1, <2>4, <2>5, <2>6 DEF u
<1> QED
  BY <1>1, <1>2

LEMMA PushContainerOperation ==
  ASSUME NEW v, IsShelf(v), NEW c \in DOMAIN v.containers, NEW op
  PROVE  LET u == [v EXCEPT !.containers[c].operations = PushedBack(@, op)]
         IN  IsShelf(u) /\ PreloadedBy(u) = PreloadedBy(v) \cup {<<c, op>>}
<1> DEFINE u == [v EXCEPT !.containers[c].operations = PushedBack(@, op)]
           m == [v.containers EXCEPT ![c].operations = PushedBack(@, op)]
<1>1. {"kind", "marks", "containers", "operations", "keys"} \subseteq DOMAIN v /\ v.kind = "shelf"
  BY DEF IsShelf, IsContent
<1>2. /\ IsASeq(v.operations)
      /\ \A k \in DOMAIN v.containers : {"form", "operations"} \subseteq DOMAIN v.containers[k]
                                      /\ IsASeq(v.containers[k].operations)
  BY <1>1 DEF IsShelf, IsContent
<1>3. /\ DOMAIN m = DOMAIN v.containers
      /\ DOMAIN m[c] = DOMAIN v.containers[c]
      /\ m[c].operations = PushedBack(v.containers[c].operations, op)
      /\ \A k \in DOMAIN m \ {c} : m[k] = v.containers[k]
  BY <1>2
<1>4. u = [v EXCEPT !.containers = m]
  BY <1>1
<1> HIDE DEF u, m
<1>5. /\ DOMAIN u = DOMAIN v /\ u.kind = "shelf" /\ u.operations = v.operations
      /\ u.containers = m
  BY <1>1, <1>4
<1>6. /\ IsASeq(m[c].operations)
      /\ Range(m[c].operations) = Range(v.containers[c].operations) \cup {op}
  <2>1. IsASeq(v.containers[c].operations)
    BY <1>2
  <2>2. /\ IsASeq(PushedBack(v.containers[c].operations, op))
        /\ Range(PushedBack(v.containers[c].operations, op)) = Range(v.containers[c].operations) \cup {op}
    BY <2>1, PushedFacts
  <2> QED
    BY <2>2, <1>3
<1>7. IsShelf(u)
  <2>1. \A k \in DOMAIN m : {"form", "operations"} \subseteq DOMAIN m[k] /\ IsASeq(m[k].operations)
    BY <1>2, <1>3, <1>6
  <2> QED
    BY <1>1, <1>2, <1>5, <2>1 DEF IsShelf, IsContent
<1>8. ASSUME NEW w PROVE w \in PreloadedBy(u) <=> w \in PreloadedBy(v) \/ w = <<c, op>>
  <2>1. (\E k \in DOMAIN m : \E x \in Range(m[k].operations) : w = <<k, x>>)
          <=> (\E k \in DOMAIN v.containers : \E x \in Range(v.containers[k].operations) : w = <<k, x>>)
              \/ w = <<c, op>>
    BY <1>3, <1>6
  <2>2. w \in PreloadedBy(u) <=>
          \/ \E k \in DOMAIN m : w = <<k>>
          \/ \E k \in DOMAIN m : \E x \in Range(m[k].operations) : w = <<k, x>>
          \/ \E x \in Range(v.operations) : w = <<x>>
    BY <1>5, PreloadedByWhere
  <2>3. w \in PreloadedBy(v) <=>
         \/ \E k \in DOMAIN v.containers : w = <<k>>
         \/ \E k \in DOMAIN v.containers : \E x \in Range(v.containers[k].operations) : w = <<k, x>>
         \/ \E x \in Range(v.operations) : w = <<x>>
    BY PreloadedByWhere
  <2> QED
    BY <1>3, <2>1, <2>2, <2>3
<1> QED
  BY <1>7, <1>8 DEF u

LEMMA PushOperation ==
  ASSUME NEW v, IsShelf(v), NEW op
  PROVE  LET u == [v EXCEPT !.operations = PushedBack(@, op)]
         IN  IsShelf(u) /\ PreloadedBy(u) = PreloadedBy(v) \cup {<<op>>}
<1> DEFINE u == [v EXCEPT !.operations = PushedBack(@, op)]
<1>1. {"kind", "marks", "containers", "operations", "keys"} \subseteq DOMAIN v /\ v.kind = "shelf"
  BY DEF IsShelf, IsContent
<1>2. IsASeq(v.operations)
  BY <1>1 DEF IsShelf, IsContent
<1>3. /\ DOMAIN u = DOMAIN v /\ u.kind = "shelf" /\ u.containers = v.containers
      /\ u.operations = PushedBack(v.operations, op)
  BY <1>1
<1> HIDE DEF u
<1>4. /\ IsASeq(PushedBack(v.operations, op))
      /\ Range(PushedBack(v.operations, op)) = Range(v.operations) \cup {op}
  BY <1>2, PushedFacts
<1>5. IsShelf(u)
  BY <1>1, <1>3, <1>4 DEF IsShelf, IsContent
<1>6. ASSUME NEW w PROVE w \in PreloadedBy(u) <=> w \in PreloadedBy(v) \/ w = <<op>>
  <2>2. w \in PreloadedBy(u) <=>
          \/ \E k \in DOMAIN v.containers : w = <<k>>
          \/ \E k \in DOMAIN v.containers : \E x \in Range(v.containers[k].operations) : w = <<k, x>>
          \/ \E x \in Range(PushedBack(v.operations, op)) : w = <<x>>
    BY <1>3, PreloadedByWhere
  <2>3. w \in PreloadedBy(v) <=>
         \/ \E k \in DOMAIN v.containers : w = <<k>>
         \/ \E k \in DOMAIN v.containers : \E x \in Range(v.containers[k].operations) : w = <<k, x>>
         \/ \E x \in Range(v.operations) : w = <<x>>
    BY PreloadedByWhere
  <2> QED
    BY <1>4, <2>2, <2>3
<1> QED
  BY <1>5, <1>6 DEF u

LEMMA ShelveStep ==
  ASSUME IsASeq(todo), todo # <<>>, Running(todo, disk[dir], options, name, cut),
         Head(todo).do = "shelve", \A f \in DOMAIN disk[dir] : IsContent(disk[dir][f])
  PROVE  LET part == Step.kind
             c == options.container
             v == IF part = "operation" THEN ShelfValue ELSE WithContainer(ShelfValue, c)
             new == CASE part = "container" -> v
                      [] part = "container_operation" ->
                           [v EXCEPT !.containers[c].operations = PushedBack(@, options.container_operation)]
                      [] part = "operation" -> [v EXCEPT !.operations = PushedBack(@, options.operation)]
         IN  IsContent(new) /\ Progress(Tail(todo), With(disk[dir], ShelfFile, new), options, name, cut)
<1> DEFINE p == Step.kind
           c == options.container
           v == IF p = "operation" THEN ShelfValue ELSE WithContainer(ShelfValue, c)
           new == CASE p = "container" -> v
                    [] p = "container_operation" ->
                         [v EXCEPT !.containers[c].operations = PushedBack(@, options.container_operation)]
                    [] p = "operation" -> [v EXCEPT !.operations = PushedBack(@, options.operation)]
           F == disk[dir]
           G == With(F, ShelfFile, new)
           q == todo
           t == Tail(todo)
           h == Rank(Head(todo))
           o == options
           w == Words(o, p)
<1>a. Head(todo).do \in Big
  BY DEF Big
<1>1. /\ Range(q) = {Head(q)} \cup Range(t)
      /\ \A s \in Range(t) : Rank(s) \in Nat /\ IsStep(s, o, name) /\ h < Rank(s)
      /\ IsStep(Head(q), o, name) /\ h \in Nat
      /\ \A s \in Range(q) : IsStep(s, o, name) /\ Rank(s) \in Nat /\ h <= Rank(s)
      /\ Progress(q, F, o, name, cut)
  BY <1>a, AtBig
<1>2. p \in Parts /\ o[p] # "" /\ p \in Kinds /\ "component" \in Kinds
  BY <1>1 DEF IsStep, Kinds, Step
<1>3. h = Bases[p] + 3 /\ Bases[p] \in Nat
  BY <1>1, RankOfKind DEF Step
<1> HIDE DEF h, t
<1>4. Bases["component"] = 0 /\ Bases[p] > 3
  BY <1>2, BaseFacts
<1>5. /\ ~Pending(q, "generate", p) /\ ~Pending(q, "list", p)
      /\ ~Pending(q, "generate", "component") /\ ~HasTemplate(q, "component")
  <2>1. h > Bases[p] + 1 /\ h > Bases[p] + 2 /\ h > Bases["component"] + 1
    BY <1>3, <1>4
  <2> HIDE DEF p, q, o
  <2>2. /\ h > Bases[p] + 1 => ~Pending(q, "generate", p)
        /\ h > Bases[p] + 2 => ~Pending(q, "list", p)
        /\ h > Bases["component"] + 1 => ~Pending(q, "generate", "component") /\ ~HasTemplate(q, "component")
    BY <1>1, <1>2, NoneBefore
  <2> QED
    BY <2>1, <2>2
<1>6. ~Pending(t, "shelve", p)
  <2>1. \A s \in Range(t) : s.do = "shelve" => Rank(s) = Bases[s.kind] + 3
    BY <1>1, RankOfKind
  <2> HIDE DEF p
  <2> QED
    BY <1>1, <1>3, <2>1 DEF Pending
<1>7. /\ IsComponent(F) /\ CMakeLists \in DOMAIN F /\ F[CMakeLists].project = name
      /\ ComponentOK(F) /\ ShelvesAre(F, name)
      /\ \A k \in Parts : o[k] # "" => PartDone(k, q, F, o)
      /\ ~cut => Unshelved(q, F, o)
  <2> HIDE DEF q, F, o
  <2> QED
    BY <1>1, <1>5 DEF Progress, IsComponent
<1>8. IsShelf(ShelfValue) /\ PreloadedBy(ShelfValue) = PreloadedIn(F)
  BY <1>7, ShelfValueFacts
<1>9. ListOf(F, "container") \subseteq ListedIn(F) /\ ListOf(F, p) \subseteq ListedIn(F)
  <2> HIDE DEF p, F
  <2> QED
    BY <1>2 DEF ListOf, ListedIn, Parts
<1>10. w \in ListedIn(F)
  <2> HIDE DEF p, F, q, o, w
  <2>1. PartDone(p, q, F, o)
    BY <1>2, <1>7
  <2> QED
    BY <1>5, <1>9, <2>1 DEF PartDone, w
<1>11. p = "container_operation" => <<c>> \in PreloadedIn(F)
  <2> SUFFICES ASSUME p = "container_operation" PROVE <<c>> \in PreloadedIn(F)
    OBVIOUS
  <2>1. o.container_operation # ""
    BY <1>2
  <2>2. o.container # ""
    BY <2>1 DEF Running
  <2>3. "container" \in Parts /\ "container" \in Kinds /\ Bases["container"] = 4 /\ Bases["container_operation"] = 8
    BY DEF Parts, Kinds, Bases
  <2>4. h > Bases["container"] + 3
    BY <1>3, <2>3
  <2> HIDE DEF q, o
  <2>5. ~Pending(q, "shelve", "container")
    BY <1>1, <2>3, <2>4, NoneBefore
  <2>6. PartDone("container", q, F, o)
    BY <1>7, <2>2, <2>3
  <2>7. Words(o, "container") = <<c>>
    BY DEF Words, o
  <2> QED
    BY <2>5, <2>6, <2>7 DEF PartDone
<1>12. IsShelf(new) /\ PreloadedBy(new) = PreloadedIn(F) \cup {w}
  <2>1. CASE p = "container"
    <3>1. new = WithContainer(ShelfValue, c) /\ w = <<c>>
      BY <2>1 DEF Words
    <3> HIDE DEF new, w
    <3> QED
      BY <3>1, <1>8, WithContainerFacts
  <2>2. CASE p = "container_operation"
    <3> DEFINE u == WithContainer(ShelfValue, c)
    <3>1. /\ new = [u EXCEPT !.containers[c].operations = PushedBack(@, o.container_operation)]
          /\ w = <<c, o.container_operation>>
      BY <2>2 DEF Words
    <3>2. /\ IsShelf(u) /\ c \in DOMAIN u.containers
          /\ PreloadedBy(u) = PreloadedBy(ShelfValue) \cup {<<c>>}
      BY <1>8, WithContainerFacts
    <3> DEFINE op == o.container_operation
    <3> HIDE DEF new, w, u, c, op
    <3>a. LET x == [u EXCEPT !.containers[c].operations = PushedBack(@, op)]
          IN  IsShelf(x) /\ PreloadedBy(x) = PreloadedBy(u) \cup {<<c, op>>}
      BY <3>2, PushContainerOperation
    <3>3. IsShelf(new) /\ PreloadedBy(new) = PreloadedBy(u) \cup {w}
      BY <3>1, <3>a DEF op
    <3> QED
      BY <2>2, <3>2, <3>3, <1>8, <1>11
  <2>3. CASE p = "operation"
    <3>1. /\ new = [ShelfValue EXCEPT !.operations = PushedBack(@, o.operation)]
          /\ w = <<o.operation>>
      BY <2>3 DEF Words
    <3> HIDE DEF new, w
    <3> QED
      BY <3>1, <1>8, PushOperation
  <2> QED
    BY <1>2, <2>1, <2>2, <2>3 DEF Parts
<1> HIDE DEF new, v, c
<1>13. PreloadedIn(G) = PreloadedIn(F) \cup {w}
  <2>1. PreloadedIn(With(F, File(<<name>>, "jshelf"), new)) = IF new.kind = "shelf" THEN PreloadedBy(new) ELSE {}
    BY <1>7, WithShelf
  <2> QED
    BY <1>12, <2>1 DEF IsShelf, ShelfFile
<1>14. /\ CMakeLists \in DOMAIN G /\ G[CMakeLists] = F[CMakeLists]
       /\ IsComponent(G) /\ ListedIn(G) = ListedIn(F)
  <2>1. ShelfFile # CMakeLists
    BY NameFacts DEF ShelfFile
  <2> QED
    BY <1>7, <2>1, WithNoLists
<1>15. \A k : ListOf(G, k) = ListOf(F, k)
  BY <1>7, <1>14 DEF ListOf
<1>16. /\ \A x : HasSource(F, x) => HasSource(G, x)
       /\ ShelvesAre(G, name)
  <2>1. DOMAIN G = DOMAIN F \cup {ShelfFile}
    BY DEF With
  <2>2. IsFileOf(ShelfFile, name)
    BY DEF IsFileOf, ShelfFile, File
  <2> HIDE DEF G
  <2> QED
    BY <1>7, <2>1, <2>2 DEF HasSource, ShelvesAre
<1>17. /\ \A k : k # p => (Pending(t, "shelve", k) <=> Pending(q, "shelve", k))
       /\ \A k : Pending(t, "list", k) <=> Pending(q, "list", k)
       /\ \A k : Pending(t, "generate", k) <=> Pending(q, "generate", k)
       /\ \A k : HasTemplate(t, k) <=> HasTemplate(q, k)
  <2>1. Head(q).do = "shelve" /\ Head(q).kind = p
    BY DEF Step
  <2> HIDE DEF p, q
  <2> QED
    BY <1>1, <2>1 DEF Pending, HasTemplate
<1> HIDE DEF F, G, q, o, w, p
<1>18. ComponentOK(G)
  BY <1>7, <1>10, <1>13, <1>14, <1>16 DEF ComponentOK
<1>19. ASSUME NEW k \in Parts, o[k] # "" PROVE PartDone(k, t, G, o)
  <2>1. PartDone(k, q, F, o)
    BY <1>7, <1>19
  <2>2. HasTemplate(t, k) \/ HasSource(G, Words(o, k))
    BY <1>16, <1>17, <2>1 DEF PartDone
  <2>3. Pending(t, "list", k) \/ Words(o, k) \in ListOf(G, k)
    BY <1>15, <1>17, <2>1 DEF PartDone
  <2>4. Pending(t, "shelve", k) \/ Words(o, k) \in PreloadedIn(G)
    BY <1>13, <1>17, <2>1 DEF PartDone, w
  <2>5. Pending(t, "generate", k) => Pending(t, "list", k)
    BY <1>17, <2>1 DEF PartDone
  <2>6. Pending(t, "list", k) => Pending(t, "shelve", k)
    BY <1>5, <1>17, <2>1 DEF PartDone
  <2> QED
    BY <2>2, <2>3, <2>4, <2>5, <2>6 DEF PartDone
<1>20. ~cut => Unshelved(t, G, o)
  <2> SUFFICES ASSUME ~cut, NEW x \in ListedIn(F), x \notin PreloadedIn(G)
               PROVE  \E k \in Parts : Pending(t, "shelve", k) /\ x = Words(o, k)
    BY <1>14 DEF Unshelved
  <2>1. x \notin PreloadedIn(F) /\ x # w
    BY <1>13
  <2>2. PICK k \in Parts : Pending(q, "shelve", k) /\ x = Words(o, k)
    BY <1>7, <2>1 DEF Unshelved
  <2> QED
    BY <1>17, <2>1, <2>2 DEF w
<1>21. Progress(t, G, o, name, cut)
  BY <1>5, <1>7, <1>14, <1>16, <1>17, <1>18, <1>19, <1>20 DEF Progress
<1> QED
  BY <1>12, <1>21 DEF IsShelf, new, v, c, p, F, G, q, t, o

\* What a template becomes.
Named(t) == File([i \in DOMAIN t.words |-> Replaced(t.words[i])], t.ext)

LEMMA TemplateFacts ==
  ASSUME NEW d \in DOMAIN Templates, NEW t \in Templates[d], NEW kind \in Kinds, Step.kind = kind,
         Matches(kind, t)
  PROVE  /\ IsFileOf(Named(t), name)
         /\ Named(t)[2] = t.ext
         /\ t.words = <<"CMakeLists">> \/ t.ext = "jshelf" => kind = "component"
         /\ Named(t) = CMakeLists <=> t.words = <<"CMakeLists">>
         /\ kind \in Parts /\ t.words = TemplateFor(kind) => Named(t)[1] = Words(options, kind)
<1> DEFINE f == Named(t)
<1>1. f[1] = [i \in DOMAIN t.words |-> Replaced(t.words[i])] /\ f[2] = t.ext /\ f[3] = 0
  BY DEF Named, File
<1>2. \A a : t.words = <<a>> => f[1] = <<Replaced(a)>>
  <2> SUFFICES ASSUME NEW a, t.words = <<a>> PROVE f[1] = <<Replaced(a)>>
    OBVIOUS
  <2>1. [i \in DOMAIN <<a>> |-> Replaced(<<a>>[i])] = <<Replaced(a)>>
    OBVIOUS
  <2> QED
    BY <1>1, <2>1
<1>3. \A a : \A b : t.words = <<a, b>> => f[1] = <<Replaced(a), Replaced(b)>>
  <2> SUFFICES ASSUME NEW a, NEW b, t.words = <<a, b>> PROVE f[1] = <<Replaced(a), Replaced(b)>>
    OBVIOUS
  <2>1. [i \in DOMAIN <<a, b>> |-> Replaced(<<a, b>>[i])] = <<Replaced(a), Replaced(b)>>
    OBVIOUS
  <2> QED
    BY <1>1, <2>1
<1>4. /\ t.ext = "txt" <=> t.words = <<"CMakeLists">>
      /\ t.ext = "jshelf" => t.words = <<"ComponentName">>
  BY TemplateAssumption
<1>5. \A a : Range(<<a>>) = {a}
  BY SingleFacts
<1>6. t.words = <<"CMakeLists">> \/ t.ext = "jshelf" => kind = "component"
  <2>1. ASSUME NEW a \in {"CMakeLists", "ComponentName"}, t.words = <<a>> PROVE kind = "component"
    <3>1. <<a>> # <<"ContainerName">>
      OBVIOUS
    <3>2. Range(t.words) = {a}
      BY <1>5, <2>1
    <3> QED
      BY <2>1, <3>1, <3>2 DEF Matches, Kinds, Parts
  <2> QED
    BY <1>4, <2>1
<1>7. kind = "component" => Replaced("CMakeLists") = "CMakeLists" /\ Replaced("ComponentName") = name
  BY DEF Replaced, Dictionary
<1>8. f = CMakeLists <=> t.words = <<"CMakeLists">>
  <2>1. ASSUME f = CMakeLists PROVE t.words = <<"CMakeLists">>
    BY <1>1, <1>4, <2>1, NameFacts
  <2>2. ASSUME t.words = <<"CMakeLists">> PROVE f = CMakeLists
    <3>1. f[1] = <<"CMakeLists">>
      BY <1>2, <1>6, <1>7, <2>2
    <3>2. f = File(f[1], t.ext)
      BY <1>1 DEF Named
    <3> QED
      BY <3>1, <3>2, <1>4, <2>2 DEF CMakeLists
  <2> QED
    BY <2>1, <2>2
<1>9. IsFileOf(f, name)
  <2> SUFFICES ASSUME t.ext = "jshelf" PROVE f = File(<<name>>, "jshelf")
    BY <1>1 DEF IsFileOf
  <2>1. f[1] = <<name>>
    BY <1>2, <1>4, <1>6, <1>7
  <2>2. f = File(f[1], t.ext)
    BY <1>1 DEF Named
  <2> QED
    BY <2>1, <2>2
<1>10. ASSUME kind \in Parts, t.words = TemplateFor(kind) PROVE f[1] = Words(options, kind)
  <2>1. CASE kind = "container"
    <3>1. Replaced("ContainerName") = options.container
      BY <2>1 DEF Replaced, Dictionary
    <3> QED
      BY <1>2, <1>10, <2>1, <3>1 DEF TemplateFor, Words
  <2>2. CASE kind = "container_operation"
    <3>1. /\ Replaced("ContainerName") = options.container
          /\ Replaced("containerOperationName") = options.container_operation
      BY <2>2 DEF Replaced, Dictionary
    <3> QED
      BY <1>3, <1>10, <2>2, <3>1 DEF TemplateFor, Words
  <2>3. CASE kind = "operation"
    <3>1. Replaced("operationName") = options.operation
      BY <2>3 DEF Replaced, Dictionary
    <3> QED
      BY <1>2, <1>10, <2>3, <3>1 DEF TemplateFor, Words
  <2> QED
    BY <1>10, <2>1, <2>2, <2>3 DEF Parts
<1> HIDE DEF f
<1> QED
  BY <1>1, <1>6, <1>8, <1>9, <1>10 DEF f

LEMMA ContentFacts ==
  ASSUME NEW t, t.words = <<"CMakeLists">> => t.ext # "jshelf"
  PROVE  /\ IsContent(ContentOf(t))
         /\ t.words = <<"CMakeLists">> => ContentOf(t) = CMake(name)
         /\ t.words # <<"CMakeLists">> /\ t.ext = "jshelf" => ContentOf(t) = EmptyShelf
         /\ t.words # <<"CMakeLists">> /\ t.ext # "jshelf" => ContentOf(t) = Source(t)
<1>1. IsContent(CMake(name))
  BY EmptyFacts DEF CMake, IsContent
<1>2. IsContent(EmptyShelf)
  <2>1. DOMAIN <<>> = {}
    OBVIOUS
  <2>2. /\ DOMAIN EmptyShelf = {"kind", "containers", "operations", "keys", "marks"}
        /\ EmptyShelf.containers = <<>> /\ EmptyShelf.operations = <<>> /\ EmptyShelf.kind = "shelf"
    BY DEF EmptyShelf
  <2> QED
    BY <2>1, <2>2, EmptyFacts DEF IsContent
<1>3. IsContent(Source(t))
  BY DEF Source, IsContent
<1> QED
  BY <1>1, <1>2, <1>3 DEF ContentOf

LEMMA AgainFacts ==
  ASSUME IsASeq(todo), todo # <<>>, Running(todo, disk[dir], options, name, cut),
         Head(todo).do = "generate", NEW t \in Step.left
  PROVE  LET rest == Others(t) \o Tail(todo)
         IN  /\ IsASeq(rest) /\ Ordered(rest)
             /\ \A s \in Range(rest) : Rank(s) \in Nat /\ IsStep(s, options, name)
             /\ \A do : \A k : Pending(rest, do, k) <=> Pending(todo, do, k)
             /\ \A k : HasTemplate(todo, k) =>
                  HasTemplate(rest, k) \/ (k = Step.kind /\ t.words = TemplateFor(k))
<1> DEFINE u == [Step EXCEPT !.left = @ \ {t}]
           one == <<u>>
           T == Tail(todo)
           rest == one \o T
           o == options
<1>1. Others(t) = one
  BY DEF Others
<1>2. Head(todo) = Step /\ Step.do = "generate" /\ Head(todo).do \in Big
  BY DEF Step, Big
<1>3. /\ IsASeq(T) /\ Ordered(T) /\ Range(todo) = {Step} \cup Range(T)
      /\ \A s \in Range(T) : Rank(s) \in Nat /\ IsStep(s, o, name) /\ Rank(Step) < Rank(s)
      /\ IsStep(Step, o, name) /\ Rank(Step) \in Nat
  BY <1>2, AtBig
<1>4. {"do", "kind", "left"} \subseteq DOMAIN Step
  BY <1>2, <1>3 DEF IsStep
<1>5. /\ u.do = "generate" /\ u.kind = Step.kind /\ u.left = Step.left \ {t}
      /\ DOMAIN u = DOMAIN Step
  BY <1>2, <1>4
<1>6. IsASeq(one) /\ Ordered(one) /\ Range(one) = {u}
  BY SingleFacts, SingleOrdered
<1> HIDE DEF u, one, T, o
<1>7. IsStep(u, o, name)
  <2>1. /\ Step.kind \in Kinds
        /\ Step.left \subseteq {x \in Templates[o.templateDir] : Matches(Step.kind, x)}
        /\ Step.kind \in Parts => o[Step.kind] # ""
    BY <1>2, <1>3 DEF IsStep
  <2>2. /\ {"do", "kind", "left"} \subseteq DOMAIN u
        /\ u.left \subseteq {x \in Templates[o.templateDir] : Matches(u.kind, x)}
    BY <1>4, <1>5, <2>1
  <2> QED
    BY <1>5, <2>1, <2>2 DEF IsStep
<1>8. Rank(u) = Rank(Step)
  BY <1>2, <1>5 DEF Rank
<1>9. Ordered(rest)
  <2>1. \A x \in Range(one), y \in Range(T) : Rank(x) < Rank(y)
    BY <1>3, <1>6, <1>8
  <2> QED
    BY <2>1, <1>3, <1>6, OrderedJoin
<1>10. IsASeq(rest) /\ Range(rest) = {u} \cup Range(T)
  BY <1>3, <1>6, JoinFacts
<1> HIDE DEF rest
<1>11. \A s \in Range(rest) : Rank(s) \in Nat /\ IsStep(s, o, name)
  BY <1>3, <1>7, <1>8, <1>10
<1>12. ASSUME NEW do, NEW k PROVE Pending(rest, do, k) <=> Pending(todo, do, k)
  BY <1>2, <1>3, <1>5, <1>10 DEF Pending
<1>13. ASSUME NEW k, HasTemplate(todo, k)
       PROVE  HasTemplate(rest, k) \/ (k = Step.kind /\ t.words = TemplateFor(k))
  <2>1. PICK s \in Range(todo) : s.do = "generate" /\ s.kind = k /\ \E x \in s.left : x.words = TemplateFor(k)
    BY <1>13 DEF HasTemplate
  <2>2. PICK x \in s.left : x.words = TemplateFor(k)
    BY <2>1
  <2>3. CASE s \in Range(T)
    BY <1>10, <2>1, <2>3 DEF HasTemplate
  <2>4. CASE s = Step /\ x # t
    <3>1. x \in u.left /\ u \in Range(rest) /\ u.kind = k
      BY <1>5, <1>10, <2>1, <2>4
    <3> QED
      BY <3>1, <1>5, <2>2 DEF HasTemplate
  <2>5. CASE s = Step /\ x = t
    BY <2>1, <2>2, <2>5
  <2> QED
    BY <1>3, <2>3, <2>4, <2>5
<1> QED
  BY <1>1, <1>9, <1>10, <1>11, <1>12, <1>13 DEF rest, o, T

LEMMA GenerateStep ==
  ASSUME IsASeq(todo), todo # <<>>, Running(todo, disk[dir], options, name, cut),
         Head(todo).do = "generate", NEW t \in Step.left,
         \A f \in DOMAIN disk[dir] : IsContent(disk[dir][f])
  PROVE  LET f == Named(t)
             rest == Others(t) \o Tail(todo)
         IN  /\ Present(f) => IsASeq(rest) /\ Running(rest, disk[dir], options, name, cut)
             /\ \A r : UpdateOf(r, f, [do |-> "fill", file |-> f, content |-> ContentOf(t)], rest) =>
                  IsASeq(r) /\ Running(r, disk[dir], options, name, cut)
             /\ \A r : UpdateOf(r, f, [do |-> "loop"], Tail(todo)) =>
                  IsASeq(r) /\ Running(r, disk[dir], options, name, cut)
<1> DEFINE f == Named(t)
           rest == Others(t) \o Tail(todo)
           F == disk[dir]
           o == options
           x == ContentOf(t)
           kind == Step.kind
           G == With(F, f, x)
           T == Tail(todo)
<1>1. Head(todo) = Step /\ Step.do = "generate" /\ Head(todo).do \in Big
  BY DEF Step, Big
<1>2. /\ IsASeq(T) /\ Ordered(T)
      /\ \A s \in Range(T) : Rank(s) \in Nat /\ IsStep(s, o, name)
      /\ IsStep(Step, o, name)
      /\ Step \in Range(todo)
      /\ Progress(todo, F, o, name, cut)
  BY <1>1, AtBig
<1>3. /\ o.templateDir \in DOMAIN Templates
      /\ kind \in Kinds /\ t \in Templates[o.templateDir] /\ Matches(kind, t)
      /\ kind \in Parts => o[kind] # ""
  BY <1>1, <1>2 DEF IsStep, Running
<1>4. /\ IsFileOf(f, name)
      /\ f[2] = t.ext
      /\ t.words = <<"CMakeLists">> \/ t.ext = "jshelf" => kind = "component"
      /\ f = CMakeLists <=> t.words = <<"CMakeLists">>
      /\ kind \in Parts /\ t.words = TemplateFor(kind) => f[1] = Words(o, kind)
  BY <1>3, TemplateFacts
<1>5. /\ IsContent(x)
      /\ t.words = <<"CMakeLists">> => x = CMake(name)
      /\ t.words # <<"CMakeLists">> /\ t.ext = "jshelf" => x = EmptyShelf
      /\ t.words # <<"CMakeLists">> /\ t.ext # "jshelf" => x = Source(t)
  <2>1. t.words = <<"CMakeLists">> => t.ext # "jshelf"
    <3>1. t.words = <<"CMakeLists">> => t.ext = "txt"
      BY <1>3, TemplateAssumption
    <3> QED
      BY <3>1
  <2> QED
    BY <2>1, ContentFacts
<1>6. /\ IsASeq(rest) /\ Ordered(rest)
      /\ \A s \in Range(rest) : Rank(s) \in Nat /\ IsStep(s, o, name)
      /\ \A do : \A k : Pending(rest, do, k) <=> Pending(todo, do, k)
      /\ \A k : HasTemplate(todo, k) =>
           HasTemplate(rest, k) \/ (k = kind /\ t.words = TemplateFor(k))
  BY AgainFacts
<1> HIDE DEF rest, f, x, T
<1>7. f[3] = 0 /\ CMakeLists[2] = "txt"
  BY <1>4, NameFacts DEF IsFileOf
<1>8. TemplateFor("component") = <<"CMakeLists">>
  BY DEF TemplateFor
<1> HIDE DEF F, o
<1>9. ASSUME NEW H, f \in DOMAIN H, Looks(F, H, name) PROVE Progress(rest, H, o, name, cut)
  <2>1. \A k \in Parts : HasTemplate(todo, k) => HasTemplate(rest, k) \/ HasSource(H, Words(o, k))
    <3> SUFFICES ASSUME NEW k \in Parts, HasTemplate(todo, k), ~HasTemplate(rest, k)
                 PROVE  HasSource(H, Words(o, k))
      OBVIOUS
    <3>1. k = kind /\ t.words = TemplateFor(k)
      BY <1>6
    <3>2. f[1] = Words(o, k)
      BY <1>4, <3>1
    <3> QED
      BY <1>9, <3>2 DEF HasSource
  <2>2. HasTemplate(todo, "component") => HasTemplate(rest, "component") \/ CMakeLists \in DOMAIN H
    BY <1>4, <1>6, <1>8, <1>9
  <2>3. /\ \A k \in Parts : /\ Pending(rest, "list", k) <=> Pending(todo, "list", k)
                            /\ Pending(rest, "shelve", k) <=> Pending(todo, "shelve", k)
        /\ \A k \in Kinds : Pending(rest, "generate", k) => Pending(todo, "generate", k)
    BY <1>6
  <2> QED
    BY <1>2, <1>9, <2>1, <2>2, <2>3, ProgressKept
<1>10. ASSUME Present(f) PROVE IsASeq(rest) /\ Running(rest, F, o, name, cut)
  <2>1. f \in DOMAIN F /\ Looks(F, F, name)
    BY <1>10, LooksLikeItself DEF Present, F
  <2>2. Progress(rest, F, o, name, cut)
    BY <2>1, <1>9
  <2>3. \A s \in Range(rest) : s.do \notin Micro
    <3> SUFFICES ASSUME NEW s \in Range(rest), s.do \in Micro PROVE FALSE
      OBVIOUS
    <3>1. Rank(s) \in {-3, -2, -1} /\ Rank(s) \in Nat
      BY <1>6, RankFacts
    <3> QED
      BY <3>1
  <2>4. Fills(rest) = {}
    BY <2>3 DEF Fills, Micro
  <2>5. Settled(rest, F) = F
    BY <2>4 DEF Settled
  <2>6. Updating(rest, F)
    <3>1. rest # <<>> => Head(rest) \in Range(rest)
      BY <1>6, ConsFacts
    <3> QED
      BY <2>3, <3>1 DEF Updating, Micro
  <2> QED
    BY <1>6, <2>2, <2>5, <2>6 DEF Running, F, o
<1>11. Progress(rest, G, o, name, cut)
  <2>1. f \in DOMAIN G /\ G[f] = x /\ DOMAIN G = DOMAIN F \cup {f} /\ \A g \in DOMAIN F \ {f} : G[g] = F[g]
    BY DEF With
  <2>2. /\ ComponentOK(F) /\ ShelvesAre(F, name)
        /\ CMakeLists \in DOMAIN F => IsComponent(F) /\ F[CMakeLists].project = name
        /\ CMakeLists \in DOMAIN F \/ HasTemplate(todo, "component")
        /\ Pending(todo, "generate", "component") => PreloadedIn(F) = {} /\ ListedIn(F) = {}
        /\ \A p \in Parts : o[p] # "" => PartDone(p, todo, F, o)
        /\ ~cut => Unshelved(todo, F, o)
    BY <1>2 DEF Progress
  <2>3. ShelvesAre(G, name) /\ \A w : HasSource(F, w) => HasSource(G, w)
    BY <1>4, <2>1, <2>2 DEF ShelvesAre, HasSource
  <2>4. kind = "component" => Pending(todo, "generate", "component")
    BY <1>1, <1>2 DEF Pending
  <2>5. CASE t.words = <<"CMakeLists">>
    <3>1. f = CMakeLists /\ x = CMake(name) /\ kind = "component" /\ f[2] # "jshelf"
      BY <1>4, <1>5, <1>7, <2>5
    <3>2. PreloadedIn(F) = {} /\ ListedIn(F) = {}
      BY <2>2, <2>4, <3>1
    <3>3. PreloadedIn(G) = {}
      BY <3>1, <3>2, WithNoShelf
    <3>4. x.kind = "cmake" /\ x.project = name /\ \A p \in Parts : x.lists[p] = <<>>
      BY <3>1 DEF CMake
    <3>5. CMakeLists \in DOMAIN G /\ IsComponent(G) /\ G[CMakeLists].project = name
      BY <2>1, <3>1, <3>4 DEF IsComponent
    <3>6. ListedIn(G) = {}
      <4>1. ListedIn(G) = UNION {Range(x.lists[p]) : p \in Parts}
        BY <3>1, <3>4, WithLists
      <4>2. \A p \in Parts : Range(x.lists[p]) = {}
        BY <3>4, EmptyFacts
      <4> HIDE DEF G
      <4> QED
        BY <4>1, <4>2
    <3>7. \A p : ListOf(F, p) = {} \/ p \notin Parts
      <4> SUFFICES ASSUME NEW p \in Parts, IsComponent(F) PROVE ListOf(F, p) = {}
        BY DEF ListOf
      <4>1. ListOf(F, p) \subseteq ListedIn(F)
        BY DEF ListOf, ListedIn
      <4> QED
        BY <3>2, <4>1
    <3> HIDE DEF G, kind
    <3>8. ComponentOK(G)
      BY <2>3, <3>3, <3>5, <3>6 DEF ComponentOK
    <3>9. ASSUME NEW p \in Parts, o[p] # "" PROVE PartDone(p, rest, G, o)
      <4>1. PartDone(p, todo, F, o)
        BY <2>2, <3>9
      <4>2. Pending(rest, "list", p) /\ Pending(rest, "shelve", p)
        BY <1>6, <3>2, <3>7, <4>1 DEF PartDone
      <4>3. HasTemplate(rest, p) \/ HasSource(G, Words(o, p))
        <5>1. p # kind
          BY <3>1 DEF Parts
        <5> QED
          BY <1>6, <2>3, <4>1, <5>1 DEF PartDone
      <4> QED
        BY <4>2, <4>3 DEF PartDone
    <3> QED
      BY <2>3, <3>3, <3>5, <3>6, <3>8, <3>9 DEF Progress, Unshelved
  <2>6. CASE t.words # <<"CMakeLists">>
    <3>1. f # CMakeLists
      BY <1>4, <2>6
    <3>2. PreloadedIn(G) = PreloadedIn(F)
      <4>1. CASE t.ext # "jshelf"
        <5>1. f[2] # "jshelf"
          BY <1>4, <4>1
        <5> QED
          BY <5>1, WithNoShelf
      <4>2. CASE t.ext = "jshelf"
        <5>1. x = EmptyShelf /\ kind = "component"
          BY <1>4, <1>5, <2>6, <4>2
        <5>2. PreloadedIn(F) = {}
          BY <2>2, <2>4, <5>1
        <5>3. f = File(<<name>>, "jshelf")
          BY <1>4, <4>2 DEF IsFileOf
        <5>4. PreloadedIn(G) = PreloadedBy(EmptyShelf)
          <6>1. EmptyShelf.kind = "shelf"
            BY DEF EmptyShelf
          <6>2. PreloadedIn(With(F, File(<<name>>, "jshelf"), x)) = IF x.kind = "shelf" THEN PreloadedBy(x) ELSE {}
            BY <2>2, WithShelf
          <6> QED
            BY <5>1, <5>3, <6>1, <6>2
        <5>5. \A w : w \notin PreloadedBy(EmptyShelf)
          <6>1. EmptyShelf.containers = <<>> /\ EmptyShelf.operations = <<>>
            BY DEF EmptyShelf
          <6>2. DOMAIN <<>> = {} /\ Range(<<>>) = {}
            BY EmptyFacts
          <6> QED
            BY <6>1, <6>2, PreloadedByWhere
        <5> HIDE DEF G
        <5> QED
          BY <5>2, <5>4, <5>5
      <4> QED
        BY <4>1, <4>2
    <3>3. (CMakeLists \in DOMAIN F <=> CMakeLists \in DOMAIN G) /\ (CMakeLists \in DOMAIN F => F[CMakeLists] = G[CMakeLists])
      BY <3>1, WithNoLists
    <3> HIDE DEF G
    <3>5. Looks(F, G, name)
      BY <2>3, <3>2, <3>3 DEF Looks
    <3> QED
      BY <2>1, <3>5, <1>9
  <2> QED
    BY <2>5, <2>6
<1>12. ASSUME NEW r, UpdateOf(r, f, [do |-> "fill", file |-> f, content |-> x], rest)
       PROVE  IsASeq(r) /\ Running(r, F, o, name, cut)
  <2> DEFINE close == [do |-> "fill", file |-> f, content |-> x]
  <2>1. close.do = "fill" /\ close.file = f /\ close.content = x
    OBVIOUS
  <2>2. UpdateOf(r, f, close, rest)
    BY <1>12
  <2> HIDE DEF close, G
  <2>3. Closes(close, f)
    BY <2>1 DEF Closes
  <2>4. Progress(rest, With(disk[dir], f, close.content), o, name, cut)
    BY <2>1, <1>11 DEF G, F
  <2> QED
    BY <2>1, <2>2, <2>3, <2>4, <1>4, <1>5, <1>6, BigUpdate DEF F, o
<1>13. ASSUME NEW r, UpdateOf(r, f, [do |-> "loop"], T)
       PROVE  IsASeq(r) /\ Running(r, F, o, name, cut)
  <2> DEFINE close == [do |-> "loop"]
  <2>1. close.do = "loop"
    OBVIOUS
  <2>2. UpdateOf(r, f, close, T)
    BY <1>13
  <2> HIDE DEF close
  <2>3. Closes(close, f) /\ close.do # "fill"
    BY <2>1 DEF Closes
  <2> QED
    BY <2>1, <2>2, <2>3, <1>2, <1>4, BigUpdate DEF F, o
<1> QED
  BY <1>10, <1>12, <1>13 DEF f, rest, F, o, x, T

\* What the actions do to the invariant.
LEMMA BusyStep ==
  ASSUME ToolInv, now = "busy", now' = "busy", UNCHANGED <<disk, clock, options, name, edits, cut>>,
         IsASeq(todo'), Running(todo', disk[dir], options, name, cut)
  PROVE  ToolInv'
<1>1. dir' = dir
  BY DEF dir
<1>2. RunKnown'
  BY <1>1 DEF ToolInv, RunKnown
<1>3. DiskKnown'
  BY <1>1 DEF ToolInv, DiskKnown
<1>4. BusyKnown'
  BY <1>1 DEF BusyKnown
<1> QED
  BY <1>2, <1>3, <1>4 DEF ToolInv

LEMMA WriteStep ==
  ASSUME ToolInv, now = "busy", now' = "busy", UNCHANGED <<clock, options, name, edits, cut>>,
         NEW H, disk' = [disk EXCEPT ![dir] = H],
         IsASeq(todo'), Running(todo', H, options, name, cut),
         \A f \in DOMAIN H : IsContent(H[f]), ComponentOK(H)
  PROVE  ToolInv'
<1>1. dir' = dir /\ dir \in DOMAIN disk
  BY DEF dir, ToolInv, RunKnown
<1>2. /\ DOMAIN disk' = DOMAIN disk /\ disk'[dir] = H
      /\ \A d \in DOMAIN disk \ {dir} : disk'[d] = disk[d]
  BY <1>1
<1>3. RunKnown'
  BY <1>1, <1>2 DEF ToolInv, RunKnown
<1>4. DiskKnown'
  <2> SUFFICES ASSUME NEW d \in DOMAIN disk'
               PROVE  /\ \A f \in DOMAIN disk'[d] : IsContent(disk'[d][f])
                      /\ ComponentOK(disk'[d])
                      /\ ~cut /\ IsComponent(disk'[d]) /\ d # dir => ListedIn(disk'[d]) \subseteq PreloadedIn(disk'[d])
    BY <1>1 DEF DiskKnown
  <2>1. CASE d = dir
    BY <1>2, <2>1
  <2>2. CASE d # dir
    BY <1>2, <2>2 DEF ToolInv, DiskKnown
  <2> QED
    BY <2>1, <2>2
<1>5. BusyKnown'
  BY <1>1, <1>2 DEF BusyKnown
<1> QED
  BY <1>3, <1>4, <1>5 DEF ToolInv

LEMMA CutStep ==
  ASSUME ToolInv, End("killed") \/ End("aborted"), cut' = TRUE, UNCHANGED <<disk, clock, edits>>
  PROVE  ToolInv'
<1>1. now' = "idle" /\ exit' # "0" /\ todo' = <<>>
  BY DEF End, Finished
<1>2. RunKnown'
  BY <1>1, EmptyFacts DEF ToolInv, RunKnown
<1>3. DiskKnown'
  BY DEF ToolInv, DiskKnown
<1>4. BusyKnown'
  BY <1>1 DEF BusyKnown
<1> QED
  BY <1>2, <1>3, <1>4 DEF ToolInv

LEMMA LoopStep ==
  ASSUME ToolInv, now = "busy", Loop, UNCHANGED <<disk, clock, edits, cut>>
  PROVE  ToolInv'
<1>1. now' = "loops" /\ dir' = dir /\ todo' = todo
  BY DEF Loop, dir
<1>2. RunKnown'
  BY <1>1 DEF ToolInv, RunKnown
<1>3. DiskKnown'
  BY <1>1 DEF ToolInv, DiskKnown
<1>4. BusyKnown'
  BY <1>1 DEF BusyKnown
<1> QED
  BY <1>2, <1>3, <1>4 DEF ToolInv

LEMMA JoinAssociates ==
  ASSUME NEW s, IsASeq(s), NEW t, IsASeq(t), NEW u, IsASeq(u)
  PROVE  (s \o t) \o u = s \o (t \o u)
<1> DEFINE S == Range(s) \cup Range(t) \cup Range(u)
<1>1. s \in Seq(S) /\ t \in Seq(S) /\ u \in Seq(S)
  BY DEF IsASeq, Range
<1> HIDE DEF S
<1>2. /\ s \o t \in Seq(S) /\ t \o u \in Seq(S)
      /\ (s \o t) \o u \in Seq(S) /\ s \o (t \o u) \in Seq(S)
      /\ Len((s \o t) \o u) = Len(s \o (t \o u))
  BY <1>1
<1> QED
  BY <1>1, <1>2

LEMMA AtBusy ==
  ASSUME ToolInv, NEW step, Doing(step)
  PROVE  /\ now = "busy" /\ todo # <<>> /\ IsASeq(todo) /\ Head(todo).do = step /\ Step = Head(todo)
         /\ Running(todo, disk[dir], options, name, cut)
         /\ \A f \in DOMAIN disk[dir] : IsContent(disk[dir][f])
         /\ clock \in Nat \ {0} /\ ComponentOK(disk[dir])
  BY DEF ToolInv, RunKnown, BusyKnown, DiskKnown, Doing, Step

LEMMA NothingMore == ASSUME NEW s, IsASeq(s) PROVE <<>> \o s = s
  BY DEF IsASeq

LEMMA GenerateFileStep == ASSUME ToolInv, GenerateFile PROVE ToolInv'
<1>1. Doing("generate")
  BY DEF GenerateFile
<1>2. /\ now = "busy" /\ todo # <<>> /\ IsASeq(todo) /\ Head(todo).do = "generate"
      /\ Running(todo, disk[dir], options, name, cut)
      /\ \A f \in DOMAIN disk[dir] : IsContent(disk[dir][f])
  BY <1>1, AtBusy
<1>3. UNCHANGED <<disk, clock, edits, cut>>
  BY DEF GenerateFile, user
<1>4. PICK t \in Step.left :
        LET f == Named(t)
        IN  \/ Loop
            \/ Present(f) /\ Continue(Others(t))
            \/ Continue(Opening(f) \o <<[do |-> "loop"]>>)
            \/ Continue(Rewrite(f, ContentOf(t)) \o Others(t))
  BY DEF GenerateFile, Named
<1> DEFINE f == Named(t)
           rest == Others(t) \o Tail(todo)
<1>5. /\ Present(f) => IsASeq(rest) /\ Running(rest, disk[dir], options, name, cut)
      /\ \A r : UpdateOf(r, f, [do |-> "fill", file |-> f, content |-> ContentOf(t)], rest) =>
           IsASeq(r) /\ Running(r, disk[dir], options, name, cut)
      /\ \A r : UpdateOf(r, f, [do |-> "loop"], Tail(todo)) =>
           IsASeq(r) /\ Running(r, disk[dir], options, name, cut)
  BY <1>2, GenerateStep
<1>6. CASE Loop
  BY <1>2, <1>3, <1>6, LoopStep
<1> HIDE DEF f
<1>7. CASE Present(f) /\ Continue(Others(t))
  BY <1>2, <1>3, <1>5, <1>7, BusyStep DEF Continue
<1>8. CASE Continue(Opening(f) \o <<[do |-> "loop"]>>)
  <2>1. UpdateOf(todo', f, [do |-> "loop"], Tail(todo))
    BY <1>8 DEF Continue, UpdateOf
  <2> QED
    BY <1>2, <1>3, <1>5, <1>8, <2>1, BusyStep DEF Continue
<1>9. CASE Continue(Rewrite(f, ContentOf(t)) \o Others(t))
  <2> DEFINE close == [do |-> "fill", file |-> f, content |-> ContentOf(t)]
             w == <<close>>
             v == Others(t)
             T == Tail(todo)
  <2>1. todo' = ((Opening(f) \o w) \o v) \o T
    BY <1>9 DEF Continue, Rewrite
  <2>2. IsASeq(Opening(f)) /\ IsASeq(w) /\ IsASeq(v) /\ IsASeq(T)
    BY <1>2, OpeningFacts, SingleFacts, ConsFacts DEF Others
  <2> HIDE DEF w, v, T
  <2> DEFINE x == Opening(f) \o w
  <2>x. IsASeq(x)
    BY <2>2, JoinFacts
  <2>y. todo' = (x \o v) \o T
    BY <2>1
  <2> HIDE DEF x
  <2>z. (x \o v) \o T = x \o (v \o T)
    BY <2>2, <2>x, JoinAssociates
  <2>3. todo' = (Opening(f) \o w) \o (v \o T)
    BY <2>y, <2>z DEF x
  <2>4. UpdateOf(todo', f, close, rest)
    BY <2>3 DEF UpdateOf, w, v, T
  <2> QED
    BY <1>2, <1>3, <1>5, <1>9, <2>4, BusyStep DEF Continue
<1> QED
  BY <1>4, <1>6, <1>7, <1>8, <1>9 DEF f

LEMMA GenerateDoneStep == ASSUME ToolInv, GenerateDone PROVE ToolInv'
<1>1. Doing("generate") /\ Step.left = {} /\ Continue(<<>>)
  BY DEF GenerateDone
<1>2. /\ now = "busy" /\ todo # <<>> /\ IsASeq(todo) /\ Head(todo).do = "generate" /\ Step = Head(todo)
      /\ Running(todo, disk[dir], options, name, cut)
  BY <1>1, AtBusy
<1>3. UNCHANGED <<disk, clock, edits, cut>>
  BY DEF GenerateDone, user
<1>4. IsASeq(Tail(todo))
  BY <1>2, ConsFacts
<1>5. todo' = Tail(todo) /\ UNCHANGED <<now, options, name>>
  BY <1>1, <1>4, NothingMore DEF Continue
<1>6. Running(Tail(todo), disk[dir], options, name, cut)
  BY <1>1, <1>2, DropStep
<1> QED
  BY <1>2, <1>3, <1>4, <1>5, <1>6, BusyStep

LEMMA UpdateCMakeListsStep == ASSUME ToolInv, UpdateCMakeLists PROVE ToolInv'
<1> DEFINE F == disk[dir]
           p == Head(todo).kind
           new == [F[CMakeLists] EXCEPT !.lists[p] = Listed(@, Words(options, p))]
           T == Tail(todo)
           close == [do |-> "fill", file |-> CMakeLists, content |-> new]
<1>1. Doing("list")
  BY DEF UpdateCMakeLists
<1>2. /\ now = "busy" /\ todo # <<>> /\ IsASeq(todo) /\ Head(todo).do = "list" /\ Step = Head(todo)
      /\ Running(todo, F, options, name, cut)
      /\ \A f \in DOMAIN F : IsContent(F[f])
  BY <1>1, AtBusy
<1>3. UNCHANGED <<disk, clock, edits, cut>>
  BY DEF UpdateCMakeLists, user
<1>4. /\ CMakeLists \in DOMAIN F /\ F[CMakeLists].kind = "cmake"
      /\ IsContent(new)
      /\ Progress(T, With(F, CMakeLists, new), options, name, cut)
  BY <1>2, ListStep
<1>5. Continue(Rewrite(CMakeLists, new))
  BY <1>2, <1>4 DEF UpdateCMakeLists, Read, Present
<1>6. /\ IsASeq(T) /\ Ordered(T)
      /\ \A s \in Range(T) : Rank(s) \in Nat /\ IsStep(s, options, name)
  <2>1. Head(todo).do \in Big
    BY <1>2 DEF Big
  <2> QED
    BY <1>2, <2>1, AtBig
<1>7. close.do = "fill" /\ close.file = CMakeLists /\ close.content = new
  OBVIOUS
<1>8. UpdateOf(todo', CMakeLists, close, T) /\ UNCHANGED <<now, options, name>>
  BY <1>5 DEF Continue, Rewrite, UpdateOf
<1>9. IsFileOf(CMakeLists, name)
  BY NameFacts
<1> HIDE DEF close, new, T
<1>10. Closes(close, CMakeLists)
  BY <1>7 DEF Closes
<1>11. IsASeq(todo') /\ Running(todo', F, options, name, cut)
  BY <1>2, <1>4, <1>6, <1>7, <1>8, <1>9, <1>10, BigUpdate
<1> QED
  BY <1>2, <1>3, <1>8, <1>11, BusyStep

\* The container of a container operation is in the list by now.
LEMMA CheckContainerStep == ASSUME ToolInv, CheckContainer PROVE ToolInv'
<1> DEFINE F == disk[dir]
           h == Rank(Head(todo))
<1>1. Doing("check")
  BY DEF CheckContainer
<1>2. /\ now = "busy" /\ todo # <<>> /\ IsASeq(todo) /\ Head(todo).do = "check" /\ Step = Head(todo)
      /\ Running(todo, F, options, name, cut)
      /\ \A f \in DOMAIN F : IsContent(F[f])
  BY <1>1, AtBusy
<1>3. UNCHANGED <<disk, clock, edits, cut>>
  BY DEF CheckContainer, user
<1>4. /\ IsASeq(Tail(todo))
      /\ IsStep(Head(todo), options, name) /\ h \in Nat
      /\ \A s \in Range(todo) : IsStep(s, options, name) /\ Rank(s) \in Nat /\ h <= Rank(s)
      /\ Progress(todo, F, options, name, cut)
  <2>1. Head(todo).do \in Big
    BY <1>2 DEF Big
  <2> QED
    BY <1>2, <2>1, AtBig
<1>5. h = 8
  BY <1>2, <1>4, RankOfKind
<1>6. options.container # "" /\ "container" \in Parts /\ "container" \in Kinds
  <2>1. options.container_operation # ""
    BY <1>2, <1>4 DEF IsStep
  <2> QED
    BY <1>2, <2>1 DEF Running, Parts, Kinds
<1> HIDE DEF h
<1>7. ~Pending(todo, "list", "container")
  <2>1. Bases["container"] = 4
    BY DEF Bases
  <2>2. h > Bases["container"] + 2 => ~Pending(todo, "list", "container")
    BY <1>4, <1>6, NoneBefore
  <2> QED
    BY <1>5, <2>1, <2>2
<1>8. Words(options, "container") \in ListOf(F, "container")
  BY <1>4, <1>6, <1>7 DEF Progress, PartDone
<1>9. /\ CMakeLists \in DOMAIN F /\ F[CMakeLists].kind = "cmake"
      /\ <<options.container>> \in Range(F[CMakeLists].lists["container"])
  BY <1>8 DEF ListOf, Words, IsComponent
<1>10. Continue(<<>>)
  BY <1>9 DEF CheckContainer, Read, Present
<1>11. todo' = Tail(todo) /\ UNCHANGED <<now, options, name>>
  BY <1>4, <1>10, NothingMore DEF Continue
<1>12. Running(Tail(todo), F, options, name, cut)
  BY <1>2, DropStep
<1> QED
  BY <1>2, <1>3, <1>4, <1>11, <1>12, BusyStep

LEMMA UpdateShelfStep == ASSUME ToolInv, UpdateShelf PROVE ToolInv'
<1> DEFINE F == disk[dir]
           part == Step.kind
           c == options.container
           v == IF part = "operation" THEN ShelfValue ELSE WithContainer(ShelfValue, c)
           new == CASE part = "container" -> v
                    [] part = "container_operation" ->
                         [v EXCEPT !.containers[c].operations = PushedBack(@, options.container_operation)]
                    [] part = "operation" -> [v EXCEPT !.operations = PushedBack(@, options.operation)]
           T == Tail(todo)
           close == [do |-> "fill", file |-> ShelfFile, content |-> new]
<1>1. Doing("shelve")
  BY DEF UpdateShelf
<1>2. /\ now = "busy" /\ todo # <<>> /\ IsASeq(todo) /\ Head(todo).do = "shelve" /\ Step = Head(todo)
      /\ Running(todo, F, options, name, cut)
      /\ \A f \in DOMAIN F : IsContent(F[f])
  BY <1>1, AtBusy
<1>3. UNCHANGED <<disk, clock, edits>>
  BY DEF UpdateShelf, user
<1>4. \/ End("aborted") /\ cut' = TRUE
      \/ Continue(Rewrite(ShelfFile, new)) /\ cut' = cut
  BY DEF UpdateShelf
<1>5. IsContent(new) /\ Progress(T, With(F, ShelfFile, new), options, name, cut)
  BY <1>2, ShelveStep
<1>6. /\ IsASeq(T) /\ Ordered(T)
      /\ \A s \in Range(T) : Rank(s) \in Nat /\ IsStep(s, options, name)
  <2>1. Head(todo).do \in Big
    BY <1>2 DEF Big
  <2> QED
    BY <1>2, <2>1, AtBig
<1>7. close.do = "fill" /\ close.file = ShelfFile /\ close.content = new
  OBVIOUS
<1>8. IsFileOf(ShelfFile, name)
  BY DEF IsFileOf, ShelfFile, File
<1>9. CASE End("aborted") /\ cut' = TRUE
  BY <1>3, <1>9, CutStep
<1>10. CASE Continue(Rewrite(ShelfFile, new)) /\ cut' = cut
  <2>1. UpdateOf(todo', ShelfFile, close, T) /\ UNCHANGED <<now, options, name>>
    BY <1>10 DEF Continue, Rewrite, UpdateOf
  <2> HIDE DEF close, new, T
  <2>2. Closes(close, ShelfFile)
    BY <1>7 DEF Closes
  <2>3. IsASeq(todo') /\ Running(todo', F, options, name, cut)
    BY <1>2, <1>5, <1>6, <1>7, <1>8, <2>1, <2>2, BigUpdate
  <2> QED
    BY <1>2, <1>3, <1>10, <2>1, <2>3, BusyStep
<1> QED
  BY <1>4, <1>9, <1>10

LEMMA LoopInTextStep == ASSUME ToolInv, LoopInText PROVE ToolInv'
  BY LoopStep DEF LoopInText, Doing, user

LEMMA RenameAction == ASSUME ToolInv, Rename PROVE ToolInv'
<1> DEFINE F == disk[dir]
           f == Head(todo).file
           R == Renamed(F, f)
           T == Tail(todo)
<1>1. Doing("rename") /\ Continue(<<>>)
  BY DEF Rename
<1>2. /\ now = "busy" /\ todo # <<>> /\ IsASeq(todo) /\ Head(todo).do = "rename" /\ Step = Head(todo)
      /\ Running(todo, F, options, name, cut)
      /\ \A g \in DOMAIN F : IsContent(F[g])
      /\ clock \in Nat \ {0} /\ ComponentOK(F)
  BY <1>1, AtBusy
<1>3. UNCHANGED <<clock, edits, cut>>
  BY DEF Rename, user
<1>4. disk' = [disk EXCEPT ![dir] = R]
  <2>1. disk' = [disk EXCEPT ![dir] = With(Without(@, f), Backup(f), @[f])]
    BY <1>2 DEF Rename
  <2>2. [disk EXCEPT ![dir] = With(Without(@, f), Backup(f), @[f])] = [disk EXCEPT ![dir] = R]
    BY Zenon DEF Renamed
  <2> QED
    BY <2>1, <2>2
<1>5. /\ f \in DOMAIN F /\ f[3] = 0
      /\ Running(T, R, options, name, cut)
  BY <1>2, RenameStep
<1>6. IsASeq(T)
  BY <1>2, ConsFacts
<1>7. todo' = T /\ UNCHANGED <<now, options, name>>
  BY <1>1, <1>6, NothingMore DEF Continue
<1>8. /\ \A g \in DOMAIN R : \E x \in DOMAIN F : R[g] = F[x]
      /\ ComponentOK(R)
  BY <1>2, <1>5, RenamedFacts
<1> HIDE DEF R, T
<1>9. \A g \in DOMAIN R : IsContent(R[g])
  BY <1>2, <1>8
<1> QED
  BY <1>2, <1>3, <1>4, <1>5, <1>6, <1>7, <1>8, <1>9, WriteStep

LEMMA WriteAction ==
  ASSUME ToolInv, NEW step, Doing(step), NEW f, NEW content, WriteFile(f, content),
         IsContent(content), ComponentOK(With(disk[dir], f, content)),
         Running(Tail(todo), With(disk[dir], f, content), options, name, cut)
  PROVE  ToolInv'
<1> DEFINE F == disk[dir]
           H == With(F, f, content)
           T == Tail(todo)
<1>1. /\ now = "busy" /\ todo # <<>> /\ IsASeq(todo)
      /\ \A g \in DOMAIN F : IsContent(F[g])
  BY AtBusy
<1>2. UNCHANGED <<clock, edits, cut>>
  BY DEF WriteFile, user
<1>3. disk' = [disk EXCEPT ![dir] = H]
  <2>1. disk' = [disk EXCEPT ![dir] = With(@, f, content)]
    BY DEF WriteFile
  <2>2. [disk EXCEPT ![dir] = With(@, f, content)] = [disk EXCEPT ![dir] = H]
    BY Zenon
  <2> QED
    BY <2>1, <2>2
<1>4. IsASeq(T)
  BY <1>1, ConsFacts
<1>5. todo' = T /\ UNCHANGED <<now, options, name>>
  BY <1>4, NothingMore DEF Continue, WriteFile
<1>6. \A g \in DOMAIN H : IsContent(H[g])
  BY <1>1 DEF With
<1> HIDE DEF H, T
<1>7. Running(T, H, options, name, cut) /\ ComponentOK(H)
  BY DEF H, T
<1> QED
  BY <1>1, <1>2, <1>3, <1>4, <1>5, <1>6, <1>7, WriteStep

LEMMA OpenAction == ASSUME ToolInv, Open PROVE ToolInv'
<1> DEFINE F == disk[dir]
           f == Head(todo).file
           X == With(F, f, Blank)
<1>1. Doing("open") /\ WriteFile(f, Blank)
  BY DEF Open, Step
<1>2. /\ now = "busy" /\ todo # <<>> /\ IsASeq(todo) /\ Head(todo).do = "open"
      /\ Running(todo, F, options, name, cut) /\ ComponentOK(F)
  BY <1>1, AtBusy
<1>3. /\ f \notin DOMAIN F
      /\ IsFileOf(f, name) /\ ShelvesAre(F, name) /\ (IsComponent(F) => F[CMakeLists].project = name)
      /\ Running(Tail(todo), X, options, name, cut)
  BY <1>2, OpenStep
<1>4. ComponentOK(X)
  BY <1>2, <1>3, OpenedFacts
<1>5. IsContent(Blank)
  BY DEF IsContent, Blank
<1> QED
  BY <1>1, <1>3, <1>4, <1>5, WriteAction

LEMMA FillAction == ASSUME ToolInv, Fill PROVE ToolInv'
<1>1. Doing("fill") /\ WriteFile(Head(todo).file, Head(todo).content)
  BY DEF Fill, Step
<1>2. /\ now = "busy" /\ todo # <<>> /\ IsASeq(todo) /\ Head(todo).do = "fill"
      /\ Running(todo, disk[dir], options, name, cut)
  BY <1>1, AtBusy
<1>3. /\ IsContent(Head(todo).content)
      /\ ComponentOK(With(disk[dir], Head(todo).file, Head(todo).content))
      /\ Running(Tail(todo), With(disk[dir], Head(todo).file, Head(todo).content), options, name, cut)
  BY <1>2, FillStep
<1> QED
  BY <1>1, <1>3, WriteAction

\* When nothing is left to do, what was asked for is there.
LEMMA MainReturnsStep == ASSUME ToolInv, MainReturns PROVE ToolInv'
<1> DEFINE F == disk[dir]
<1>1. /\ now = "busy" /\ todo = <<>> /\ now' = "idle" /\ exit' = "0" /\ todo' = <<>>
      /\ UNCHANGED <<options, disk, clock, edits, cut>>
  BY DEF MainReturns, End, Finished, user
<1>2. dir' = dir /\ Asked' = Asked /\ dir \in DOMAIN disk
  BY <1>1 DEF dir, Asked, ToolInv, RunKnown
<1>3. Running(<<>>, F, options, name, cut)
  BY <1>1 DEF ToolInv, BusyKnown
<1>4. Range(<<>>) = {}
  BY EmptyFacts
<1>5. Progress(<<>>, F, options, name, cut)
  <2>1. Settled(<<>>, F) = F /\ ~Doomed(<<>>)
    BY <1>4 DEF Settled, Fills, Doomed
  <2> QED
    BY <1>3, <2>1 DEF Running
<1> HIDE DEF F
<1>6. \A do : \A k : ~Pending(<<>>, do, k)
  BY <1>4 DEF Pending
<1>7. ASSUME NEW p \in Parts, options[p] # ""
      PROVE  Words(options, p) \in ListedIn(F) \cap PreloadedIn(F)
  <2>1. PartDone(p, <<>>, F, options)
    BY <1>5, <1>7 DEF Progress
  <2>2. Words(options, p) \in ListOf(F, p) /\ Words(options, p) \in PreloadedIn(F)
    BY <1>6, <2>1 DEF PartDone
  <2>3. ListOf(F, p) \subseteq ListedIn(F)
    BY DEF ListOf, ListedIn
  <2> QED
    BY <2>2, <2>3
<1>8. Asked \subseteq ListedIn(F) \cap PreloadedIn(F)
  BY <1>7 DEF Asked
<1>9. ~cut => ListedIn(F) \subseteq PreloadedIn(F)
  BY <1>5, <1>6 DEF Progress, Unshelved
<1>10. RunKnown'
  BY <1>1, <1>2, <1>8, EmptyFacts DEF ToolInv, RunKnown, F
<1>11. DiskKnown'
  BY <1>1, <1>2, <1>9 DEF ToolInv, DiskKnown, F
<1>12. BusyKnown'
  BY <1>1 DEF BusyKnown
<1> QED
  BY <1>10, <1>11, <1>12 DEF ToolInv

LEMMA KillStep == ASSUME ToolInv, Kill PROVE ToolInv'
  BY CutStep DEF Kill, user

LEMMA TickStep == ASSUME ToolInv, Tick PROVE ToolInv'
<1>1. UNCHANGED <<disk, options, name, todo, now, exit, edits, cut>> /\ clock' = clock + 1
  BY DEF Tick, invocation
<1>2. dir' = dir /\ Asked' = Asked
  BY <1>1 DEF dir, Asked
<1>3. RunKnown'
  BY <1>1, <1>2 DEF ToolInv, RunKnown
<1>4. DiskKnown'
  BY <1>1, <1>2 DEF ToolInv, DiskKnown
<1>5. BusyKnown'
  BY <1>1, <1>2 DEF ToolInv, BusyKnown
<1> QED
  BY <1>3, <1>4, <1>5 DEF ToolInv

\* An edit leaves what is listed and what is preloaded.
SameUse(c, new) ==
  /\ IsContent(new) /\ new.kind = c.kind
  /\ c.kind = "cmake" => new.project = c.project /\ new.lists = c.lists
  /\ c.kind = "shelf" => PreloadedBy(new) = PreloadedBy(c)

LEMMA RemarkFacts ==
  ASSUME NEW c, IsContent(c)
  PROVE  SameUse(c, [c EXCEPT !.marks = @ \cup {edits'}])
<1> DEFINE new == [c EXCEPT !.marks = @ \cup {edits'}]
<1>1. DOMAIN new = DOMAIN c /\ \A x \in DOMAIN c : x # "marks" => new[x] = c[x]
  OBVIOUS
<1> HIDE DEF new
<1>2. {"kind", "marks"} \subseteq DOMAIN c
  BY DEF IsContent
<1>3. new.kind = c.kind
  BY <1>1, <1>2
<1>4. c.kind = "cmake" => new.project = c.project /\ new.lists = c.lists
  BY <1>1 DEF IsContent
<1>5. c.kind = "shelf" => /\ new.containers = c.containers /\ new.operations = c.operations
                         /\ {"containers", "operations", "keys"} \subseteq DOMAIN new
  BY <1>1 DEF IsContent
<1>6. IsContent(new)
  BY <1>1, <1>2, <1>3, <1>4, <1>5 DEF IsContent
<1>7. c.kind = "shelf" => PreloadedBy(new) = PreloadedBy(c)
  BY <1>5 DEF PreloadedBy
<1> QED
  BY <1>3, <1>4, <1>6, <1>7 DEF SameUse, new

LEMMA EntryFacts ==
  ASSUME NEW c, IsContent(c), c.kind = "shelf"
  PROVE  SameUse(c, [c EXCEPT !.keys = @ \cup {edits'}])
<1> DEFINE new == [c EXCEPT !.keys = @ \cup {edits'}]
<1>1. DOMAIN new = DOMAIN c /\ \A x \in DOMAIN c : x # "keys" => new[x] = c[x]
  OBVIOUS
<1> HIDE DEF new
<1>2. {"kind", "marks", "containers", "operations", "keys"} \subseteq DOMAIN c
  BY DEF IsContent
<1>3. new.kind = c.kind /\ new.containers = c.containers /\ new.operations = c.operations
  BY <1>1, <1>2
<1>4. IsContent(new)
  BY <1>1, <1>2, <1>3 DEF IsContent
<1>5. PreloadedBy(new) = PreloadedBy(c)
  BY <1>3 DEF PreloadedBy
<1> QED
  BY <1>3, <1>4, <1>5 DEF SameUse, new

LEMMA ListFormFacts ==
  ASSUME NEW c, IsContent(c), c.kind = "shelf"
  PROVE  SameUse(c, ListForm(c))
<1> DEFINE m == [k \in DOMAIN c.containers |-> [c.containers[k] EXCEPT !.form = "list"]]
           new == [c EXCEPT !.containers = m]
<1>1. ListForm(c) = new
  BY DEF ListForm
<1>2. {"kind", "marks", "containers", "operations", "keys"} \subseteq DOMAIN c
  BY DEF IsContent
<1>3. \A k \in DOMAIN c.containers :
        /\ {"form", "operations"} \subseteq DOMAIN c.containers[k]
        /\ IsASeq(c.containers[k].operations)
  BY DEF IsContent
<1>4. /\ DOMAIN m = DOMAIN c.containers
      /\ \A k \in DOMAIN m : DOMAIN m[k] = DOMAIN c.containers[k] /\ m[k].operations = c.containers[k].operations
  BY <1>3
<1> HIDE DEF m
<1>5. /\ DOMAIN new = DOMAIN c /\ new.kind = c.kind /\ new.containers = m
      /\ new.operations = c.operations
  BY <1>2
<1> HIDE DEF new
<1>6. IsContent(new)
  BY <1>2, <1>3, <1>4, <1>5 DEF IsContent
<1>7. \A w : w \in PreloadedBy(new) <=> w \in PreloadedBy(c)
  <2> SUFFICES ASSUME NEW w PROVE w \in PreloadedBy(new) <=> w \in PreloadedBy(c)
    OBVIOUS
  <2>1. w \in PreloadedBy(new) <=>
           \/ \E k \in DOMAIN m : w = <<k>>
           \/ \E k \in DOMAIN m : \E op \in Range(m[k].operations) : w = <<k, op>>
           \/ \E op \in Range(c.operations) : w = <<op>>
    BY <1>5, PreloadedByWhere
  <2>2. w \in PreloadedBy(c) <=>
           \/ \E k \in DOMAIN c.containers : w = <<k>>
           \/ \E k \in DOMAIN c.containers : \E op \in Range(c.containers[k].operations) : w = <<k, op>>
           \/ \E op \in Range(c.operations) : w = <<op>>
    BY PreloadedByWhere
  <2> QED
    BY <1>4, <2>1, <2>2
<1> QED
  BY <1>1, <1>5, <1>6, <1>7 DEF SameUse

LEMMA SameUseTwice ==
  ASSUME NEW a, NEW b, NEW c, SameUse(a, b), SameUse(b, c)
  PROVE  SameUse(a, c)
  BY DEF SameUse

LEMMA EditedFacts ==
  ASSUME NEW F, NEW f \in DOMAIN F, NEW new, SameUse(F[f], new)
  PROVE  LET G == [F EXCEPT ![f] = new]
         IN  /\ ListedIn(G) = ListedIn(F) /\ PreloadedIn(G) = PreloadedIn(F)
             /\ IsComponent(G) <=> IsComponent(F)
             /\ ComponentOK(F) => ComponentOK(G)
<1> DEFINE G == [F EXCEPT ![f] = new]
<1>1. DOMAIN G = DOMAIN F /\ G[f] = new /\ \A g \in DOMAIN F \ {f} : G[g] = F[g]
  OBVIOUS
<1> HIDE DEF G
<1>2. \A g \in DOMAIN F : G[g].kind = F[g].kind
  BY <1>1 DEF SameUse
<1>3. IsComponent(G) <=> IsComponent(F)
  BY <1>1, <1>2 DEF IsComponent
<1>4. IsComponent(F) => G[CMakeLists].project = F[CMakeLists].project /\ G[CMakeLists].lists = F[CMakeLists].lists
  BY <1>1 DEF IsComponent, SameUse
<1>5. ListedIn(G) = ListedIn(F)
  BY <1>3, <1>4 DEF ListedIn
<1>6. Shelves(G) = Shelves(F)
  BY <1>1, <1>2 DEF Shelves
<1>7. \A g \in Shelves(F) : PreloadedBy(G[g]) = PreloadedBy(F[g])
  BY <1>1 DEF Shelves, SameUse
<1>8. \A w : w \in PreloadedIn(G) <=> w \in PreloadedIn(F)
  BY <1>6, <1>7, PreloadedWhere
<1>9. /\ \A n : ShelvesAre(F, n) => ShelvesAre(G, n)
      /\ \A w : HasSource(F, w) => HasSource(G, w)
  BY <1>1 DEF ShelvesAre, HasSource
<1>10. PreloadedIn(G) = PreloadedIn(F)
  BY <1>8
<1>11. ComponentOK(F) => ComponentOK(G)
  BY <1>3, <1>4, <1>5, <1>9, <1>10 DEF ComponentOK
<1> QED
  BY <1>3, <1>5, <1>10, <1>11 DEF G
Marked(c, new) == MarksIn(c) \cup {edits'} \subseteq MarksIn(new)

LEMMA MarkFacts ==
  ASSUME NEW c, IsContent(c)
  PROVE  /\ Marked(c, Remark(c))
         /\ c.kind = "shelf" => Marked(c, Entry(c)) /\ MarksIn(ListForm(c)) = MarksIn(c)
<1>1. {"kind", "marks"} \subseteq DOMAIN c /\ (c.kind = "shelf" => {"containers", "keys"} \subseteq DOMAIN c)
  BY DEF IsContent
<1>2. Marked(c, Remark(c))
  <2> DEFINE new == [c EXCEPT !.marks = @ \cup {edits'}]
  <2>1. new.marks = c.marks \cup {edits'} /\ new.kind = c.kind /\ (c.kind = "shelf" => new.keys = c.keys)
    BY <1>1
  <2> HIDE DEF new
  <2>2. MarksIn(c) \cup {edits'} \subseteq MarksIn(new)
    BY <2>1 DEF MarksIn
  <2> QED
    BY <2>2 DEF Marked, Remark, new
<1>3. ASSUME c.kind = "shelf" PROVE Marked(c, Entry(c))
  <2> DEFINE new == [c EXCEPT !.keys = @ \cup {edits'}]
  <2>1. new.marks = c.marks /\ new.kind = "shelf" /\ new.keys = c.keys \cup {edits'}
    BY <1>1, <1>3
  <2> HIDE DEF new
  <2>2. MarksIn(c) \cup {edits'} \subseteq MarksIn(new)
    BY <1>3, <2>1 DEF MarksIn
  <2> QED
    BY <2>2 DEF Marked, Entry, new
<1>4. ASSUME c.kind = "shelf" PROVE MarksIn(ListForm(c)) = MarksIn(c)
  <2> DEFINE m == [k \in DOMAIN c.containers |-> [c.containers[k] EXCEPT !.form = "list"]]
             new == [c EXCEPT !.containers = m]
  <2>1. ListForm(c) = new
    BY DEF ListForm
  <2> HIDE DEF m
  <2>2. new.marks = c.marks /\ new.kind = "shelf" /\ new.keys = c.keys
    BY <1>1, <1>4
  <2> HIDE DEF new
  <2> QED
    BY <1>4, <2>1, <2>2 DEF MarksIn
<1> QED
  BY <1>2, <1>3, <1>4

LEMMA EditFacts ==
  ASSUME ToolInv, Edit
  PROVE  \E d \in DOMAIN disk : \E f \in DOMAIN disk[d] : \E new :
           /\ SameUse(disk[d][f], new) /\ Marked(disk[d][f], new)
           /\ disk' = [disk EXCEPT ![d] = [disk[d] EXCEPT ![f] = new]]
<1>1. PICK d \in DOMAIN disk : \E f \in DOMAIN disk[d] :
        LET c == disk[d][f]
        IN  \E new \in {Remark(c)} \cup (IF c.kind = "shelf" THEN {Entry(c), Remark(ListForm(c))} ELSE {}) :
              disk' = [disk EXCEPT ![d][f] = new]
  BY DEF Edit
<1>2. PICK f \in DOMAIN disk[d] :
        LET c == disk[d][f]
        IN  \E new \in {Remark(c)} \cup (IF c.kind = "shelf" THEN {Entry(c), Remark(ListForm(c))} ELSE {}) :
              disk' = [disk EXCEPT ![d][f] = new]
  BY <1>1
<1> DEFINE c == disk[d][f]
<1>3. PICK new \in {Remark(c)} \cup (IF c.kind = "shelf" THEN {Entry(c), Remark(ListForm(c))} ELSE {}) :
        disk' = [disk EXCEPT ![d][f] = new]
  BY <1>2
<1>4. IsContent(c)
  BY DEF ToolInv, DiskKnown
<1> HIDE DEF c
<1>5. SameUse(c, Remark(c)) /\ Marked(c, Remark(c))
  BY <1>4, MarkFacts, RemarkFacts DEF Remark
<1>6. ASSUME c.kind = "shelf"
      PROVE  /\ SameUse(c, Entry(c)) /\ Marked(c, Entry(c))
             /\ SameUse(c, Remark(ListForm(c))) /\ Marked(c, Remark(ListForm(c)))
  <2>1. SameUse(c, Entry(c))
    BY <1>4, <1>6, EntryFacts DEF Entry
  <2>2. SameUse(c, ListForm(c))
    BY <1>4, <1>6, ListFormFacts
  <2>3. IsContent(ListForm(c))
    BY <2>2 DEF SameUse
  <2>4. SameUse(ListForm(c), Remark(ListForm(c)))
    BY <2>3, RemarkFacts DEF Remark
  <2>5. Marked(c, Entry(c)) /\ MarksIn(ListForm(c)) = MarksIn(c)
    BY <1>4, <1>6, MarkFacts
  <2>6. Marked(ListForm(c), Remark(ListForm(c)))
    BY <2>3, MarkFacts
  <2>7. Marked(c, Remark(ListForm(c)))
    BY <2>5, <2>6 DEF Marked
  <2> QED
    BY <2>1, <2>2, <2>4, <2>5, <2>7, SameUseTwice
<1>7. SameUse(c, new) /\ Marked(c, new)
  BY <1>3, <1>5, <1>6
<1>8. disk' = [disk EXCEPT ![d] = [disk[d] EXCEPT ![f] = new]]
  BY <1>3
<1> QED
  BY <1>7, <1>8 DEF c

LEMMA EditStep == ASSUME ToolInv, Edit PROVE ToolInv'
<1>1. PICK d \in DOMAIN disk : \E f \in DOMAIN disk[d] : \E new :
        /\ SameUse(disk[d][f], new) /\ Marked(disk[d][f], new)
        /\ disk' = [disk EXCEPT ![d] = [disk[d] EXCEPT ![f] = new]]
  BY EditFacts
<1>2. PICK f \in DOMAIN disk[d] : \E new :
        /\ SameUse(disk[d][f], new) /\ Marked(disk[d][f], new)
        /\ disk' = [disk EXCEPT ![d] = [disk[d] EXCEPT ![f] = new]]
  BY <1>1
<1>3. PICK new :
        /\ SameUse(disk[d][f], new) /\ Marked(disk[d][f], new)
        /\ disk' = [disk EXCEPT ![d] = [disk[d] EXCEPT ![f] = new]]
  BY <1>2
<1> DEFINE F == disk[d]
           G == [F EXCEPT ![f] = new]
<1>4. /\ now = "idle" /\ UNCHANGED <<clock, now, options, name, todo, exit, cut>> /\ edits' = edits + 1
  BY DEF Edit, invocation
<1>5. /\ ListedIn(G) = ListedIn(F) /\ PreloadedIn(G) = PreloadedIn(F)
      /\ IsComponent(G) <=> IsComponent(F)
      /\ ComponentOK(F) => ComponentOK(G)
  BY <1>3, EditedFacts
<1>6. /\ DOMAIN disk' = DOMAIN disk /\ disk'[d] = G
      /\ \A e \in DOMAIN disk \ {d} : disk'[e] = disk[e]
  BY <1>3
<1>7. \A g \in DOMAIN G : IsContent(G[g])
  <2>1. \A g \in DOMAIN F : IsContent(F[g])
    BY DEF ToolInv, DiskKnown
  <2>2. IsContent(new)
    BY <1>3 DEF SameUse
  <2> QED
    BY <2>1, <2>2
<1> HIDE DEF G
<1>8. dir' = dir /\ Asked' = Asked
  BY <1>4 DEF dir, Asked
<1>9. \A e \in DOMAIN disk : ListedIn(disk'[e]) = ListedIn(disk[e]) /\ PreloadedIn(disk'[e]) = PreloadedIn(disk[e])
                          /\ (IsComponent(disk'[e]) <=> IsComponent(disk[e]))
  BY <1>5, <1>6
<1>10. RunKnown'
  BY <1>4, <1>6, <1>8, <1>9 DEF ToolInv, RunKnown
<1>11. DiskKnown'
  BY <1>4, <1>5, <1>6, <1>7, <1>8, <1>9 DEF ToolInv, DiskKnown
<1>12. BusyKnown'
  BY <1>4 DEF BusyKnown
<1> QED
  BY <1>10, <1>11, <1>12 DEF ToolInv

\* The steps of a run at its start.
LEMMA StepRanks ==
  ASSUME NEW part \in Kinds, NEW o
  PROVE  /\ Rank(Generate(part, o)) = Bases[part] + 1
         /\ Rank(List(part)) = Bases[part] + 2
         /\ Rank(Shelve(part)) = Bases[part] + 3
         /\ Rank(Check) = 8
         /\ Bases[part] \in Nat
  BY DEF Rank, Generate, List, Shelve, Check, Bases, Kinds, Parts

LEMMA AddFacts ==
  ASSUME NEW part \in Parts, NEW o
  PROVE  /\ IsASeq(Add(part, o)) /\ Ordered(Add(part, o))
         /\ Range(Add(part, o)) = {Generate(part, o), List(part), Shelve(part)}
         /\ \A x \in Range(Add(part, o)) : Rank(x) \in Bases[part] + 1 .. Bases[part] + 3
<1> DEFINE a == Generate(part, o)
           b == List(part)
           c == Shelve(part)
           s == <<a, b, c>>
<1>0. Add(part, o) = s
  BY DEF Add
<1>1. /\ Rank(a) = Bases[part] + 1 /\ Rank(b) = Bases[part] + 2 /\ Rank(c) = Bases[part] + 3
      /\ Bases[part] \in Nat
  <2>1. part \in Kinds
    BY DEF Kinds
  <2> QED
    BY <2>1, StepRanks
<1> HIDE DEF a, b, c
<1>2. DOMAIN s = {1, 2, 3} /\ s[1] = a /\ s[2] = b /\ s[3] = c
  OBVIOUS
<1>3. s \in Seq({a, b, c})
  OBVIOUS
<1> HIDE DEF s
<1>4. Range(s) = {a, b, c}
  BY <1>2 DEF Range
<1>5. IsASeq(s)
  BY <1>3, <1>4 DEF IsASeq
<1>6. Ordered(s)
  BY <1>1, <1>2 DEF Ordered
<1>7. \A x \in Range(s) : Rank(x) \in Bases[part] + 1 .. Bases[part] + 3
  BY <1>1, <1>4
<1> QED
  BY <1>0, <1>4, <1>5, <1>6, <1>7 DEF a, b, c
Ranked(s, low, high) == IsASeq(s) /\ Ordered(s) /\ \A x \in Range(s) : Rank(x) \in low .. high

LEMMA JoinRanked ==
  ASSUME NEW s, NEW t, NEW a \in Nat, NEW b \in Nat, NEW c \in Nat, NEW d \in Nat,
         Ranked(s, a, b), Ranked(t, c, d), b < c, a <= c, b <= d
  PROVE  Ranked(s \o t, a, d) /\ Range(s \o t) = Range(s) \cup Range(t)
<1>0. /\ IsASeq(s) /\ Ordered(s) /\ IsASeq(t) /\ Ordered(t)
      /\ \A x \in Range(s) : Rank(x) \in a .. b
      /\ \A x \in Range(t) : Rank(x) \in c .. d
  BY DEF Ranked
<1>1. IsASeq(s \o t) /\ Range(s \o t) = Range(s) \cup Range(t)
  BY <1>0, JoinFacts
<1>2. ASSUME NEW x \in Range(s), NEW y \in Range(t) PROVE Rank(x) < Rank(y)
  <2>1. Rank(x) \in a .. b /\ Rank(y) \in c .. d
    BY <1>0
  <2> QED
    BY <2>1
<1>3. Ordered(s \o t)
  BY <1>0, <1>2, OrderedJoin
<1>4. ASSUME NEW x \in Range(s \o t) PROVE Rank(x) \in a .. d
  <2>1. Rank(x) \in a .. b \/ Rank(x) \in c .. d
    BY <1>0, <1>1
  <2> QED
    BY <2>1
<1> QED
  BY <1>1, <1>3, <1>4 DEF Ranked

LEMMA MainStepsFacts ==
  ASSUME NEW o
  PROVE  LET q == MainSteps(o)
         IN  /\ IsASeq(q) /\ Ordered(q)
             /\ \A s : s \in Range(q) <=>
                  \/ Destination(o) \notin DOMAIN disk /\ s = Generate("component", o)
                  \/ o.container_operation # "" /\ s = Check
                  \/ \E p \in Parts : o[p] # "" /\ s \in {Generate(p, o), List(p), Shelve(p)}
<1> DEFINE one == <<Generate("component", o)>>
           A == IF Destination(o) \in DOMAIN disk THEN <<>> ELSE one
           B == Wanted("container", o, Add("container", o))
           K == <<Check>>
           KC == K \o Add("container_operation", o)
           C == Wanted("container_operation", o, KC)
           D == Wanted("operation", o, Add("operation", o))
           AB == A \o B
           ABC == AB \o C
           q == ABC \o D
<1>0. q = MainSteps(o)
  BY DEF MainSteps
<1>1. /\ Bases["component"] = 0 /\ Bases["container"] = 4
      /\ Bases["container_operation"] = 8 /\ Bases["operation"] = 12
  BY DEF Bases
<1>2. "component" \in Kinds /\ Parts = {"container", "container_operation", "operation"}
  BY DEF Kinds, Parts
<1>3. Rank(Generate("component", o)) = 1 /\ Rank(Check) = 8
  BY <1>1, <1>2, StepRanks
<1>4. IsASeq(<<>>) /\ Range(<<>>) = {} /\ Ordered(<<>>)
  BY EmptyFacts DEF Ordered
<1>5. /\ IsASeq(A) /\ Ordered(A)
      /\ Range(A) = IF Destination(o) \in DOMAIN disk THEN {} ELSE {Generate("component", o)}
      /\ \A x \in Range(A) : Rank(x) = 1
  <2>1. IsASeq(one) /\ Ordered(one) /\ Range(one) = {Generate("component", o)}
    BY SingleFacts, SingleOrdered
  <2> HIDE DEF one
  <2> QED
    BY <1>3, <1>4, <2>1
<1>6. /\ IsASeq(B) /\ Ordered(B)
      /\ Range(B) = IF o["container"] = "" THEN {}
                    ELSE {Generate("container", o), List("container"), Shelve("container")}
      /\ \A x \in Range(B) : Rank(x) \in 5 .. 7
  <2>1. /\ IsASeq(Add("container", o)) /\ Ordered(Add("container", o))
        /\ Range(Add("container", o)) = {Generate("container", o), List("container"), Shelve("container")}
        /\ \A x \in Range(Add("container", o)) : Rank(x) \in 4 + 1 .. 4 + 3
    BY <1>1, <1>2, AddFacts
  <2> DEFINE E == Add("container", o)
  <2> HIDE DEF E
  <2>2. \A x \in Range(E) : Rank(x) \in 5 .. 7
    BY <2>1 DEF E
  <2>3. B = IF o["container"] = "" THEN <<>> ELSE E
    BY DEF Wanted, E
  <2> HIDE DEF B
  <2>4. CASE o["container"] = ""
    BY <1>4, <2>3, <2>4
  <2>5. CASE o["container"] # ""
    BY <2>1, <2>2, <2>3, <2>5 DEF E
  <2> QED
    BY <2>4, <2>5
<1>7. /\ IsASeq(C) /\ Ordered(C)
      /\ Range(C) = IF o["container_operation"] = "" THEN {}
                    ELSE {Check, Generate("container_operation", o), List("container_operation"), Shelve("container_operation")}
      /\ \A x \in Range(C) : Rank(x) \in 8 .. 11
  <2> DEFINE E == Add("container_operation", o)
  <2>1. /\ IsASeq(E) /\ Ordered(E)
        /\ Range(E) = {Generate("container_operation", o), List("container_operation"), Shelve("container_operation")}
        /\ \A x \in Range(E) : Rank(x) \in 8 + 1 .. 8 + 3
    BY <1>1, <1>2, AddFacts
  <2>2. IsASeq(K) /\ Ordered(K) /\ Range(K) = {Check}
    BY SingleFacts, SingleOrdered
  <2> HIDE DEF E, K
  <2>3. IsASeq(K \o E) /\ Range(K \o E) = {Check} \cup Range(E)
    BY <2>1, <2>2, JoinFacts
  <2>4. Ordered(K \o E)
    <3>1. \A x \in Range(K), y \in Range(E) : Rank(x) < Rank(y)
      BY <1>3, <2>1, <2>2
    <3> QED
      BY <3>1, <2>1, <2>2, OrderedJoin
  <2>5. \A x \in Range(K \o E) : Rank(x) \in 8 .. 11
    BY <1>3, <2>1, <2>3
  <2>6. KC = K \o E
    BY DEF E
  <2> HIDE DEF KC
  <2>7. C = IF o["container_operation"] = "" THEN <<>> ELSE KC
    BY DEF Wanted
  <2> HIDE DEF C
  <2>8. CASE o["container_operation"] = ""
    BY <1>4, <2>7, <2>8
  <2>9. CASE o["container_operation"] # ""
    BY <2>1, <2>3, <2>4, <2>5, <2>6, <2>7, <2>9
  <2> QED
    BY <2>8, <2>9
<1>8. /\ IsASeq(D) /\ Ordered(D)
      /\ Range(D) = IF o["operation"] = "" THEN {}
                    ELSE {Generate("operation", o), List("operation"), Shelve("operation")}
      /\ \A x \in Range(D) : Rank(x) \in 13 .. 15
  <2>1. /\ IsASeq(Add("operation", o)) /\ Ordered(Add("operation", o))
        /\ Range(Add("operation", o)) = {Generate("operation", o), List("operation"), Shelve("operation")}
        /\ \A x \in Range(Add("operation", o)) : Rank(x) \in 12 + 1 .. 12 + 3
    BY <1>1, <1>2, AddFacts
  <2> DEFINE E == Add("operation", o)
  <2> HIDE DEF E
  <2>2. \A x \in Range(E) : Rank(x) \in 13 .. 15
    BY <2>1 DEF E
  <2>3. D = IF o["operation"] = "" THEN <<>> ELSE E
    BY DEF Wanted, E
  <2> HIDE DEF D
  <2>4. CASE o["operation"] = ""
    BY <1>4, <2>3, <2>4
  <2>5. CASE o["operation"] # ""
    BY <2>1, <2>2, <2>3, <2>5 DEF E
  <2> QED
    BY <2>4, <2>5
<1> HIDE DEF A, B, C, D, one, K, KC
<1>9. IsASeq(AB) /\ Ordered(AB) /\ Range(AB) = Range(A) \cup Range(B) /\ \A x \in Range(AB) : Rank(x) \in 1 .. 7
  <2>1. \A x \in Range(A) : Rank(x) \in 1 .. 1
    BY <1>5
  <2>2. 1 \in Nat /\ 5 \in Nat /\ 7 \in Nat /\ 1 < 5 /\ 1 <= 5 /\ 1 <= 7
    OBVIOUS
  <2>3. Ranked(A, 1, 1) /\ Ranked(B, 5, 7)
    BY <1>5, <1>6, <2>1 DEF Ranked
  <2>4. Ranked(AB, 1, 7) /\ Range(AB) = Range(A) \cup Range(B)
    BY <2>2, <2>3, JoinRanked
  <2> QED
    BY <2>4 DEF Ranked
<1> HIDE DEF AB
<1>10. IsASeq(ABC) /\ Ordered(ABC) /\ Range(ABC) = Range(AB) \cup Range(C) /\ \A x \in Range(ABC) : Rank(x) \in 1 .. 11
  <2>1. 1 \in Nat /\ 7 \in Nat /\ 8 \in Nat /\ 11 \in Nat /\ 7 < 8 /\ 1 <= 8 /\ 7 <= 11
    OBVIOUS
  <2>2. Ranked(AB, 1, 7) /\ Ranked(C, 8, 11)
    BY <1>7, <1>9 DEF Ranked
  <2>3. Ranked(ABC, 1, 11) /\ Range(ABC) = Range(AB) \cup Range(C)
    BY <2>1, <2>2, JoinRanked
  <2> QED
    BY <2>3 DEF Ranked
<1> HIDE DEF ABC
<1>11. IsASeq(q) /\ Ordered(q) /\ Range(q) = Range(ABC) \cup Range(D)
  <2>1. 1 \in Nat /\ 11 \in Nat /\ 13 \in Nat /\ 15 \in Nat /\ 11 < 13 /\ 1 <= 13 /\ 11 <= 15
    OBVIOUS
  <2>2. Ranked(ABC, 1, 11) /\ Ranked(D, 13, 15)
    BY <1>8, <1>10 DEF Ranked
  <2>3. Ranked(q, 1, 15) /\ Range(q) = Range(ABC) \cup Range(D)
    BY <2>1, <2>2, JoinRanked
  <2> QED
    BY <2>3 DEF Ranked
<1> HIDE DEF q
<1>12. ASSUME NEW s
       PROVE  s \in Range(q) <=>
                \/ Destination(o) \notin DOMAIN disk /\ s = Generate("component", o)
                \/ o.container_operation # "" /\ s = Check
                \/ \E p \in Parts : o[p] # "" /\ s \in {Generate(p, o), List(p), Shelve(p)}
  <2>1. s \in Range(q) <=> s \in Range(A) \/ s \in Range(B) \/ s \in Range(C) \/ s \in Range(D)
    BY <1>9, <1>10, <1>11
  <2> QED
    BY <1>2, <1>5, <1>6, <1>7, <1>8, <2>1
<1> QED
  BY <1>0, <1>11, <1>12

LEMMA NothingByDefault == \A p \in Parts : Defaults(ToolOptions)[p] = ""
<1> DEFINE T == ToolOptions
<1>1. /\ DOMAIN T = 1 .. 8
      /\ T[1].key = "verbose" /\ T[2].key = "templateDir" /\ T[3].key = "container" /\ T[4].key = "force"
      /\ T[5].key = "container_operation" /\ T[6].key = "operation" /\ T[7].key = "name"
      /\ T[8].key = "destination"
      /\ T[3].default = "" /\ T[5].default = "" /\ T[6].default = ""
  <2> DEFINE a == FlagOption("-v", "--verbose", "verbose")
             b == ValueOption("-t", "--templateDir", "templateDir", "$JUIZ_ROOT/share/juiz/component_template")
             c == ValueOption("-c", "--container", "container", "")
             d == FlagOption("-f", "--force", "force")
             e == ValueOption("-co", "--container_operation", "container_operation", "")
             f == ValueOption("-op", "--operation", "operation", "")
             g == ValueOption("-n", "--name", "name", "")
             h == ValueOption("-d", "--destination", "destination", "")
  <2>1. T = <<a, b, c, d, e, f, g, h>>
    BY DEF ToolOptions
  <2>2. /\ a.key = "verbose" /\ b.key = "templateDir" /\ c.key = "container" /\ d.key = "force"
        /\ e.key = "container_operation" /\ f.key = "operation" /\ g.key = "name" /\ h.key = "destination"
        /\ c.default = "" /\ e.default = "" /\ f.default = ""
    BY DEF FlagOption, ValueOption
  <2> HIDE DEF T, a, b, c, d, e, f, g, h
  <2>3. /\ DOMAIN T = 1 .. 8
        /\ T[1] = a /\ T[2] = b /\ T[3] = c /\ T[4] = d /\ T[5] = e /\ T[6] = f /\ T[7] = g /\ T[8] = h
    BY <2>1
  <2> QED
    BY <2>2, <2>3
<1> HIDE DEF T
<1> SUFFICES ASSUME NEW p \in Parts PROVE Defaults(T)[p] = ""
  BY DEF T
<1> DEFINE i == CHOOSE j \in DOMAIN T : T[j].key = p
<1>2. \E j \in DOMAIN T : T[j].key = p
  <2>0. DOMAIN T = 1 .. 8
    BY <1>1
  <2>1. 3 \in DOMAIN T /\ 5 \in DOMAIN T /\ 6 \in DOMAIN T
    BY ONLY <2>0
  <2>2. T[3].key = "container" /\ T[5].key = "container_operation" /\ T[6].key = "operation"
    BY <1>1
  <2> QED
    BY <2>1, <2>2 DEF Parts
<1>3. i \in DOMAIN T /\ T[i].key = p
  BY <1>2
<1>4. Defaults(T)[p] = T[i].default
  BY <1>2 DEF Defaults
<1> HIDE DEF i
<1>5. i \in {1, 2, 3, 4, 5, 6, 7, 8}
  <2>1. DOMAIN T = 1 .. 8 /\ i \in DOMAIN T
    BY <1>1, <1>3
  <2> QED
    BY ONLY <2>1
<1>6. p \in {"container", "container_operation", "operation"}
  BY DEF Parts
<1>7. i \in {3, 5, 6}
  BY <1>1, <1>3, <1>5, <1>6
<1> QED
  BY <1>1, <1>4, <1>7

LEMMA PairFacts == ASSUME NEW a, NEW b PROVE b \in Range(<<a, b>>)
<1>1. 2 \in DOMAIN <<a, b>> /\ <<a, b>>[2] = b
  OBVIOUS
<1> QED
  BY <1>1 DEF Range

LEMMA StartRun ==
  ASSUME NEW o, NEW n, NEW F, NEW c, o.templateDir \in DOMAIN Templates,
         o.container_operation # "" => o.container # "",
         ComponentOK(F), ShelvesAre(F, n), IsComponent(F) => F[CMakeLists].project = n,
         Destination(o) \in DOMAIN disk => IsComponent(F),
         Destination(o) \notin DOMAIN disk =>
           CMakeLists \notin DOMAIN F /\ PreloadedIn(F) = {} /\ ListedIn(F) = {},
         ~c => ListedIn(F) \subseteq PreloadedIn(F)
  PROVE  IsASeq(MainSteps(o)) /\ Running(MainSteps(o), F, o, n, c)
<1> DEFINE q == MainSteps(o)
<1>1. /\ IsASeq(q) /\ Ordered(q)
      /\ \A s : s \in Range(q) <=>
           \/ Destination(o) \notin DOMAIN disk /\ s = Generate("component", o)
           \/ o.container_operation # "" /\ s = Check
           \/ \E p \in Parts : o[p] # "" /\ s \in {Generate(p, o), List(p), Shelve(p)}
  BY MainStepsFacts
<1> HIDE DEF q
<1>2. /\ \A k : /\ Generate(k, o).do = "generate" /\ Generate(k, o).kind = k
                /\ Generate(k, o).left = {t \in Templates[o.templateDir] : Matches(k, t)}
                /\ DOMAIN Generate(k, o) = {"do", "kind", "left"}
                /\ List(k).do = "list" /\ List(k).kind = k
                /\ Shelve(k).do = "shelve" /\ Shelve(k).kind = k
      /\ Check.do = "check" /\ Check.kind = "container_operation"
  BY DEF Generate, List, Shelve, Check
<1>3. ASSUME NEW s \in Range(q) PROVE IsStep(s, o, n) /\ s.do \in Big
  <2>0. ASSUME NEW k \in Kinds, k \in Parts => o[k] # "", s = Generate(k, o) PROVE IsStep(s, o, n) /\ s.do \in Big
    <3>1. /\ s.do = "generate" /\ s.kind = k
          /\ s.left = {t \in Templates[o.templateDir] : Matches(k, t)}
          /\ DOMAIN s = {"do", "kind", "left"}
      BY <1>2, <2>0
    <3>2. /\ s.left \subseteq {t \in Templates[o.templateDir] : Matches(s.kind, t)}
          /\ {"do", "kind", "left"} \subseteq DOMAIN s
      BY <3>1
    <3> QED
      BY <2>0, <3>1, <3>2 DEF IsStep, Big
  <2>1. CASE s = Generate("component", o)
    <3>1. "component" \in Kinds /\ "component" \notin Parts
      BY DEF Kinds, Parts
    <3> QED
      BY <2>0, <2>1, <3>1
  <2>2. CASE o.container_operation # "" /\ s = Check
    <3>1. s.do = "check" /\ s.kind = "container_operation"
      BY <1>2, <2>2
    <3> QED
      BY <2>2, <3>1 DEF IsStep, Big
  <2>3. ASSUME NEW p \in Parts, o[p] # "", s = Generate(p, o) PROVE IsStep(s, o, n) /\ s.do \in Big
    <3>1. p \in Kinds
      BY DEF Kinds
    <3> QED
      BY <2>0, <2>3, <3>1
  <2>4. ASSUME NEW p \in Parts, o[p] # "", s = List(p) PROVE IsStep(s, o, n) /\ s.do \in Big
    BY <1>2, <2>4 DEF IsStep, Big, Kinds
  <2>5. ASSUME NEW p \in Parts, o[p] # "", s = Shelve(p) PROVE IsStep(s, o, n) /\ s.do \in Big
    BY <1>2, <2>5 DEF IsStep, Big, Kinds
  <2> QED
    BY <1>1, <2>1, <2>2, <2>3, <2>4, <2>5
<1>4. Updating(q, F)
  <2>1. q # <<>> => Head(q) \in Range(q)
    BY <1>1, ConsFacts
  <2> QED
    BY <2>1, <1>3 DEF Updating, Big
<1>5. Settled(q, F) = F
  BY <1>3 DEF Settled, Fills, Big
<1>6. ASSUME NEW k \in Kinds, Generate(k, o) \in Range(q) PROVE HasTemplate(q, k)
  <2>1. TemplateFor(k) \in {<<"CMakeLists">>, <<"ContainerName">>, <<"operationName">>,
                           <<"ContainerName", "containerOperationName">>}
    BY DEF TemplateFor, Kinds, Parts
  <2>2. PICK t \in Templates[o.templateDir] : t.words = TemplateFor(k)
    BY <2>1, TemplateAssumption
  <2>3. Matches(k, t)
    <3>1. /\ "containerOperationName" \in Range(<<"ContainerName", "containerOperationName">>)
          /\ "operationName" \in Range(<<"operationName">>)
      <4>2. Range(<<"operationName">>) = {"operationName"}
        BY SingleFacts
      <4>5. "containerOperationName" \in Range(<<"ContainerName", "containerOperationName">>)
        BY PairFacts
      <4> QED
        BY <4>2, <4>5
    <3> QED
      BY <2>2, <3>1 DEF Matches, TemplateFor, Kinds, Parts
  <2> QED
    BY <1>2, <1>6, <2>2, <2>3 DEF HasTemplate
<1>7. ASSUME NEW p \in Parts, o[p] # "" PROVE PartDone(p, q, F, o)
  <2>1. Generate(p, o) \in Range(q) /\ List(p) \in Range(q) /\ Shelve(p) \in Range(q) /\ p \in Kinds
    BY <1>1, <1>7 DEF Kinds
  <2> QED
    BY <1>2, <1>6, <2>1 DEF PartDone, Pending
<1>8. CMakeLists \in DOMAIN F => IsComponent(F) /\ F[CMakeLists].project = n
  BY DEF IsComponent
<1>9. CMakeLists \in DOMAIN F \/ HasTemplate(q, "component")
  BY <1>1, <1>6 DEF IsComponent, Kinds
<1>10. Pending(q, "generate", "component") => PreloadedIn(F) = {} /\ ListedIn(F) = {}
  <2> SUFFICES ASSUME Pending(q, "generate", "component") PROVE Destination(o) \notin DOMAIN disk
    OBVIOUS
  <2>1. PICK s \in Range(q) : s.do = "generate" /\ s.kind = "component"
    BY DEF Pending
  <2>2. \A p \in Parts : p # "component"
    BY DEF Parts
  <2>3. s # Check
    BY <1>2, <2>1
  <2>4. ASSUME NEW p \in Parts PROVE s \notin {Generate(p, o), List(p), Shelve(p)}
    <3>1. Generate(p, o).kind = p /\ List(p).do = "list" /\ Shelve(p).do = "shelve"
      BY <1>2
    <3> QED
      BY <2>1, <2>2, <3>1
  <2> QED
    BY <1>1, <2>1, <2>3, <2>4
<1>11. ~c => Unshelved(q, F, o)
  BY DEF Unshelved
<1>12. Progress(q, F, o, n, c)
  BY <1>7, <1>8, <1>9, <1>10, <1>11 DEF Progress
<1> QED
  BY <1>1, <1>3, <1>4, <1>5, <1>12 DEF Running, q

\* A command line is refused, or its run begins in a directory that is a component
\* or has nothing in it.
LEMMA EndOfParse ==
  ASSUME NEW args
  PROVE  Parse(ToolOptions, args).end \in {"usage", "faulted", "parsed"}
  BY DEF Parse

LEMMA NothingThere ==
  /\ DOMAIN <<>> = {}
  /\ ~IsComponent(<<>>) /\ CMakeLists \notin DOMAIN <<>>
  /\ ComponentOK(<<>>) /\ PreloadedIn(<<>>) = {} /\ ListedIn(<<>>) = {}
  /\ \A n : ShelvesAre(<<>>, n)
<1>1. DOMAIN <<>> = {}
  OBVIOUS
<1>2. ~IsComponent(<<>>) /\ CMakeLists \notin DOMAIN <<>> /\ \A n : ShelvesAre(<<>>, n)
  BY <1>1 DEF IsComponent, ShelvesAre
<1>3. Shelves(<<>>) = {}
  BY <1>1 DEF Shelves
<1>4. PreloadedIn(<<>>) = {}
  BY <1>3 DEF PreloadedIn
<1> QED
  BY <1>1, <1>2, <1>4 DEF ComponentOK, ListedIn

LEMMA RefuseStep ==
  ASSUME ToolInv, NEW code, Finished(code, Defaults(ToolOptions)), now = "idle",
         UNCHANGED <<disk, clock, edits, cut>>
  PROVE  ToolInv'
<1>1. now' = "idle" /\ todo' = <<>> /\ options' = Defaults(ToolOptions)
  BY DEF Finished
<1>2. Asked' = {}
  BY <1>1, NothingByDefault DEF Asked
<1>3. RunKnown'
  BY <1>1, <1>2, EmptyFacts DEF ToolInv, RunKnown
<1>4. DiskKnown'
  BY <1>1 DEF ToolInv, DiskKnown
<1>5. BusyKnown'
  BY <1>1 DEF BusyKnown
<1> QED
  BY <1>3, <1>4, <1>5 DEF ToolInv

LEMMA BeginStep ==
  ASSUME ToolInv, now = "idle", UNCHANGED <<clock, edits, cut>>,
         NEW o, NEW d, d = Destination(o), o.templateDir \in DOMAIN Templates,
         o.container_operation # "" => o.container # "", ~Refused(o),
         now' = "busy", options' = o, name' = IF o.name # "" THEN o.name ELSE Detected(d),
         todo' = MainSteps(o),
         disk' = IF d \in DOMAIN disk THEN disk ELSE With(disk, d, <<>>)
  PROVE  ToolInv'
<1> DEFINE F == IF d \in DOMAIN disk THEN disk[d] ELSE <<>>
           n == name'
<1>1. ASSUME d \in DOMAIN disk PROVE IsASeq(MainSteps(o)) /\ Running(MainSteps(o), F, o, n, cut)
  <2>1. Detected(d) # "" /\ o.name \in {"", Detected(d)}
    BY <1>1 DEF Refused
  <2>2. IsComponent(disk[d]) /\ n = disk[d][CMakeLists].project
    BY <2>1 DEF Detected
  <2>3. ComponentOK(disk[d]) /\ ShelvesAre(disk[d], n)
    BY <1>1, <2>2 DEF ToolInv, DiskKnown, ComponentOK
  <2>4. ~cut => ListedIn(disk[d]) \subseteq PreloadedIn(disk[d])
    BY <1>1, <2>2 DEF ToolInv, DiskKnown
  <2>5. IsASeq(MainSteps(o)) /\ Running(MainSteps(o), disk[d], o, n, cut)
    BY <1>1, <2>2, <2>3, <2>4, StartRun
  <2> QED
    BY <1>1, <2>5
<1>2. ASSUME d \notin DOMAIN disk PROVE IsASeq(MainSteps(o)) /\ Running(MainSteps(o), F, o, n, cut)
  <2>1. IsASeq(MainSteps(o)) /\ Running(MainSteps(o), <<>>, o, n, cut)
    BY <1>2, NothingThere, StartRun
  <2> QED
    BY <1>2, <2>1
<1>3. IsASeq(MainSteps(o)) /\ Running(MainSteps(o), F, o, n, cut)
  BY <1>1, <1>2
<1>4. d \in DOMAIN disk' /\ disk'[d] = F /\ dir' = d
  BY DEF With, dir
<1>5. ASSUME NEW e \in DOMAIN disk', e # d PROVE e \in DOMAIN disk /\ disk'[e] = disk[e]
  BY <1>5 DEF With
<1>6. (\A f \in DOMAIN F : IsContent(F[f])) /\ ComponentOK(F)
  <2>1. CASE d \in DOMAIN disk
    BY <2>1 DEF ToolInv, DiskKnown
  <2>2. CASE d \notin DOMAIN disk
    <3>1. F = <<>>
      BY <2>2
    <3>2. DOMAIN <<>> = {}
      BY NothingThere
    <3> HIDE DEF F
    <3> QED
      BY <3>1, <3>2, NothingThere
  <2> QED
    BY <2>1, <2>2
<1> HIDE DEF F
<1>7. RunKnown'
  BY <1>3, <1>4 DEF ToolInv, RunKnown
<1>8. DiskKnown'
  <2> SUFFICES ASSUME NEW e \in DOMAIN disk'
               PROVE  /\ \A f \in DOMAIN disk'[e] : IsContent(disk'[e][f])
                      /\ ComponentOK(disk'[e])
                      /\ ~cut /\ IsComponent(disk'[e]) /\ e # d => ListedIn(disk'[e]) \subseteq PreloadedIn(disk'[e])
    BY <1>4 DEF DiskKnown
  <2>1. CASE e = d
    BY <1>4, <1>6, <2>1
  <2>2. CASE e # d
    BY <1>5, <2>2 DEF ToolInv, DiskKnown
  <2> QED
    BY <2>1, <2>2
<1>9. BusyKnown'
  BY <1>3, <1>4 DEF BusyKnown
<1> QED
  BY <1>7, <1>8, <1>9 DEF ToolInv

LEMMA InvokeStep == ASSUME ToolInv, Invoke PROVE ToolInv'
<1>1. now = "idle" /\ UNCHANGED <<clock, edits>>
  BY DEF Invoke
<1>2. PICK args : Start(args)
  BY DEF Invoke
<1> DEFINE parsed == Parse(ToolOptions, args)
           o == parsed.results
           d == Destination(o)
<1>3. parsed.end \in {"usage", "faulted", "parsed"}
  BY EndOfParse
<1>4. \/ \E code \in {"0", "aborted", "-1"} :
           Finished(code, Defaults(ToolOptions)) /\ UNCHANGED <<disk, cut>>
      \/ /\ Valid(parsed) /\ ~Refused(o)
         /\ now' = "busy" /\ options' = o /\ name' = IF o.name # "" THEN o.name ELSE Detected(d)
         /\ todo' = MainSteps(o)
         /\ disk' = IF d \in DOMAIN disk THEN disk ELSE With(disk, d, <<>>)
         /\ UNCHANGED <<exit, cut>>
  BY <1>2, <1>3 DEF Start
<1>5. Valid(parsed) => o.templateDir \in DOMAIN Templates /\ (o.container_operation # "" => o.container # "")
  BY DEF Valid
<1> HIDE DEF parsed, o, d
<1> QED
  BY <1>1, <1>4, <1>5, RefuseStep, BeginStep DEF d

LEMMA AtFirst == ASSUME ToolInit PROVE ToolInv
<1>1. ASSUME NEW d \in DOMAIN disk
      PROVE  /\ \A f \in DOMAIN disk[d] : IsContent(disk[d][f])
             /\ ~IsComponent(disk[d])
  <2>1. disk = FirstDisk
    BY DEF ToolInit
  <2>2. ASSUME NEW f \in DOMAIN disk[d]
        PROVE  f # CMakeLists /\ disk[d][f].kind = "source" /\ {"kind", "marks"} \subseteq DOMAIN disk[d][f]
    BY <2>1, FirstDiskAssumption
  <2> QED
    BY <2>2 DEF IsContent, IsComponent
<1>2. now = "idle" /\ exit = "none" /\ clock = 1 /\ edits = 0 /\ todo = <<>>
  BY DEF ToolInit
<1>4. RunKnown
  BY <1>2, EmptyFacts DEF RunKnown
<1>3. DiskKnown
  BY <1>1 DEF DiskKnown, ComponentOK
<1> QED
  BY <1>2, <1>3, <1>4 DEF ToolInv, BusyKnown

LEMMA NextStep == ASSUME ToolInv, [ToolNext]_toolVars PROVE ToolInv'
<1>1. CASE UNCHANGED toolVars
  <2>1. UNCHANGED <<disk, clock, now, options, name, todo, exit, edits, cut>>
    BY <1>1 DEF toolVars
  <2>2. dir' = dir /\ Asked' = Asked
    BY <2>1 DEF dir, Asked
  <2>3. RunKnown'
    BY <2>1, <2>2 DEF ToolInv, RunKnown
  <2>4. DiskKnown'
    BY <2>1, <2>2 DEF ToolInv, DiskKnown
  <2>5. BusyKnown'
    BY <2>1, <2>2 DEF ToolInv, BusyKnown
  <2> QED
    BY <2>3, <2>4, <2>5 DEF ToolInv
<1>2. CASE ToolNext
  BY <1>2, InvokeStep, KillStep, TickStep, EditStep, GenerateFileStep, GenerateDoneStep, LoopInTextStep,
     UpdateCMakeListsStep, CheckContainerStep, UpdateShelfStep, RenameAction, OpenAction, FillAction,
     MainReturnsStep DEF ToolNext, Main
<1> QED
  BY <1>1, <1>2

LEMMA ToolHolds == ToolSpec => []ToolInv
<1>1. ToolInit => ToolInv
  BY AtFirst
<1>2. ToolInv /\ [ToolNext]_toolVars => ToolInv'
  BY NextStep
<1> QED
  BY <1>1, <1>2, PTL DEF ToolSpec

LEMMA Agreement == ASSUME ToolInv PROVE ComponentAgrees
<1>1. ASSUME NEW d \in DOMAIN disk, ListedIn(disk[d]) # {}
      PROVE  /\ PreloadedIn(disk[d]) \subseteq ListedIn(disk[d])
             /\ \A words \in ListedIn(disk[d]) : HasSource(disk[d], words)
             /\ now = "idle" /\ ~cut => PreloadedIn(disk[d]) = ListedIn(disk[d])
  <2>1. IsComponent(disk[d])
    BY <1>1 DEF ListedIn
  <2>2. ComponentOK(disk[d])
    BY DEF ToolInv, DiskKnown
  <2>3. now = "idle" /\ ~cut => ListedIn(disk[d]) \subseteq PreloadedIn(disk[d])
    BY <2>1 DEF ToolInv, DiskKnown
  <2> QED
    BY <2>1, <2>2, <2>3 DEF ComponentOK
<1>2. now = "idle" /\ exit = "0" /\ Asked # {} =>
        Asked \subseteq ListedIn(disk[dir]) \cap PreloadedIn(disk[dir])
  BY DEF ToolInv, RunKnown
<1> QED
  BY <1>1, <1>2 DEF ComponentAgrees

\* What is preloaded is built and what is built has a source at every step of every
\* run, of killed ones too, and a run that ended well has made what it was asked for
\* (main, updateCMakeListsForModule, updateJShelfForContainer, ...Operation).
THEOREM ToolKeepsTheComponent == ToolSpec => []ComponentAgrees
  BY ToolHolds, Agreement, PTL

\* Marks stay where they are, or go with the content of their file to its backup.
Marks(files) == UNION {MarksIn(files[f]) : f \in DOMAIN files}

LEMMA MarksWhere == ASSUME NEW F, NEW m PROVE m \in Marks(F) <=> \E f \in DOMAIN F : m \in MarksIn(F[f])
  BY DEF Marks

LEMMA MarksKept ==
  ASSUME WorkIsKept, edits' = edits, overwritten \subseteq overwritten',
         \A d \in DOMAIN disk : d \in DOMAIN disk' /\ (Marks(disk[d]) \subseteq Marks(disk'[d]) \/ overwritten' # {})
  PROVE  WorkIsKept'
<1> SUFFICES ASSUME NEW m \in 1 .. edits, overwritten' = {}
             PROVE  \E d \in DOMAIN disk' : \E f \in DOMAIN disk'[d] : m \in MarksIn(disk'[d][f])
  BY DEF WorkIsKept
<1>1. PICK d \in DOMAIN disk : \E f \in DOMAIN disk[d] : m \in MarksIn(disk[d][f])
  BY DEF WorkIsKept
<1>2. m \in Marks(disk'[d])
  BY <1>1, MarksWhere
<1> QED
  BY <1>2, MarksWhere

LEMMA MarksMoved ==
  ASSUME NEW F, NEW f \in DOMAIN F, NEW g, g \notin DOMAIN F
  PROVE  Marks(F) \subseteq Marks(With(Without(F, f), g, F[f]))
<1> DEFINE G == With(Without(F, f), g, F[f])
<1>1. g \in DOMAIN G /\ G[g] = F[f] /\ \A x \in DOMAIN F \ {f} : x \in DOMAIN G /\ G[x] = F[x]
  BY DEF With, Without
<1> HIDE DEF G
<1>2. ASSUME NEW m \in Marks(F) PROVE m \in Marks(G)
  <2>1. PICK x \in DOMAIN F : m \in MarksIn(F[x])
    BY <1>2, MarksWhere
  <2>2. \E y \in DOMAIN G : m \in MarksIn(G[y])
    BY <1>1, <2>1
  <2> QED
    BY <2>2, MarksWhere
<1> QED
  BY <1>2 DEF G

LEMMA MarksStay ==
  ASSUME NEW F, NEW f, NEW c, f \in DOMAIN F => MarksIn(F[f]) \subseteq MarksIn(c)
  PROVE  Marks(F) \subseteq Marks(With(F, f, c))
<1> DEFINE G == With(F, f, c)
<1>1. f \in DOMAIN G /\ G[f] = c /\ \A x \in DOMAIN F \ {f} : x \in DOMAIN G /\ G[x] = F[x]
  BY DEF With
<1> HIDE DEF G
<1>2. ASSUME NEW m \in Marks(F) PROVE m \in Marks(G)
  <2>1. PICK x \in DOMAIN F : m \in MarksIn(F[x])
    BY <1>2, MarksWhere
  <2>2. \E y \in DOMAIN G : m \in MarksIn(G[y])
    BY <1>1, <2>1
  <2> QED
    BY <2>2, MarksWhere
<1> QED
  BY <1>2 DEF G

LEMMA KeptByRename == ASSUME ToolInv, WorkIsKept, Rename PROVE WorkIsKept'
<1> DEFINE F == disk[dir]
           f == Head(todo).file
           G == With(Without(F, f), Backup(f), F[f])
<1>1. Doing("rename")
  BY DEF Rename
<1>2. /\ now = "busy" /\ todo # <<>> /\ IsASeq(todo) /\ Head(todo).do = "rename" /\ Step = Head(todo)
      /\ Running(todo, F, options, name, cut)
  BY <1>1, AtBusy
<1>3. f \in DOMAIN F
  BY <1>2 DEF Running, Updating
<1>4. disk' = [disk EXCEPT ![dir] = G]
  <2>1. disk' = [disk EXCEPT ![dir] = With(Without(@, f), Backup(f), @[f])]
    BY <1>2 DEF Rename
  <2>2. [disk EXCEPT ![dir] = With(Without(@, f), Backup(f), @[f])] = [disk EXCEPT ![dir] = G]
    BY Zenon
  <2> QED
    BY <2>1, <2>2
<1>5. /\ edits' = edits
      /\ overwritten' = IF Backup(f) \in DOMAIN F THEN overwritten \cup {<<dir, f>>} ELSE overwritten
  BY <1>2 DEF Rename, user, Present
<1>6. Backup(f) \notin DOMAIN F => Marks(F) \subseteq Marks(G)
  BY <1>3, MarksMoved
<1> HIDE DEF G
<1>7. \A d \in DOMAIN disk : d \in DOMAIN disk' /\ (Marks(disk[d]) \subseteq Marks(disk'[d]) \/ overwritten' # {})
  BY <1>4, <1>5, <1>6
<1> QED
  BY <1>5, <1>7, MarksKept

LEMMA KeptByWriting ==
  ASSUME ToolInv, WorkIsKept, NEW f, NEW c, WriteFile(f, c), f \in DOMAIN disk[dir] => MarksIn(disk[dir][f]) = {}
  PROVE  WorkIsKept'
<1> DEFINE F == disk[dir]
           G == With(F, f, c)
<1>1. disk' = [disk EXCEPT ![dir] = G]
  <2>1. disk' = [disk EXCEPT ![dir] = With(@, f, c)]
    BY DEF WriteFile
  <2>2. [disk EXCEPT ![dir] = With(@, f, c)] = [disk EXCEPT ![dir] = G]
    BY Zenon
  <2> QED
    BY <2>1, <2>2
<1>2. edits' = edits /\ overwritten' = overwritten
  BY DEF WriteFile, user
<1>3. Marks(F) \subseteq Marks(G)
  BY MarksStay
<1> HIDE DEF G
<1>4. \A d \in DOMAIN disk : d \in DOMAIN disk' /\ (Marks(disk[d]) \subseteq Marks(disk'[d]) \/ overwritten' # {})
  BY <1>1, <1>3
<1> QED
  BY <1>2, <1>4, MarksKept

LEMMA KeptByOpen == ASSUME ToolInv, WorkIsKept, Open PROVE WorkIsKept'
<1>1. Doing("open") /\ WriteFile(Head(todo).file, Blank)
  BY DEF Open, Step
<1>2. /\ todo # <<>> /\ Head(todo).do = "open"
      /\ Running(todo, disk[dir], options, name, cut)
  BY <1>1, AtBusy
<1>3. Head(todo).file \notin DOMAIN disk[dir]
  BY <1>2 DEF Running, Updating
<1> QED
  BY <1>1, <1>3, KeptByWriting

LEMMA KeptByFill == ASSUME ToolInv, WorkIsKept, Fill PROVE WorkIsKept'
<1>1. Doing("fill") /\ WriteFile(Head(todo).file, Head(todo).content)
  BY DEF Fill, Step
<1>2. /\ todo # <<>> /\ Head(todo).do = "fill"
      /\ Running(todo, disk[dir], options, name, cut)
  BY <1>1, AtBusy
<1>3. disk[dir][Head(todo).file] = Blank
  BY <1>2 DEF Running, Updating
<1>4. MarksIn(Blank) = {}
  BY DEF MarksIn, Blank
<1> QED
  BY <1>1, <1>3, <1>4, KeptByWriting

LEMMA KeptByEdit == ASSUME ToolInv, WorkIsKept, Edit PROVE WorkIsKept'
<1>1. PICK d \in DOMAIN disk : \E f \in DOMAIN disk[d] : \E new :
        /\ SameUse(disk[d][f], new) /\ Marked(disk[d][f], new)
        /\ disk' = [disk EXCEPT ![d] = [disk[d] EXCEPT ![f] = new]]
  BY EditFacts
<1>2. PICK f \in DOMAIN disk[d] : \E new :
        /\ SameUse(disk[d][f], new) /\ Marked(disk[d][f], new)
        /\ disk' = [disk EXCEPT ![d] = [disk[d] EXCEPT ![f] = new]]
  BY <1>1
<1>3. PICK new :
        /\ SameUse(disk[d][f], new) /\ Marked(disk[d][f], new)
        /\ disk' = [disk EXCEPT ![d] = [disk[d] EXCEPT ![f] = new]]
  BY <1>2
<1>4. edits' = edits + 1 /\ overwritten' = overwritten /\ edits \in Nat
  BY DEF Edit, ToolInv, RunKnown
<1>5. /\ DOMAIN disk' = DOMAIN disk /\ DOMAIN disk'[d] = DOMAIN disk[d] /\ disk'[d][f] = new
      /\ \A e \in DOMAIN disk, g \in DOMAIN disk[d] : g # f => disk'[d][g] = disk[d][g]
      /\ \A e \in DOMAIN disk \ {d} : disk'[e] = disk[e]
  BY <1>3
<1>6. MarksIn(disk[d][f]) \subseteq MarksIn(new) /\ edits' \in MarksIn(new)
  BY <1>3 DEF Marked
<1> SUFFICES ASSUME NEW m \in 1 .. edits', overwritten' = {}
             PROVE  \E e \in DOMAIN disk' : \E g \in DOMAIN disk'[e] : m \in MarksIn(disk'[e][g])
  BY DEF WorkIsKept
<1>7. CASE m = edits'
  BY <1>5, <1>6, <1>7
<1>8. CASE m \in 1 .. edits
  <2>1. PICK e \in DOMAIN disk : \E g \in DOMAIN disk[e] : m \in MarksIn(disk[e][g])
    BY <1>4, <1>8 DEF WorkIsKept
  <2>2. PICK g \in DOMAIN disk[e] : m \in MarksIn(disk[e][g])
    BY <2>1
  <2>3. CASE e = d /\ g = f
    BY <1>5, <1>6, <2>2, <2>3
  <2>4. CASE e = d /\ g # f
    BY <1>5, <2>2, <2>4
  <2>5. CASE e # d
    BY <1>5, <2>2, <2>5
  <2> QED
    BY <2>3, <2>4, <2>5
<1> QED
  BY <1>4, <1>7, <1>8

LEMMA KeptByOthers ==
  ASSUME WorkIsKept, edits' = edits, overwritten' = overwritten,
         \A d \in DOMAIN disk : d \in DOMAIN disk' /\ disk'[d] = disk[d]
  PROVE  WorkIsKept'
  BY MarksKept

LEMMA KeptByInvoke == ASSUME WorkIsKept, Invoke PROVE WorkIsKept'
<1>1. edits' = edits /\ overwritten' = overwritten
  BY DEF Invoke
<1>2. PICK args : Start(args)
  BY DEF Invoke
<1> DEFINE d == Destination(Parse(ToolOptions, args).results)
<1>3. disk' = disk \/ disk' = IF d \in DOMAIN disk THEN disk ELSE With(disk, d, <<>>)
  <2>1. Parse(ToolOptions, args).end \in {"usage", "faulted", "parsed"}
    BY EndOfParse
  <2> QED
    BY <1>2, <2>1 DEF Start
<1> HIDE DEF d
<1>4. \A e \in DOMAIN disk : e \in DOMAIN disk' /\ disk'[e] = disk[e]
  BY <1>3 DEF With
<1> QED
  BY <1>1, <1>4, KeptByOthers

LEMMA KeptStep == ASSUME ToolInv, WorkIsKept, [ToolNext]_toolVars PROVE WorkIsKept'
<1>1. CASE Rename
  BY <1>1, KeptByRename
<1>2. CASE Open
  BY <1>2, KeptByOpen
<1>3. CASE Fill
  BY <1>3, KeptByFill
<1>4. CASE Edit
  BY <1>4, KeptByEdit
<1>5. CASE Invoke
  BY <1>5, KeptByInvoke
<1>6. CASE UNCHANGED toolVars \/ Kill \/ Tick
  <2>1. UNCHANGED <<disk, edits, overwritten>>
    BY <1>6 DEF toolVars, Kill, Tick, user
  <2> QED
    BY <2>1, KeptByOthers
<1>7. CASE \/ GenerateFile \/ GenerateDone \/ LoopInText \/ UpdateCMakeLists \/ CheckContainer \/ UpdateShelf
           \/ MainReturns
  <2>1. UNCHANGED <<disk, edits, overwritten>>
    BY <1>7 DEF GenerateFile, GenerateDone, LoopInText, UpdateCMakeLists, CheckContainer, UpdateShelf,
       MainReturns, user
  <2> QED
    BY <2>1, KeptByOthers
<1> QED
  BY <1>1, <1>2, <1>3, <1>4, <1>5, <1>6, <1>7 DEF ToolNext, Main

\* What the developer wrote is in some file after every step of every run, unless two
\* backups of one file got one name (create_backup_file_if_exists).
THEOREM ToolKeepsTheWork == ToolSpec => []WorkIsKept
<1>1. ToolInit => WorkIsKept
  <2> SUFFICES ASSUME ToolInit PROVE WorkIsKept
    OBVIOUS
  <2>1. edits = 0
    BY DEF ToolInit
  <2>2. 1 .. 0 = {}
    OBVIOUS
  <2> QED
    BY <2>1, <2>2 DEF WorkIsKept
<1>2. ToolInv /\ WorkIsKept /\ [ToolNext]_toolVars => WorkIsKept'
  BY KeptStep
<1> QED
  BY <1>1, <1>2, ToolHolds, PTL DEF ToolSpec
==================================================================================
