--------------------------- MODULE ProcessLifecycle ---------------------------
(***************************************************************************)
(* The life of a process (src/lib/process/process_impl.cpp): the thread    *)
(* that owns it calls start, startAsync, stop and the destructor; one      *)
(* thread runs each broker (src/brokers) and each system editor            *)
(* (src/systemeditor) until it is told to shut down; and one more thread   *)
(* serves the requests of each broker.                                     *)
(* Runners are numbered in the order the loops of process_impl.cpp visit   *)
(* them, the brokers first.  A SIGINT and a spurious wakeup of wait_for,   *)
(* which waits without a predicate, cannot be told apart; a SIGINT that    *)
(* finds nobody waiting changes nothing.                                   *)
(***************************************************************************)
EXTENDS Naturals, Sequences

CONSTANTS
  NB,           \* brokers, runners 1..NB
  NE,           \* system editors, runners NB+1..NB+NE
  WSBrokers,    \* the brokers that are WSBrokers; the others are HTTPBrokers
  MaxStarts,    \* bound: calls of start or startAsync
  MaxStops      \* bound: explicit calls of stop

N == NB + NE
Brokers == 1..NB
Runners == 1..N

ASSUME SizeAssumption == NB \in Nat /\ NE \in Nat /\ WSBrokers \subseteq Brokers
ASSUME BoundAssumption == MaxStarts \in Nat /\ MaxStops \in Nat

VARIABLES
  at,        \* where the owner's thread stands
  within,    \* the call it is in: "start", "user" (startAsync, stop) or "dtor"
  idx,       \* the next runner of the loop it is in
  started,   \* started_
  state,     \* info_["state"] of the process
  threads,   \* threads_: the runners started, in order
  joined,    \* how many of threads_ are joined, from the first on
  starts, stops,  \* calls of startAsync and of stop, by the user or by start
  run,       \* run[r]: where run() of runner r stands
  bstate,    \* bstate[b]: info_["state"] of broker b, "none" before preloadBrokers
  server,    \* server[b]: the thread that serves the requests of b
  heard,     \* runners that were waiting when shutdown last notified them
  fault      \* how the program died

vars == <<at, within, idx, started, state, threads, joined, starts, stops,
          run, bstate, server, heard, fault>>
runnerVars == <<run, bstate, server>>
callVars == <<within, starts, stops>>

Init ==
  /\ at = "idle" /\ within = "user" /\ idx = 1
  /\ started = FALSE /\ state = "created"
  /\ threads = <<>> /\ joined = 0
  /\ starts = 0 /\ stops = 0
  /\ run = [r \in Runners |-> "none"]
  /\ bstate = [b \in Brokers |-> "none"]
  /\ server = [b \in Brokers |-> "none"]
  /\ heard = {} /\ fault = "none"

Alive == fault = "none"
OwnerAt(l) == Alive /\ at = l
RunnerAt(r, l) == Alive /\ run[r] = l
Set(r, l) == run' = [run EXCEPT ![r] = l]
------------------------------------------------------------------------------
(* Starting.  No caller starts a process that is started. *)

\* startAsync, called by the user or by start, up to the creation of the threads.
StartAsync(by) ==
  /\ OwnerAt("idle") /\ ~started
  /\ starts < MaxStarts /\ starts' = starts + 1
  /\ state' = "starting"
  /\ bstate' = [b \in Brokers |-> IF bstate[b] = "none" THEN "created" ELSE bstate[b]]
  /\ within' = by /\ at' = "spawn" /\ idx' = 1
  /\ UNCHANGED <<started, threads, joined, stops, run, server, heard, fault>>


\* start_broker and start_systemEditor.
Spawn ==
  /\ OwnerAt("spawn") /\ idx <= N
  /\ threads' = Append(threads, idx)
  /\ Set(idx, "begun")
  /\ idx' = idx + 1
  /\ UNCHANGED <<at, started, state, joined, bstate, server, heard, fault, callVars>>

Spawned ==
  /\ OwnerAt("spawn") /\ idx > N
  /\ at' = "poll" /\ idx' = 1
  /\ UNCHANGED <<started, state, threads, joined, runnerVars, heard, fault, callVars>>

\* isRunning.
IsRunning(b) == bstate[b] = "running"

Poll_Never ==                          \* without the check
  /\ OwnerAt("poll") /\ idx <= NB
  /\ idx' = idx + 1
  /\ UNCHANGED <<at, started, state, threads, joined, runnerVars, heard, fault, callVars>>

\* "Check brokers are started"; a broker that is not is asked again later.
Poll ==
  /\ OwnerAt("poll") /\ idx <= NB /\ IsRunning(idx)
  /\ idx' = idx + 1
  /\ UNCHANGED <<at, started, state, threads, joined, runnerVars, heard, fault, callVars>>

Started ==
  /\ OwnerAt("poll") /\ idx > NB
  /\ state' = "started" /\ started' = TRUE
  /\ at' = IF within = "start" THEN "wait" ELSE "idle"
  /\ UNCHANGED <<idx, threads, joined, runnerVars, heard, fault, callVars>>

\* wait, as start calls it: wait_for returns.
WaitReturns ==
  /\ OwnerAt("wait")
  /\ at' = "shutdown" /\ idx' = 1 /\ state' = "stopping" /\ stops' = stops + 1
  /\ UNCHANGED <<within, started, threads, joined, starts, runnerVars, heard, fault>>
------------------------------------------------------------------------------
(* Stopping *)

Stop ==
  /\ OwnerAt("idle")
  /\ stops < MaxStops /\ stops' = stops + 1
  /\ within' = "user" /\ at' = "shutdown" /\ idx' = 1 /\ state' = "stopping"
  /\ UNCHANGED <<started, threads, joined, starts, runnerVars, heard, fault>>

\* shutdown of a broker or an editor: a notification, kept by nobody.  Only the
\* owner reads what it writes to info_ before it notifies, so both are one step.
Shutdown ==
  /\ OwnerAt("shutdown") /\ idx <= N
  /\ idx' = idx + 1
  /\ bstate' = [b \in Brokers |->
                  IF b = idx /\ bstate[b] # "none" THEN "stopped" ELSE bstate[b]]
  /\ run' = [r \in Runners |-> IF r = idx /\ run[r] = "waiting" THEN "woken" ELSE run[r]]
  /\ heard' = IF run[idx] = "waiting" THEN heard \cup {idx} ELSE heard
  /\ UNCHANGED <<at, started, state, threads, joined, server, fault, callVars>>
AllTold ==
  /\ OwnerAt("shutdown") /\ idx > N
  /\ at' = "join" /\ idx' = 1
  /\ UNCHANGED <<started, state, threads, joined, runnerVars, heard, fault, callVars>>

Join_Detach ==                         \* threads are let go, not joined
  /\ OwnerAt("join") /\ idx <= Len(threads)
  /\ IF idx <= joined
     THEN fault' = "joinedTwice" /\ UNCHANGED <<idx, joined>>
     ELSE /\ idx' = idx + 1 /\ joined' = idx
          /\ UNCHANGED fault
  /\ UNCHANGED <<at, started, state, threads, runnerVars, heard, callVars>>

\* t->join() of the next of threads_, which stop never clears: joining a thread
\* a second time throws std::system_error.
Join ==
  /\ OwnerAt("join") /\ idx <= Len(threads)
  /\ IF idx <= joined
     THEN fault' = "joinedTwice" /\ UNCHANGED <<idx, joined>>
     ELSE /\ run[threads[idx]] = "returned"
          /\ idx' = idx + 1 /\ joined' = idx
          /\ UNCHANGED fault
  /\ UNCHANGED <<at, started, state, threads, runnerVars, heard, callVars>>

Stopped ==
  /\ OwnerAt("join") /\ idx > Len(threads)
  /\ started' = FALSE /\ state' = "stopped" /\ heard' = {}
  /\ at' = IF within = "dtor" THEN "clear" ELSE "idle"
  /\ UNCHANGED <<idx, threads, joined, runnerVars, fault, callVars>>
------------------------------------------------------------------------------
(* The thread of a broker or an editor: run() *)


\* CRUDBrokerBase::run; an editor announces nothing.
Announce(r) ==
  /\ RunnerAt(r, "begun")
  /\ Set(r, "announced")
  /\ bstate' = [b \in Brokers |-> IF b = r THEN "running" ELSE bstate[b]]
  /\ UNCHANGED <<at, idx, started, state, threads, joined, server, heard, fault, callVars>>

\* runBackground: thread_ = make_unique<thread>, which terminates the program if
\* thread_ still holds a thread, and nobody joins that before the destructor.
RunBackground(r) ==
  /\ RunnerAt(r, "announced")
  /\ IF r \in Brokers /\ server[r] # "none"
     THEN fault' = "terminated" /\ UNCHANGED <<run, server>>
     ELSE /\ Set(r, "serving")
          /\ server' = [b \in Brokers |-> IF b = r THEN "spawned" ELSE server[b]]
          /\ UNCHANGED fault
  /\ UNCHANGED <<at, idx, started, state, threads, joined, bstate, heard, callVars>>

\* cond_.wait(lock) begins...
BeginWait(r) ==
  /\ RunnerAt(r, "serving")
  /\ Set(r, "waiting")
  /\ UNCHANGED <<at, idx, started, state, threads, joined, bstate, server, heard, fault, callVars>>

\* ...and may end by itself.
SpuriousWakeup(r) ==
  /\ RunnerAt(r, "waiting")
  /\ Set(r, "woken")
  /\ UNCHANGED <<at, idx, started, state, threads, joined, bstate, server, heard, fault, callVars>>

\* The effect of terminateBackground on the server of b: stopping an HTTP server
\* that does not listen yet has no effect; server_ of a WebSocket server is null
\* until its own thread has set it.
StopServer(b) ==
  /\ server' = [server EXCEPT ![b] = IF @ = "up" THEN "down" ELSE @]
  /\ fault' = IF b \in WSBrokers /\ server[b] \in {"none", "spawned"} THEN "nullServer"
                                                                     ELSE fault

TerminateBackground_AwaitServer(r) ==  \* the server is awaited before it is stopped
  /\ RunnerAt(r, "woken") /\ (r \in Brokers => server[r] = "down")
  /\ Set(r, "returned")
  /\ UNCHANGED <<at, idx, started, state, threads, joined, bstate, server, heard, fault, callVars>>

TerminateBackground(r) ==
  /\ RunnerAt(r, "woken")
  /\ Set(r, "returned")
  /\ IF r \in Brokers THEN StopServer(r) ELSE UNCHANGED <<server, fault>>
  /\ UNCHANGED <<at, idx, started, state, threads, joined, bstate, heard, callVars>>

\* runForever, in the server's thread: it listens, or returns because it cannot.
Listen(b) ==
  /\ Alive /\ server[b] = "spawned"
  /\ server' = [server EXCEPT ![b] = "up"]
  /\ UNCHANGED <<at, idx, started, state, threads, joined, run, bstate, heard, fault, callVars>>
ListenFails(b) ==
  /\ Alive /\ server[b] = "spawned"
  /\ server' = [server EXCEPT ![b] = "down"]
  /\ UNCHANGED <<at, idx, started, state, threads, joined, run, bstate, heard, fault, callVars>>
------------------------------------------------------------------------------
(* ~ProcessImpl, and ~ProcessStore as its member store_ is destroyed *)

Destroy ==
  /\ OwnerAt("idle")
  /\ within' = "dtor" /\ idx' = 1
  /\ IF started THEN at' = "shutdown" /\ state' = "stopping"
                ELSE at' = "clear" /\ UNCHANGED state
  /\ UNCHANGED <<started, threads, joined, starts, stops, runnerVars, heard, fault>>

\* Containers and operations go first, the brokers after them.
ClearObjects ==
  /\ OwnerAt("clear")
  /\ at' = "release" /\ idx' = 1
  /\ UNCHANGED <<started, state, threads, joined, runnerVars, heard, fault, callVars>>

ReleaseBroker_JoinOnly ==              \* without terminateBackground
  /\ OwnerAt("release") /\ idx <= NB
  /\ IF bstate[idx] = "none"
     THEN idx' = idx + 1 /\ UNCHANGED at
     ELSE at' = "reap" /\ UNCHANGED idx
  /\ UNCHANGED <<started, state, threads, joined, runnerVars, heard, fault, callVars>>

\* ~HttpServerImpl and ~WSServerImpl: terminateBackground, then thread_->join().
ReleaseBroker ==
  /\ OwnerAt("release") /\ idx <= NB
  /\ IF bstate[idx] = "none"
     THEN idx' = idx + 1 /\ UNCHANGED <<at, server, fault>>
     ELSE StopServer(idx) /\ at' = "reap" /\ UNCHANGED idx
  /\ UNCHANGED <<started, state, threads, joined, run, bstate, heard, callVars>>

ReapServer_Detach ==                   \* thread_ is not joined
  /\ OwnerAt("reap")
  /\ idx' = idx + 1 /\ at' = "release"
  /\ UNCHANGED <<started, state, threads, joined, runnerVars, heard, fault, callVars>>

ReapServer ==
  /\ OwnerAt("reap") /\ server[idx] \in {"none", "down"}
  /\ idx' = idx + 1 /\ at' = "release"
  /\ UNCHANGED <<started, state, threads, joined, runnerVars, heard, fault, callVars>>

Destroyed ==
  /\ OwnerAt("release") /\ idx > NB
  /\ at' = "destroyed"
  /\ UNCHANGED <<idx, started, state, threads, joined, runnerVars, heard, fault, callVars>>
------------------------------------------------------------------------------
Owner == \/ Spawn \/ Spawned \/ Poll \/ Started \/ Shutdown \/ AllTold \/ Join \/ Stopped
         \/ ClearObjects \/ ReleaseBroker \/ ReapServer \/ Destroyed
Runner(r) == Announce(r) \/ RunBackground(r) \/ BeginWait(r) \/ TerminateBackground(r)
Server(b) == Listen(b) \/ ListenFails(b)
Environment == \/ \E by \in {"user", "start"} : StartAsync(by)
               \/ WaitReturns \/ Stop \/ Destroy
               \/ \E r \in Runners : SpuriousWakeup(r)

Next == \/ Owner \/ Environment
        \/ \E r \in Runners : Runner(r)
        \/ \E b \in Brokers : Server(b)

Spec == Init /\ [][Next]_vars

\* A thread that can go on does; nobody owes the process a call, a SIGINT or a
\* spurious wakeup.
Fairness == /\ WF_vars(Owner)
            /\ \A r \in Runners : WF_vars(Runner(r))
            /\ \A b \in Brokers : WF_vars(Server(b))
FairSpec == Spec /\ Fairness
------------------------------------------------------------------------------
TypeOK ==
  /\ at \in {"idle", "spawn", "poll", "wait", "shutdown", "join", "clear",
             "release", "reap", "destroyed"}
  /\ within \in {"user", "start", "dtor"}
  /\ idx \in Nat \ {0} /\ joined \in 0..Len(threads)
  /\ started \in BOOLEAN
  /\ state \in {"created", "starting", "started", "stopping", "stopped"}
  /\ threads \in Seq(Runners)
  /\ starts \in Nat /\ stops \in Nat
  /\ run \in [Runners -> {"none", "begun", "announced", "serving", "waiting",
                          "woken", "returned"}]
  /\ bstate \in [Brokers -> {"none", "created", "running", "stopped"}]
  /\ server \in [Brokers -> {"none", "spawned", "up", "down"}]
  /\ heard \subseteq Runners
  /\ fault \in {"none", "joinedTwice", "terminated", "nullServer"}

\* While the process is started, and until stop begins, every broker has
\* announced itself and its info says so: connections and topics are made after
\* that, through the brokers (the polling of startAsync).
StartedMeansAnnounced ==
  started /\ state = "started" =>
    \A b \in Brokers : run[b] \notin {"none", "begun"} /\ IsRunning(b)

\* Once stop has returned no run() of a broker or an editor is in progress: what
\* the destructor destroys next is not in use by them (the joins of stop).
StoppedMeansReturned ==
  state = "stopped" => \A r \in Runners : run[r] \in {"none", "returned"}

\* A stopped process has no broker whose info still says "running", although the
\* shutdown and the run of a broker write it from different threads.
StoppedBrokersSaySo ==
  state = "stopped" => \A b \in Brokers : ~IsRunning(b)

\* A process that is started once and stopped at most once, by stop or by start,
\* neither joins a thread twice nor replaces a thread not joined: the destructor
\* stops it only if nobody has (started_, threads_, thread_).
UsedOnceNeverThrows ==
  fault \in {"joinedTwice", "terminated"} => starts > 1 \/ stops > 1

\* No thread that serves requests outlives the process it serves.
NoServerOutlivesProcess ==
  at = "destroyed" => \A b \in Brokers : server[b] \in {"none", "down"}

\* What stop is waiting for when it joins: run() that has not seen a notification.
Unheard == {r \in Runners : run[r] \in {"begun", "announced", "serving", "waiting"}
                              /\ r \notin heard}
\* stop returns if no runner missed the notification.
HeardStopReturns == (at = "join" /\ Unheard = {}) ~> (~Alive \/ at # "join")

\* The destructor returns if every server's thread listens, or has given up, by
\* the time it is told to stop.
SettledDestroyReturns ==
  (at = "clear" /\ \A b \in Brokers : server[b] # "spawned") ~> (~Alive \/ at = "destroyed")
==============================================================================
