--------------------------- MODULE ExecutionContext ---------------------------
(***************************************************************************)
(* An execution context: the EC container (src/lib/ec/ec_container.cpp)    *)
(* with its activate_state_started and activate_state_stopped operations,  *)
(* and the body it drives: OneShotEC, TimerEC (src/ecs) or one of the      *)
(* periodic anchors (src/lib/anchor), whose activate_state is the same     *)
(* lambda.  Each activate operation has a cop_mutex_ of its own, so a      *)
(* start and a stop overlap.  The container is created with                *)
(* useThread(false): bodies run in the thread that calls.                  *)
(***************************************************************************)
EXTENDS Naturals

CONSTANTS
  Users,        \* threads that call the activate operations
  Timers,       \* threads onStarted may create; reused once they are joined
  Kinds,        \* the kinds of execution context considered
  BoundStops,   \* whether the bound operation may lead to activate_state_stopped
  NoOne,        \* "no thread owns this mutex"
  Garbage,      \* thread_ before the first start
  NullThread,   \* thread_ = nullptr
  MaxCalls      \* bound: calls each user makes

EveryKind == {"OneShotEC", "TimerEC", "PeriodicAnchor"}
Actors == Users \cup Timers

ASSUME ActorAssumption ==
  /\ Users \cap Timers = {}
  /\ NoOne \notin Actors /\ Garbage \notin Timers /\ NullThread \notin Timers
  /\ Garbage # NullThread
ASSUME KindAssumption == Kinds \subseteq EveryKind
ASSUME MaxCallsAssumption == MaxCalls \in Nat /\ BoundStops \in BOOLEAN

VARIABLES
  kind,          \* which execution context this is
  currentState,  \* currentState of _ECContainerStruct
  copMutex,      \* copMutex[s]: owner of cop_mutex_ of activate_state_s
  svcMutex,      \* owner of svc_mutex_
  flag,          \* flag_: the timer loop is to end
  thread,        \* thread_
  pc,            \* pc[a]: where actor a stands
  target,        \* target[a]: the state the operation a calls activates
  byExecute,     \* byExecute[a]: a came through execute rather than call
  calls,         \* calls[u]: calls user u has made
  contended,     \* history: two calls overlapped, or the bound operation stopped
                 \* the context
  crashed        \* the process died on a bad thread_

vars == <<kind, currentState, copMutex, svcMutex, flag, thread, pc, target,
          byExecute, calls, contended, crashed>>
ecVars == <<currentState, flag, thread>>
lockVars == <<copMutex, svcMutex>>
callVars == <<kind, target, byExecute, calls, contended>>

States == {"started", "stopped"}    \* availableStates
Periodic == kind \in {"TimerEC", "PeriodicAnchor"}

UserPC == {"idle", "lock", "decide", "raise", "join", "set", "onStarted",
           "svc", "relock", "svcBound", "spawn", "unlock", "deliver", "bound", "return"}
TimerPC == (UserPC \ {"idle", "onStarted", "spawn", "relock", "svcBound"})
             \cup {"none", "loop", "ended", "joined"}

\* createEC.
Init ==
  /\ kind \in Kinds
  /\ currentState = "stopped"
  /\ copMutex = [s \in States |-> NoOne] /\ svcMutex = NoOne
  /\ flag \in BOOLEAN /\ thread = Garbage
  /\ pc = [a \in Actors |-> IF a \in Users THEN "idle" ELSE "none"]
  /\ target = [a \in Actors |-> "started"]
  /\ byExecute = [a \in Actors |-> TRUE]
  /\ calls = [u \in Users |-> 0] /\ contended = FALSE
  /\ crashed = FALSE

At(a, l) == ~crashed /\ pc[a] = l
Goto(a, l) == pc' = [pc EXCEPT ![a] = l]
------------------------------------------------------------------------------
(* Calling activate_state_s *)

Request(u, s, execute) ==
  /\ At(u, "idle")
  /\ calls[u] < MaxCalls
  /\ calls' = [calls EXCEPT ![u] = @ + 1]
  /\ contended' = (contended \/ \E v \in Users \ {u} : pc[v] # "idle")
  /\ target' = [target EXCEPT ![u] = s]
  /\ byExecute' = [byExecute EXCEPT ![u] = execute]
  /\ Goto(u, "lock")
  /\ UNCHANGED <<kind, ecVars, lockVars, crashed>>

Lock(a) ==
  /\ At(a, "lock")
  /\ copMutex[target[a]] = NoOne
  /\ copMutex' = [copMutex EXCEPT ![target[a]] = a]
  /\ Goto(a, "decide")
  /\ UNCHANGED <<ecVars, callVars, svcMutex, crashed>>

MustChange_Always(a) == TRUE
MustChange(a) == currentState # target[a]

\* The lambda of activate_state reads currentState once.  onStarting does
\* nothing; onStopping is that of the kind.
Decide(a) ==
  /\ At(a, "decide")
  /\ \/ ~MustChange(a) /\ Goto(a, "unlock")
     \/ MustChange(a) /\ target[a] = "stopped" /\ Periodic /\ Goto(a, "raise")
     \/ MustChange(a) /\ ~(target[a] = "stopped" /\ Periodic) /\ Goto(a, "set")
  /\ UNCHANGED <<ecVars, callVars, lockVars, crashed>>

SetState(a) ==
  /\ At(a, "set")
  /\ currentState' = target[a]
  /\ Goto(a, IF target[a] = "started" THEN "onStarted" ELSE "unlock")
  /\ UNCHANGED <<callVars, lockVars, flag, thread, crashed>>

Unlock(a) ==
  /\ At(a, "unlock")
  /\ copMutex' = [copMutex EXCEPT ![target[a]] = NoOne]
  /\ Goto(a, IF byExecute[a] /\ target[a] = "started" THEN "deliver" ELSE "return")
  /\ UNCHANGED <<ecVars, callVars, svcMutex, crashed>>

\* execute puts the result into the outlet, whose EVENT connection (bind)
\* executes the bound operation, whatever the result was.
Deliver(a) ==
  /\ At(a, "deliver")
  /\ Goto(a, "bound")
  /\ UNCHANGED <<ecVars, callVars, lockVars, crashed>>

\* The bound operation ends, or its own connections lead to the stop
\* operation, executed on the same stack.
EndBound(a) ==
  /\ At(a, "bound")
  /\ \/ Goto(a, "return") /\ UNCHANGED <<target, byExecute, contended>>
     \/ /\ BoundStops
        /\ target' = [target EXCEPT ![a] = "stopped"]
        /\ byExecute' = [byExecute EXCEPT ![a] = TRUE]
        /\ contended' = TRUE
        /\ Goto(a, "lock")
  /\ UNCHANGED <<ecVars, kind, calls, lockVars, crashed>>

Return(u) ==
  /\ At(u, "return")
  /\ Goto(u, "idle")
  /\ UNCHANGED <<ecVars, callVars, lockVars, crashed>>
------------------------------------------------------------------------------
(* onStarted and onStopping *)

FlagOnStart == FALSE

OnStarted(u) ==
  /\ At(u, "onStarted")
  /\ \/ Periodic /\ flag' = FlagOnStart /\ Goto(u, "spawn")
     \/ ~Periodic /\ Goto(u, "svc") /\ UNCHANGED flag
  /\ UNCHANGED <<callVars, lockVars, currentState, thread, crashed>>

\* thread_ = new std::thread(...)
Spawn(u) ==
  /\ At(u, "spawn")
  /\ \E w \in Timers :
       /\ pc[w] \in {"none", "joined"}
       /\ thread' = w
       /\ pc' = [pc EXCEPT ![u] = "unlock", ![w] = "loop"]
  /\ UNCHANGED <<callVars, lockVars, currentState, flag, crashed>>

\* OneShotEC's svc executes activate_state_started again, whose cop_mutex_
\* this very thread holds.  Locking a std::mutex twice is undefined: the
\* thread blocks for ever ("relock"), or lock throws, invoke turns that into
\* an error and execute puts the error, which executes the bound operation.
SvcOneShot(u) ==
  /\ At(u, "svc")
  /\ svcMutex = NoOne
  /\ svcMutex' = u
  /\ \E l \in {"relock", "svcBound"} : Goto(u, l)
  /\ UNCHANGED <<ecVars, callVars, copMutex, crashed>>

\* The bound operation ends, having stopped the context or not.
EndSvcOneShot(u) ==
  /\ At(u, "svcBound")
  /\ \/ UNCHANGED currentState
     \/ BoundStops /\ copMutex["stopped"] = NoOne /\ currentState' = "stopped"
  /\ svcMutex' = NoOne
  /\ Goto(u, "unlock")
  /\ UNCHANGED <<callVars, copMutex, flag, thread, crashed>>

FlagOnStop_Kept == flag
FlagOnStop == TRUE
AfterRaise_NoJoin == "set"
AfterRaise == "join"

RaiseFlag(a) ==
  /\ At(a, "raise")
  /\ flag' = FlagOnStop
  /\ Goto(a, AfterRaise)
  /\ UNCHANGED <<callVars, lockVars, currentState, thread, crashed>>

ThreadAfterJoin == IF kind = "TimerEC" THEN NullThread ELSE thread

\* thread_->join() returns when the thread has ended; it throws when the
\* thread joins itself or was joined before, which call turns into an error.
Join(a) ==
  /\ At(a, "join")
  /\ thread \in Timers
  /\ \/ /\ thread # a /\ pc[thread] = "ended"
        /\ thread' = ThreadAfterJoin
        /\ pc' = [pc EXCEPT ![a] = "set", ![thread] = "joined"]
     \/ /\ thread = a \/ pc[thread] = "joined"
        /\ Goto(a, "unlock")
        /\ UNCHANGED thread
  /\ UNCHANGED <<callVars, lockVars, currentState, flag, crashed>>

\* Dereferencing a null or never assigned thread_.
JoinNothing(a) ==
  /\ At(a, "join")
  /\ thread \notin Timers
  /\ crashed' = TRUE
  /\ UNCHANGED <<ecVars, callVars, lockVars, pc>>
------------------------------------------------------------------------------
(* The thread onStarted created *)

Loop(w) ==
  /\ At(w, "loop")
  /\ Goto(w, IF flag THEN "ended" ELSE "svc")
  /\ UNCHANGED <<ecVars, callVars, lockVars, crashed>>

\* ExecutionContextBase::svc executes activate_state_started under svc_mutex_.
SvcTimer(w) ==
  /\ At(w, "svc")
  /\ svcMutex = NoOne
  /\ svcMutex' = w
  /\ target' = [target EXCEPT ![w] = "started"]
  /\ byExecute' = [byExecute EXCEPT ![w] = TRUE]
  /\ Goto(w, "lock")
  /\ UNCHANGED <<ecVars, kind, calls, contended, copMutex, crashed>>

\* svc returns and the thread sleeps for a period.
EndSvc(w) ==
  /\ At(w, "return")
  /\ svcMutex' = NoOne
  /\ Goto(w, "loop")
  /\ UNCHANGED <<ecVars, callVars, copMutex, crashed>>
------------------------------------------------------------------------------
ActivateStep(a) == \/ Lock(a) \/ Decide(a) \/ SetState(a) \/ Unlock(a)
                   \/ Deliver(a) \/ EndBound(a) \/ RaiseFlag(a)
                   \/ Join(a) \/ JoinNothing(a)
UserStep(u) == \/ ActivateStep(u) \/ OnStarted(u) \/ Spawn(u)
               \/ SvcOneShot(u) \/ EndSvcOneShot(u) \/ Return(u)
TimerStep(w) == ActivateStep(w) \/ Loop(w) \/ SvcTimer(w) \/ EndSvc(w)

Next == \/ \E u \in Users : \/ UserStep(u)
                            \/ \E s \in States, execute \in BOOLEAN :
                                 Request(u, s, execute)
        \/ \E w \in Timers : TimerStep(w)

Spec == Init /\ [][Next]_vars

\* Every thread runs when it can; bound operations end.
FairSpec == /\ Spec
            /\ \A u \in Users : WF_vars(UserStep(u))
            /\ \A w \in Timers : WF_vars(TimerStep(w))
------------------------------------------------------------------------------
(* Properties *)

TypeOK ==
  /\ kind \in Kinds /\ currentState \in States
  /\ copMutex \in [States -> Actors \cup {NoOne}]
  /\ svcMutex \in Actors \cup {NoOne}
  /\ flag \in BOOLEAN /\ contended \in BOOLEAN /\ crashed \in BOOLEAN
  /\ thread \in Timers \cup {Garbage}
                \cup (IF kind = "TimerEC" THEN {NullThread} ELSE {})
  /\ pc \in [Actors -> UserPC \cup TimerPC]
  /\ \A u \in Users : pc[u] \in UserPC
  /\ \A w \in Timers : pc[w] \in TimerPC
  /\ target \in [Actors -> States] /\ byExecute \in [Actors -> BOOLEAN]
  /\ calls \in [Users -> 0..MaxCalls]

\* w was created and has not been joined.
Busy(w) == pc[w] \notin {"none", "joined"}

\* However starts and stops overlap, at most one timer thread exists that has
\* not been joined (TimerEC and anchors, onStarted and onStopping).
AtMostOneTimer == \A v, w \in Timers : Busy(v) /\ Busy(w) => v = w

\* A context that says "stopped" runs nothing: its timer thread has ended and
\* was joined before the state changed (activate_state, onStopping).
StoppedMeansQuiet ==
  currentState = "stopped" => \A w \in Timers : ~Busy(w)

\* While calls come one after another, thread_ is never used before it is set
\* or after it was cleared (onStopping's only guard is activate_state's c != s).
NeverJoinsNothing == crashed => contended

\* A stop that no other call meets comes back: raising flag_ ends the loop of
\* the timer.
StopReturns ==
  \A u \in Users : (pc[u] = "lock" /\ target[u] = "stopped" /\ Periodic)
                    ~> (pc[u] = "idle" \/ contended)

\* A periodic context left in "started" by calls that met no other goes on
\* executing the bound operation from its timer thread.
Left == Periodic /\ currentState = "started" /\ \A u \in Users : pc[u] = "idle"
StartedTicks == Left ~> ((\E w \in Timers : pc[w] = "bound") \/ ~Left \/ contended)

\* A periodic context does what it was last told: it stops, or it goes on.
ToldIsDone == StopReturns /\ StartedTicks
==============================================================================
