------------------------ MODULE ExecutionContextProofs ------------------------
(***************************************************************************)
(* Theorems about ExecutionContext, for any number of users, timer threads *)
(* and calls, every kind of context and with overlapping starts and stops. *)
(* The difficulty is that start and stop exclude each other only through   *)
(* currentState: IInv says what a start and a stop in progress know of it. *)
(***************************************************************************)
EXTENDS ExecutionContext, TLAPS

USE DEF MustChange, FlagOnStart, FlagOnStop, AfterRaise, ThreadAfterJoin

\* cop_mutex_ is held throughout the body of an activate operation.
Holding == {"decide", "raise", "join", "set", "onStarted", "spawn", "unlock"}
OneShotPC == {"svc", "relock", "svcBound"}    \* a user is there in a OneShotEC only
Ownership ==
  /\ \A a \in Actors : pc[a] \in Holding => copMutex[target[a]] = a
  /\ \A a \in Actors : pc[a] \in {"onStarted", "spawn"} => target[a] = "started"
  /\ \A a \in Actors : pc[a] \in {"raise", "join"} => target[a] = "stopped"
  /\ \A u \in Users : pc[u] \in OneShotPC => copMutex["started"] = u /\ target[u] = "started"

\* A start that has decided to change the state and has no timer thread yet;
\* a stop that is about to change the state.
Starting(a) == pc[a] \in {"onStarted", "spawn"} \/ (pc[a] = "set" /\ target[a] = "started")
Stopping(a) == pc[a] = "set" /\ target[a] = "stopped"
NoTimer == \A w \in Timers : ~Busy(w)

OnlyPeriodicSpawns ==
  /\ ~Periodic => \A w \in Timers : pc[w] = "none"
  /\ \A a \in Actors : pc[a] \in {"raise", "join", "spawn"} => Periodic
  /\ \A u \in Users : pc[u] \in OneShotPC => ~Periodic

StateKnown ==
  /\ \A a \in Actors : pc[a] = "set" /\ target[a] = "started" => currentState = "stopped"
  /\ \A a \in Actors : pc[a] \in {"onStarted", "spawn"} /\ Periodic => currentState = "started"
  /\ \A a \in Actors : pc[a] \in {"raise", "join"} \/ Stopping(a) => currentState = "started"

TimerKnown ==
  /\ \A w \in Timers : Busy(w) => thread = w
  /\ \A a \in Actors : Starting(a) \/ Stopping(a) => NoTimer
  /\ \A a, b \in Actors : Stopping(a) /\ Periodic => ~Starting(b)

IInv == /\ TypeOK /\ Ownership /\ OnlyPeriodicSpawns /\ StateKnown /\ TimerKnown
        /\ StoppedMeansQuiet
------------------------------------------------------------------------------
\* A context starts out stopped, idle and without a thread (createEC).
LEMMA IInit == Init => IInv
  <1> SUFFICES ASSUME Init PROVE IInv
    OBVIOUS
  <1> USE ActorAssumption, MaxCallsAssumption DEF Init, Actors, States
  <1>1. TypeOK
    <2>1. pc \in [Actors -> UserPC \cup TimerPC]
      BY DEF UserPC, TimerPC
    <2>2. /\ \A u \in Users : pc[u] \in UserPC
          /\ \A w \in Timers : pc[w] \in TimerPC
      BY DEF UserPC, TimerPC
    <2>3. calls \in [Users -> 0..MaxCalls]
      OBVIOUS
    <2> QED
      BY <2>1, <2>2, <2>3 DEF TypeOK
  <1>2. \A a \in Actors : pc[a] \in {"idle", "none"}
    OBVIOUS
  <1>3. NoTimer
    BY DEF NoTimer, Busy
  <1>4. Ownership /\ OnlyPeriodicSpawns
    BY <1>2 DEF Ownership, OnlyPeriodicSpawns, Holding, OneShotPC
  <1>5. StateKnown /\ TimerKnown /\ StoppedMeansQuiet
    BY <1>2, <1>3 DEF StateKnown, TimerKnown, StoppedMeansQuiet, Starting, Stopping, NoTimer
  <1> QED
    BY <1>1, <1>4, <1>5 DEF IInv

\* Every step of a user or of a timer thread preserves the invariant
\* (activate_state, onStarted, onStopping, svc).
LEMMA INext == IInv /\ [Next]_vars => IInv'
  <1> SUFFICES ASSUME IInv, [Next]_vars PROVE IInv'
    OBVIOUS
  <1> USE ActorAssumption, KindAssumption, MaxCallsAssumption
      DEF IInv, TypeOK, Actors, States, UserPC, TimerPC, At, Goto, ecVars,
          lockVars, callVars, Ownership, Holding, OneShotPC, OnlyPeriodicSpawns, StateKnown,
          TimerKnown, StoppedMeansQuiet, Starting, Stopping, NoTimer, Busy, Periodic
  <1>1. ASSUME NEW u \in Users, NEW s \in States, NEW execute \in BOOLEAN,
               Request(u, s, execute)
        PROVE  IInv'
    BY <1>1 DEF Request
  <1>2. ASSUME NEW a \in Actors, Lock(a) PROVE IInv'
    BY <1>2 DEF Lock
  <1>3. ASSUME NEW a \in Actors, Decide(a) PROVE IInv'
    BY <1>3 DEF Decide
  <1>4. ASSUME NEW a \in Actors, SetState(a) PROVE IInv'
    BY <1>4 DEF SetState
  <1>5. ASSUME NEW a \in Actors, Unlock(a) PROVE IInv'
    BY <1>5 DEF Unlock
  <1>6. ASSUME NEW a \in Actors, Deliver(a) PROVE IInv'
    BY <1>6 DEF Deliver
  <1>7. ASSUME NEW a \in Actors, EndBound(a) PROVE IInv'
    <2>1. CASE Goto(a, "return") /\ UNCHANGED <<target, byExecute>>
      BY <1>7, <2>1 DEF EndBound
    <2>2. CASE /\ target' = [target EXCEPT ![a] = "stopped"]
               /\ byExecute' = [byExecute EXCEPT ![a] = TRUE]
               /\ Goto(a, "lock")
      <3>1. TypeOK'
        BY <1>7, <2>2 DEF EndBound
      <3>2. \A b \in Actors : b # a => pc'[b] = pc[b] /\ target'[b] = target[b]
        BY <2>2
      <3>3. pc'[a] = "lock" /\ \A w \in Timers : Busy(w)' <=> Busy(w)
        BY <1>7, <2>2, <3>2 DEF EndBound
      <3>4. UNCHANGED <<kind, currentState, copMutex, thread>>
        BY <1>7 DEF EndBound
      <3> QED
        BY <3>1, <3>2, <3>3, <3>4
    <2> QED
      BY <1>7, <2>1, <2>2 DEF EndBound
  <1>8. ASSUME NEW a \in Actors, RaiseFlag(a) PROVE IInv'
    BY <1>8 DEF RaiseFlag
  <1>9. ASSUME NEW a \in Actors, Join(a) PROVE IInv'
    BY <1>9 DEF Join
  <1>10. ASSUME NEW a \in Actors, JoinNothing(a) PROVE IInv'
    BY <1>10 DEF JoinNothing
  <1>11. ASSUME NEW u \in Users, OnStarted(u) PROVE IInv'
    <2>1. CASE Periodic /\ flag' = FALSE /\ Goto(u, "spawn")
      <3>1. TypeOK'
        BY <1>11, <2>1 DEF OnStarted
      <3>2. pc'[u] = "spawn" /\ pc[u] = "onStarted" /\ \A b \in Actors : b # u => pc'[b] = pc[b]
        BY <1>11, <2>1 DEF OnStarted
      <3>3. \A w \in Timers : pc'[w] = pc[w]
        BY <3>2
      <3>4. UNCHANGED <<kind, currentState, copMutex, thread, target>>
        BY <1>11 DEF OnStarted
      <3>5. Ownership' /\ OnlyPeriodicSpawns'
        BY <2>1, <3>2, <3>3, <3>4
      <3>6. StateKnown' /\ TimerKnown' /\ StoppedMeansQuiet'
        BY <2>1, <3>2, <3>3, <3>4
      <3> QED
        BY <3>1, <3>5, <3>6
    <2>2. CASE ~Periodic /\ Goto(u, "svc") /\ UNCHANGED flag
      BY <1>11, <2>2 DEF OnStarted
    <2> QED
      BY <1>11, <2>1, <2>2 DEF OnStarted
  <1>12. ASSUME NEW u \in Users, Spawn(u) PROVE IInv'
    BY <1>12 DEF Spawn
  <1>13. ASSUME NEW u \in Users, SvcOneShot(u) PROVE IInv'
    BY <1>13 DEF SvcOneShot
  <1>14. ASSUME NEW u \in Users, Return(u) PROVE IInv'
    BY <1>14 DEF Return
  <1>15. ASSUME NEW w \in Timers, Loop(w) PROVE IInv'
    BY <1>15 DEF Loop
  <1>16. ASSUME NEW w \in Timers, SvcTimer(w) PROVE IInv'
    BY <1>16 DEF SvcTimer
  <1>17. ASSUME NEW w \in Timers, EndSvc(w) PROVE IInv'
    BY <1>17 DEF EndSvc
  <1>18. ASSUME NEW u \in Users, EndSvcOneShot(u) PROVE IInv'
    BY <1>18 DEF EndSvcOneShot
  <1>19. CASE UNCHANGED vars
    BY <1>19 DEF vars
  <1> HIDE DEF IInv, TypeOK, Ownership, OnlyPeriodicSpawns, StateKnown, TimerKnown,
               StoppedMeansQuiet, At, Goto
  <1> QED
    BY <1>1, <1>2, <1>3, <1>4, <1>5, <1>6, <1>7, <1>8, <1>9, <1>10, <1>11, <1>12,
       <1>13, <1>14, <1>15, <1>16, <1>17, <1>18, <1>19
    DEF Next, UserStep, TimerStep, ActivateStep

\* The invariant holds of every reachable state, whatever the constants
\* (ec_container.cpp, activate_state).
THEOREM Inductive == Spec => []IInv
  BY IInit, INext, PTL DEF Spec

\* The mutexes have at most one owner each, thread_ is a created thread or
\* one of the two values it has without one, and only TimerEC clears it.
THEOREM TypeCorrect == Spec => []TypeOK
  BY Inductive, PTL DEF IInv

\* However starts and stops of a context overlap, a second timer thread is
\* never created before the first was joined (onStarted, onStopping).
THEOREM OneTimer == Spec => []AtMostOneTimer
  <1>1. IInv => AtMostOneTimer
    BY DEF IInv, TimerKnown, AtMostOneTimer
  <1> QED
    BY <1>1, Inductive, PTL

\* A context whose state is "stopped" has no thread left that could execute
\* the bound operations (activate_state, onStopping).
THEOREM QuietWhenStopped == Spec => []StoppedMeansQuiet
  BY Inductive, PTL DEF IInv
------------------------------------------------------------------------------
(* While the calls come one after another, a periodic context in "started"  *)
(* has the thread a stop will join, except between a call's own steps.       *)

OneCall == \A u, v \in Users : pc[u] # "idle" /\ pc[v] # "idle" => u = v
TimersOnlyStart == \A w \in Timers : target[w] = "started"
Between == \E u \in Users : pc[u] \in {"onStarted", "spawn"} \/ Stopping(u)
HasThread == Periodic /\ currentState = "started" /\ ~Between
               => thread \in Timers /\ Busy(thread)
Alone == ~contended => ~crashed /\ OneCall /\ TimersOnlyStart /\ HasThread

\* Nothing was called yet (createEC).
LEMMA AloneInit == Init => Alone
  BY ActorAssumption
  DEF Init, Alone, OneCall, TimersOnlyStart, HasThread, Actors

\* A step keeps a periodic context's thread where a stop finds it, as long as
\* no call has met another (onStarted, onStopping).
LEMMA AloneNext == IInv /\ Alone /\ [Next]_vars => Alone'
  <1> SUFFICES ASSUME IInv, Alone, [Next]_vars PROVE Alone'
    OBVIOUS
  <1> USE ActorAssumption, KindAssumption, MaxCallsAssumption
      DEF IInv, TypeOK, Actors, States, UserPC, TimerPC, At, Goto, ecVars,
          lockVars, callVars, Ownership, Holding, OneShotPC, OnlyPeriodicSpawns, StateKnown,
          TimerKnown, StoppedMeansQuiet, Starting, Stopping, NoTimer, Busy, Periodic,
          Alone, OneCall, TimersOnlyStart, HasThread, Between
  <1>1. ASSUME NEW u \in Users, NEW s \in States, NEW execute \in BOOLEAN,
               Request(u, s, execute)
        PROVE  Alone'
    BY <1>1 DEF Request
  <1>2. ASSUME NEW a \in Actors, Lock(a) PROVE Alone'
    BY <1>2 DEF Lock
  <1>3. ASSUME NEW a \in Actors, Decide(a) PROVE Alone'
    BY <1>3 DEF Decide
  <1>4. ASSUME NEW a \in Actors, SetState(a) PROVE Alone'
    BY <1>4 DEF SetState
  <1>5. ASSUME NEW a \in Actors, Unlock(a) PROVE Alone'
    BY <1>5 DEF Unlock
  <1>6. ASSUME NEW a \in Actors, Deliver(a) PROVE Alone'
    BY <1>6 DEF Deliver
  <1>7. ASSUME NEW a \in Actors, EndBound(a) PROVE Alone'
    BY <1>7 DEF EndBound
  <1>8. ASSUME NEW a \in Actors, RaiseFlag(a) PROVE Alone'
    BY <1>8 DEF RaiseFlag
  <1>9. ASSUME NEW a \in Actors, Join(a) PROVE Alone'
    BY <1>9 DEF Join
  <1>10. ASSUME NEW a \in Actors, JoinNothing(a) PROVE Alone'
    BY <1>10 DEF JoinNothing
  <1>11. ASSUME NEW u \in Users, OnStarted(u) PROVE Alone'
    BY <1>11 DEF OnStarted
  <1>12. ASSUME NEW u \in Users, Spawn(u) PROVE Alone'
    BY <1>12 DEF Spawn
  <1>13. ASSUME NEW u \in Users, SvcOneShot(u) PROVE Alone'
    BY <1>13 DEF SvcOneShot
  <1>14. ASSUME NEW u \in Users, Return(u) PROVE Alone'
    BY <1>14 DEF Return
  <1>15. ASSUME NEW w \in Timers, Loop(w) PROVE Alone'
    BY <1>15 DEF Loop
  <1>16. ASSUME NEW w \in Timers, SvcTimer(w) PROVE Alone'
    BY <1>16 DEF SvcTimer
  <1>17. ASSUME NEW w \in Timers, EndSvc(w) PROVE Alone'
    BY <1>17 DEF EndSvc
  <1>18. ASSUME NEW u \in Users, EndSvcOneShot(u) PROVE Alone'
    BY <1>18 DEF EndSvcOneShot
  <1>19. CASE UNCHANGED vars
    BY <1>19 DEF vars
  <1> HIDE DEF IInv, TypeOK, Ownership, OnlyPeriodicSpawns, StateKnown, TimerKnown,
               StoppedMeansQuiet, At, Goto, Alone
  <1> QED
    BY <1>1, <1>2, <1>3, <1>4, <1>5, <1>6, <1>7, <1>8, <1>9, <1>10, <1>11, <1>12,
       <1>13, <1>14, <1>15, <1>16, <1>17, <1>18, <1>19
    DEF Next, UserStep, TimerStep, ActivateStep

\* Calls that come one after another never make a stop dereference a thread_
\* that was not set or was cleared: onStopping checks nothing, activate_state's
\* comparison of the states protects it.
THEOREM JoinsSomething == Spec => []NeverJoinsNothing
  <1>1. Alone => NeverJoinsNothing
    BY DEF Alone, NeverJoinsNothing
  <1> QED
    BY <1>1, Inductive, AloneInit, AloneNext, PTL DEF Spec
==============================================================================
