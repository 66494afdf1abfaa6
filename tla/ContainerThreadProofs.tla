------------------------ MODULE ContainerThreadProofs ------------------------
(***************************************************************************)
(* Theorems about ContainerThread, for any number of callers, operations   *)
(* and calls.  IInv strengthens the checked invariants to an inductive one *)
(* by saying who owns the two mutexes at each pc and that a raised done     *)
(* flag belongs to the thread inside push_task.                            *)
(***************************************************************************)
EXTENDS ContainerThread, TLAPS

USE DEF OpMutexFree, PushMutexFree, CallerMayGo, ReadyAfterTask, AfterReport,
        NotifiedWorker, QueueAfterTask

\* The pcs inside push_task, and those between the push and the wake-up.
InPush == {"enqueue", "notify", "await", "waiting", "unlock_push"}
Posted == {"notify", "await", "waiting"}
HoldsOp == InPush \cup {"lock_push", "inline", "unlock_op"}

\* push_task_mutex_ and cop_mutex_ are owned exactly where the code holds them.
Ownership ==
  \A c \in Callers :
    /\ pushMutex = c <=> pc[c] \in InPush
    /\ pc[c] \in HoldsOp => opMutex[op[c]] = c
    /\ pc[c] \in InPush \cup {"lock_push"} => useThread
    /\ pc[c] = "inline" => ~useThread

\* Nothing has been called before the constructor is through.
Untouched ==
  ~constructed => /\ queue = <<>> /\ doneWait = {}
                  /\ \A c \in Callers : pc[c] = "idle"
                  /\ wpc \in {"top", "park", "parked", "woken", "exited"}

QueueShape ==
  /\ queue # <<>> => /\ pushMutex \in Callers /\ queue = <<pushMutex>>
                     /\ pc[pushMutex] \in Posted
  /\ wpc = "running" => queue # <<>>
  /\ doneWait \subseteq {c \in Callers : pc[c] = "waiting"}

Counts ==
  \A c \in Callers :
    /\ pc[c] \in BeforeRun => runs[c] + 1 = calls[c]
    /\ pc[c] \in AfterRun => runs[c] = calls[c]
    /\ pc[c] \in Posted => runs[c] = IF queue = <<>> THEN calls[c] ELSE calls[c] - 1

\* A completion is announced only to the thread inside push_task, once.
DoneMeansServed ==
  /\ constructed /\ (done \/ wpc = "report") =>
        queue = <<>> /\ pushMutex \in Callers /\ pc[pushMutex] \in Posted
  /\ constructed => ~(done /\ wpc = "report")

IInv == /\ TypeOK /\ Ownership /\ Untouched /\ QueueShape /\ Counts
        /\ DoneMeansServed /\ ReadyMeansTask /\ NoMissedWakeup
------------------------------------------------------------------------------
\* The state a container is constructed in has the right types, whatever the
\* flags hold (container.h, Container).
LEMMA TypeInit == Init => TypeOK
  <1> SUFFICES ASSUME Init PROVE TypeOK
    OBVIOUS
  <1>1. constructed \in BOOLEAN
    BY DEF Init
  <1>2. queue \in Seq(Callers)
    BY DEF Init
  <1>3. calls \in [Callers -> 0..MaxCalls] /\ runs \in [Callers -> 0..MaxCalls]
    BY MaxCallsAssumption DEF Init
  <1> QED
    BY <1>1, <1>2, <1>3 DEF Init, TypeOK, CallerPC, WorkerPC, Results

\* The constructor's garbage flags satisfy the inductive invariant: nothing is
\* claimed of them before the constructor is through (container.h, Container).
LEMMA IInit == Init => IInv
  <1> SUFFICES ASSUME Init PROVE IInv
    OBVIOUS
  <1>1. TypeOK
    BY TypeInit
  <1>2. Ownership /\ Untouched /\ QueueShape
    BY NoOneAssumption DEF Init, Ownership, Untouched, QueueShape, InPush, HoldsOp
  <1>3. Counts /\ DoneMeansServed /\ ReadyMeansTask /\ NoMissedWakeup
    BY DEF Init, Counts, DoneMeansServed, ReadyMeansTask, NoMissedWakeup,
           BeforeRun, AfterRun, Posted
  <1> QED
    BY <1>1, <1>2, <1>3 DEF IInv

\* Every step of a caller, of the worker or of the constructor preserves the
\* inductive invariant (container.h, push_task, thread_routine, call).
LEMMA INext == IInv /\ [Next]_vars => IInv'
  <1> SUFFICES ASSUME IInv, [Next]_vars PROVE IInv'
    OBVIOUS
  <1> USE NoOneAssumption, MaxCallsAssumption
      DEF IInv, TypeOK, CallerPC, WorkerPC, Results, Ownership, Untouched,
          QueueShape, Counts, DoneMeansServed, ReadyMeansTask, NoMissedWakeup,
          InPush, Posted, HoldsOp, BeforeRun, AfterRun, flagVars, callVars
  <1>1. CASE ConstructMembers
    BY <1>1 DEF ConstructMembers
  <1>2. CASE WorkerTop
    BY <1>2 DEF WorkerTop
  <1>3. CASE WorkerPark
    BY <1>3 DEF WorkerPark
  <1>4. CASE WorkerSpuriousWake
    BY <1>4 DEF WorkerSpuriousWake
  <1>5. CASE WorkerCheck
    BY <1>5 DEF WorkerCheck
  <1>6. CASE FinishTask
    <2> DEFINE c == pushMutex
    <2>1. c \in Callers /\ queue = <<c>> /\ pc[c] \in Posted /\ wpc = "running"
      BY <1>6 DEF FinishTask
    <2>2. Head(queue) = c /\ Tail(queue) = <<>>
      BY <2>1
    <2>3. runs[c] = calls[c] - 1
      BY <2>1
    <2>4. /\ runs' = [runs EXCEPT ![c] = @ + 1] /\ queue' = <<>>
          /\ \E r \in {"value", "empty"} : result' = [result EXCEPT ![c] = r]
          /\ ready' = FALSE /\ wpc' = "report"
          /\ UNCHANGED <<useThread, constructed, endFlag, opMutex, op, calls,
                         done, pushMutex, pc, doneWait>>
      BY <1>6, <2>2 DEF FinishTask
    <2>5. constructed
      BY <2>1
    <2>6. runs' \in [Callers -> 0..MaxCalls]
      <3>1. runs[c] + 1 \in 0..MaxCalls
        BY <2>1, <2>3
      <3> QED
        BY <2>1, <2>4, <3>1
    <2> HIDE DEF c
    <2>7. TypeOK'
      <3>1. result' \in [Callers -> Results]
        BY <2>1, <2>4
      <3>2. queue' \in Seq(Callers)
        BY <2>4
      <3>3. wpc' \in WorkerPC /\ ready' \in BOOLEAN
        BY <2>4
      <3> QED
        BY <2>4, <2>6, <3>1, <3>2, <3>3
    <2>8. Ownership' /\ Untouched'
      BY <2>4, <2>5
    <2>9. QueueShape'
      BY <2>4
    <2>10. Counts'
      BY <2>1, <2>3, <2>4
    <2>11. DoneMeansServed' /\ ReadyMeansTask' /\ NoMissedWakeup'
      BY <2>1, <2>4, <2>5 DEF c
    <2> QED
      BY <2>7, <2>8, <2>9, <2>10, <2>11
  <1>7. CASE ReportDone
    BY <1>7 DEF ReportDone
  <1>8. CASE NotifyCallers
    BY <1>8 DEF NotifyCallers
  <1>9. ASSUME NEW c \in Callers, NEW o \in Operations, StartCall(c, o)
        PROVE IInv'
    BY <1>9 DEF StartCall
  <1>10. ASSUME NEW c \in Callers, CallerSpuriousWake(c) PROVE IInv'
    BY <1>10 DEF CallerSpuriousWake
  <1>11. ASSUME NEW c \in Callers, CallStep(c) PROVE IInv'
    <2>1. CASE LockOperation(c)
      BY <2>1 DEF LockOperation
    <2>2. CASE LockPush(c)
      <3>1. TypeOK'
        BY <2>2 DEF LockPush
      <3>2. Ownership'
        BY <2>2 DEF LockPush
      <3>3. Untouched'
        BY <2>2 DEF LockPush
      <3>4. QueueShape'
        BY <2>2 DEF LockPush
      <3>5. Counts'
        BY <2>2 DEF LockPush
      <3>6. DoneMeansServed'
        BY <2>2 DEF LockPush
      <3>7. ReadyMeansTask'
        BY <2>2 DEF LockPush
      <3>8. NoMissedWakeup'
        BY <2>2 DEF LockPush
      <3> QED
        BY <3>1, <3>2, <3>3, <3>4, <3>5, <3>6, <3>7, <3>8
    <2>3. CASE EnqueueTask(c)
      <3>1. TypeOK'
        BY <2>3 DEF EnqueueTask
      <3>2. Ownership'
        BY <2>3 DEF EnqueueTask
      <3>3. Untouched'
        BY <2>3 DEF EnqueueTask
      <3>4. QueueShape'
        <4>1. pushMutex = c /\ queue = <<>> /\ wpc # "running"
          BY <2>3 DEF EnqueueTask
        <4>2. queue' = <<c>> /\ pc'[c] = "notify"
          BY <2>3, <4>1 DEF EnqueueTask
        <4>3. UNCHANGED <<pushMutex, wpc, doneWait>> /\ \A d \in Callers : d # c => pc'[d] = pc[d]
          BY <2>3 DEF EnqueueTask
        <4> QED
          BY <2>3, <4>1, <4>2, <4>3 DEF EnqueueTask
      <3>5. Counts'
        BY <2>3 DEF EnqueueTask
      <3>6. DoneMeansServed'
        BY <2>3 DEF EnqueueTask
      <3>7. ReadyMeansTask'
        BY <2>3 DEF EnqueueTask
      <3>8. NoMissedWakeup'
        BY <2>3 DEF EnqueueTask
      <3> QED
        BY <3>1, <3>2, <3>3, <3>4, <3>5, <3>6, <3>7, <3>8
    <2>4. CASE NotifyWorker(c)
      BY <2>4 DEF NotifyWorker
    <2>5. CASE AwaitDone(c)
      <3>1. TypeOK'
        <4>1. doneWait' \subseteq Callers
          BY <2>5 DEF AwaitDone
        <4>2. done' \in BOOLEAN
          BY <2>5 DEF AwaitDone
        <4>3. pc' \in [Callers -> CallerPC]
          BY <2>5 DEF AwaitDone
        <4> QED
          BY <2>5, <4>1, <4>2, <4>3 DEF AwaitDone
      <3>2. Ownership'
        BY <2>5 DEF AwaitDone
      <3>3. Untouched'
        BY <2>5 DEF AwaitDone
      <3>4. QueueShape'
        BY <2>5 DEF AwaitDone
      <3>5. Counts'
        BY <2>5 DEF AwaitDone
      <3>6. DoneMeansServed'
        BY <2>5 DEF AwaitDone
      <3>7. ReadyMeansTask'
        BY <2>5 DEF AwaitDone
      <3>8. NoMissedWakeup'
        BY <2>5 DEF AwaitDone
      <3> QED
        BY <3>1, <3>2, <3>3, <3>4, <3>5, <3>6, <3>7, <3>8
    <2>6. CASE CallerCheck(c)
      <3>1. TypeOK'
        <4>1. doneWait' \subseteq Callers
          BY <2>6 DEF CallerCheck
        <4>2. done' \in BOOLEAN
          BY <2>6 DEF CallerCheck
        <4>3. pc' \in [Callers -> CallerPC]
          <5>1. CASE done
            <6>1. pc' = [pc EXCEPT ![c] = "unlock_push"]
              BY <2>6, <5>1 DEF CallerCheck
            <6>2. pc \in [Callers -> CallerPC] /\ "unlock_push" \in CallerPC
              OBVIOUS
            <6> HIDE DEF CallerPC
            <6> QED
              BY ONLY <6>1, <6>2, c \in Callers
          <5>2. CASE ~done
            BY <2>6, <5>2 DEF CallerCheck
          <5> QED
            BY <5>1, <5>2
        <4> QED
          BY <2>6, <4>1, <4>2, <4>3 DEF CallerCheck
      <3>2. Ownership'
        BY <2>6 DEF CallerCheck
      <3>3. Untouched'
        BY <2>6 DEF CallerCheck
      <3>4. QueueShape'
        BY <2>6 DEF CallerCheck
      <3>5. Counts'
        BY <2>6 DEF CallerCheck
      <3>6. DoneMeansServed'
        BY <2>6 DEF CallerCheck
      <3>7. ReadyMeansTask'
        BY <2>6 DEF CallerCheck
      <3>8. NoMissedWakeup'
        BY <2>6 DEF CallerCheck
      <3> QED
        BY <3>1, <3>2, <3>3, <3>4, <3>5, <3>6, <3>7, <3>8
    <2>7. CASE UnlockPush(c)
      BY <2>7 DEF UnlockPush
    <2>8. CASE RunInline(c)
      BY <2>8 DEF RunInline
    <2>9. CASE Return(c)
      BY <2>9 DEF Return
    <2> QED
      BY <1>11, <2>1, <2>2, <2>3, <2>4, <2>5, <2>6, <2>7, <2>8, <2>9 DEF CallStep
  <1>12. CASE UNCHANGED vars
    BY <1>12 DEF vars
  <1> QED
    BY <1>1, <1>2, <1>3, <1>4, <1>5, <1>6, <1>7, <1>8, <1>9, <1>10, <1>11, <1>12
    DEF Next, Worker

\* Every variable keeps its type, whatever the constants: no thread runs a
\* body more often than it called, and the queue holds only callers' tasks
\* (container.h, thread_routine and push_task).
THEOREM TypeCorrect == Spec => []TypeOK
  <1>1. IInv => TypeOK
    BY DEF IInv
  <1> QED
    BY IInit, INext, <1>1, PTL DEF Spec

\* A call returns only after its own body ran, exactly once, however many
\* threads share the container's one done flag (container.h, push_task).
THEOREM CallsServedExactlyOnce == Spec => []ServedExactlyOnce
  <1>1. IInv => ServedExactlyOnce
    <2> SUFFICES ASSUME IInv, NEW c \in Callers
                 PROVE /\ pc[c] \in BeforeRun => runs[c] + 1 = calls[c]
                       /\ pc[c] \in AfterRun => runs[c] = calls[c]
                       /\ runs[c] \in {calls[c], calls[c] - 1}
      BY DEF ServedExactlyOnce
    <2>1. pc[c] \in BeforeRun \cup AfterRun \cup Posted
      BY DEF IInv, TypeOK, CallerPC, BeforeRun, AfterRun, Posted
    <2>2. runs[c] \in Nat /\ calls[c] \in Nat
      BY MaxCallsAssumption DEF IInv, TypeOK
    <2>3. runs[c] \in {calls[c], calls[c] - 1}
      BY <2>1, <2>2 DEF IInv, Counts
    <2> QED
      BY <2>3 DEF IInv, Counts
  <1> QED
    BY IInit, INext, <1>1, PTL DEF Spec

\* The queue holds at most the task of the thread blocked inside push_task,
\* so what the task captured by reference outlives it.
THEOREM QueuedTaskIsCovered == Spec => []QueuedTaskHasWaiter
  <1>1. IInv => QueuedTaskHasWaiter
    BY DEF IInv, QueueShape, QueuedTaskHasWaiter, Posted
  <1> QED
    BY IInit, INext, <1>1, PTL DEF Spec

\* Two bodies of an operation never overlap, and no two bodies of a container
\* with a worker do (cop_mutex_ and the worker's task queue).
THEOREM MutualExclusion == Spec => []BodiesExclusive
  <1>1. IInv => BodiesExclusive
    <2> SUFFICES ASSUME IInv, NEW c \in Callers, NEW d \in Callers,
                        c # d, Executing(c), Executing(d)
                 PROVE ~useThread /\ op[c] # op[d]
      BY DEF BodiesExclusive
    <2>1. pc[c] = "inline" /\ pc[d] = "inline"
      BY DEF IInv, Executing, QueueShape, Ownership, Posted, InPush
    <2> QED
      BY <2>1 DEF IInv, Ownership, HoldsOp
  <1> QED
    BY IInit, INext, <1>1, PTL DEF Spec

\* Neither condition variable loses a wakeup between the change of its flag
\* and the notification, and a raised ready flag always has a task behind it:
\* the hangs the runs show come from clearing a flag, not from a missed notify.
THEOREM WakeupsNotMissed == Spec => [](NoMissedWakeup /\ ReadyMeansTask)
  <1>1. IInv => NoMissedWakeup /\ ReadyMeansTask
    BY DEF IInv
  <1> QED
    BY IInit, INext, <1>1, PTL DEF Spec
------------------------------------------------------------------------------
(* The hand-off implements the atomic service: only StartCall, the two ends *)
(* of a body and Return change what TaskService sees.                       *)

\* A step that moves no caller into or out of idle and runs no body is a
\* stutter of the atomic service.
LEMMA PhaseUnchanged ==
  ASSUME UNCHANGED <<runs, calls>>,
         \A c \in Callers : pc'[c] = "idle" <=> pc[c] = "idle"
  PROVE  Phase' = Phase
  BY DEF Phase

\* Running one pending caller's body is the service's Serve step for it
\* (the lambda of ContainerOperation::call).
LEMMA BodyServes ==
  ASSUME IInv, NEW c \in Callers, pc[c] # "idle", runs[c] = calls[c] - 1,
         UNCHANGED <<op, calls>>, runs' = [runs EXCEPT ![c] = @ + 1],
         \A d \in Callers : pc'[d] = "idle" <=> pc[d] = "idle",
         \E r \in Results : result' = [result EXCEPT ![c] = r]
  PROVE  Service!Serve(c)
  <1>1. runs[c] \in Nat /\ calls[c] \in Nat /\ runs \in [Callers -> 0..MaxCalls]
    BY MaxCallsAssumption DEF IInv, TypeOK
  <1>2. runs'[c] = calls'[c] /\ \A d \in Callers : d # c => runs'[d] = runs[d]
    BY <1>1
  <1>3. Phase[c] = "pending"
    BY <1>1 DEF Phase
  <1>4. Phase' = [Phase EXCEPT ![c] = "served"]
    BY <1>2 DEF Phase
  <1> QED
    BY <1>3, <1>4 DEF Service!Serve

\* Every step of the hand-off is a step or a stutter of TaskService.
LEMMA StepSimulation == IInv /\ [Next]_vars => [Service!Next]_(Service!svcVars)
  <1> SUFFICES ASSUME IInv, [Next]_vars
               PROVE Service!Next \/ UNCHANGED <<Phase, result>>
    BY DEF Service!svcVars
  <1> USE DEF flagVars, callVars
  <1>1. CASE ConstructMembers
    BY <1>1, PhaseUnchanged DEF ConstructMembers
  <1>2. CASE WorkerTop \/ WorkerPark \/ WorkerCheck \/ ReportDone
             \/ NotifyCallers \/ WorkerSpuriousWake
    BY <1>2, PhaseUnchanged
    DEF WorkerTop, WorkerPark, WorkerCheck, ReportDone, NotifyCallers,
        WorkerSpuriousWake
  <1>3. CASE FinishTask
    <2> DEFINE c == pushMutex
    <2>1. c \in Callers /\ queue = <<c>> /\ pc[c] \in Posted
      BY <1>3 DEF FinishTask, IInv, QueueShape
    <2>2. runs[c] = calls[c] - 1 /\ Head(queue) = c
      BY <2>1 DEF IInv, Counts
    <2>3. /\ runs' = [runs EXCEPT ![c] = @ + 1]
          /\ \E r \in {"value", "empty"} : result' = [result EXCEPT ![c] = r]
          /\ UNCHANGED <<op, calls, pc>>
      BY <1>3, <2>2 DEF FinishTask
    <2> HIDE DEF c
    <2>4. \E r \in Results : result' = [result EXCEPT ![c] = r]
      BY <2>3 DEF Results
    <2>5. Service!Serve(c)
      BY <2>1, <2>2, <2>3, <2>4, BodyServes DEF Posted
    <2> QED
      BY <2>1, <2>5 DEF Service!Next
  <1>4. ASSUME NEW c \in Callers, NEW o \in Operations, StartCall(c, o)
        PROVE Service!Next
    <2>1. runs[c] = calls[c] /\ calls[c] \in Nat
      BY <1>4, MaxCallsAssumption
      DEF StartCall, IInv, TypeOK, Counts, AfterRun
    <2>2. Phase[c] = "idle"
      BY <1>4 DEF StartCall, Phase
    <2>3. /\ pc' = [pc EXCEPT ![c] = "lock_op"] /\ calls' = [calls EXCEPT ![c] = @ + 1]
          /\ UNCHANGED <<runs, result>>
      BY <1>4 DEF StartCall
    <2>4. pc'[c] = "lock_op" /\ runs'[c] # calls'[c]
      BY <2>1, <2>3 DEF IInv, TypeOK
    <2>5. \A d \in Callers : d # c => pc'[d] = pc[d] /\ calls'[d] = calls[d]
      BY <2>3 DEF IInv, TypeOK
    <2>6. Phase' = [Phase EXCEPT ![c] = "pending"]
      BY <2>3, <2>4, <2>5 DEF Phase
    <2> QED
      BY <2>2, <2>3, <2>6 DEF Service!Next, Service!Call
  <1>5. ASSUME NEW c \in Callers, RunInline(c) PROVE Service!Next
    <2>1. runs[c] = calls[c] - 1
      BY <1>5, MaxCallsAssumption
      DEF RunInline, IInv, TypeOK, Counts, BeforeRun
    <2>2. /\ runs' = [runs EXCEPT ![c] = @ + 1] /\ pc' = [pc EXCEPT ![c] = "unlock_op"]
          /\ pc[c] = "inline" /\ UNCHANGED <<op, calls>>
          /\ \E r \in Results : result' = [result EXCEPT ![c] = r]
      BY <1>5 DEF RunInline, Results
    <2>3. \A d \in Callers : pc'[d] = "idle" <=> pc[d] = "idle"
      BY <2>2 DEF IInv, TypeOK
    <2>4. Service!Serve(c)
      BY <2>1, <2>2, <2>3, BodyServes
    <2> QED
      BY <2>4 DEF Service!Next
  <1>6. ASSUME NEW c \in Callers, Return(c) PROVE Service!Next
    <2>1. runs[c] = calls[c]
      BY <1>6 DEF Return, IInv, Counts, AfterRun
    <2>2. Phase[c] = "served"
      BY <1>6, <2>1 DEF Return, Phase
    <2>3. pc' = [pc EXCEPT ![c] = "idle"] /\ UNCHANGED <<runs, calls, result>>
      BY <1>6 DEF Return
    <2>4. Phase' = [Phase EXCEPT ![c] = "idle"]
      BY <2>3 DEF Phase, IInv, TypeOK
    <2> QED
      BY <2>2, <2>3, <2>4 DEF Service!Next, Service!Reply
  <1>7. ASSUME NEW c \in Callers,
               \/ LockOperation(c) \/ LockPush(c) \/ EnqueueTask(c)
               \/ NotifyWorker(c) \/ AwaitDone(c) \/ CallerCheck(c)
               \/ UnlockPush(c) \/ CallerSpuriousWake(c)
        PROVE UNCHANGED <<Phase, result>>
    <2>1. UNCHANGED <<runs, calls, result>>
      BY <1>7 DEF LockOperation, LockPush, EnqueueTask, NotifyWorker, AwaitDone,
                  CallerCheck, UnlockPush, CallerSpuriousWake
    <2>2. \A d \in Callers : pc'[d] = "idle" <=> pc[d] = "idle"
      BY <1>7 DEF LockOperation, LockPush, EnqueueTask, NotifyWorker, AwaitDone,
                  CallerCheck, UnlockPush, CallerSpuriousWake, IInv, TypeOK
    <2> QED
      BY <2>1, <2>2, PhaseUnchanged
  <1>8. CASE UNCHANGED vars
    BY <1>8, PhaseUnchanged DEF vars
  <1> QED
    BY <1>1, <1>2, <1>3, <1>4, <1>5, <1>6, <1>7, <1>8
    DEF Next, Worker, CallStep

\* push_task and thread_routine together are an atomic service of each call:
\* one body per call, between its start and its return, and the call returns
\* the outcome of that body.
THEOREM HandOffImplementsService == Spec => ImplementsTaskService
  <1>1. Init => Service!Init
    BY DEF Init, Service!Init, Phase, Results
  <1> QED
    BY <1>1, IInit, INext, StepSimulation, PTL
    DEF Spec, ImplementsTaskService, Service!Spec
==============================================================================
