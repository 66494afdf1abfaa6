--------------------------- MODULE ContainerThread ---------------------------
(***************************************************************************)
(* Container<T> and ContainerOperation<T> of include/juiz/container.h: the *)
(* hand-off of an operation call from the thread that makes it to the      *)
(* container's worker thread and back.                                     *)
(*                                                                         *)
(* Critical sections that neither block nor call out are one step each;    *)
(* the unlock and the notification that follows it are two.  task_mutex_   *)
(* is held across steps only while the worker runs a body, so it is free   *)
(* exactly when wpc # "running"; threading_mutex_ is never held across a   *)
(* step.  A thread blocked in a condition variable leaves it when it is    *)
(* notified or spuriously, and then tests its predicate again.             *)
(***************************************************************************)
EXTENDS Naturals, Sequences

CONSTANTS Callers,     \* threads that call operations of the container
          Operations,  \* the container's ContainerOperations
          NoOne,       \* "no thread owns this mutex"
          MaxCalls     \* bound: calls each thread makes

ASSUME NoOneAssumption == NoOne \notin Callers
ASSUME MaxCallsAssumption == MaxCalls \in Nat

VARIABLES
  useThread,    \* use_thread_, fixed by ContainerFactory::create
  constructed,  \* Container's constructor has initialised every member
  endFlag,      \* end_flag_
  ready,        \* task_is_ready_
  done,         \* task_is_done_
  queue,        \* task_queue_, the caller of each queued task
  pushMutex,    \* owner of push_task_mutex_
  opMutex,      \* opMutex[o]: owner of cop_mutex_ of operation o
  pc,           \* pc[c]: where caller c stands in ContainerOperation::call
  op,           \* op[c]: the operation c calls
  doneWait,     \* callers blocked in threading_condition_variable_
  wpc,          \* where the worker stands in thread_routine
  calls,        \* calls[c]: calls c has started
  runs,         \* runs[c]: bodies run on behalf of c
  result        \* result[c]: the value c's call returns ("v" in the code)

callVars == <<opMutex, op, calls>>
flagVars == <<useThread, constructed, endFlag>>
vars == <<useThread, constructed, endFlag, ready, done, queue, pushMutex,
          opMutex, pc, op, doneWait, wpc, calls, runs, result>>

\* "empty" is a default-constructed Value, "error" a Value::error.
Results == {"empty", "value", "error"}

CallerPC == {"idle", "lock_op", "lock_push", "enqueue", "notify", "await",
             "waiting", "unlock_push", "inline", "unlock_op"}
WorkerPC == {"top", "park", "parked", "woken", "running", "report", "notify",
             "exited"}

\* The members declared after thread_ hold whatever the heap held until the
\* constructor reaches them; the worker has been started already.
Init ==
  /\ useThread \in BOOLEAN
  /\ constructed = FALSE
  /\ endFlag \in BOOLEAN /\ ready \in BOOLEAN /\ done \in BOOLEAN
  /\ queue = <<>>
  /\ pushMutex = NoOne
  /\ opMutex = [o \in Operations |-> NoOne]
  /\ pc = [c \in Callers |-> "idle"]
  /\ op \in [Callers -> Operations]
  /\ doneWait = {}
  /\ wpc = "top"
  /\ calls = [c \in Callers |-> 0]
  /\ runs = [c \in Callers |-> 0]
  /\ result = [c \in Callers |-> "empty"]

ConstructMembers ==
  /\ ~constructed
  /\ constructed' = TRUE
  /\ endFlag' = FALSE /\ ready' = FALSE /\ done' = FALSE
  /\ UNCHANGED <<useThread, queue, pushMutex, opMutex, pc, op, doneWait, wpc,
                 calls, runs, result>>
------------------------------------------------------------------------------
(* The worker: Container<T>::thread_routine *)

WorkerTop ==
  /\ wpc = "top"
  /\ wpc' = IF endFlag THEN "exited" ELSE "park"
  /\ UNCHANGED <<flagVars, callVars, ready, done, queue, pushMutex, pc,
                 doneWait, runs, result>>

\* Takes task_mutex_, clears the ready flag whatever it held, and blocks.
WorkerPark ==
  /\ wpc = "park"
  /\ ready' = FALSE
  /\ wpc' = "parked"
  /\ UNCHANGED <<flagVars, callVars, done, queue, pushMutex, pc, doneWait,
                 runs, result>>

WorkerSpuriousWake ==
  /\ wpc = "parked"
  /\ wpc' = "woken"
  /\ UNCHANGED <<flagVars, callVars, ready, done, queue, pushMutex, pc,
                 doneWait, runs, result>>

\* The woken worker has task_mutex_ again and tests the predicate.
WorkerCheck ==
  /\ wpc = "woken"
  /\ IF ~ready
       THEN wpc' = "parked" /\ UNCHANGED ready
       ELSE IF queue = <<>>
              THEN wpc' = "top" /\ ready' = FALSE
              ELSE wpc' = "running" /\ UNCHANGED ready
  /\ UNCHANGED <<flagVars, callVars, done, queue, pushMutex, pc, doneWait,
                 runs, result>>

ReadyAfterTask == FALSE

QueueAfterTask == Tail(queue)

\* The body ends.  An exception is logged by the worker's own handler and the
\* caller's Value stays default-constructed.
FinishTask ==
  /\ wpc = "running"
  /\ LET c == Head(queue) IN
       /\ runs' = [runs EXCEPT ![c] = @ + 1]
       /\ \E r \in {"value", "empty"} : result' = [result EXCEPT ![c] = r]
  /\ ready' = ReadyAfterTask
  /\ queue' = QueueAfterTask
  /\ wpc' = "report"
  /\ UNCHANGED <<flagVars, callVars, done, pushMutex, pc, doneWait>>

AfterReport_NoNotification == "top"
AfterReport == "notify"

ReportDone ==
  /\ wpc = "report"
  /\ done' = TRUE
  /\ wpc' = AfterReport
  /\ UNCHANGED <<flagVars, callVars, ready, queue, pushMutex, pc, doneWait,
                 runs, result>>

NotifyCallers ==
  /\ wpc = "notify"
  /\ doneWait' = {}
  /\ wpc' = "top"
  /\ UNCHANGED <<flagVars, callVars, ready, done, queue, pushMutex, pc, runs,
                 result>>
------------------------------------------------------------------------------
(* The caller: ContainerOperation<T>::call and Container<T>::push_task *)

StartCall(c, o) ==
  /\ constructed
  /\ pc[c] = "idle"
  /\ calls[c] < MaxCalls
  /\ calls' = [calls EXCEPT ![c] = @ + 1]
  /\ op' = [op EXCEPT ![c] = o]
  /\ pc' = [pc EXCEPT ![c] = "lock_op"]
  /\ UNCHANGED <<flagVars, ready, done, queue, pushMutex, opMutex, doneWait,
                 wpc, runs, result>>

OpMutexFree_Ignored(c) == TRUE
OpMutexFree(c) == opMutex[op[c]] = NoOne

LockOperation(c) ==
  /\ pc[c] = "lock_op"
  /\ OpMutexFree(c)
  /\ opMutex' = [opMutex EXCEPT ![op[c]] = c]
  /\ pc' = [pc EXCEPT ![c] = IF useThread THEN "lock_push" ELSE "inline"]
  /\ UNCHANGED <<flagVars, ready, done, queue, pushMutex, op, doneWait, wpc,
                 calls, runs, result>>

PushMutexFree == pushMutex = NoOne

LockPush(c) ==
  /\ pc[c] = "lock_push"
  /\ PushMutexFree
  /\ pushMutex' = c
  /\ pc' = [pc EXCEPT ![c] = "enqueue"]
  /\ UNCHANGED <<flagVars, callVars, ready, done, queue, doneWait, wpc, runs,
                 result>>

EnqueueTask(c) ==
  /\ pc[c] = "enqueue"
  /\ wpc # "running"
  /\ queue' = Append(queue, c)
  /\ ready' = TRUE
  /\ pc' = [pc EXCEPT ![c] = "notify"]
  /\ UNCHANGED <<flagVars, callVars, done, pushMutex, doneWait, wpc, runs,
                 result>>

NotifiedWorker_Lost == wpc
NotifiedWorker == IF wpc = "parked" THEN "woken" ELSE wpc

NotifyWorker(c) ==
  /\ pc[c] = "notify"
  /\ wpc' = NotifiedWorker
  /\ pc' = [pc EXCEPT ![c] = "await"]
  /\ UNCHANGED <<flagVars, callVars, ready, done, queue, pushMutex, doneWait,
                 runs, result>>

\* Takes threading_mutex_, clears the done flag whatever it held, and blocks.
AwaitDone(c) ==
  /\ pc[c] = "await"
  /\ done' = FALSE
  /\ doneWait' = doneWait \cup {c}
  /\ pc' = [pc EXCEPT ![c] = "waiting"]
  /\ UNCHANGED <<flagVars, callVars, ready, queue, pushMutex, wpc, runs,
                 result>>

CallerSpuriousWake(c) ==
  /\ c \in doneWait
  /\ doneWait' = doneWait \ {c}
  /\ UNCHANGED <<flagVars, callVars, ready, done, queue, pushMutex, pc, wpc,
                 runs, result>>

CallerMayGo_NoPredicate == TRUE
CallerMayGo == done

\* The woken caller has threading_mutex_ again and tests the predicate.
CallerCheck(c) ==
  /\ pc[c] = "waiting" /\ c \notin doneWait
  /\ IF CallerMayGo
       THEN /\ done' = FALSE
            /\ pc' = [pc EXCEPT ![c] = "unlock_push"]
            /\ UNCHANGED doneWait
       ELSE /\ doneWait' = doneWait \cup {c}
            /\ UNCHANGED <<done, pc>>
  /\ UNCHANGED <<flagVars, callVars, ready, queue, pushMutex, wpc, runs,
                 result>>

UnlockPush(c) ==
  /\ pc[c] = "unlock_push"
  /\ pushMutex' = NoOne
  /\ pc' = [pc EXCEPT ![c] = "unlock_op"]
  /\ UNCHANGED <<flagVars, callVars, ready, done, queue, doneWait, wpc, runs,
                 result>>

\* Without the worker the caller runs the body itself, and an exception
\* becomes an error value.
RunInline(c) ==
  /\ pc[c] = "inline"
  /\ runs' = [runs EXCEPT ![c] = @ + 1]
  /\ \E r \in {"value", "error"} : result' = [result EXCEPT ![c] = r]
  /\ pc' = [pc EXCEPT ![c] = "unlock_op"]
  /\ UNCHANGED <<flagVars, callVars, ready, done, queue, pushMutex, doneWait,
                 wpc>>

Return(c) ==
  /\ pc[c] = "unlock_op"
  /\ opMutex' = [opMutex EXCEPT ![op[c]] = NoOne]
  /\ pc' = [pc EXCEPT ![c] = "idle"]
  /\ UNCHANGED <<flagVars, ready, done, queue, pushMutex, op, doneWait, wpc,
                 calls, runs, result>>
------------------------------------------------------------------------------
Worker == \/ WorkerTop \/ WorkerPark \/ WorkerCheck \/ FinishTask
          \/ ReportDone \/ NotifyCallers

CallStep(c) == \/ LockOperation(c) \/ LockPush(c) \/ EnqueueTask(c)
               \/ NotifyWorker(c) \/ AwaitDone(c) \/ CallerCheck(c)
               \/ UnlockPush(c) \/ RunInline(c) \/ Return(c)

Next == \/ ConstructMembers
        \/ Worker
        \/ WorkerSpuriousWake
        \/ \E c \in Callers : \/ CallStep(c)
                              \/ CallerSpuriousWake(c)
                              \/ \E o \in Operations : StartCall(c, o)

Spec == Init /\ [][Next]_vars

\* The scheduler runs every thread that can step, and bodies terminate.
Fairness == /\ WF_vars(ConstructMembers)
            /\ WF_vars(Worker)
            /\ \A c \in Callers : WF_vars(CallStep(c))

FairSpec == Spec /\ Fairness
------------------------------------------------------------------------------
(* Properties *)

TypeOK ==
  /\ useThread \in BOOLEAN /\ constructed \in BOOLEAN /\ endFlag \in BOOLEAN
  /\ ready \in BOOLEAN /\ done \in BOOLEAN
  /\ queue \in Seq(Callers)
  /\ pushMutex \in Callers \cup {NoOne}
  /\ opMutex \in [Operations -> Callers \cup {NoOne}]
  /\ pc \in [Callers -> CallerPC]
  /\ op \in [Callers -> Operations]
  /\ doneWait \subseteq Callers
  /\ wpc \in WorkerPC
  /\ calls \in [Callers -> 0..MaxCalls]
  /\ runs \in [Callers -> 0..MaxCalls]
  /\ result \in [Callers -> Results]

\* The pcs at which a caller's body cannot have run yet, and those at which
\* it must have run.
BeforeRun == {"lock_op", "lock_push", "enqueue", "inline"}
AfterRun == {"idle", "unlock_push", "unlock_op"}

\* A call returns only after its own body has run, and no body runs twice:
\* the single done flag, shared by every caller and reset by each of them,
\* never lets a caller go on somebody else's completion
\* (container.h, push_task and thread_routine).
ServedExactlyOnce ==
  \A c \in Callers :
    /\ pc[c] \in BeforeRun => runs[c] + 1 = calls[c]
    /\ pc[c] \in AfterRun => runs[c] = calls[c]
    /\ runs[c] \in {calls[c], calls[c] - 1}

\* Who is executing a body: the caller itself, or the caller whose task the
\* worker runs.
Executing(c) == pc[c] = "inline" \/ (wpc = "running" /\ Head(queue) = c)

\* Two bodies of one operation never overlap, and with a worker no two
\* bodies of the container do (cop_mutex_, and the task queue).
BodiesExclusive ==
  \A c, d \in Callers :
    c # d /\ Executing(c) /\ Executing(d) => ~useThread /\ op[c] # op[d]

\* The ready flag tells the truth: whenever it is set there is a task, so
\* the worker's "ready flag is ON but task queue is empty" branch is dead.
ReadyMeansTask == constructed /\ ready => queue # <<>>

\* No wakeup is lost between setting a flag and notifying: a thread blocked
\* while its predicate holds is about to be notified.
NoMissedWakeup ==
  /\ constructed /\ done /\ doneWait # {} => wpc = "notify"
  /\ constructed /\ ready /\ wpc = "parked" => \E c \in Callers : pc[c] = "notify"

\* The queue never holds more than the task of the thread inside push_task,
\* so the worker's captured references (v, c, value) are alive when it runs.
QueuedTaskHasWaiter ==
  queue # <<>> => queue = <<pushMutex>> /\ pc[pushMutex] \in {"notify", "await", "waiting"}

\* The hand-off implements the atomic service of TaskService.
Phase == [c \in Callers |-> IF pc[c] = "idle" THEN "idle"
                            ELSE IF runs[c] = calls[c] THEN "served" ELSE "pending"]
Service == INSTANCE TaskService WITH Outcomes <- Results, phase <- Phase,
                                     outcome <- result
ImplementsTaskService == Service!Spec

\* Once its task is in the queue, the ready flag still up, the worker past the
\* point where it clears that flag, and the caller already blocked, a call
\* runs and returns: the completion half of the hand-off loses nothing then.
Handed(c) == /\ pc[c] = "waiting" /\ queue = <<c>> /\ ready
             /\ wpc \in {"parked", "woken", "running"}
HandedCallReturns == \A c \in Callers : Handed(c) ~> (pc[c] = "idle")

\* A call returns (src/test/container_test.cpp calls and goes on).  The code
\* breaks this twice: WorkerPark clears a ready flag that was raised while the
\* worker was on its way to the wait, so that a queued task is never run, and
\* AwaitDone clears a done flag the worker raised before the caller got there.
CallReturns == \A c \in Callers : (pc[c] # "idle") ~> (pc[c] = "idle")
==============================================================================
