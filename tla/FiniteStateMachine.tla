-------------------------- MODULE FiniteStateMachine --------------------------
(***************************************************************************)
(* An FSM container (src/lib/fsm/fsm_container.cpp) and the execution      *)
(* context its entry connections drive.  Each state has an operation       *)
(* activate_state_s; executing it runs the activate_state lambda and then  *)
(* the operations connected to its outlet by EVENT, on the caller's stack. *)
(*                                                                         *)
(* The container keeps its worker thread (createFSM asks for no other), so *)
(* a body runs alone: worker stands for the hand-off of ContainerThread.   *)
(* The execution context is its currentState; ExecutionContext has the     *)
(* steps of its activate operations.                                       *)
(***************************************************************************)
EXTENDS Naturals, Sequences, SequencesExt

CONSTANTS
  Threads,      \* threads that call or execute activate operations
  States,       \* the names of the states given to createFSM
  Transit,      \* Transit[s]: the "transit" list of state s
  Defaults,     \* values of "defaultState" considered, declared or not
  OnEntry,      \* OnEntry[s]: EVENT targets [kind, name] of activate_state_s
  Unknown,      \* a state name that was not declared
  Missing,      \* an argument without the key "stateName"
  NoOne,        \* the worker is not running a body
  MaxRequests   \* bound: requests the threads make altogether

ECStates == {"started", "stopped"}
Target == [kind : {"ec"}, name : ECStates] \cup [kind : {"fsm"}, name : States]

ASSUME StateAssumption ==
  /\ Transit \in [States -> SUBSET (States \cup {Unknown})]
  /\ OnEntry \in [States -> Seq(Target)]
  /\ Unknown \notin States /\ Missing \notin States /\ Unknown # Missing
  /\ Defaults \subseteq States \cup {Unknown}
ASSUME ThreadAssumption == NoOne \notin Threads /\ MaxRequests \in Nat

VARIABLES
  state,       \* currentState of _FSMContainerStruct
  ecState,     \* currentState of the execution context
  worker,      \* the thread whose body the container's worker runs
  stack,       \* stack[t]: the activate calls t is inside, outermost first
  requests,    \* requests made so far
  overlapped,  \* two requests were inside at the same time (history)
  synced       \* the last change of state came from an execute, and no execute
               \* was refused since (history)

vars == <<state, ecState, worker, stack, requests, overlapped, synced>>

\* A call of activate_state_s with the argument arg.  "call" waits for the
\* worker, "body" has read currentState into cur, "deliver" is at the k-th
\* connection of the outlet.
Frame(s, arg, byExecute) ==
  [ope |-> s, arg |-> arg, byExecute |-> byExecute, pc |-> "call",
   cur |-> Unknown, k |-> 1]

Init == /\ state \in Defaults
        /\ ecState = "stopped"
        /\ worker = NoOne
        /\ stack = [t \in Threads |-> <<>>]
        /\ requests = 0
        /\ overlapped = FALSE /\ synced = FALSE

Top(t) == Last(stack[t])
At(t, l) == stack[t] # <<>> /\ Top(t).pc = l
Continue(t, f) == stack' = [stack EXCEPT ![t] = Append(Front(@), f)]
Enter(t, f, callee) == stack' = [stack EXCEPT ![t] = Front(@) \o <<f, callee>>]
------------------------------------------------------------------------------
Request(t, s, arg, byExecute) ==
  /\ stack[t] = <<>>
  /\ requests < MaxRequests
  /\ requests' = requests + 1
  /\ stack' = [stack EXCEPT ![t] = <<Frame(s, arg, byExecute)>>]
  /\ overlapped' = (overlapped \/ \E u \in Threads : stack[u] # <<>>)
  /\ UNCHANGED <<state, ecState, worker, synced>>

\* execute takes stateName from the inlet, whose default is the state's name;
\* call takes whatever it is given.
RequestExecute(t, s) == Request(t, s, s, TRUE)
RequestCall(t, s, arg) == Request(t, s, arg, FALSE)

WorkerFree == worker = NoOne

BeginBody(t) ==
  /\ At(t, "call")
  /\ WorkerFree
  /\ worker' = t
  /\ Continue(t, [Top(t) EXCEPT !.pc = "body", !.cur = state])
  /\ UNCHANGED <<state, ecState, requests, overlapped, synced>>

\* transittableStates[c] is empty for a state that was not declared.
Transittable(c) == IF c \in States THEN Transit[c] ELSE {}
Accepts(f) == f.arg \in States /\ f.arg \in Transittable(f.cur)

AfterBody(f) == IF f.byExecute THEN "deliver" ELSE "return"

EndBody(t) ==
  /\ At(t, "body")
  /\ LET f == Top(t) IN
       /\ state' = IF Accepts(f) THEN f.arg ELSE state
       /\ Continue(t, [f EXCEPT !.pc = AfterBody(f)])
       /\ synced' = IF f.byExecute THEN Accepts(f) ELSE synced /\ ~Accepts(f)
  /\ worker' = NoOne
  /\ UNCHANGED <<ecState, requests, overlapped>>

\* The outlet's next EVENT connection: it starts or stops the execution
\* context, or executes another state's activate operation, to its end and
\* before the connection after it.  An error value is delivered like any other.
Delivery_Backwards(f) == OnEntry[f.ope][Len(OnEntry[f.ope]) + 1 - f.k]
Delivery(f) == OnEntry[f.ope][f.k]

DeliverToEC(t) ==
  /\ At(t, "deliver")
  /\ LET f == Top(t) IN
       /\ f.k <= Len(OnEntry[f.ope])
       /\ Delivery(f).kind = "ec"
       /\ ecState' = Delivery(f).name
       /\ Continue(t, [f EXCEPT !.k = @ + 1])
  /\ UNCHANGED <<state, worker, requests, overlapped, synced>>

DeliverToFSM(t) ==
  /\ At(t, "deliver")
  /\ LET f == Top(t) IN
       /\ f.k <= Len(OnEntry[f.ope])
       /\ Delivery(f).kind = "fsm"
       /\ LET s == Delivery(f).name IN
            Enter(t, [f EXCEPT !.k = @ + 1], Frame(s, s, TRUE))
  /\ UNCHANGED <<state, ecState, worker, requests, overlapped, synced>>

EndDelivery(t) ==
  /\ At(t, "deliver")
  /\ Top(t).k > Len(OnEntry[Top(t).ope])
  /\ Continue(t, [Top(t) EXCEPT !.pc = "return"])
  /\ UNCHANGED <<state, ecState, worker, requests, overlapped, synced>>

Return(t) ==
  /\ At(t, "return")
  /\ stack' = [stack EXCEPT ![t] = Front(@)]
  /\ UNCHANGED <<state, ecState, worker, requests, overlapped, synced>>
------------------------------------------------------------------------------
Step(t) == \/ BeginBody(t) \/ EndBody(t) \/ DeliverToEC(t) \/ DeliverToFSM(t)
           \/ EndDelivery(t) \/ Return(t)

Next == \E t \in Threads :
          \/ Step(t)
          \/ \E s \in States : \/ RequestExecute(t, s)
                               \/ \E arg \in States \cup {Unknown, Missing} :
                                    RequestCall(t, s, arg)

Spec == Init /\ [][Next]_vars
------------------------------------------------------------------------------
(* Properties *)

FrameType(f) ==
  /\ f.ope \in States
  /\ f.arg \in States \cup {Unknown, Missing}
  /\ f.cur \in States \cup {Unknown}
  /\ f.pc \in {"call", "body", "deliver", "return"}
  /\ f.byExecute \in BOOLEAN
  /\ f.k \in Nat

\* worker is the one thread inside a body.
TypeOK ==
  /\ state \in States \cup {Unknown} /\ ecState \in ECStates
  /\ worker \in Threads \cup {NoOne}
  /\ requests \in 0..MaxRequests
  /\ overlapped \in BOOLEAN /\ synced \in BOOLEAN
  /\ \A t \in Threads : /\ \A n \in DOMAIN stack[t] : FrameType(stack[t][n])
                        /\ At(t, "body") <=> worker = t

\* As long as requests do not overlap, the execution context is where the
\* entry connections of the current state put it, even when one entry leads
\* to another state, unless the last word was a call or a refused execute
\* (execute of activate_state).  It takes entries that drive the execution
\* context before they lead on; an entry that leads on first drives it last,
\* out of a state that is no longer the current one.
ECTargets(s) == {OnEntry[s][k].name : k \in {j \in DOMAIN OnEntry[s] :
                                               OnEntry[s][j].kind = "ec"}}
EcsFirst == \A s \in States : \A k \in DOMAIN OnEntry[s] :
              OnEntry[s][k].kind = "ec" => \A j \in 1..k : OnEntry[s][j].kind = "ec"
EcFollowsFsm ==
  /\ EcsFirst
  /\ \A t \in Threads : stack[t] = <<>>
  /\ ~overlapped /\ synced
  /\ state \in States /\ ECTargets(state) # {}
  => ecState \in ECTargets(state)
==============================================================================
