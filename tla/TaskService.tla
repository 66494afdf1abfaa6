----------------------------- MODULE TaskService -----------------------------
(***************************************************************************)
(* What a juiz container promises the threads that call its operations     *)
(* (ContainerOperation::call, include/juiz/container.h): every call is     *)
(* served by one execution of the operation's body, atomically, before the *)
(* call returns, and the outcome it returns is the one that execution      *)
(* left.  ContainerThread describes how the code goes about it.            *)
(***************************************************************************)
CONSTANTS Callers,   \* the threads that call operations of the container
          Outcomes   \* what a served call may return

VARIABLES phase,     \* phase[c]: where the current call of c stands
          outcome    \* outcome[c]: what the last served call of c produced

svcVars == <<phase, outcome>>

Init == /\ phase = [c \in Callers |-> "idle"]
        /\ outcome \in [Callers -> Outcomes]

Call(c) == /\ phase[c] = "idle"
           /\ phase' = [phase EXCEPT ![c] = "pending"]
           /\ UNCHANGED outcome

Serve(c) == /\ phase[c] = "pending"
            /\ phase' = [phase EXCEPT ![c] = "served"]
            /\ \E r \in Outcomes : outcome' = [outcome EXCEPT ![c] = r]

Reply(c) == /\ phase[c] = "served"
            /\ phase' = [phase EXCEPT ![c] = "idle"]
            /\ UNCHANGED outcome

Next == \E c \in Callers : Call(c) \/ Serve(c) \/ Reply(c)

Spec == Init /\ [][Next]_svcVars
==============================================================================
