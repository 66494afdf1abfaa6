------------------------- MODULE MCFiniteStateMachine -------------------------
(***************************************************************************)
(* The machine of the repository's tests (created, stopped, running) with  *)
(* an error state whose entry stops the execution context and leads back   *)
(* to running, which starts it again; stopped stops it.  "ghost" is never  *)
(* declared: it is a wrong argument, a wrong entry of a transit list and a *)
(* wrong default state.                                                    *)
(***************************************************************************)
EXTENDS FiniteStateMachine

MCStates == {"created", "stopped", "running", "error"}
MCTransit == [s \in MCStates |-> CASE s = "created" -> {"stopped"}
                                   [] s = "stopped" -> {"running"}
                                   [] s = "running" -> {"stopped", "error", "ghost"}
                                   [] s = "error" -> {"stopped", "running"}]
EC(name) == [kind |-> "ec", name |-> name]
FSM(name) == [kind |-> "fsm", name |-> name]
MCOnEntry == [s \in MCStates |-> CASE s = "created" -> <<>>
                                   [] s = "stopped" -> <<EC("stopped")>>
                                   [] s = "running" -> <<EC("started")>>
                                   [] s = "error" -> <<EC("stopped"), FSM("running")>>]
==============================================================================
