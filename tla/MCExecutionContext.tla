-------------------------- MODULE MCExecutionContext --------------------------
(***************************************************************************)
(* Two timer threads are enough to see a second one appear while the first *)
(* has not been joined; two users let a start and a stop overlap, and two  *)
(* calls of one user make it stop what it started.                         *)
(***************************************************************************)
EXTENDS ExecutionContext
==============================================================================
