-------------------------- MODULE MCContainerThread --------------------------
(***************************************************************************)
(* Two threads, two operations, two calls each: enough for two callers to  *)
(* meet at cop_mutex_ (same operation) and at push_task_mutex_ (different  *)
(* operations), and for a second call to find what the first one left in   *)
(* the flags.                                                              *)
(***************************************************************************)
EXTENDS ContainerThread
==============================================================================
