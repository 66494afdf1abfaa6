-------------------------- MODULE MCProcessLifecycle --------------------------
(***************************************************************************)
(* One HTTP broker, one WebSocket broker and one editor: runners of every  *)
(* kind, and two of the kind startAsync polls.  Two starts and two stops   *)
(* reach everything threads_ and thread_ remember of an earlier life.      *)
(***************************************************************************)
EXTENDS ProcessLifecycle
MCWSBrokers == {2}
==============================================================================
