-------------------------- MODULE MCWebSocketClient --------------------------
(***************************************************************************)
(* Two threads share the client, each makes at most two requests, and the  *)
(* connection is lost at most once.                                        *)
(***************************************************************************)
EXTENDS WebSocketClient
==============================================================================
