------------------------------ MODULE MCDataFlow ------------------------------
(***************************************************************************)
(* A graph in which every kind of connection meets every kind of inlet:    *)
(* src (no inlets, like the test operation "zero") starts f by EVENT and   *)
(* then h and z through __event__; f pushes to h and starts g through      *)
(* __argument__; g pulls its second argument from q, and from src if q     *)
(* fails; z has no inlets.                                                 *)
(***************************************************************************)
EXTENDS DataFlow

MCOps == {"src", "f", "g", "h", "q", "z"}
MCInlets == [o \in MCOps |-> CASE o = "g" -> <<"x", "y">>
                               [] o \in {"src", "z"} -> <<>>
                               [] OTHER -> <<"x">>]
Con(type, from, to, inlet) == [type |-> type, from |-> from, to |-> to, inlet |-> inlet]
MCConnections == <<Con("EVENT", "src", "f", "x"),
                   Con("PUSH", "f", "h", "x"),
                   Con("EVENT", "src", "h", "__event__"),
                   Con("EVENT", "f", "g", "__argument__"),
                   Con("PULL", "q", "g", "y"),
                   Con("PULL", "src", "g", "y"),
                   Con("EVENT", "src", "z", "__event__")>>
\* A smaller graph for two threads.
MCPairOps == {"f", "g", "q"}
MCPairInlets == [o \in MCPairOps |-> MCInlets[o]]
MCPairConnections == <<Con("EVENT", "f", "g", "__argument__"),
                       Con("PULL", "q", "g", "y")>>
MCPairKeys == [o \in MCPairOps |-> {"x"}]

\* g's arguments come as the value {"x": ...} of f.
MCKeys == [o \in MCOps |-> IF o = "f" THEN {"x"} ELSE {}]
==============================================================================
