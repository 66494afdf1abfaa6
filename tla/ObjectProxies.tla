----------------------------- MODULE ObjectProxies -----------------------------
(***************************************************************************)
(* The objects of another process as this one sees them.  What uses an     *)
(* operation, an inlet, an outlet, a container or a connection calls the   *)
(* object itself where it lives here, and a proxy of it where it does not  *)
(* (operation_proxy.cpp, container_proxy.cpp, connection_proxy.cpp).  The  *)
(* proxy turns each use into calls of the client interface.                *)
(***************************************************************************)
EXTENDS ClientRouting

\* A use: the kind of object, what is called, and with what, the object's name first.
Use(kind, method, args) == [kind |-> kind, method |-> method, args |-> args]
OperationUses ==
  {Use("operation", f, <<n>>) : f \in {"info", "fullInfo", "invoke", "execute", "inlets"}, n \in Names}
  \cup {Use("operation", "call", <<n, v>>) : n \in Names, v \in Payloads}
InletUses ==
  {Use("inlet", f, <<n, i>>) : f \in {"defaultValue", "get", "info", "isUpdated", "connections", "executeOwner"},
                               n \in Names, i \in Names}
  \cup {Use("inlet", f, <<n, i, v>>) : f \in {"put", "connectTo"}, n \in Names, i \in Names, v \in Payloads}
OutletUses ==
  {Use("outlet", f, <<n>>) : f \in {"get", "connections", "info", "invokeOwner"}, n \in Names}
  \cup {Use("outlet", f, <<n, v>>) : f \in {"connectTo", "disconnectFrom"}, n \in Names, v \in Payloads}
ContainerUses ==
  {Use("container", f, <<n>>) : f \in {"info", "fullInfo", "operations"}, n \in Names}
  \cup {Use("container", f, <<n, m>>) : f \in {"addOperation", "deleteOperation"}, n \in Names, m \in Names}
ConnectionUses ==
  {Use("connection", "pull", <<n>>) : n \in Names}
  \cup {Use("connection", "put", <<n, v>>) : n \in Names, v \in Payloads}
Uses == OperationUses \cup InletUses \cup OutletUses \cup ContainerUses \cup ConnectionUses

\* What the object itself does, named as ClientRouting names it.
InfoOr(x) == IF x.method = "info" THEN Does(<<"info", x.kind>>, x.args) ELSE Does(<<x.kind, x.method>>, x.args)
OperationDoes(x) == InfoOr(x)
ContainerDoes(x) == InfoOr(x)
InletDoes(x) ==
  CASE x.method = "executeOwner" -> Does(<<"operation", "execute">>, <<x.args[1]>>)
    [] x.method = "connectTo" -> Does(<<"create", "inletConnection">>, x.args)
    [] OTHER -> Does(<<"inlet", x.method>>, x.args)
OutletDoes(x) ==
  CASE x.method = "invokeOwner" -> Does(<<"operation", "invoke">>, x.args)
    [] x.method = "connectTo" -> Does(<<"create", "outletConnection">>, x.args)
    [] x.method = "disconnectFrom" -> Error
    [] OTHER -> Does(<<"outlet", x.method>>, x.args)
ConnectionDoes(x) == Does(<<"connection", x.method>>, x.args)
Here(x) ==
  CASE x.kind = "operation" -> OperationDoes(x)
    [] x.kind = "container" -> ContainerDoes(x)
    [] x.kind = "inlet" -> InletDoes(x)
    [] x.kind = "outlet" -> OutletDoes(x)
    [] OTHER -> ConnectionDoes(x)

\* The null objects, which stand for what is not found.
No == Does(<<"answers", "no">>, <<>>)
NullOperation(x) == IF x.method = "inlets" THEN Empty ELSE Error
NullContainer(x) == IF x.method = "operations" THEN Empty ELSE Error
NullOperationInlet(x) ==
  CASE x.method = "connections" -> Empty [] x.method = "isUpdated" -> No [] OTHER -> Error
NullOperationOutlet(x) == IF x.method = "connections" THEN Empty ELSE Error
NullConnection(x) == Error
NullDoes(x) ==
  CASE x.kind = "operation" -> NullOperation(x)
    [] x.kind = "container" -> NullContainer(x)
    [] x.kind = "inlet" -> NullOperationInlet(x)
    [] x.kind = "outlet" -> NullOperationOutlet(x)
    [] OTHER -> NullConnection(x)

\* The proxies.  An operation's inlets are asked for when its proxy is made; the
\* event of a connection, which reaches an inlet, executes a proxy of its owner, made
\* when the first one comes.  An info has its broker added, which makes of an error an
\* object with nothing else; the fullInfo of an operation is left alone when it is one.
BrokerAlone == Does(<<"broker", "fullInfo">>, <<>>)
WithBroker(answer) == IF answer = Error THEN BrokerAlone ELSE answer
OperationProxy(via, x) ==
  IF x.method = "info"
  THEN WithBroker(Remote(via, Call("store", "getObjectInfo", <<"operation", x.args[1]>>)))
  ELSE Remote(via, Call("operation", x.method, x.args))
IsNullProxy(via, n) == OperationProxy(via, Use("operation", "inlets", <<n>>)) = Error
ExecuteOwner(via, x) == OperationProxy(via, Use("operation", "execute", <<x.args[1]>>))
\* isUpdated is true only where the answer is a truth value.
InletProxy(via, x) ==
  CASE x.method = "executeOwner" -> ExecuteOwner(via, x)
    [] x.method = "isUpdated" /\ Remote(via, Call("inlet", "isUpdated", x.args)) = Error ->
         No
    [] x.method = "info" -> WithBroker(Remote(via, Call("inlet", "info", x.args)))
    [] OTHER -> Remote(via, Call("inlet", x.method, x.args))
OutletProxy(via, x) ==
  CASE x.method = "invokeOwner" -> OperationProxy(via, Use("operation", "invoke", x.args))
    [] x.method = "connections" /\ Remote(via, Call("outlet", "connections", x.args)) = Error -> Empty
    [] x.method = "info" -> WithBroker(Remote(via, Call("outlet", "info", x.args)))
    [] OTHER -> Remote(via, Call("outlet", x.method, x.args))
ContainerProxy(via, x) ==
  CASE x.method = "info" -> WithBroker(Remote(via, Call("store", "getObjectInfo", <<"container", x.args[1]>>)))
    [] x.method = "fullInfo" -> WithBroker(Remote(via, Call("container", "fullInfo", x.args)))
    [] x.method \in {"addOperation", "deleteOperation"} -> Error
    [] OTHER -> Remote(via, Call("container", x.method, x.args))
ConnectionProxy(x) == Error \* pull and put are not implemented
There(via, x) ==
  CASE x.kind = "operation" -> OperationProxy(via, x)
    [] x.kind = "inlet" -> InletProxy(via, x)
    [] x.kind = "outlet" -> OutletProxy(via, x)
    [] x.kind = "container" -> ContainerProxy(via, x)
    [] OTHER -> ConnectionProxy(x)

\* ProxyBuilder gives the null object where the broker or the operation's proxy is null.
Through(via, x) ==
  IF via \notin Transports \/ (x.kind # "connection" /\ x.kind # "container" /\ IsNullProxy(via, x.args[1]))
  THEN NullDoes(x) ELSE There(via, x)

\* What data flow across processes rests on: Connection::put and pull, the pulls and
\* checks of the connection builder, and what it takes to describe an object.
DataFlowUses ==
  OperationUses
  \cup {x \in InletUses : x.method \in {"put", "get", "info", "connections", "connectTo", "executeOwner"}}
  \cup {x \in OutletUses : x.method # "disconnectFrom"}
  \cup {x \in ContainerUses : x.method \in {"info", "fullInfo", "operations"}}
================================================================================
