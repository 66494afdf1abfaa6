---------------------------- MODULE ClientRouting ----------------------------
(***************************************************************************)
(* How a call of the client interface (include/juiz/client_proxy_api.h)    *)
(* made on a proxy reaches the core broker of another process: the proxy   *)
(* (crud_broker_proxy_base.cpp) turns it into a verb and a path, the       *)
(* object mapper (object_mapper.cpp) matches the path and calls the core   *)
(* broker (core_broker.cpp), which implements the same interface on the    *)
(* process's own store.  In between, an HTTP or a WebSocket broker serves  *)
(* the request by one of the handlers it has registered.                   *)
(* A path is the sequence of its segments; a segment is a name, a word, or *)
(* the plural of one.  A path that ends with a slash has an empty last     *)
(* segment.                                                                *)
(***************************************************************************)
EXTENDS Naturals, Sequences, FiniteSetsExt

CONSTANTS
  Names,     \* names of objects
  Payloads,  \* values sent with a request
  Routed     \* the transports whose brokers are configured with files to serve

\* A name is not empty, as the segment behind a slash at the end of a path is.
ASSUME RoutingAssumption == Names # {} /\ Payloads # {} /\ <<"", "">> \notin Names

\* A call: which part of the interface, which method, and its arguments.
Call(api, method, args) == [api |-> api, method |-> method, args |-> args]
Error == [error |-> TRUE, does |-> <<"refused", "">>, args |-> <<>>]

Classes == {"operation", "operationFactory", "container", "containerFactory",
            "containerOperation", "containerOperationFactory", "ec", "ecFactory",
            "topic", "topicFactory", "fsm", "broker", "brokerFactory",
            "connection", "outletConnection", "inletConnection"}

\* The interface ---------------------------------------------------------------
FactoryCalls ==
  {Call("factory", "createObject", <<c, v>>) : c \in Classes, v \in Payloads} \cup
  {Call("factory", "deleteObject", <<c, n>>) : c \in Classes, n \in Names}
StoreCalls ==
  {Call("store", "getObjectInfo", <<c, n>>) : c \in Classes, n \in Names} \cup
  {Call("store", "getClassObjectInfos", <<c>>) : c \in Classes} \cup
  {Call("store", "getChildrenClassObjectInfos", <<n, c>>) : c \in Classes, n \in Names}
OperationCalls ==
  {Call("operation", f, <<n>>) : f \in {"fullInfo", "invoke", "execute", "inlets"}, n \in Names}
  \cup {Call("operation", "call", <<n, v>>) : n \in Names, v \in Payloads}
OutletCalls ==
  {Call("outlet", f, <<n>>) : f \in {"get", "connections", "info"}, n \in Names} \cup
  {Call("outlet", f, <<n, v>>) : f \in {"connectTo", "disconnectFrom"}, n \in Names, v \in Payloads}
InletCalls ==
  {Call("inlet", f, <<n, t>>) : f \in {"name", "defaultValue", "get", "info", "isUpdated", "connections"},
                                n \in Names, t \in Names} \cup
  {Call("inlet", f, <<n, t, v>>) : f \in {"put", "connectTo", "disconnectFrom"},
                                   n \in Names, t \in Names, v \in Payloads}
ConnectionCalls ==
  {Call("connection", "createConnection", <<v>>) : v \in Payloads} \cup
  {Call("connection", "deleteConnection", <<n>>) : n \in Names}
ContainerCalls ==
  {Call("container", f, <<n>>) : f \in {"operations", "fullInfo"}, n \in Names}
ProcessCalls == {Call("process", f, <<>>) : f \in {"getProcessInfo", "getProcessFullInfo"}}
Calls == FactoryCalls \cup StoreCalls \cup OperationCalls \cup OutletCalls \cup InletCalls
         \cup ConnectionCalls \cup ContainerCalls \cup ProcessCalls

\* The core broker: what each call does to the process, named by the function
\* that does it, or Error where the broker refuses it whatever the store holds.
Does(what, args) == [error |-> FALSE, does |-> what, args |-> args]

CoreCreate(cls, v) ==
  IF cls \in {"operation", "container", "containerOperation", "ec", "fsm", "topic",
              "connection", "outletConnection", "inletConnection"}
  THEN Does(<<"create", cls>>, <<v>>) ELSE Error
CoreDelete(cls, n) ==
  IF cls \in {"operation", "container", "containerOperation", "ec"}
  THEN Does(<<"delete", cls>>, <<n>>) ELSE Error
CoreList(cls) ==
  IF cls \in {"operation", "operationFactory", "container", "connection", "containerFactory",
              "topic", "ecFactory", "broker", "brokerFactory"}
  THEN Does(<<"list", cls>>, <<>>) ELSE Error
CoreInfo(cls, n) ==
  IF cls \in {"operation", "operationFactory", "container", "containerFactory",
              "containerOperationFactory", "ecFactory", "topic", "topicFactory", "broker",
              "brokerFactory", "connection"}
  THEN Does(<<"info", cls>>, <<n>>) ELSE Error
CoreOperation(call) == Does(<<"operation", call.method>>, call.args)
\* connectTo creates an outletConnection or inletConnection, its payload naming
\* the operation that the call names.
CoreOutlet(call) ==
  CASE call.method = "disconnectFrom" -> Error
    [] call.method = "connectTo" -> Does(<<"create", "outletConnection">>, call.args)
    [] OTHER -> Does(<<"outlet", call.method>>, call.args)
CoreInlet(call) ==
  CASE call.method = "disconnectFrom" -> Error
    [] call.method = "connectTo" -> Does(<<"create", "inletConnection">>, call.args)
    [] OTHER -> Does(<<"inlet", call.method>>, call.args)
\* deleteConnection looks the connection up, returns its info and deletes nothing.
DeleteConnection(args) == Does(<<"info", "connection">>, args)
CoreConnection(call) ==
  IF call.method = "createConnection" THEN Does(<<"create", "connection">>, call.args)
  ELSE DeleteConnection(call.args)
CoreContainer(call) == Does(<<"container", call.method>>, call.args)
CoreProcess(call) == Does(<<"process", call.method>>, call.args)

Core(call) ==
  CASE call.api = "factory" /\ call.method = "createObject" -> CoreCreate(call.args[1], call.args[2])
    [] call.api = "factory" /\ call.method = "deleteObject" -> CoreDelete(call.args[1], call.args[2])
    [] call.api = "store" /\ call.method = "getObjectInfo" -> CoreInfo(call.args[1], call.args[2])
    [] call.api = "store" /\ call.method = "getClassObjectInfos" -> CoreList(call.args[1])
    [] call.api = "store" /\ call.method = "getChildrenClassObjectInfos" -> Error
    [] call.api = "operation" -> CoreOperation(call)
    [] call.api = "outlet" -> CoreOutlet(call)
    [] call.api = "inlet" -> CoreInlet(call)
    [] call.api = "connection" -> CoreConnection(call)
    [] call.api = "container" -> CoreContainer(call)
    [] OTHER -> CoreProcess(call)

\* The proxy: a verb, a path and a body ------------------------------------------
Plural(cls) == <<cls, "s">>
Word(w) == <<w, "">>
Slash == Word("")
NoBody == "none"
Http(verb, path, body) == [verb |-> verb, path |-> path, body |-> body]

FactoryPath(call) ==
  IF call.method = "createObject"
  THEN Http("POST", <<Plural(call.args[1]), Slash>>, call.args[2])
  ELSE Http("DELETE", <<Plural(call.args[1]), call.args[2]>>, NoBody)
StorePath(call) ==
  IF call.method = "getObjectInfo"
  THEN Http("GET", <<Plural(call.args[1]), call.args[2]>>, NoBody)
  ELSE Http("GET", <<Plural(call.args[1]), Slash>>, NoBody)
OperationPath(call) ==
  LET last == IF call.method = "inlets" THEN Plural("inlet") ELSE Word(call.method)
      path == <<Plural("operation"), call.args[1], last>>
  IN  CASE call.method = "call" -> Http("PUT", path, call.args[2])
        [] call.method \in {"invoke", "execute"} -> Http("PUT", path, NoBody)
        [] OTHER -> Http("GET", path, NoBody)
OutletPath_InfoAsGet(call) ==
  LET outlet == <<Plural("operation"), call.args[1], Word("outlet")>>
  IN  CASE call.method \in {"get", "info"} -> Http("GET", outlet, NoBody)
        [] call.method = "connections" -> Http("GET", outlet \o <<Plural("connection")>>, NoBody)
        [] call.method = "connectTo" ->
             Http("POST", outlet \o <<Plural("connection"), Slash>>, call.args[2])
        [] OTHER -> Http("DELETE", outlet \o <<Plural("connection"), Word("name")>>, NoBody)
OutletPath(call) ==
  LET outlet == <<Plural("operation"), call.args[1], Word("outlet")>>
  IN  CASE call.method = "get" -> Http("GET", outlet, NoBody)
        [] call.method = "connections" -> Http("GET", outlet \o <<Plural("connection")>>, NoBody)
        [] call.method = "info" -> Http("GET", outlet \o <<Word("info")>>, NoBody)
        [] call.method = "connectTo" ->
             Http("POST", outlet \o <<Plural("connection"), Slash>>, call.args[2])
        [] OTHER -> Http("DELETE", outlet \o <<Plural("connection"), Word("name")>>, NoBody)
InletPath(call) ==
  LET inlet == <<Plural("operation"), call.args[1], Plural("inlet"), call.args[2]>>
  IN  CASE call.method = "put" -> Http("PUT", inlet, call.args[3])
        [] call.method = "get" -> Http("GET", inlet, NoBody)
        [] call.method = "connections" -> Http("GET", inlet \o <<Plural("connection")>>, NoBody)
        [] call.method = "connectTo" ->
             Http("POST", inlet \o <<Plural("connection"), Slash>>, call.args[3])
        [] call.method = "disconnectFrom" ->
             Http("DELETE", inlet \o <<Plural("connection"), Word("name")>>, NoBody)
        [] OTHER -> Http("GET", inlet \o <<Word(call.method)>>, NoBody)
ConnectionPath(call) ==
  IF call.method = "createConnection"
  THEN Http("POST", <<Plural("connection"), Slash>>, call.args[1])
  ELSE Http("GET", <<Plural("connection"), call.args[1]>>, NoBody)
ContainerPath(call) ==
  Http("GET", <<Plural("container"), call.args[1],
                IF call.method = "operations" THEN Plural("operation") ELSE Word("fullInfo")>>, NoBody)
ProcessPath(call) ==
  Http("GET", <<IF call.method = "getProcessInfo" THEN Word("info") ELSE Word("fullInfo")>>, NoBody)
ProxyRequest(call) ==
  CASE call.api = "factory" -> FactoryPath(call)
    [] call.api = "store" -> StorePath(call)
    [] call.api = "operation" -> OperationPath(call)
    [] call.api = "outlet" -> OutletPath(call)
    [] call.api = "inlet" -> InletPath(call)
    [] call.api = "connection" -> ConnectionPath(call)
    [] call.api = "container" -> ContainerPath(call)
    [] OTHER -> ProcessPath(call)

\* The object mapper ---------------------------------------------------------------
Trimmed(path) == IF path[Len(path)] = Slash THEN SubSeq(path, 1, Len(path) - 1) ELSE path
IsPlural(segment) == \E c \in Classes : segment = Plural(c)
ClassOf(segment) == CHOOSE c \in Classes : segment = Plural(c)
\* A pattern gives each segment, or <<>> for one that may be any name.
Any == <<>>
Matches(path, pattern) ==
  /\ Len(path) = Len(pattern)
  /\ \A i \in 1..Len(path) : pattern[i] = Any \/ path[i] = pattern[i]
OperationPattern(rest) == <<Plural("operation"), Any>> \o rest
OneClass(path) == Len(path) = 1 /\ IsPlural(path[1])
ClassAndName(path) == Len(path) = 2 /\ IsPlural(path[1])

createResource(path, body) ==
  CASE OneClass(path) -> Core(Call("factory", "createObject", <<ClassOf(path[1]), body>>))
    [] Matches(path, OperationPattern(<<Word("outlet"), Plural("connection")>>)) ->
         Core(Call("outlet", "connectTo", <<path[2], body>>))
    [] Matches(path, OperationPattern(<<Plural("inlet"), Any, Plural("connection")>>)) ->
         Core(Call("inlet", "connectTo", <<path[2], path[4], body>>))
    [] OTHER -> Error
\* defaultValue is taken from info, which has no such key: the answer is empty.
Empty == Does(<<"nothing", "">>, <<>>)
readResource(path) ==
  CASE path = <<Word("info")>> -> Core(Call("process", "getProcessInfo", <<>>))
    [] path = <<Word("fullInfo")>> -> Core(Call("process", "getProcessFullInfo", <<>>))
    [] OneClass(path) -> Core(Call("store", "getClassObjectInfos", <<ClassOf(path[1])>>))
    [] ClassAndName(path) -> Core(Call("store", "getObjectInfo", <<ClassOf(path[1]), path[2]>>))
    [] Matches(path, OperationPattern(<<Plural("inlet")>>)) -> Core(Call("operation", "inlets", <<path[2]>>))
    [] Matches(path, OperationPattern(<<Plural("inlet"), Any>>)) ->
         Core(Call("inlet", "get", <<path[2], path[4]>>))
    [] Matches(path, OperationPattern(<<Plural("inlet"), Any, Word("info")>>)) ->
         Core(Call("inlet", "info", <<path[2], path[4]>>))
    [] Matches(path, OperationPattern(<<Plural("inlet"), Any, Word("defaultValue")>>)) -> Empty
    [] Matches(path, OperationPattern(<<Plural("inlet"), Any, Plural("connection")>>)) ->
         Core(Call("inlet", "connections", <<path[2], path[4]>>))
    [] Matches(path, OperationPattern(<<Word("outlet"), Word("info")>>)) -> Core(Call("outlet", "info", <<path[2]>>))
    [] Matches(path, OperationPattern(<<Word("outlet"), Plural("connection")>>)) ->
         Core(Call("outlet", "connections", <<path[2]>>))
    [] Matches(path, OperationPattern(<<Word("outlet")>>)) -> Core(Call("outlet", "get", <<path[2]>>))
    [] Matches(path, OperationPattern(<<Word("fullInfo")>>)) ->
         Core(Call("operation", "fullInfo", <<path[2]>>))
    [] Matches(path, <<Plural("container"), Any, Plural("operation")>>) ->
         Core(Call("container", "operations", <<path[2]>>))
    [] Matches(path, <<Plural("container"), Any, Word("fullInfo")>>) ->
         Core(Call("container", "fullInfo", <<path[2]>>))
    [] OTHER -> Error
updateResource(path, body) ==
  CASE Matches(path, OperationPattern(<<Plural("inlet"), Any>>)) ->
         Core(Call("inlet", "put", <<path[2], path[4], body>>))
    [] Matches(path, OperationPattern(<<Word("call")>>)) ->
         Core(Call("operation", "call", <<path[2], body>>))
    [] Matches(path, OperationPattern(<<Word("invoke")>>)) -> Core(Call("operation", "invoke", <<path[2]>>))
    [] Matches(path, OperationPattern(<<Word("execute")>>)) -> Core(Call("operation", "execute", <<path[2]>>))
    [] OTHER -> Error
deleteResource(path) ==
  IF Matches(path, <<Plural("connection"), Any>>)
  THEN Core(Call("connection", "deleteConnection", <<path[2]>>)) ELSE Error

\* The handlers of a broker, in the order it registers them: onCreate and so on for
\* its endpoint, then a GET for each file configured as a route.
Transports == {"http", "websocket"}
ServedBy(verb, does) == [verb |-> verb, does |-> does]
Registered(via) ==
  <<ServedBy("GET", "onRead"), ServedBy("POST", "onCreate"), ServedBy("DELETE", "onDelete"),
    ServedBy("PUT", "onUpdate")>>
  \o IF via \in Routed THEN <<ServedBy("GET", "file")>> ELSE <<>>
HandlersFor(via, verb) == {i \in DOMAIN Registered(via) : Registered(via)[i].verb = verb}
\* The HTTP server serves a request by the first handler that matches it, the
\* WebSocket server, which keeps one of each verb whatever its path, by the last.
HttpServes(verb) == Min(HandlersFor("http", verb))
WebSocketServes(verb) == Max(HandlersFor("websocket", verb))
HandlerFor(via, verb) ==
  Registered(via)[IF via = "http" THEN HttpServes(verb) ELSE WebSocketServes(verb)].does

\* What the clients send: the verb and the path behind the endpoint; the HTTP client
\* sends a body with POST and PUT, the WebSocket client the one it is given.
HttpCarries(request) == IF request.verb \in {"POST", "PUT"} THEN request ELSE [request EXCEPT !.body = NoBody]
WebSocketCarries(request) == request
Carried(via, request) == IF via = "http" THEN HttpCarries(request) ELSE WebSocketCarries(request)

\* The handlers cut a slash off the end of the path, but for PUT.
Page == Does(<<"page", "">>, <<>>)
Route(via, request) ==
  CASE HandlerFor(via, request.verb) = "onCreate" -> createResource(Trimmed(request.path), request.body)
    [] HandlerFor(via, request.verb) = "onRead" -> readResource(Trimmed(request.path))
    [] HandlerFor(via, request.verb) = "onUpdate" -> updateResource(request.path, request.body)
    [] HandlerFor(via, request.verb) = "onDelete" -> deleteResource(Trimmed(request.path))
    [] OTHER -> Page

\* What a call made on a proxy does to the process it is a proxy of.  A proxy of a
\* broker that cannot be made is null and refuses every call.
NullBroker(call) == Error
Remote(via, call) ==
  CASE via \notin Transports -> NullBroker(call)
    [] via \in Transports /\ call.method = "getChildrenClassObjectInfos" -> Empty
    [] OTHER -> Route(via, Carried(via, ProxyRequest(call)))
===============================================================================
