-------------------------------- MODULE Startup --------------------------------
(***************************************************************************)
(* startAsync (src/lib/process/process_impl.cpp) builds a process from its *)
(* configuration, item by item and kind by kind (process_builder.cpp):     *)
(* factories are loaded from DLLs (moduleloader.cpp), objects created and  *)
(* bound to each other, the brokers started, and only then the connections *)
(* and topics made and the callbacks called, while clients of the brokers  *)
(* are already served.  An item that cannot be made is logged and passed   *)
(* over; text that is not a string throws.                                 *)
(*                                                                         *)
(* Names are model values, the name of a container's operation is the      *)
(* container's name and its own.  Items that name other processes, or let  *)
(* their connection be renamed, are those of ControlPlane.                 *)
(***************************************************************************)
EXTENDS ProcessStore, SequencesExt

CONSTANTS
  Joined(_, _), \* the type of a container's operation, from the container's and its own
  Configs,     \* the configurations to start from
  Files,       \* Files[t]: what the search paths have for type t, in their order:
               \* "absent", "empty" (a DLL without the symbol) or "good"
  Arguments,   \* Arguments[t]: the inlets of an operation of type t
  ClientNames, \* names of operations that clients create
  NotText,     \* what is not a string, or is not there
  Unnamed      \* the name read where there is none: ""

VARIABLES
  config,
  todo,        \* the tasks startAsync still has, in its order
  store,       \* the objects of the process
  dlls,        \* the DLLs the store keeps loaded
  cons,        \* the halves of connections, by the side that has them
  made,        \* the container whose operations are added, or NoOwner
  called,      \* operations the process itself called
  running,     \* brokers whose thread serves
  started, thrown

vars == <<config, todo, store, dlls, cons, made, called, running, started, thrown>>
graph == <<store, cons>>
fate == <<running, started, thrown>>

(***************************************************************************)
(* The order of the tasks.                                                 *)
(***************************************************************************)
Elements(s) == {s[i] : i \in DOMAIN s}
Each(s, F(_)) == FlattenSeq([i \in DOMAIN s |-> F(s[i])])
Queue(phase, do, args) == [i \in DOMAIN args |-> [phase |-> phase, do |-> do, arg |-> args[i]]]
Task(phase, do, arg) == Queue(phase, do, <<arg>>)
Loads(kind, types) ==
  Queue("build", "load", [i \in DOMAIN types |-> [kind |-> kind, type |-> types[i]]])

OperationTasks(c) ==
  LET items == c.operations.precreate
  IN  Loads("operation", c.operations.preload)
      \o Queue("build", "operation", [i \in DOMAIN items |-> items[i].info])
      \o Task("build", "transformers", NoOwner)
ContainerTasks(c) ==
  LET LoadOne(k) ==
        Loads("container", <<k.type>>)
        \o Loads("containerOperation", [i \in DOMAIN k.operations |-> Joined(k.type, k.operations[i])])
      CreateOne(k) ==
        Task("build", "container", k.info)
        \o Queue("build", "member", [i \in DOMAIN k.operations |->
                                       [type |-> k.info.typeName, info |-> k.operations[i].info]])
  IN  Each(c.containers.preload, LoadOne) \o Each(c.containers.precreate, CreateOne)
      \o Queue("build", "transformation", c.containers.transformation)
FSMTasks(c) == Queue("build", "fsm", c.fsms.precreate)
ECTasks(c) ==
  Loads("ec", c.ecs.preload) \o Queue("build", "ec", c.ecs.precreate)
  \o Queue("build", "bindEC", c.ecs.bind)
AnchorTasks(c) == Queue("build", "anchor", c.anchors)
BrokerTasks(c) ==
  Loads("broker", c.brokers.preload) \o Queue("build", "broker", c.brokers.precreate)
FSMBindTasks(c) ==
  LET OfFSM(f) ==
        LET OfState(s) ==
              IF s.name = NotText
              THEN Task("build", "bindState", [fsm |-> f.name, state |-> NotText, target |-> NotText])
              ELSE Queue("build", "bindState", [i \in DOMAIN s.bind |->
                           [fsm |-> f.name, state |-> s.name, target |-> s.bind[i]]])
        IN  Each(f.states, OfState)
  IN  Each(c.fsms.precreate, OfFSM) \o Queue("build", "bindFSM", c.fsms.bind)
ConnectionTasks(c) == Queue("connections", "connect", c.connections)
\* The operation a topic is for is the one of the item's fullName.
Published(full, t) ==
  [topic |-> t, name |-> <<"topic", t, full>>, out |-> full, op |-> t, inlet |-> "data"]
Subscribed(full, s) ==
  [topic |-> s[2], name |-> <<"topic", full, s[1], s[2]>>, out |-> s[2], op |-> full, inlet |-> s[1]]
TopicsOf(full, o) ==
  Queue("topics", "topic", [i \in DOMAIN o.publish |-> Published(full, o.publish[i])])
  \o Queue("topics", "topic", [i \in DOMAIN o.subscribe |-> Subscribed(full, o.subscribe[i])])
TopicTasks(c) ==
  LET Full(info) == IF "fullName" \in DOMAIN info THEN info.fullName ELSE Unnamed
      OfOperation(o) == TopicsOf(Full(o.info), o)
      OfContainer(k) ==
        LET name == CASE "fullName" \in DOMAIN k.info -> k.info.fullName
                      [] "instanceName" \in DOMAIN k.info /\ "fullName" \notin DOMAIN k.info
                           -> k.info.instanceName
                      [] OTHER -> NotText
            member(m) == IF "instanceName" \in DOMAIN m.info THEN m.info.instanceName ELSE NotText
            OfMember(m) == IF NotText \in {name, member(m)} THEN Task("topics", "topic", NotText)
                           ELSE TopicsOf(<<name, member(m)>>, m)
        IN  Each(k.operations, OfMember)
  IN  Each(c.operations.precreate, OfOperation) \o Each(c.containers.precreate, OfContainer)
CallbackTasks(c) ==
  LET Callback(b) == IF b.name = "on_started" THEN Queue("callbacks", "call", b.target) ELSE <<>>
  IN  Each(c.callbacks, Callback)

Tasks_LaunchEarly(c) ==
  OperationTasks(c) \o ContainerTasks(c) \o FSMTasks(c) \o ECTasks(c) \o AnchorTasks(c)
  \o BrokerTasks(c) \o Task("build", "launch", NoOwner) \o FSMBindTasks(c)
  \o Task("build", "await", NoOwner)
  \o ConnectionTasks(c) \o TopicTasks(c) \o CallbackTasks(c)
Tasks(c) ==
  OperationTasks(c) \o ContainerTasks(c) \o FSMTasks(c) \o ECTasks(c) \o AnchorTasks(c)
  \o BrokerTasks(c) \o FSMBindTasks(c)
  \o Task("build", "launch", NoOwner) \o Task("build", "await", NoOwner)
  \o ConnectionTasks(c) \o TopicTasks(c) \o CallbackTasks(c)

\* The lists of a configuration are sequences.
IsList(s) == s \in Seq(Elements(s))
ASSUME ConfigAssumption ==
  \A c \in Configs :
    /\ IsList(c.operations.preload) /\ IsList(c.operations.precreate)
    /\ \A o \in Elements(c.operations.precreate) : IsList(o.publish) /\ IsList(o.subscribe)
    /\ IsList(c.containers.preload) /\ IsList(c.containers.precreate)
    /\ IsList(c.containers.transformation)
    /\ \A k \in Elements(c.containers.preload) : IsList(k.operations)
    /\ \A k \in Elements(c.containers.precreate) :
         /\ IsList(k.operations)
         /\ \A o \in Elements(k.operations) : IsList(o.publish) /\ IsList(o.subscribe)
    /\ IsList(c.fsms.precreate) /\ IsList(c.fsms.bind)
    /\ \A f \in Elements(c.fsms.precreate) :
         IsList(f.states) /\ \A s \in Elements(f.states) : IsList(s.bind)
    /\ \A b \in Elements(c.fsms.bind) : IsList(b.operations) /\ IsList(b.ecs)
    /\ IsList(c.ecs.preload) /\ IsList(c.ecs.precreate) /\ IsList(c.ecs.bind)
    /\ \A e \in Elements(c.ecs.precreate) : IsList(e.bind)
    /\ \A b \in Elements(c.ecs.bind) : IsList(b.operations)
    /\ IsList(c.anchors) /\ IsList(c.brokers.preload) /\ IsList(c.brokers.precreate)
    /\ IsList(c.connections) /\ IsList(c.callbacks)
    /\ \A b \in Elements(c.callbacks) : IsList(b.target)

(***************************************************************************)
(* Loading.  An operation's, EC's or broker's DLL is sought until one has  *)
(* the symbol; a container's is the first there is, symbol or not.  The    *)
(* DLL is kept before the symbol is known, except a broker's.              *)
(***************************************************************************)
TransformerTypes == <<"static_transformation_operation", "dynamic_transformation_operation">>

\* The search paths are in an order; the types that are built in have no files.
ASSUME FilesAssumption ==
  /\ \A t \in DOMAIN Files : Files[t] \in Seq({"absent", "empty", "good"})
  /\ TransformerTypes[1] \notin DOMAIN Files /\ TransformerTypes[2] \notin DOMAIN Files

There(type) == {i \in DOMAIN Files[type] : Files[type][i] # "absent"}
Good(type) == {i \in There(type) : Files[type][i] = "good"}
FirstOf(S) == {i \in S : \A j \in S : i <= j}
Sought(kind) == kind \notin {"container", "containerOperation"}
Found(kind, type) ==
  IF Sought(kind) THEN FirstOf(Good(type)) ELSE FirstOf(There(type)) \cap Good(type)
Kept_NotLoaded(kind, type) ==
  IF Sought(kind) THEN {} ELSE {<<type, i>> : i \in FirstOf(There(type))}
Kept(kind, type) ==
  LET last == Found(kind, type) IN
  CASE kind = "broker" -> {<<type, i>> : i \in last}
    [] ~Sought(kind) -> {<<type, i>> : i \in FirstOf(There(type))}
    [] OTHER -> {<<type, i>> : i \in {j \in There(type) : \A k \in last : j <= k}}
LoadedClasses == {"operationFactory", "containerFactory", "containerOperationFactory", "ecFactory", "brokerFactory"}
FactoryClass(kind) ==
  CASE kind = "operation" -> "operationFactory"
    [] kind = "container" -> "containerFactory"
    [] kind = "containerOperation" -> "containerOperationFactory"
    [] kind = "ec" -> "ecFactory"
    [] kind = "broker" -> "brokerFactory"

(***************************************************************************)
(* Objects.                                                                *)
(***************************************************************************)
Member(c, op) == <<c, op>>
HasOp(s, name) == Has(s, "operation", name)
\* A container with its own operations: those are not checked for their names,
\* and are not the process's when the container is not.
AddContainer(s, type, name, ops) ==
  LET c == Object("container", type, name, NoOwner)
      OpOf(o) == Object("operation", o[1], Member(name, o[2]), name)
      poses == << <<"container_get_pose", "get_pose">>, <<"container_set_pose", "set_pose">> >>
      all == poses \o ops
  IN  IF MayAdd(s, c) THEN Pushed(s, c) \o [i \in DOMAIN all |-> OpOf(all[i])] ELSE s
StateOps == << <<"activate_state", "started">>, <<"activate_state", "stopped">>,
               <<"get_state", "get_state">> >>

(***************************************************************************)
(* A connection made by juiz::connect: the ends are found by name, the     *)
(* outlet's half is kept when there is nothing for the inlet's.            *)
(***************************************************************************)
InletThere(s, w) ==
  HasOp(s, w.op) /\ w.inlet \in {"__event__", "__argument__"} \cup
                                Arguments[Get(s, "operation", w.op).type]
Half(w, side, whole) ==
  [name |-> w.name, out |-> w.out, op |-> w.op, inlet |-> w.inlet, side |-> side, whole |-> whole]
OfOutlet(cs, w) == {h \in cs : h.side = "outlet" /\ h.out = w.out}
OfInlet(cs, w) == {h \in cs : h.side = "inlet" /\ h.op = w.op /\ h.inlet = w.inlet}
Connected(s, cs, w) ==
  LET there == InletThere(s, w)
      route == there /\ \E h \in OfOutlet(cs, w) : h.whole /\ h.op = w.op /\ h.inlet = w.inlet
      name == \E h \in OfOutlet(cs, w) \cup (IF there THEN OfInlet(cs, w) ELSE {}) : h.name = w.name
  IN  IF ~HasOp(s, w.out) \/ route \/ name THEN cs
      ELSE cs \cup {Half(w, "outlet", there)}
                \cup (IF there THEN {Half(w, "inlet", TRUE)} ELSE {})
ConnectedAll(s, cs, ws) ==
  LET after[i \in 0..Len(ws)] == IF i = 0 THEN cs ELSE Connected(s, after[i - 1], ws[i])
  IN  after[Len(ws)]
Wire(name, out, op, inlet) == [name |-> name, out |-> out, op |-> op, inlet |-> inlet]

(***************************************************************************)
(* The steps of startAsync.                                                *)
(***************************************************************************)
Init ==
  /\ config \in Configs
  /\ todo = Tasks(config)
  /\ store = << Object("topicFactory", "Topic", "Topic", NoOwner) >>
  /\ dlls = {} /\ cons = {} /\ made = NoOwner /\ called = <<>>
  /\ running = {} /\ started = FALSE /\ thrown = FALSE

\* The text a task insists on.
NameRead(info) ==
  CASE "instanceName" \in DOMAIN info -> info.instanceName
    [] "instanceName" \notin DOMAIN info /\ "fullName" \in DOMAIN info -> info.fullName
    [] OTHER -> info.typeName
Texts(t) ==
  CASE t.do = "load" /\ t.arg.kind \in {"operation", "ec"} -> {t.arg.type}
    [] t.do = "load" /\ t.arg.kind = "containerOperation" -> {t.arg.type}
    [] t.do \in {"operation", "container"} -> {NameRead(t.arg)}
    [] t.do = "broker" -> {NameRead(t.arg)}
    [] t.do = "member" -> {NameRead(t.arg.info)}
    [] t.do = "ec" -> {t.arg.type}
    [] t.do = "anchor" -> {t.arg.type}
    [] t.do = "fsm" /\ t.arg.default -> UNION {{s.name, s.transit} : s \in {x \in Elements(t.arg.states) : x.complete}}
    [] t.do = "bindState" -> {t.arg.state}
    [] t.do = "topic" /\ t.arg = NotText -> {NotText}
    [] t.do = "call" -> {t.arg}
    [] OTHER -> {}
Throws(t) == NotText \in Texts(t)
\* The tasks after the last of a phase.
Later(phase) ==
  LET after == {i \in DOMAIN todo : \A j \in i..Len(todo) : todo[j].phase # phase}
  IN  SubSeq(todo, Len(todo) - Cardinality(after) + 1, Len(todo))

\* A ValueTypeError ends startAsync, but is caught around all topics and around
\* all callbacks, where it ends these.
Throw ==
  /\ todo # <<>> /\ Throws(Head(todo))
  /\ LET phase == Head(todo).phase IN
     IF phase \in {"topics", "callbacks"}
     THEN todo' = Later(phase) /\ UNCHANGED thrown
     ELSE todo' = <<>> /\ thrown' = TRUE
  /\ UNCHANGED <<config, graph, dlls, made, called, running, started>>

Doing(do) == todo # <<>> /\ Head(todo).do = do /\ ~Throws(Head(todo)) /\ todo' = Tail(todo)
Arg == Head(todo).arg

Load ==
  /\ Doing("load")
  /\ dlls' = dlls \cup Kept(Arg.kind, Arg.type)
  /\ store' = IF Found(Arg.kind, Arg.type) = {} THEN store
              ELSE Added(store, Object(FactoryClass(Arg.kind), Arg.type, Arg.type, NoOwner))
  /\ UNCHANGED <<config, cons, made, called, fate>>

AddTransformers ==
  /\ Doing("transformers")
  /\ store' = LET Factory(i) == Object("operationFactory", TransformerTypes[i], TransformerTypes[i], NoOwner)
              IN  Added(Added(store, Factory(1)), Factory(2))
  /\ UNCHANGED <<config, cons, dlls, made, called, fate>>

CreateOperation ==
  /\ Doing("operation")
  /\ store' = LET name == FullNameFor(ObjectsOf(store, "operation"), Arg)
              IN  IF Has(store, "operationFactory", Arg.typeName)
                  THEN Added(store, Object("operation", Arg.typeName, name, NoOwner)) ELSE store
  /\ UNCHANGED <<config, cons, dlls, made, called, fate>>

CreateContainer ==
  /\ Doing("container")
  /\ LET name == FullNameFor(ObjectsOf(store, "container"), Arg)
         new == IF Has(store, "containerFactory", Arg.typeName)
                THEN AddContainer(store, Arg.typeName, name, <<>>) ELSE store
     IN  store' = new /\ made' = IF new # store THEN name ELSE NoOwner
  /\ UNCHANGED <<config, cons, dlls, called, fate>>
\* addOperation: the names of a container's operations are not checked.
CreateMember ==
  /\ Doing("member")
  /\ store' = LET op == FullNameFor(ObjectsOf(store, "operation"), Arg.info)
                  type == Joined(Arg.type, Arg.info.typeName)
              IN  IF made # NoOwner /\ Has(store, "containerOperationFactory", type)
                  THEN Pushed(store, Object("operation", type, Member(made, op), made)) ELSE store
  /\ UNCHANGED <<config, cons, dlls, made, called, fate>>

\* The pose of a container is led through an operation to another's.  The name
\* of a dynamic one's input is read last, when the rest is connected.
FullNameOf(c) == IF Has(store, "container", c) THEN c ELSE "null"
Transform ==
  /\ todo # <<>> /\ Head(todo).do = "transformation" /\ ~Throws(Head(todo))
  /\ LET from == FullNameOf(Arg.from)
         to == FullNameOf(Arg.to)
         op == CASE Arg.kind = "static" -> <<"offset", from, to>>
                 [] Arg.kind = "dynamic" -> <<"input", from, to>>
                 [] Arg.kind = "named" -> Arg.name
         type == IF Arg.kind = "static" THEN TransformerTypes[1] ELSE TransformerTypes[2]
         new == IF Arg.kind = "named" THEN store
                ELSE Added(store, Object("operation", type, op, NoOwner))
         through == << Wire(<<"tfcon", from, op>>, Member(from, "set_pose"), op, "pose"),
                       Wire(<<"tfcon", op, to>>, op, Member(to, "set_pose"), "pose") >>
         dynamic == Arg.kind = "dynamic"
         misread == dynamic /\ Arg.input = NotText
         input == IF dynamic /\ Arg.input # NotText
                  THEN << Wire(<<"dyncon", Arg.input, op>>, Arg.input, op, "input") >> ELSE <<>>
     IN  /\ store' = new
         /\ cons' = ConnectedAll(new, cons, through \o input)
         /\ todo' = IF misread THEN <<>> ELSE Tail(todo)
         /\ thrown' = misread
  /\ UNCHANGED <<config, dlls, made, called, running, started>>

\* A state without a name or transitions: no FSM at all.
CreateFSM ==
  /\ Doing("fsm")
  /\ store' = LET Op(i) == <<"activate_state", Arg.states[i].name>>
              IN  IF Arg.default /\ \A i \in DOMAIN Arg.states : Arg.states[i].complete
                  THEN AddContainer(store, "FSM", Arg.name,
                         [i \in DOMAIN Arg.states |-> Op(i)] \o << <<"get_state", "get_state">> >>)
                  ELSE store
  /\ UNCHANGED <<config, cons, dlls, made, called, fate>>

\* createEC answers with the container it made, added or not, and the operations
\* of the item are bound to what has its name.
CreateEC ==
  /\ Doing("ec")
  /\ LET new == AddContainer(store, Arg.type, Arg.name, StateOps)
         Bound(o) == Wire(<<"bind", Arg.name, o>>, Member(Arg.name, "started"), o, "__event__")
     IN  /\ store' = new
         /\ cons' = ConnectedAll(new, cons, [i \in DOMAIN Arg.bind |-> Bound(Arg.bind[i])])
  /\ UNCHANGED <<config, dlls, made, called, fate>>
BindEC ==
  /\ Doing("bindEC")
  /\ LET start == Member(Arg.name, "started")
         Bound(o) == Wire(<<"bind", Arg.name, o>>, start, o, "__event__")
     IN  cons' = IF HasOp(store, start)
                 THEN ConnectedAll(store, cons, [i \in DOMAIN Arg.operations |-> Bound(Arg.operations[i])])
                 ELSE cons
  /\ UNCHANGED <<config, store, dlls, made, called, fate>>

AnchorTypes == {"StaticPeriodicAnchor", "DynamicPeriodicAnchor"}
CreateAnchor ==
  /\ todo # <<>> /\ Head(todo).do = "anchor" /\ ~Throws(Head(todo))
  /\ LET new == IF Arg.type \in AnchorTypes THEN AddContainer(store, Arg.type, Arg.name, StateOps) ELSE store
         start == Member(Arg.name, "started")
         dynamic == Arg.type = "DynamicPeriodicAnchor"
         found == Has(new, "container", Arg.target) /\ HasOp(new, start)
         misread == found /\ dynamic /\ Arg.input = NotText
         ready == found /\ (dynamic => HasOp(new, Arg.input))
         pose == Wire(<<"bind", Arg.target, Arg.name>>, start, Member(Arg.target, "set_pose"), "pose")
         input == Wire(<<"bind", Arg.input, Arg.name>>, Arg.input, start, "input")
     IN  /\ store' = new
         /\ cons' = IF ready THEN ConnectedAll(new, cons, IF dynamic THEN <<input, pose>> ELSE <<pose>>)
                    ELSE cons
         /\ called' = IF ready /\ Arg.autoStart THEN Append(called, start) ELSE called
         /\ todo' = IF misread THEN <<>> ELSE Tail(todo)
         /\ thrown' = misread
  /\ UNCHANGED <<config, dlls, made, running, started>>

CreateBroker ==
  /\ Doing("broker")
  /\ store' = LET name == FullNameFor(ObjectsOf(store, "broker"), Arg)
              IN  IF Has(store, "brokerFactory", Arg.typeName)
                  THEN Added(store, Object("broker", Arg.typeName, name, NoOwner)) ELSE store
  /\ UNCHANGED <<config, cons, dlls, made, called, fate>>

\* A state is bound to an operation, or where there is none of the name, to the
\* state of an EC; the connection is named for the name alone.
StateWire(from, label, op, inlet) == Wire(<<"state", from, label>>, from, op, inlet)
BindState ==
  /\ Doing("bindState")
  /\ LET from == Member(Arg.fsm, Arg.state)
         name == Arg.target.name
         state == Member(name, Arg.target.state)
     IN  cons' = CASE HasOp(store, name) -> Connected(store, cons, StateWire(from, name, name, "__argument__"))
                   [] ~HasOp(store, name) /\ HasOp(store, state) ->
                        Connected(store, cons, StateWire(from, name, state, "__event__"))
                   [] OTHER -> cons
  /\ UNCHANGED <<config, store, dlls, made, called, fate>>
BindFSM ==
  /\ Doing("bindFSM")
  /\ LET from == Member(Arg.fsm, Arg.state)
         ToOp(o) == StateWire(from, o, o, "__argument__")
         ToEC(e) == LET state == Member(e.name, e.state) IN StateWire(from, state, state, "__event__")
     IN  cons' = ConnectedAll(store, cons, [i \in DOMAIN Arg.operations |-> ToOp(Arg.operations[i])]
                                           \o [i \in DOMAIN Arg.ecs |-> ToEC(Arg.ecs[i])])
  /\ UNCHANGED <<config, store, dlls, made, called, fate>>

(***************************************************************************)
(* The brokers get a thread each and serve their clients from then on.     *)
(***************************************************************************)
Brokers == {store[i].name : i \in {j \in DOMAIN store : store[j].cls = "broker"}}
Launched == ~thrown /\ \A i \in DOMAIN todo : todo[i].do # "launch"
Launch ==
  /\ Doing("launch")
  /\ UNCHANGED <<config, graph, dlls, made, called, fate>>
BrokerRuns(b) ==
  /\ Launched /\ b \in Brokers \ running
  /\ running' = running \cup {b}
  /\ UNCHANGED <<config, todo, graph, dlls, made, called, started, thrown>>
Await ==
  /\ Doing("await")
  /\ Brokers \subseteq running
  /\ started' = TRUE
  /\ UNCHANGED <<config, graph, dlls, made, called, running, thrown>>
ClientCreates(n) ==
  /\ running # {} /\ ~HasOp(store, n)
  /\ store' = Added(store, Object("operation", "client", n, NoOwner))
  /\ UNCHANGED <<config, todo, cons, dlls, made, called, fate>>

Connect ==
  /\ Doing("connect")
  /\ cons' = Connected(store, cons, Arg)
  /\ UNCHANGED <<config, store, dlls, made, called, fate>>
\* createTopic: one of the name is enough, whoever made it and whatever it is.
ConnectTopic_OnlyNew ==
  /\ Doing("topic")
  /\ LET new == Added(store, Object("operation", "Topic", Arg.topic, NoOwner))
     IN  /\ store' = new
         /\ cons' = IF new # store THEN Connected(new, cons, Arg) ELSE cons
  /\ UNCHANGED <<config, dlls, made, called, fate>>
ConnectTopic ==
  /\ Doing("topic")
  /\ LET new == Added(store, Object("operation", "Topic", Arg.topic, NoOwner))
     IN  /\ store' = new
         /\ cons' = Connected(new, cons, Arg)
  /\ UNCHANGED <<config, dlls, made, called, fate>>
Call ==
  /\ Doing("call")
  /\ called' = IF HasOp(store, Arg) THEN Append(called, Arg) ELSE called
  /\ UNCHANGED <<config, graph, dlls, made, fate>>

StartAsync ==
  \/ Throw \/ Load \/ AddTransformers \/ CreateOperation \/ CreateContainer \/ CreateMember
  \/ Transform \/ CreateFSM \/ CreateEC \/ BindEC \/ CreateAnchor \/ CreateBroker
  \/ BindState \/ BindFSM \/ Launch \/ Await \/ Connect \/ ConnectTopic \/ Call
Next ==
  \/ StartAsync
  \/ \E b \in Brokers : BrokerRuns(b)
  \/ \E n \in ClientNames : ClientCreates(n)
Spec == Init /\ [][Next]_vars

(***************************************************************************)
(* Properties.  What a configuration promises: its objects that have names *)
(* of their own and whose types can be loaded, and the binds among these.  *)
(***************************************************************************)
Explicit(info) == DOMAIN info \cap {"instanceName", "fullName"} # {}
PromisedOps(c) ==
  {NameRead(o.info) : o \in {p \in Elements(c.operations.precreate) :
     /\ Explicit(p.info) /\ p.info.typeName \in Elements(c.operations.preload)
     /\ Found("operation", p.info.typeName) # {}}}
PromisedContainers(c) ==
  {NameRead(k.info) : k \in {p \in Elements(c.containers.precreate) :
     /\ Explicit(p.info) /\ p.info.typeName \in {l.type : l \in Elements(c.containers.preload)}
     /\ Found("container", p.info.typeName) # {}}}
\* The name of an FSM or an EC may be taken by what comes before: by a container,
\* whose name can be a number's, and an EC's by an FSM.
Taken(s, c, n) ==
  \E o \in Elements(s) : /\ o.cls = "container" /\ o.name = n
                         /\ o.type \in {k.info.typeName : k \in Elements(c.containers.precreate)}
Makes(f) == f.default /\ \A s \in Elements(f.states) : s.complete
PromisedFSMs(s, c) ==
  {f \in Elements(c.fsms.precreate) :
     /\ Makes(f) /\ ~Taken(s, c, f.name)
     /\ \A g \in Elements(c.fsms.precreate) : Makes(g) /\ g.name = f.name => g = f}
PromisedECs(s, c) ==
  {e \in Elements(c.ecs.precreate) :
     /\ ~Taken(s, c, e.name)
     /\ \A f \in Elements(c.fsms.precreate) : Makes(f) => f.name # e.name}
Promised(s, c) ==
  {<<"operation", n>> : n \in PromisedOps(c)}
  \cup {<<"container", n>> : n \in PromisedContainers(c)}
  \cup {<<"container", f.name>> : f \in PromisedFSMs(s, c)}
  \cup {<<"container", e.name>> : e \in PromisedECs(s, c)}
Ends(out, op, inlet) == [out |-> out, op |-> op, inlet |-> inlet]
PromisedBinds(s, c) ==
  (UNION {UNION {{Ends(Member(f.name, t.name), b.name, "__argument__") :
                    b \in {x \in Elements(t.bind) : x.name \in PromisedOps(c)}} :
                 t \in Elements(f.states)} : f \in PromisedFSMs(s, c)})
  \cup (UNION {{Ends(Member(e.name, "started"), o, "__event__") :
                  o \in Elements(e.bind) \cap PromisedOps(c)} : e \in PromisedECs(s, c)})
SameEnds(h, w) == h.out = w.out /\ h.op = w.op /\ h.inlet = w.inlet
Whole(cs, w) ==
  \A side \in {"outlet", "inlet"} : \E h \in cs : h.side = side /\ h.whole /\ SameEnds(h, w)

\* A client is served only when every object promised is there, and the FSMs and
\* ECs are bound, whatever items of the configuration could not be made.
BuiltBeforeServing ==
  running # {} => /\ \A p \in Promised(store, config) : Has(store, p[1], p[2])
                  /\ \A w \in PromisedBinds(store, config) : Whole(cons, w)

\* When startAsync ends by an exception no thread of a broker has been started,
\* which nobody would stop and join: the process is not started then.
NoThreadAfterException == thrown => running = {} /\ ~Launched /\ ~started

\* Where no text of the topics is bad, every operation that publishes and every
\* operation that subscribes is joined to the topic of that name, whoever of them
\* comes first and even when a client has taken the name.  A name is foreign when
\* what has it now is not what the configuration made of it: a client's operation
\* or another topic, which may have come late.
TopicItems(c) == {t.arg : t \in Elements(TopicTasks(c))}
Foreign(s, n) == Get(s, "operation", n).type \in {"client", "Topic"}
TopicWanted(s, c, t) ==
  /\ HasOp(s, t.out) /\ InletThere(s, t)
  /\ ~(\E n \in {t.out, t.op} \ {t.topic} : Foreign(s, n))
  /\ \A w \in Elements(c.connections) : w.name # t.name
TopicsJoined ==
  /\ todo = <<>> /\ ~thrown /\ \A t \in Elements(TopicTasks(config)) : ~Throws(t)
  => \A t \in TopicItems(config) : TopicWanted(store, config, t) => Whole(cons, t)

\* The operations called when the process has started find the connections
\* between promised operations made, save one whose name another has.  An anchor
\* starts itself before there are any.
AnchorStarts(c) == {Member(a.name, "started") : a \in Elements(c.anchors)}
NameFree(cs, w) ==
  \A h \in OfOutlet(cs, w) \cup OfInlet(cs, w) : h.name = w.name => SameEnds(h, w)
ConnectedBeforeCalled ==
  Elements(called) \subseteq AnchorStarts(config) \/
  \A w \in Elements(config.connections) :
    {w.out, w.op} \subseteq PromisedOps(config) /\ InletThere(store, w) /\ NameFree(cons, w)
    => Whole(cons, w)

\* As long as the process has a factory, the DLL with its code is loaded.
FactoryCodeStays ==
  \A f \in Elements(store) : f.cls \in LoadedClasses /\ f.type \in DOMAIN Files =>
    \E i \in DOMAIN Files[f.type] : Files[f.type][i] = "good" /\ <<f.type, i>> \in dlls

\* Serving, connecting and calling come in the order a configuration relies on:
\* clients find everything built, called operations find their connections.
OrderKept == BuiltBeforeServing /\ ConnectedBeforeCalled
===============================================================================
