# nerikiri (juiz) in TLA+

juiz (the repository calls itself nerikiri and juiz) is a C++ middleware for
robot components. A *process* holds *operations* (functions with named inlets
and an outlet) and *containers* (objects with operations of their own),
*connects* outlets to inlets, runs operations from *execution contexts* and
*finite state machines*, and opens the whole to other processes through HTTP
and WebSocket *brokers*. Almost everything happens on the stack of whichever
thread called; the difficult part is what several such threads, the containers'
worker threads, the timers' threads and other processes do to each other.

`tlc -workers 2 -config MCX.cfg MCX` checks an instance and `tlapm XProofs.tla`
the proofs about a module (`ProgramProofs` those of two). `PROJECT.json` says which lines of the source each
definition stands for.

## Inventory

| component | state | operations | hard behaviour | correct when |
|---|---|---|---|---|
| container worker (`include/juiz/container.h`) | task queue, ready and done flags, two condition variables, four mutexes | `ContainerOperation::call`, `push_task`, `thread_routine` | hand-off between many callers and one worker, flags cleared on both sides | every call is served once, alone, by its own body, and returns |
| data flow (`src/lib/operation`, `connection.cpp`) | inlet buffers and `argument_updated_`, outlet buffer, `_first_output_done`, connection lists | `invoke`, `execute`, `put`, `collectValues` | recursion through the graph, failures upstream, several threads in one graph | events reach everybody, arguments are good and as new as promised |
| execution contexts (`src/lib/ec`, `src/ecs`) and anchors (`src/lib/anchor`) | `currentState`, `flag_`, `thread_`, `svc_mutex_`, a `cop_mutex_` per operation | `activate_state_started/stopped`, `svc`, `onStarted`, `onStopping` | start and stop overlap; the timer thread calls operations that may stop it | at most one timer thread, none when stopped, stops return |
| finite state machines (`src/lib/fsm`) | `currentState`, state lists | `activate_state_*` | check-then-act from many threads, entries that lead to other entries | contexts follow the machine |
| connection builder (`connection_builder.cpp`) | none of its own; both ends' connection lists | `connect` and its two halves | two ends, maybe in other processes; the second may fail; unlocked checks | both ends or only the outlet's, no duplicate route |
| process store and object factory (`process_store.*`, `objectfactory.cpp`) | one list of objects, caches of proxies | `add`, `get`, `del`, `create*`, `*Proxy` | concurrent requests of brokers | one object per name, proxies of the right object |
| core broker, CRUD proxies, object mapper, object proxies | none | dispatch of paths to the store's objects | the two ends of a path are written apart | a call does there what it says here |
| process builder and module loader | the factories and objects made so far | `preload*`, `precreate*`, `bind*`, topics, connections, callbacks | items fail or throw one by one while brokers serve | what is promised is there when it is needed |
| process (`process_impl.cpp`) | `threads_`, `started_`, state | `startAsync`, `start`, `wait`, `stop`, destructor | polls brokers, joins their threads, may be started and stopped again | the states tell the truth about the threads; the calls return |
| HTTP and WebSocket brokers, system editor | state, a condition variable, a server with a thread | `run`, `shutdown`, `runBackground`, `terminateBackground` | `shutdown` before `run` waits, `terminateBackground` before the server listens | a broker told to shut down does, and its server ends |
| WebSocket client | one reply buffer and flag | `request` and its constructor | replies matched to requests by nothing, waits without a timeout | each request gets its reply |
| configuration (`processconfigparser.cpp`) | one dictionary of places | reading of projects, included projects and shelves | nesting, overlap, one dictionary for all | each file's word has its strength and its place |
| values (`value.*`, `utils/json.cpp`, `utils/yaml.cpp`) | data | construct, merge, JSON and YAML | conversions of numbers and errors | what arrives is what was sent |
| component tool (`apps/juiz_create_component.cpp`) | source files, `CMakeLists.txt`, a shelf | generate, update lists, back up | runs killed or refused half way, edits in between | no work lost, files agree |
| poses, geometry, logger, guard, `os.cpp`, naming | none others depend on | | | see "Not modelled" |

How they meet. An operation of a container is an operation of the data flow
whose body is `ContainerOperation::call`, so `execute` of it hands its body to
the container's worker. An FSM and an execution context are containers; `bind`
connects the outlet of `activate_state_started` to an operation by an EVENT
connection, and a timer thread's `svc` executes `activate_state_started` over
and over: the body does nothing once the state is started, and the connection
runs what is bound. An FSM's entry is the same kind of connection. Brokers call
all of these from threads of their own, through the core broker, which looks
its objects up in the store; an object of another process is a proxy that turns
a use into a request. `startAsync` builds all of it from a configuration.

## Modules

| module | what it is | code |
|---|---|---|
| `TaskService` | abstract: each call is served by one atomic execution before it returns | contract of `ContainerOperation::call` and of `Client::request` |
| `ContainerThread` | the hand-off with its mutexes, flags and condition variables; implements `TaskService` | `container.h` |
| `DataFlow` | invoke, execute, put, pull over any graph, one stack per thread | `operation_base.cpp`, `operation_inlet_base.*`, `operation_outlet_base.*`, `argument_inlet.h`, `connection.cpp` |
| `ExecutionContext` | activate_state with OneShotEC, TimerEC, or a periodic anchor | `ec_container.cpp`, `OneShotEC.cpp`, `TimerEC.cpp`, `src/lib/anchor` |
| `FiniteStateMachine` | an FSM container with the context its entries drive | `fsm_container.cpp` |
| `ProcessLifecycle` | the owner's thread, the threads of brokers and editors, the servers' threads | `process_impl.cpp`, `crud_broker_base.cpp`, `run` and `shutdown` of the brokers and the editor, the two servers |
| `ProcessStore` | the store's list of objects, and the names of new ones; operators the next modules use | `process_store.h`, `objectfactory.cpp` |
| `ClientRouting` | a call of the client interface, from the proxy through path, handler and mapper to the core broker | `crud_broker_proxy_base.cpp`, `object_mapper.cpp`, `core_broker.cpp`, the brokers' handlers |
| `ObjectProxies` | a use of an object of another process, turned into such calls | `operation_proxy.cpp`, `container_proxy.cpp`, `connection_proxy.cpp`, the null objects |
| `ControlPlane` | connecting and creating while processes run; composes the three above | `connection_builder.cpp`, `connectTo` of inlets and outlets, `process_store.cpp` |
| `WebSocketClient` | the client that several threads share, its server and a link that drops; implements `TaskService` | `ws_client_ixwebsocket.cpp`, `ws_server_ixwebsocket.cpp` |
| `Startup` | `startAsync` item by item, with faulty and throwing items and clients; uses `ProcessStore` | `process_builder.cpp`, `process_impl.cpp`, `moduleloader.cpp`, `topic_api.cpp`, the pose operations' creation |
| `Values` | construction, access, merge, JSON and YAML of values | `value.h`, `value.cpp`, `json.cpp`, `yaml.cpp` |
| `ArgParse` | the command line parser | `utils/argparse.h` |
| `Configuration` | projects, includes and shelves read and merged; values crossing the wire; uses `Values` and `ArgParse` | `processconfigparser.cpp`, `ProcessImpl::_parseConfigFile`, `http_broker.cpp`, `ws_converter_ixwebsocket.h` |
| `ComponentTool` | runs of the tool between edits and kills; uses `ArgParse` | `juiz_create_component.cpp` |
| `*Proofs` | the inductive invariants and theorems of `ContainerThread`, `DataFlow`, `ExecutionContext`, `FiniteStateMachine`, `ControlPlane`, `WebSocketClient`, `Startup`; `ProgramProofs` has those of the two programs, `ProcessLifecycle` and `ComponentTool`, whose names are therefore kept apart | |
| `MC*` | the instances TLC checks | |

Operators with a suffix after an underscore (`CallerMayGo_NoPredicate`) are
faulty variants of the operator they precede. Each shows that some property
fails when that line of the code is wrong; no specification uses them.

### ContainerThread

`pc[c]` is where a caller stands between locking `cop_mutex_` and releasing it,
`wpc` where the worker stands in its loop. A critical section that neither
blocks nor calls out is one step. The unlock and the notification after it are
two: that gap is where wakeups get lost. `task_mutex_` is held while the worker
runs a body, so `EnqueueTask` waits for `wpc # "running"`. `WorkerPark` and
`AwaitDone` clear their flag before they wait, as the code does. Spurious
wakeups are actions of their own. `Init` leaves the flags undetermined until
`ConstructMembers`, because `thread_` is declared, and so started, before them.
`result` is what the call returns: an exception in the worker leaves the
caller's `Value` empty, an exception inline becomes an error.

### DataFlow

A thread is a stack of frames, one per `invoke` or `execute` in progress, so
recursion, interleaving and failure in the middle of a propagation are all
visible. A value is the number of the body run that made it: equal numbers are
the same value and a larger one is newer, which is all the properties need.
The graph is a constant; `ControlPlane` is about changing it. `__argument__` and
`__event__` are inlets of every operation, as in `OperationBase::inlet`.
`lastRun`, `seen` and the frames' `pulled`, `born` and `at` are history that no
guard reads.

### ExecutionContext

Both activate operations run the lambda of `activate_state` under their own
`cop_mutex_`, so they exclude themselves and not each other; `currentState` is
all that orders a start and a stop. `thread_` starts as garbage, TimerEC sets
it to null after a join and the anchors leave it dangling; joining what is not
there sets `crashed`, joining twice or joining oneself throws and the call
returns an error. The bound operation may execute the stop operation on the
same stack (`BoundStops`). OneShotEC's `svc` locks a `std::mutex` its thread
owns: undefined, and modelled as blocking for ever or throwing.

### FiniteStateMachine

`createFSM` leaves the container's worker on, so bodies are serialised:
`worker` is that serialisation (`BodiesExclusive` of `ContainerThread` says why
it may be one variable). Delivering to the outlet's connections is done by the
caller and is not serialised. Entry connections go to a context, whose
`currentState` is changed in one step, or to another state's operation. A bind
item's operations are connected before its ecs (`process_builder.cpp`), so an
item that leads to another state and also drives a context drives it last, out
of a state that is no longer current: `EcFollowsFsm` has the premise `EcsFirst`.

### ProcessLifecycle

Three kinds of thread. The owner's is at `at`, in the call `within`, and in the
loops of `process_impl.cpp` about to visit runner `idx`: it spawns, polls,
notifies and joins one runner per step. `run[r]` is where a broker or an editor
stands in `run()`: announced by `CRUDBrokerBase::run`, serving once
`runBackground` has created the server's thread, waiting in `cond_.wait`,
woken. `server[b]` is the server's thread, which is created before it listens.
`threads` and `joined` are `threads_`, which nothing ever clears; `heard` is
history for the liveness properties and no guard reads it.

`cond_.wait` has no predicate, so a notification is kept by nobody and a wakeup
may be spurious; stopping an HTTP server that does not listen yet does nothing;
the WebSocket `server_` is null until its thread has set it; `make_unique` over
a joinable `thread_`, a second `join` and the null pointer end the program
(`fault`), after which no thread takes a step. One thread owns the process and
starts it only when it is not started, as the programs and tests of the
repository do. `wait` returns by a SIGINT or a spurious wakeup, which are one
action. `shutdown` writes the broker's info and notifies in one step, since only
the owner reads that info. A server listens, and is then stopped, in one step
each: between them its library has states of its own.

### ProcessStore, ClientRouting, ObjectProxies, ControlPlane

A store is the sequence of its objects in the order they were added. A path is
a sequence of segments; `ClientRouting` has, for every method of the client
interface, the path and verb its proxy makes, what the brokers' handlers make of
them, how `object_mapper.cpp` matches, and what `core_broker.cpp` does; an effect
is named by the function that has it. `ObjectProxies` does the same for what is
called on objects. `ControlPlane` composes them: a request to connect runs on a
thread of its process, resolves the two ends (through proxies it caches by
name), checks the route, chooses a name, and calls `connectTo` on the outlet and
then on the inlet. Each call, remote or not, has a handler that checks and
pushes in separate steps, because nothing locks the lists; a remote one may be
lost, before or after it was handled, and may time out while its handler works.
`torn` records the lists that two threads extended at the same time, which in
C++ is undefined: nothing is claimed of those. `before` and `faulted` are history.

### WebSocketClient

`asked` and `replies` are what is on its way, `buffer` and `flag` the one reply
slot, `callback` where the socket's thread stands: it writes the buffer, sets the
flag and notifies, without the mutex. A string that is read while it is written
is `Torn`. Requests have an identity in the model that no step reads, since in
the code all have the same id. A lost connection loses what is in flight, and
the socket connects again. `serial` chooses, once, whether users take turns; the
refinement of `TaskService` is about users that do.

### Startup

`todo` is what `startAsync` still has to do, in its order; one task is one item
of one kind, and `Tasks` is that order. A task creates, binds, loads or connects,
or logs that it cannot, or throws, which ends `startAsync` with what there is:
mostly before it has done anything, but a dynamic transformation whose input has
no name throws when it is created and half connected.
From `launch` on the brokers' threads serve, and clients create operations
between any two tasks. A factory is found along its search paths by
`Load`, which keeps the DLLs it needs.

### Configuration, Values, ArgParse

Reading is a stack of frames, one per file being read, and `dictionary` is the
one `env_dictionary` they all write. A file is what its parser makes of it: a
tree, or `broken` where the parser finds no sense in it. Values are records with
a tag. A double is a whole number of steps, or not finite. Two roundings await it
and neither is the finer one everywhere, as in the code: a decimal text keeps the
multiples of `TextGrain` (the six decimals of `std::to_string`), a float keeps
`FloatBits` binary digits (the 24 of `GetFloat`), so that its step grows with the
number (`FloatGrain(n)`); what is beyond the largest float stays a double.
`IntLimit` is 2^31 scaled down. A string and an error's message are sequences of
pieces, some of which have a quote, a control character or a backslash: the
writer escapes none of these. After reading, any configured value or result
crosses the wire as JSON, in an answer, in a request that passes it on, in the
answer to that; where the text does not parse the HTTP ends make an error of it
and the WebSocket ends throw. The parser of a command line goes through the
tokens with one record, which says what the loop does with the next.

### ComponentTool

A directory maps a file's words and extension to its content; a backup has the
second of its making in its name. `main` is a list of steps `todo`, each of
which opens, renames or writes; a kill may come before any of them, and an edit
of the developer between runs. `marks` are what the developer wrote. Of a shelf,
which the tool reads and writes as a value, the model keeps what is preloaded and
in which form, and the developer's keys: the tool asks and changes nothing else
of it. What a run reads as a shelf and is none, or is not there, preloads nothing.

## Runs

| run | question | instance |
|---|---|---|
| `container` | is every call served once, by its own body and no two at a time, and does a call handed over in time return; is `TaskService` implemented | 2 callers, 2 operations, 2 calls each |
| `container_returns` (violated) | does every call return? | same |
| `dataflow_one` | what execute and invoke promise to one thread | graph of 6 operations and 7 connections, 2 requests |
| `dataflow_two` | what is left with two threads | graph of 3 operations, 2 requests |
| `execution_context` | what survives overlapping starts and stops; join safety and liveness while one user at a time calls | 2 users, 2 calls each, 2 timer threads, every kind, a bound operation that stops |
| `fsm` | does the context follow the machine | 4 states, 2 threads, 3 requests, good and bad arguments |
| `process` | what the process' states promise about its threads, and which calls return | HTTP broker, WebSocket broker, editor; 2 starts, 2 stops, 1 destruction |
| `control_plane` | what halves of a connection can be left, what is connected to what, does every request end, and is every call on a proxy the call it stands for | 2 processes, 2 requests to connect the same ends, one of them over faulty calls, 2 creations of which one asks for the name the other would get |
| `ws_client` | which requests get their reply, whose wait ends | 2 users, 2 requests each, 1 lost connection, 1 spurious wakeup |
| `startup` | what is there when clients come and after an exception | 7 configurations: all kinds of items, all that is only logged, five that throw in different phases; clients that create operations under two names |
| `configuration` | is each file's word, item and place its own, and do values and errors survive the wire, however often they are passed on | 6 projects with nested includes and shelves in several directories, one of them partly wiped out by a blank one; all kinds of values, every double and int up to beyond the limits; 3 crossings |
| `component_tool` | is work kept, do the files agree, does a run end | 10 command lines, 3 runs, 1 edit, 2 seconds |

Bounds, and why they are enough. Two callers meet at `cop_mutex_` when they call
the same operation and at `push_task_mutex_` when they do not; a second call of
each finds the flags as the first left them, and a third would find nothing
else. In the data flow two requests make the second meet every buffer the first
filled; `MaxClock` only keeps the values finite, and is above what the requests
can produce. For execution contexts two timer threads suffice to see a second
one appear; two calls of each of two users give start/stop overlaps in both
orders and a restart. In the FSM three requests reach the error state whose
entry leads back, or let two threads race for the same transition; that entry
and the state it leads to put the context to different values, so that a wrong
order of the two shows. With `FloatBits` 3, `FloatExponent` 4 and `TextGrain` 5
the doubles of the instance go from those whose float is finer than the text to
those whose float is coarser, and on to those that are no float; with `IntLimit`
16 the ints go beyond 32 bits on both sides. Three crossings are an answer, a
request and an answer, the first two of which may change a value while the third
shows that it has come to rest. A process of
one broker of each kind and an editor has runners that are polled, before and
after another, and one that is not; with a second start and stop everything that
outlives a stop meets the next life. Two requests to connect are what it takes
to collide in a list, before, after or during each other; one goes through a
remote outlet and one through a remote inlet, and a third would only collide
with one of them as these do. Two threads at the WebSocket client can each get
the other's reply, and the second request of a thread can get the reply to its
first. In the tool, three runs are one that creates, one that is killed and one
that goes on from there. `CHECK_DEADLOCK FALSE` everywhere: requests are
bounded, the runs end when they are used up, and some of the modelled deadlocks
are the code's own.

### What the runs show

`container_returns`. `thread_routine` executes `task_is_ready_ = false` each
time before it waits, so a task pushed after the worker finished the last one
and before it takes `task_mutex_` again is forgotten, and its caller blocks for
ever; `push_task` does the same to `task_is_done_`. The window is open whenever
a caller returns and calls again at once.

Premises in the properties of passing runs mark what the code does not promise,
and each of the following is reachable in its run when the premise is dropped.

- `HandedCallReturns` starts where the call is in the queue, its caller blocked,
  the ready flag up and the worker past its reset (the finding above).
- `EventReachesOwner` excludes operations without inlets: from the second time
  on `invoke` returns what their outlet holds.
- `ToldIsDone` and `NeverJoinsNothing` are about one user at a time and kinds
  with a timer: overlapping users can join what is not there, and a OneShotEC
  started through its own operation relocks that operation's mutex.
- `HeardStopReturns` starts where every runner heard the notification: `run`
  announces the broker before it waits, and `shutdown` notifies a condition
  variable that remembers nothing. `SettledDestroyReturns` starts where every
  server listens or has given up. `UsedOnceNeverThrows`, which is proved and which
  no run checks, excludes a second start and a second stop, which do throw.
- `SequentialRequestsAreExclusive` and `CreatedNamesUnique` are about requests
  that follow one another: two overlapping ones are both granted, or get one
  name. `ConnectsWhatWasNamed` needs names that differ between processes, since
  proxies are cached by name, full addresses, since `core` is resolved by
  whoever reads it, and operations that are there: a request for one that is not
  is served by the proxy cached under that name for another process. An outlet
  that names no operation where its inlet is `core` gets the same two ends
  connected twice, which is why `SequentialRequestsAreExclusive` asks for a peer
  that was found. The outlet half that a failed request leaves is never undone:
  `InletHalfHasOutletHalf` says that this is the only half that can be left.
- `ProxyIsFaithful` names its four exceptions. Three of them the model
  shows when they are dropped; the fourth, the info of a container that is
  not there, is an error here and an object with the broker alone through a proxy,
  which `Answer` does not tell apart.
- `LoneRequestGetsItsReply` needs nothing in flight at the start and nobody else
  during the request. `WaitsEnd` is about a constructor that sleeps before the
  socket opens; one that comes later waits for ever.
- `OrderKept` and `TopicsJoined` are about what a configuration can count on, and
  the attempt to prove them found more that it cannot. An FSM's or an EC's name
  may be taken before it: by a container, whose name can be a numbered one
  (`Taken`), by another FSM of the name with other states, or, for an EC, by an
  FSM. A connection is not made when one of its ends has another of its name
  (`NameFree`), and a topic's not when an item of `connections` has the name of
  its connection. An operation may come late under a name the configuration did
  not get to make, from a client or as a topic, and is then found by the next
  items but not by those before (`Foreign`). An anchor that starts itself does so
  before the connections are made (`AnchorStarts`), as if it were a callback. In
  each case something is silently left out, where the premise is dropped.
- `EndsAgree` claims of a double that what arrives is off by no more than half of
  the text's last digit and one part in 2^24 of it (`DoublesAlike`): 16777217.0
  arrives as 16777216, and a time in seconds of our day loses up to 64 of them. It
  excludes, by name, strings with characters that JSON escapes and errors with
  such messages, infinities, ints of 32 bits unsigned but not signed, which turn
  negative, and objects with the key `__ERROR__`. The messages of the code's own
  errors have quotes (`value.cpp:145-163`), so that one of them deep in a list or
  an object makes the whole text unparsable. `ErrorsStayErrors` says what is left:
  the client gets an error for all of it, or an exception, and never a value in an
  error's place. Both are parts of `EndsAgree`, and the bound holds for three
  crossings as for one; only the message of an error grows, by another
  "Value is error('...')" around it each time.
- `EveryFileCounts` speaks of keys of which the strongest file says a number
  (`StrongestWins`), and of keys of which every file that says anything says a
  list with no item twice (`ListsAreJoined`). A list is lost to a null, and
  `load_paths` to that of a shelf without any. An included blank JSON project
  wipes out what its includer has had of earlier includes (`Blank`, `Counted`).
- `WorkIsKept` claims nothing once two backups of one file, whichever it is, were
  made in one second, the second of which replaces the first; `InvocationEnds` excludes names that contain the word
  they replace, on which the tool loops.

## Fairness

`ContainerThread`: weak fairness of the worker and of each caller, which is
that the operating system runs threads that can run, and that bodies end. No
fairness of spurious wakeups, of new calls, or of who gets a contended mutex
beyond that a thread which can always take a step takes one. `DataFlow`: weak
fairness of the steps of a thread inside the graph. `ExecutionContext`: weak
fairness of users' and timers' steps; new requests are not fair, so a user may
stop asking. `ProcessLifecycle`: weak fairness of the owner inside a call, of
each runner and of each server's thread; none of the user's calls, of a SIGINT,
or of spurious wakeups, so nothing returns because of one. `ControlPlane`: weak
fairness of a request that has begun, of the handlers, and of the timeouts of
the HTTP library; nothing makes a call arrive. `WebSocketClient`: weak fairness
of the constructor, the server, the socket's thread and a request that has
begun; none of a lost connection or of spurious wakeups. `ComponentTool`:
`MainGoesOn`, which is `WF_vars(Main)` with its ENABLED written out (Main can go
on exactly while a run is busy), so that TLC need not enumerate it; a kill
remains possible at every step. `Startup` and `Configuration` have no liveness:
they are one thread that consumes a finite list. No property needs strong
fairness.

## Proofs

For any values of the constants that satisfy the named assumptions.

`ContainerThreadProofs`: `TypeOK`, `ServedExactlyOnce`, `QueuedTaskHasWaiter`,
`BodiesExclusive`, `NoMissedWakeup`, and that every step is a step of
`TaskService` or a stutter. None of these is inductive. The invariant adds who
owns which mutex at which pc, and that push_task's critical region and the
worker between them pass one token: the task is with the caller before it is
queued, in the queue, with the worker, or done, and the done flag may be up only
in the last case. `ServedExactlyOnce` follows because a caller can see the flag
only while it owns `push_task_mutex_`, and a flag raised for an earlier task is
cleared before that mutex is released. Assumptions: `NoOne` is not a caller,
`MaxCalls` is a natural number.

`DataFlowProofs`, for any graph, cyclic ones too, any number of threads and any
failing operations: `TypeOK`, which says that no inlet ever holds an error,
`EventReachesOwner`, and that no body computes with an error. The first invariant
is about one stack and takes the clock and the runs as parameters, since every
thread's steps let them grow: a call that waits pulls or delivers; the call it
waits for is of the operation its connection leads to, and began after the value
was obtained; and a call that has its value has run the body if its operation has
inlets (`InletsMeanCall`, which is where `isUpdated` and `has_pull_connection`
complement each other). `ShapeInv`, still for any number of threads, says of the
calls on one stack that those made to pull never deliver, and that a call that
delivers does not return while an earlier one of the same operation delivers.
For one thread (`OneThread`), and still for any graph, that gives `PullIsFresh`,
`EventDeliversValue` and `DownstreamInSync`: `FlowInv` says of every call where
its arguments come from (`Fresh`), what each inlet it has put to so far holds
(`Exact`), and which inlets are behind their outlets because a call is still
delivering (`InSync`), for which the innermost delivery of an operation answers.
With two threads all three fail, as `dataflow_two` would show. Two statements
had to be corrected before they could be proved, both true of the instance and
false of some graph: a body runs with the value put at the moment it returns, and
later only if nothing else ran it, so `EventDeliversValue` speaks of that moment;
and `DownstreamInSync` leaves out inlets called `__argument__`, which get the parts
of a value. Assumptions: `GraphAssumption`, `BoundAssumption`.

`ExecutionContextProofs`, for any number of users, timer threads and calls, any
kind and with a bound operation that may stop the context: `TypeOK`,
`AtMostOneTimer`, `StoppedMeansQuiet`, `NeverJoinsNothing`. The two mutexes do
not order a start and a stop, so the invariant says what each knows while it
runs: a start that has decided to change the state finds the context stopped
until it sets it, and no busy timer until it spawns one; a stop finds it started
until it sets it, with the timer joined; and a start and a stop are never both
past that point. Assumptions: users, timer threads and the special values are distinct.

`FiniteStateMachineProofs`, for any states, transitions, entries and threads:
`TypeOK` and `EcFollowsFsm`. The invariant says that entries nest: every call
but the innermost is delivering and, under `EcsFirst`, has said all it has to
say to the context; so while requests do not overlap only the current state's
own entry may still owe it a word, and when nothing is owed the context is where
that entry put it. Assumptions: `StateAssumption`, `ThreadAssumption`.

`ProgramProofs`, first, of the process, for any number of brokers, editors, starts
and stops:
`TypeOK`, `StartedMeansAnnounced`, `StoppedMeansReturned`,
`StoppedBrokersSaySo`, `NoServerOutlivesProcess` and `UsedOnceNeverThrows`.
`IInv` says what each loop of the owner has established for the runners it has
passed, and that no runner undoes it: a broker past its announcement never
announces again, which is why the last write to its info is the shutdown's, and
why that needs the polling of `startAsync`; every runner in progress is in
`threads_`, and those before `joined` have returned, so the joins leave none;
the destructor's loop leaves no server behind a broker it has released.
`FirstLife` adds, for `UsedOnceNeverThrows`, that before the second start no
server's thread precedes its runner, and that nothing is joined before the only
stop begins. Assumptions: `NB`, `NE`, `MaxStarts`, `MaxStops` are naturals and
the WebSocket brokers are brokers.

`ProgramProofs`, then, of `juiz_create_component`, for any command lines, names,
echoes and edits and any templates laid out like the project's: `ComponentAgrees`
and `WorkIsKept`, at every step of any number of runs, forced and killed ones
included. Neither is inductive, because half way through a run the files do not
agree and only what is left of `main` makes them. `ToolInv` says what that is:
the steps left come in the order of `main` (`Ordered`), each of them for
something the options ask for (`IsStep`); an update that has begun will rename
what is there, open what is not and fill what is empty, in this order and of one
file (`Updating`); and the directory as it will be once that file is filled
(`Settled`) has, for every part that is asked for, its source, its place in the
list and its place in the shelf, or the step that makes them, where a step of
generating comes before that of listing and that before that of shelving
(`Progress`). So what is listed has a source and what is preloaded is listed, at
any step at which a kill may come. A run that will loop on its own text never
fills the file it opened, and is left out of `Progress`. For `WorkIsKept` what
matters is that only a file that has just been opened, and so is blank, is ever
filled. Assumptions: `TemplateAssumption`, how the templates are laid out, and
`FirstDiskAssumption`, that what is there before the first run is no component.

`ControlPlaneProofs`, for any processes, operations and requests and whichever
calls are lost, late or timed out: `TypeOK`, `SuccessMeansBothEnds`,
`InletHalfHasOutletHalf`, `CreatedNamesUnique`, `ConnectsWhatWasNamed`,
`SequentialRequestsAreExclusive` and `ProxyIsFaithful`. `IInv` says how far each half has come: the
inlet is called only after the outlet has answered ok, a half that is ok was
pushed, what is listed was pushed, and lists only grow. `CreateInv` says that
what a request created is in the store under its name, and that the check of a
later request saw it. `LinkInv` says where things lead: a proxy in a cache, an
end of a request and the peer of a half are the operation of the process that
their address names (where names differ between processes and exist), an entry
of a list is what its half brought, a peer is missing only where a call got lost
or the operation lives elsewhere; and the check of a request that began when
another was over sees the entries which that one left. Two premises of the
properties come from the attempt to prove them without, which TLC turned into
counterexamples: see `What the runs show`. `ProxyIsFaithful` needs no invariant
but is about every method, object and transport: a call on a proxy becomes a path
of segments, the handlers and the mapper take it apart again, and the proof goes
through the classes of paths, one method of the interface at a time, for any
names and payloads. A use of an object is a call or two of these. Assumptions:
`RequestAssumption`; `StoreAssumption`, that each process starts with a sequence
of objects; and `RoutingAssumption`, that there are names and payloads, and that
no name is the empty segment that is behind a slash at the end of a path.

`WebSocketClientProofs`, for any users, requests and lost connections: `TypeOK`,
`LoneRequestGetsItsReply`, and that users who take turns are served as
`TaskService` says. The invariant follows one request around: while a request is
alone, what is asked, handled, replied, written and flagged is only its own, in
that order and in one place at a time, and nothing is left when it is over;
between requests that take turns the wire and the slot hold nothing but what a
finished request has read. Assumption: `BoundsAssumption`.

`StartupProofs`, for any configuration, any clients and whatever the search
paths have: `OrderKept`, `NoThreadAfterException`, `TopicsJoined` and
`FactoryCodeStays`. `TasksAre` turns the flattened lists of a configuration into
facts about ranks: each kind of task has its own, the list is sorted by it, and
what each task is about comes from the configuration. `IInv` says that what is
left of the list stays so, the launch among it until its rank is passed, and that
the code of every factory is loaded: a factory comes only from `Load`, which keeps
the DLL in which it found the symbol, or is built in. `BuildInv` says of each
thing promised that its task is left or it is there (`Built`), which needs who can
take what name: operations promised are plain ones that come before any container
has operations; a container has its name from an item, an FSM, an EC or an anchor
(`Origins`); the name of a connection tells its ends for binds, states and topics,
until something of a free name may come (`BindNames`, `StateNames`, `TopicNames`);
and halves are whole where the inlet is there (`Net`). Nothing can undo this,
since a store only grows and what comes late is a client's or a topic
(`Stable`). `Stays` is why no thread is left by an exception: the tasks that can
throw uncaught all have ranks below the launch's. Assumptions: `FilesAssumption`,
that the search paths are in an order and the built-in types have no files, and
`ConfigAssumption`, that the lists of a configuration are sequences.

Model-checked only. Every liveness property: TLAPS does not reason about
fairness. Everything of `Configuration`, which reaches the RECURSIVE operators of
`Values`, with which tlapm has no arithmetic. Where a proof
needs what a recursive function computes (`Among` of `DataFlow`, the flattened
lists and `ConnectedAll` of `Startup`), it takes a least counterexample of the
natural numbers instead of an induction theorem, which tlapm cannot instantiate.

## Not modelled, and why

- Torn reads. `NewestValueBuffer`, `flag_`, `currentState` and the lists of
  connections are accessed without a common lock; the models read a whole old or
  new value and, for what is extended at the same time, claim nothing.
- A body that calls an operation of its own container (it deadlocks on the
  worker, `container.h:264`), `Container::~Container` and `finalize` while calls
  are in progress. `~ProcessStore` finalizes operations before the brokers that
  may still serve requests for them; finalize is not composed with them.
- The deletion of operations and connections in use: `deleteConnection` deletes
  nothing, and `disconnectFrom` of an outlet is not implemented, that of an
  inlet returns nothing. The followers of the connection builder. Lines 134-422
  and 467-556 of `connection_builder.cpp` are commented out.
- The remote part of a configuration given as a string, mesh data, renaming of
  connections in the configuration.
- Values: keys with dots, byte arrays, moved-from objects, lists in lists in
  YAML output, the layout of texts. Poses and geometry: floating point. The
  length of a timer's period.
- The WebSocket client's destructor; a run loop of the HTTP library; the
  editor's pages, which are a submodule without source here.
- `guard.cpp`, which is not built; logging, `os.cpp`, string helpers.

Behaviour met while modelling, which no run states because nothing in the
repository promises otherwise:

- Startup: an EC or anchor with a container's name is silently lost; of two ECs
  bound to one state the second is refused; an operation that exists already
  under a precreated name gets the topic but no connection; a topic name taken
  leaves the publisher half; null inlets leave the outlet half;
  `setupAnchorContainer` registers the dynamic factory first, so that the static
  one is refused; names that start with "/" are never found in the process
  itself; the `PeriodicAnchor` of `container_test.cpp` and of the example
  project is refused by `objectfactory.cpp:76-93`.
- Proxies: `info` of an operation, an inlet, an outlet or a container, and
  `fullInfo` of a container, add their broker to an answer that is an error, which
  makes an object of it (`operation_proxy.cpp:64,70,171,226`,
  `container_proxy.cpp:24,31`); a kept proxy of an inlet or outlet is found by a
  call of its `info` (`process_store.cpp:159`, `210`), where the model has no call
  to lose, since the operation's proxy that was kept with it leads to the same end;
  `isUpdated` of a remote inlet answers no; a remote PUSH connection is
  read as PULL (`connection_proxy.cpp:59`), and its ends are looked for where
  the connection lives; poses of remote containers are empty; a WebSocket broker
  with a configured route answers every GET with that file.
- Values: a null moved into a map becomes an error; a YAML key without a value
  is an error; a base 60 int, or a signed int of base 2 or 16, throws out of
  startup, and base 8 loses its sign; an empty object is null after JSON; two
  nulls are not equal; the const `operator[]` inserts.
- Configuration: an empty project in JSON makes the whole an error; a shelf
  without `load_paths` overrides the project's with an error; a shelf that is
  not found throws where there are no load paths; places of included projects
  are sought from the first project's directory.
- Component tool: comments of a shelf are lost when it is rewritten (the backup
  has them); `-op` with a container's name finds that source and generates none;
  a killed run leaves an empty source, which later runs take for existing, or no
  `CMakeLists.txt`, so that they are refused; a container preloaded in list form
  makes `-co` abort after `CMakeLists.txt` was changed, and an
  `operations.preload` that is no list would do so to `-op`
  (`juiz_create_component.cpp:376`), but is a list in the template and in every
  edit of the model; a value option at the
  end of the command line reads behind it.
- Operations: `invoke` of an operation without inlets returns the empty buffer
  of its outlet until an execute has filled it (`operation_base.cpp:116`).

## What could come next

- A composition of `FiniteStateMachine` with the steps of `ExecutionContext` in
  place of its `currentState`, and of `ControlPlane` with `DataFlow`: connections
  that come while values flow.
- The deletion of objects in use, once the code decides what it means.
- `Configuration` with recursive functions in place of the RECURSIVE operators of
  `Values`, so that theorems can be stated of it.
