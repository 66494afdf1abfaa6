------------------------------- MODULE DataFlow -------------------------------
(***************************************************************************)
(* Operations, inlets, outlets and connections (src/lib/operation,         *)
(* src/lib/connection): how invoke and execute move values through a graph *)
(* of operations, on the stacks of the threads that call them.             *)
(*                                                                         *)
(* A value is the number of the body run that produced it, so a larger     *)
(* number is a newer value; three numbers stand for the values no body run *)
(* produces.  Connections are fixed: ConnectionBuilder makes them before   *)
(* the graph runs.  A body is one step; ContainerThread says how a         *)
(* container operation's body is handed to a worker.                       *)
(***************************************************************************)
EXTENDS Integers, Sequences, SequencesExt, FiniteSets

CONSTANTS
  Threads,       \* threads that invoke or execute operations
  Ops,           \* operations
  Inlets,        \* Inlets[o]: the names of o's inlets, in the order of inlets_
  Connections,   \* the connections [type, from, to, inlet], oldest first
  Executable,    \* operations the threads execute from outside the graph
  Invocable,     \* operations the threads invoke from outside the graph
  Settable,      \* operations whose inlets are put to from outside
  Keys,          \* Keys[o]: the keys of the values o's body returns
  Faulty,        \* operations whose body may fail or throw
  MaxRequests,   \* bound: requests the threads make altogether
  MaxClock       \* bound: values produced altogether (never reached)

ConnectionTypes == {"PULL", "PUSH", "EVENT"}

ASSUME GraphAssumption ==
  /\ Inlets \in [Ops -> Seq(STRING)]
  /\ Connections \in Seq([type : ConnectionTypes, from : Ops, to : Ops, inlet : STRING])
  /\ Executable \subseteq Ops /\ Invocable \subseteq Ops /\ Settable \subseteq Ops
  /\ Keys \in [Ops -> SUBSET STRING] /\ Faulty \subseteq Ops
ASSUME BoundAssumption == MaxRequests \in Nat /\ MaxClock \in Nat

VARIABLES
  buffer,    \* buffer[o][i]: the NewestValueBuffer of o's i-th inlet
  updated,   \* updated[o][i]: argument_updated_ of that inlet
  outlet,    \* outlet[o]: outputBuffer_ of o's outlet
  first,     \* first[o]: _first_output_done
  stack,     \* stack[t]: the calls thread t is inside, outermost first
  ret,       \* ret[t]: the value the last finished call of t returned
  requests,  \* requests made so far
  clock,     \* values produced so far
  lastRun,   \* lastRun[o]: clock of o's last body run, 0 if none (history)
  seen       \* seen[o]: the arguments of that run (history)

vars == <<buffer, updated, outlet, first, stack, ret, requests, clock, lastRun,
          seen>>
graphVars == <<buffer, updated, outlet, first>>
history == <<lastRun, seen>>

DefaultValue == 0    \* the inlet's default argument
EmptyValue == -1     \* a default-constructed Value: what a never-filled outlet holds
ErrorValue == -2     \* Value::error
Value == {ErrorValue, EmptyValue} \cup Nat

InletIndexes(o) == 1..Len(Inlets[o])
\* The members of sequence s that are in set T, in order.  (Like SelectSeq,
\* with a set to select by, so that what it returns can be proved once.)
Among(s, T) ==
  LET Kept[n \in 0..Len(s)] ==
        IF n = 0 THEN <<>>
        ELSE IF s[n] \in T THEN Append(Kept[n - 1], s[n]) ELSE Kept[n - 1]
  IN Kept[Len(s)]

Links == ToSet(Connections)
OutConnections_NoPush(o) ==
  Among(Connections, {c \in Links : c.from = o /\ c.type # "PUSH"})
OutConnections(o) == Among(Connections, {c \in Links : c.from = o})
InConnections(o, i) ==
  Among(Connections, {c \in Links : c.to = o /\ c.inlet = Inlets[o][i]})
PullConnections(o, i) == Among(InConnections(o, i), {c \in Links : c.type = "PULL"})

\* The inlets a put of v on connection c reaches: __argument__ forwards the
\* parts of v to the inlets they are named after, __event__ keeps v for itself.
ArgumentName == "__argument__"
Reached(c, v) ==
  {i \in InletIndexes(c.to) :
     IF c.inlet = ArgumentName
       THEN v > 0 /\ Inlets[c.to][i] \in Keys[c.from]
       ELSE Inlets[c.to][i] = c.inlet}
TargetInlets(c, v) == Among([i \in InletIndexes(c.to) |-> i], Reached(c, v))

\* A call in progress.  "decide" is the start of invoke; "collect" walks the
\* inlets (i) and their PULL connections (k); "pulled" waits for an upstream
\* invoke; "invoked" has the value val; "deliver" walks the outlet's
\* connections (k) and the inlets each reaches (i).
Frame(o, mode) ==
  [op |-> o, mode |-> mode, pc |-> "decide", i |-> 1, k |-> 1,
   args |-> [j \in InletIndexes(o) |-> DefaultValue],
   val |-> EmptyValue,
   pulled |-> <<>>,    \* inlet index -> operation a pull filled it from (history)
   born |-> clock,     \* clock when the call started (history)
   at |-> clock]       \* clock when val was obtained (history)

Init ==
  /\ buffer = [o \in Ops |-> [i \in InletIndexes(o) |-> DefaultValue]]
  /\ updated = [o \in Ops |-> [i \in InletIndexes(o) |-> FALSE]]
  /\ outlet = [o \in Ops |-> EmptyValue]
  /\ first = [o \in Ops |-> FALSE]
  /\ stack = [t \in Threads |-> <<>>]
  /\ ret = [t \in Threads |-> EmptyValue]
  /\ requests = 0 /\ clock = 0
  /\ lastRun = [o \in Ops |-> 0]
  /\ seen = [o \in Ops |-> [i \in InletIndexes(o) |-> DefaultValue]]

Top(t) == Last(stack[t])
At(t, pc) == stack[t] # <<>> /\ Top(t).pc = pc

\* Thread t's innermost call becomes f; enters call f on top; returns v.
Continue(t, f) == stack' = [stack EXCEPT ![t] = Append(Front(@), f)]
Enter(t, f, callee) == stack' = [stack EXCEPT ![t] = Front(@) \o <<f, callee>>]
Leave(t, v) == /\ stack' = [stack EXCEPT ![t] = Front(@)]
               /\ ret' = [ret EXCEPT ![t] = v]
------------------------------------------------------------------------------
(* Requests from outside the graph *)

Request(t) == /\ stack[t] = <<>>
              /\ requests < MaxRequests
              /\ requests' = requests + 1

RequestCall(t, o, mode) ==
  /\ Request(t)
  /\ stack' = [stack EXCEPT ![t] = <<Frame(o, mode)>>]
  /\ UNCHANGED <<graphVars, history, ret, clock>>

\* OperationInletBase::put: an error is refused, anything else replaces the
\* buffered value.
Accepted_Always(v) == TRUE
Accepted(v) == v # ErrorValue
PutInlet(o, i, v) ==
  IF Accepted(v)
    THEN /\ buffer' = [buffer EXCEPT ![o][i] = v]
         /\ updated' = [updated EXCEPT ![o][i] = TRUE]
    ELSE UNCHANGED <<buffer, updated>>

RequestPut(t, o, i) ==
  /\ Request(t)
  /\ clock < MaxClock
  /\ clock' = clock + 1
  /\ PutInlet(o, i, clock + 1)
  /\ UNCHANGED <<outlet, first, stack, ret, lastRun, seen>>
------------------------------------------------------------------------------
(* OperationBase::invoke *)

IsUpdated_FlagOnly(o, i) == updated[o][i]
IsUpdated(o, i) ==
  \/ updated[o][i]
  \/ \A k \in DOMAIN InConnections(o, i) : InConnections(o, i)[k].type # "PULL"
HasPull(o, i) ==
  \E k \in DOMAIN InConnections(o, i) : InConnections(o, i)[k].type = "PULL"
MustCall_Memoised(o) == ~first[o]
MustCall(o) == \/ ~first[o]
               \/ \E i \in InletIndexes(o) : IsUpdated(o, i)
               \/ \E i \in InletIndexes(o) : HasPull(o, i)

Decide(t) ==
  /\ At(t, "decide")
  /\ LET f == Top(t) IN
       IF MustCall(f.op)
         THEN Continue(t, [f EXCEPT !.pc = "collect"])
         ELSE Continue(t, [f EXCEPT !.pc = "invoked", !.val = outlet[f.op],
                                    !.at = clock])
  /\ UNCHANGED <<graphVars, history, ret, requests, clock>>

\* collectValues: pull through the inlet's next PULL connection ...
StartPull(t) ==
  /\ At(t, "collect")
  /\ LET f == Top(t) IN
       /\ f.i \in InletIndexes(f.op)
       /\ f.k <= Len(PullConnections(f.op, f.i))
       /\ Enter(t, [f EXCEPT !.pc = "pulled"],
                   Frame(PullConnections(f.op, f.i)[f.k].from, "invoke"))
  /\ UNCHANGED <<graphVars, history, ret, requests, clock>>

\* ... until one of them yields something else than an error ...
NextPull_SameAgain(f, v) ==
  IF v = ErrorValue THEN f.k ELSE Len(PullConnections(f.op, f.i)) + 1
NextPull(f, v) ==
  IF v = ErrorValue THEN f.k + 1 ELSE Len(PullConnections(f.op, f.i)) + 1

PulledNow(f) == [i \in DOMAIN f.pulled \cup {f.i} |->
                   IF i = f.i THEN PullConnections(f.op, i)[f.k].from ELSE f.pulled[i]]

EndPull(t) ==
  /\ At(t, "pulled")
  /\ LET f == Top(t) v == ret[t] IN
       /\ PutInlet(f.op, f.i, v)
       /\ Continue(t, [f EXCEPT !.pc = "collect", !.k = NextPull(f, v),
                                !.pulled = IF v = ErrorValue THEN @ ELSE PulledNow(f)])
  /\ UNCHANGED <<outlet, first, ret, requests, clock, lastRun, seen>>

\* ... and take what the inlet's buffer holds then.
Collect(t) ==
  /\ At(t, "collect")
  /\ LET f == Top(t) IN
       /\ f.i \in InletIndexes(f.op)
       /\ f.k > Len(PullConnections(f.op, f.i))
       /\ Continue(t, [f EXCEPT !.args[f.i] = buffer[f.op][f.i],
                                !.i = @ + 1, !.k = 1])
  /\ UNCHANGED <<graphVars, history, ret, requests, clock>>

\* The body runs and returns a value or an error; or it throws, which invoke
\* turns into an error without having noted the first output.
Call(t) ==
  /\ At(t, "collect")
  /\ clock < MaxClock
  /\ clock' = clock + 1
  /\ LET f == Top(t) o == f.op IN
       /\ f.i > Len(Inlets[o])
       /\ \E v \in {clock + 1, ErrorValue}, throws \in BOOLEAN :
            /\ v = ErrorValue => o \in Faulty
            /\ throws => v = ErrorValue
            /\ first' = [first EXCEPT ![o] = @ \/ ~throws]
            /\ Continue(t, [f EXCEPT !.pc = "invoked", !.val = v, !.at = clock + 1])
       /\ lastRun' = [lastRun EXCEPT ![o] = clock + 1]
       /\ seen' = [seen EXCEPT ![o] = f.args]
  /\ UNCHANGED <<buffer, updated, outlet, ret, requests>>

ReturnInvoke(t) ==
  /\ At(t, "invoked")
  /\ Top(t).mode = "invoke"
  /\ Leave(t, Top(t).val)
  /\ UNCHANGED <<graphVars, history, requests, clock>>
------------------------------------------------------------------------------
(* OperationBase::execute and OperationOutletBase::put *)

PutOutlet(t) ==
  /\ At(t, "invoked")
  /\ Top(t).mode = "execute"
  /\ outlet' = [outlet EXCEPT ![Top(t).op] = Top(t).val]
  /\ Continue(t, [Top(t) EXCEPT !.pc = "deliver", !.i = 1, !.k = 1])
  /\ UNCHANGED <<buffer, updated, first, history, ret, requests, clock>>

\* Connection::put hands the value to the inlet ...
Deliver(t) ==
  /\ At(t, "deliver")
  /\ LET f == Top(t) cs == OutConnections(f.op) IN
       /\ f.k <= Len(cs)
       /\ f.i <= Len(TargetInlets(cs[f.k], f.val))
       /\ PutInlet(cs[f.k].to, TargetInlets(cs[f.k], f.val)[f.i], f.val)
       /\ Continue(t, [f EXCEPT !.i = @ + 1])
  /\ UNCHANGED <<outlet, first, ret, requests, clock, lastRun, seen>>

FiresOwner(f, c) == c.type = "EVENT"

\* ... and an EVENT connection then executes the inlet's owner, whatever
\* became of the value.
FinishConnection(t) ==
  /\ At(t, "deliver")
  /\ LET f == Top(t)
         cs == OutConnections(f.op)
         next == [f EXCEPT !.k = @ + 1, !.i = 1]
     IN /\ f.k <= Len(cs)
        /\ f.i > Len(TargetInlets(cs[f.k], f.val))
        /\ IF FiresOwner(f, cs[f.k])
             THEN Enter(t, next, Frame(cs[f.k].to, "execute"))
             ELSE Continue(t, next)
  /\ UNCHANGED <<graphVars, history, ret, requests, clock>>

ReturnExecute(t) ==
  /\ At(t, "deliver")
  /\ Top(t).k > Len(OutConnections(Top(t).op))
  /\ Leave(t, Top(t).val)
  /\ UNCHANGED <<graphVars, history, requests, clock>>
------------------------------------------------------------------------------
Step(t) == \/ Decide(t) \/ StartPull(t) \/ EndPull(t) \/ Collect(t) \/ Call(t)
           \/ ReturnInvoke(t) \/ PutOutlet(t) \/ Deliver(t)
           \/ FinishConnection(t) \/ ReturnExecute(t)

Next == \E t \in Threads :
          \/ Step(t)
          \/ \E o \in Executable : RequestCall(t, o, "execute")
          \/ \E o \in Invocable : RequestCall(t, o, "invoke")
          \/ \E o \in Settable : \E i \in InletIndexes(o) : RequestPut(t, o, i)

Spec == Init /\ [][Next]_vars

\* Every thread keeps running once it has entered the graph.
FairSpec == Spec /\ \A t \in Threads : WF_vars(Step(t))
------------------------------------------------------------------------------
(* Properties *)

FrameType(f) ==
  /\ f.op \in Ops
  /\ f.mode \in {"invoke", "execute"}
  /\ f.pc \in {"decide", "collect", "pulled", "invoked", "deliver"}
  /\ f.i \in Nat /\ f.k \in Nat
  /\ f.args \in [InletIndexes(f.op) -> Value]
  /\ f.val \in Value
  /\ DOMAIN f.pulled \subseteq InletIndexes(f.op)
  /\ f.born \in 0..clock /\ f.at \in 0..clock

TypeOK ==
  /\ \A o \in Ops : /\ buffer[o] \in [InletIndexes(o) -> Value \ {ErrorValue}]
                    /\ updated[o] \in [InletIndexes(o) -> BOOLEAN]
                    /\ seen[o] \in [InletIndexes(o) -> Value]
  /\ outlet \in [Ops -> Value] /\ first \in [Ops -> BOOLEAN]
  /\ ret \in [Threads -> Value]
  /\ requests \in 0..MaxRequests /\ clock \in 0..MaxClock
  /\ lastRun \in [Ops -> 0..clock]
  /\ \A t \in Threads : \A n \in DOMAIN stack[t] : FrameType(stack[t][n])

\* The connections of execute frame stack[t][n] that are dealt with.
Served(t, n) ==
  LET f == stack[t][n] IN
    {j \in 1..Len(OutConnections(f.op)) :
       f.pc = "deliver" /\ j < f.k - (IF n = Len(stack[t]) THEN 0 ELSE 1)}

\* Once execute has dealt with an EVENT connection, the connected operation
\* has run its body after the value was obtained, and before execute returns:
\* propagation is synchronous, also for an error and under other threads
\* (Connection::put).  An operation without inlets is not called twice by
\* invoke: from the second time on it returns what its outlet holds, which only
\* execute fills.
EventReachesOwner ==
  \A t \in Threads : \A n \in DOMAIN stack[t] : \A j \in Served(t, n) :
    LET c == OutConnections(stack[t][n].op)[j] IN
      c.type = "EVENT" /\ Inlets[c.to] # <<>> => lastRun[c.to] > stack[t][n].at

\* With one thread in the graph, the body that an EVENT connection makes run gets
\* exactly the value put, in every inlet the connection reaches and nothing pulls
\* into; and no body ever computes with an error, whatever fails upstream on the
\* push or on the pull side (OperationInletBase::put and collectValues).
EventDeliversValue ==
  /\ \A o \in Ops : \A i \in InletIndexes(o) : seen[o][i] # ErrorValue
  /\ \A t \in Threads : \A n \in 1..(Len(stack[t]) - 1) :
       LET f == stack[t][n]
           c == OutConnections(f.op)[f.k - 1]
       IN f.pc = "deliver" /\ stack[t][n + 1].pc = "invoked" /\ f.val # ErrorValue =>
            \A i \in ToSet(TargetInlets(c, f.val)) :
              ~HasPull(c.to, i) => seen[c.to][i] = f.val

\* With one thread in the graph, an argument that was pulled was computed for
\* this call and not left over from an earlier one (collectValues, invoke of
\* the upstream operation).
PullIsFresh ==
  \A t \in Threads : \A n \in DOMAIN stack[t] :
    LET f == stack[t][n] IN
      f.pc \in {"collect", "pulled"} =>
        \A i \in DOMAIN f.pulled :
          i < f.i /\ Inlets[f.pulled[i]] # <<>> => f.args[i] > f.born

\* With one thread, whenever it is outside the graph an inlet fed by a single
\* PUSH or EVENT connection, by its name, holds what its source last put out,
\* unless that was an error (OperationOutletBase::put reaches every connection).
DownstreamInSync ==
  (\A t \in Threads : stack[t] = <<>>) =>
    \A k \in DOMAIN Connections :
      LET c == Connections[k]
          feeders == {j \in DOMAIN Connections : Connections[j].to = c.to
                        /\ Connections[j].inlet \in {c.inlet, ArgumentName}}
      IN \A i \in InletIndexes(c.to) :
           (c.type # "PULL" /\ Inlets[c.to][i] = c.inlet /\ c.inlet # ArgumentName
            /\ feeders = {k} /\ c.to \notin Settable)
           => \/ outlet[c.from] \in {EmptyValue, ErrorValue}
              \/ buffer[c.to][i] = outlet[c.from]

\* On a graph without cycles every request returns, also with several threads
\* inside it.
RequestsReturn == \A t \in Threads : (stack[t] # <<>>) ~> (stack[t] = <<>>)
==============================================================================
