----------------------------- MODULE ControlPlane -----------------------------
(***************************************************************************)
(* Requests that build the graph of operations while the processes run:    *)
(* connecting an outlet to an inlet (connection_builder.cpp), which may    *)
(* live in other processes, and creating operations (objectfactory.cpp).   *)
(* A request runs on a thread of the process it came to and nothing locks  *)
(* the lists it reads and extends.  What it does in another process goes   *)
(* through a proxy (operation_proxy.cpp): the call runs on a thread there, *)
(* may be lost, and may time out while it is still under way.              *)
(***************************************************************************)
EXTENDS ProcessStore, ObjectProxies, FiniteSets

CONSTANTS
  Process,
  Inlet,       \* names of inlets; every operation has each of them
  Connects,    \* requests to connect
  At,          \* the process a request to connect is made to
  Out, In,     \* [at, name, addr]: the operations named, and whether the broker
               \* given with them is "full" (an address) or "core" (whoever reads it)
  InletOf,     \* the inlet named
  ConName,     \* the name asked for
  AutoNamed,   \* the requests whose namingPolicy is auto
  Faulty,      \* the requests whose remote calls may fail: the bound on faults
  Creates,     \* requests to create an operation
  MadeAt,      \* the process such a request is made to
  MadeInfo,    \* its info
  Initially    \* the store of each process at first

Requests == Connects \cup Creates
Ops == Process \X Names
NoEnd == [at |-> "null", name |-> "null", rpc |-> FALSE]
End(p, n, rpc) == [at |-> p, name |-> n, rpc |-> rpc]
Operation(e) == <<e.at, e.name>>

ASSUME RequestAssumption ==
  /\ Connects \cap Creates = {} /\ Faulty \subseteq Connects
  /\ "null" \notin Process \cup Names
  /\ \A r \in Connects : /\ At[r] \in Process /\ InletOf[r] \in Inlet
                         /\ Out[r].at \in Process /\ Out[r].name \in Names
                         /\ In[r].at \in Process /\ In[r].name \in Names
  /\ \A k \in Creates : MadeAt[k] \in Process
ASSUME StoreAssumption ==
  /\ DOMAIN Initially = Process
  /\ \A p \in Process : Initially[p] \in Seq({Initially[p][i] : i \in DOMAIN Initially[p]})

VARIABLES
  store,       \* store[p]: the objects of a process
  opProxies, outProxies, inProxies,   \* what a process has resolved so far
  outletCons,  \* outletCons[o]: the connections of the outlet of o
  inletCons,   \* inletCons[o][i]: the connections of the inlet i of o
  pc,          \* where a request stands
  ends,        \* ends[r]: the outlet and the inlet a request has resolved
  name,        \* name[r]: the name its connection, or its operation, gets
  half,        \* half[r][s]: its connectTo call on side s
  before,      \* before[r]: the requests answered before r began
  faulted,     \* requests one of whose remote calls failed
  torn         \* lists that two threads extended at the same time

vars == <<store, opProxies, outProxies, inProxies, outletCons, inletCons,
          pc, ends, name, half, before, faulted, torn>>
proxyVars == <<opProxies, outProxies, inProxies>>
consVars == <<outletCons, inletCons>>
history == <<before, faulted, torn>>

Sides == {"outlet", "inlet"}
NoHalf == [status |-> "none", peer |-> NoEnd]
NotYet == "none"

Init ==
  /\ store = Initially
  /\ opProxies = [p \in Process |-> [n \in Names |-> NoEnd]]
  /\ outProxies = opProxies
  /\ inProxies = [p \in Process |-> [n \in Names |-> [i \in Inlet |-> NoEnd]]]
  /\ outletCons = [o \in Ops |-> {}]
  /\ inletCons = [o \in Ops |-> [i \in Inlet |-> {}]]
  /\ pc = [r \in Requests |-> "idle"]
  /\ ends = [r \in Connects |-> [s \in Sides |-> NoEnd]]
  /\ name = [r \in Requests |-> NotYet]
  /\ half = [r \in Connects |-> [s \in Sides |-> NoHalf]]
  /\ before = [r \in Requests |-> {}] /\ faulted = {} /\ torn = {}

Answered(r) == pc[r] \in {"ok", "error"}
Goto(r, l) == pc' = [pc EXCEPT ![r] = l]
Begins(r) ==
  /\ pc[r] = "idle"
  /\ before' = [before EXCEPT ![r] = {q \in IF r \in Connects THEN Connects ELSE Creates : Answered(q)}]

(***************************************************************************)
(* Finding the ends.  A proxy that was made before is found by the name of *)
(* the operation alone.  That of an inlet or an outlet is looked for by    *)
(* asking each one kept for its info, which is a call where the end is     *)
(* remote; when that fails the operation's proxy is found instead, which   *)
(* was kept with it and leads to the same end.                             *)
(***************************************************************************)
Exists(p, n) == Has(store[p], "operation", n)
\* What operationProxy may return in process p: making a proxy of an operation
\* elsewhere asks for its inlets, and fails when the answer does not come.
OperationAt(r, cache, p, ref) ==
  CASE cache[p][ref.name] # NoEnd -> {cache[p][ref.name]}
    [] cache[p][ref.name] = NoEnd /\ ref.addr = "core" ->
         {IF Exists(p, ref.name) THEN End(p, ref.name, FALSE) ELSE NoEnd}
    [] OTHER -> (IF Exists(ref.at, ref.name) THEN {End(ref.at, ref.name, TRUE)} ELSE {NoEnd})
                \cup (IF r \in Faulty THEN {NoEnd} ELSE {})
OutletAt(r, cache, p, ref) ==
  IF outProxies[p][ref.name] # NoEnd THEN {outProxies[p][ref.name]} ELSE OperationAt(r, cache, p, ref)
InletAt(r, cache, p, ref, i) ==
  IF inProxies[p][ref.name][i] # NoEnd THEN {inProxies[p][ref.name][i]} ELSE OperationAt(r, cache, p, ref)
Cached(cache, p, n, e) ==
  IF e = NoEnd \/ cache[p][n] # NoEnd THEN cache ELSE [cache EXCEPT ![p][n] = e]
CacheInlet(p, n, i, e) ==
  inProxies' = IF e = NoEnd \/ inProxies[p][n][i] # NoEnd THEN inProxies
               ELSE [inProxies EXCEPT ![p][n][i] = e]
\* A failed lookup is a fault unless there is nothing of that name.
Missed(r, p, ref, e) ==
  r \in Faulty /\ e = NoEnd /\ Exists(IF ref.addr = "core" THEN p ELSE ref.at, ref.name)

Resolve(r) ==
  LET p == At[r] IN
  /\ Begins(r)
  /\ \E in \in InletAt(r, opProxies, p, In[r], InletOf[r]) :
     LET cache == Cached(opProxies, p, In[r].name, in) IN
     \E out \in OutletAt(r, cache, p, Out[r]) :
       /\ ends' = [ends EXCEPT ![r] = [s \in Sides |-> IF s = "outlet" THEN out ELSE in]]
       /\ opProxies' = Cached(cache, p, Out[r].name, out)
       /\ outProxies' = Cached(outProxies, p, Out[r].name, out)
       /\ CacheInlet(p, In[r].name, InletOf[r], in)
       /\ faulted' = IF Missed(r, p, In[r], in) \/ Missed(r, p, Out[r], out)
                     THEN faulted \cup {r} ELSE faulted
  /\ Goto(r, "route")
  /\ UNCHANGED <<store, consVars, name, half, torn>>

(***************************************************************************)
(* The checks the requester makes before it connects.  Each reads the      *)
(* lists of both ends anew; a read through a proxy may fail, and then      *)
(* there seem to be no connections.                                        *)
(***************************************************************************)
OutletList(e) == IF e = NoEnd THEN {} ELSE outletCons[Operation(e)]
InletList(e, i) == IF e = NoEnd THEN {} ELSE inletCons[Operation(e)][i]
Reads(r, e, list) == IF e.rpc /\ r \in Faulty THEN {list, {}} ELSE {list}
\* Connections are compared by the names of their ends.
SameRoute_OtherInlet(cons, in, i) ==
  in # NoEnd /\ \E c \in cons : c.peer # NoEnd /\ c.peer.name = in.name /\ c.inlet # i
SameRoute(cons, in, i) ==
  /\ in # NoEnd
  /\ \E c \in cons : c.peer # NoEnd /\ c.peer.name = in.name /\ c.inlet = i
RouteTaken(r, seen) == SameRoute(seen, ends[r]["inlet"], InletOf[r])

CheckRoute(r) ==
  LET out == OutletList(ends[r]["outlet"]) IN
  /\ pc[r] = "route"
  /\ \E seen \in Reads(r, ends[r]["outlet"], out), known \in {TRUE, ~(ends[r]["inlet"].rpc /\ r \in Faulty)} :
       /\ Goto(r, IF RouteTaken(r, seen) /\ known THEN "error" ELSE "name")
       /\ faulted' = IF seen # out \/ ~known THEN faulted \cup {r} ELSE faulted
  /\ UNCHANGED <<store, proxyVars, consVars, ends, name, half, before, torn>>

Named(cons) == {c.name : c \in cons}
\* renameConnectionName: the name with the first number that makes it free.
Renamed(names, n) ==
  LET Free(k) == Suffixed(n, k) \notin names
      first == CHOOSE k \in 0..Cardinality(names) : Free(k) /\ \A j \in 0..(k - 1) : ~Free(j)
  IN  IF n \in names THEN Suffixed(n, first) ELSE n
\* With no outlet to connect, the call on it is an error at once.
CallOutlet(r, names) ==
  IF (ConName[r] \in names /\ r \notin AutoNamed) \/ ends[r]["outlet"] = NoEnd
  THEN /\ Goto(r, "error") /\ UNCHANGED <<name, half>>
  ELSE /\ name' = [name EXCEPT ![r] = Renamed(names, ConName[r])]
       /\ half' = [half EXCEPT ![r]["outlet"].status = "called"]
       /\ Goto(r, "outlet")
CheckName(r) ==
  LET e == ends[r]
      out == OutletList(e["outlet"])
      in == InletList(e["inlet"], InletOf[r])
  IN
  /\ pc[r] = "name"
  /\ \E seenOut \in Reads(r, e["outlet"], out), seenIn \in Reads(r, e["inlet"], in) :
       /\ CallOutlet(r, Named(seenOut) \cup Named(seenIn))
       /\ faulted' = IF seenOut # out \/ seenIn # in THEN faulted \cup {r} ELSE faulted
  /\ UNCHANGED <<store, proxyVars, consVars, ends, before, torn>>

(***************************************************************************)
(* connectTo, on the side of the outlet and on the side of the inlet.      *)
(* Where the end is remote it is served by a thread of that process, which *)
(* resolves the other end itself.                                          *)
(***************************************************************************)
Other(s) == IF s = "outlet" THEN "inlet" ELSE "outlet"
\* The ends whose connectTo a proxy brings to the handler it is meant for.
ReachedEnds ==
  LET Arrives(call) == \A via \in Transports : Remote(via, call) = Core(call) /\ Core(call) # Error
  IN  {<<call.api, call.args[1]>> :
         call \in {c \in OutletCalls \cup InletCalls : c.method = "connectTo" /\ Arrives(c)}}
Reached(r, s) == <<s, ends[r][s].name>> \in ReachedEnds

Lost(r, s) ==
  /\ half[r][s].status = "called" /\ ends[r][s].rpc /\ r \in Faulty
  /\ half' = [half EXCEPT ![r][s].status = "lost"]
  /\ UNCHANGED <<store, proxyVars, consVars, pc, ends, name, history>>

\* The connections already in the list a half is to be added to.
ListOf(r, s) ==
  IF s = "outlet" THEN OutletList(ends[r][s]) ELSE InletList(ends[r][s], InletOf[r])
Entry(r, s, peer) == [req |-> r, name |-> name[r], peer |-> peer, inlet |-> InletOf[r]]
\* addConnection: refused when the list has a connection of that name.
NameChecked(r, s) == IF name[r] \in Named(ListOf(r, s)) THEN "failed" ELSE "checked"

HandleHere(r, s) ==
  /\ half[r][s].status = "called" /\ ~ends[r][s].rpc
  /\ half' = [half EXCEPT ![r][s] = [status |-> NameChecked(r, s), peer |-> ends[r][Other(s)]]]
  /\ UNCHANGED <<store, proxyVars, consVars, pc, ends, name, history>>
HandleOutletThere_NameOnly(r) ==
  LET q == ends[r]["outlet"].at
      in == IF Exists(q, In[r].name) THEN End(q, In[r].name, FALSE) ELSE NoEnd IN
  /\ half[r]["outlet"].status = "called" /\ ends[r]["outlet"].rpc /\ Reached(r, "outlet")
  /\ half' = [half EXCEPT ![r]["outlet"] = [status |-> NameChecked(r, "outlet"), peer |-> in]]
  /\ UNCHANGED <<store, proxyVars, consVars, pc, ends, name, history>>
HandleOutletThere(r) ==
  LET q == ends[r]["outlet"].at IN
  /\ half[r]["outlet"].status = "called" /\ ends[r]["outlet"].rpc /\ Reached(r, "outlet")
  /\ \E in \in InletAt(r, opProxies, q, In[r], InletOf[r]) :
       /\ half' = [half EXCEPT ![r]["outlet"] = [status |-> NameChecked(r, "outlet"), peer |-> in]]
       /\ opProxies' = Cached(opProxies, q, In[r].name, in)
       /\ CacheInlet(q, In[r].name, InletOf[r], in)
       /\ faulted' = IF Missed(r, q, In[r], in) THEN faulted \cup {r} ELSE faulted
  /\ UNCHANGED <<store, outProxies, consVars, pc, ends, name, before, torn>>
HandleInletThere(r) ==
  LET q == ends[r]["inlet"].at IN
  /\ half[r]["inlet"].status = "called" /\ ends[r]["inlet"].rpc /\ Reached(r, "inlet")
  /\ \E out \in OutletAt(r, opProxies, q, Out[r]) :
       /\ half' = [half EXCEPT ![r]["inlet"] = [status |-> NameChecked(r, "inlet"), peer |-> out]]
       /\ opProxies' = Cached(opProxies, q, Out[r].name, out)
       /\ outProxies' = Cached(outProxies, q, Out[r].name, out)
       /\ faulted' = IF Missed(r, q, Out[r], out) THEN faulted \cup {r} ELSE faulted
  /\ UNCHANGED <<store, inProxies, consVars, pc, ends, name, before, torn>>

\* push_back, after the check and without a lock: when another thread is
\* extending the same list, what is pushed first may be overwritten.
Slot(r, s) == <<Operation(ends[r][s]), s, IF s = "inlet" THEN InletOf[r] ELSE "">>
AddTo(r, s, c) ==
  LET o == Operation(ends[r][s]) IN
  IF s = "outlet"
  THEN outletCons' = [outletCons EXCEPT ![o] = @ \cup {c}] /\ UNCHANGED inletCons
  ELSE inletCons' = [inletCons EXCEPT ![o][InletOf[r]] = @ \cup {c}] /\ UNCHANGED outletCons
Push(r, s) ==
  /\ half[r][s].status = "checked"
  /\ AddTo(r, s, Entry(r, s, half[r][s].peer))
  /\ half' = [half EXCEPT ![r][s].status = "ok"]
  /\ UNCHANGED <<store, proxyVars, pc, ends, name, history>>
PushOverwritten(r, s) ==
  /\ half[r][s].status = "checked"
  /\ \E q \in Connects \ {r} : half[q][s].status = "checked" /\ Slot(q, s) = Slot(r, s)
  /\ torn' = torn \cup {Slot(r, s)}
  /\ half' = [half EXCEPT ![r][s].status = "ok"]
  /\ UNCHANGED <<store, proxyVars, consVars, pc, ends, name, before, faulted>>

(***************************************************************************)
(* The requester goes on with the answer, or without one: a remote call    *)
(* times out, however far it has come.                                     *)
(***************************************************************************)
OutletAnswers_GoOn(r) ==
  /\ pc[r] = "outlet" /\ half[r]["outlet"].status \in {"failed", "ok"}
  /\ IF ends[r]["inlet"] = NoEnd THEN Goto(r, "undo") /\ UNCHANGED half
     ELSE Goto(r, "inlet") /\ half' = [half EXCEPT ![r]["inlet"].status = "called"]
  /\ UNCHANGED <<store, proxyVars, consVars, ends, name, history>>
OutletAnswers(r) ==
  /\ pc[r] = "outlet"
  /\ \/ /\ half[r]["outlet"].status = "failed"
        /\ Goto(r, "error") /\ UNCHANGED half
     \/ /\ half[r]["outlet"].status = "ok" /\ ends[r]["inlet"] # NoEnd
        /\ half' = [half EXCEPT ![r]["inlet"].status = "called"]
        /\ Goto(r, "inlet")
     \/ /\ half[r]["outlet"].status = "ok" /\ ends[r]["inlet"] = NoEnd
        /\ Goto(r, "undo") /\ UNCHANGED half
  /\ UNCHANGED <<store, proxyVars, consVars, ends, name, history>>
InletAnswers_AlwaysOk(r) ==
  /\ pc[r] = "inlet" /\ half[r]["inlet"].status \in {"ok", "failed"}
  /\ Goto(r, "ok")
  /\ UNCHANGED <<store, proxyVars, consVars, ends, name, half, history>>
InletAnswers(r) ==
  /\ pc[r] = "inlet" /\ half[r]["inlet"].status \in {"ok", "failed"}
  /\ Goto(r, IF half[r]["inlet"].status = "ok" THEN "ok" ELSE "undo")
  /\ UNCHANGED <<store, proxyVars, consVars, ends, name, half, history>>
TimesOut_OutletOnly(r) ==
  /\ pc[r] = "outlet" /\ ends[r]["outlet"].rpc /\ Goto(r, "error")
  /\ r \in Faulty /\ faulted' = faulted \cup {r}
  /\ UNCHANGED <<store, proxyVars, consVars, ends, name, half, before, torn>>
TimesOut(r) ==
  /\ \/ pc[r] = "outlet" /\ ends[r]["outlet"].rpc /\ Goto(r, "error")
     \/ pc[r] = "inlet" /\ ends[r]["inlet"].rpc /\ Goto(r, "undo")
  /\ r \in Faulty /\ faulted' = faulted \cup {r}
  /\ UNCHANGED <<store, proxyVars, consVars, ends, name, half, before, torn>>

\* disconnectFrom is not implemented, here or there: the half stays.
Disconnected(r, cons) == cons
Undo(r) ==
  /\ pc[r] = "undo"
  /\ outletCons' = Disconnected(r, outletCons)
  /\ Goto(r, "error")
  /\ UNCHANGED <<store, proxyVars, inletCons, ends, name, half, history>>

(***************************************************************************)
(* Creating an operation.  A type without a factory makes a null object.   *)
(***************************************************************************)
Made(k) ==
  LET type == MadeInfo[k].typeName IN
  IF \E i \in 1..Len(store[MadeAt[k]]) : /\ store[MadeAt[k]][i].cls = "operationFactory"
                                         /\ store[MadeAt[k]][i].type = type
  THEN Object("operation", type, name[k], NoOwner) ELSE NullObject
Number(k) ==
  /\ Begins(k)
  /\ name' = [name EXCEPT ![k] = FullNameFor(ObjectsOf(store[MadeAt[k]], "operation"), MadeInfo[k])]
  /\ Goto(k, "has")
  /\ UNCHANGED <<store, proxyVars, consVars, ends, half, faulted, torn>>
CheckNew(k) ==
  /\ pc[k] = "has"
  /\ Goto(k, IF MayAdd(store[MadeAt[k]], Made(k)) THEN "push" ELSE "error")
  /\ UNCHANGED <<store, proxyVars, consVars, ends, name, half, history>>
PushNew(k) ==
  /\ pc[k] = "push"
  /\ store' = [store EXCEPT ![MadeAt[k]] = Pushed(@, Made(k))]
  /\ Goto(k, "ok")
  /\ UNCHANGED <<proxyVars, consVars, ends, name, half, history>>
StoreOf(p) == <<<<p, "store">>, "store", "">>
PushNewOverwritten(k) ==
  /\ pc[k] = "push"
  /\ \E j \in Creates \ {k} : pc[j] = "push" /\ MadeAt[j] = MadeAt[k]
  /\ torn' = torn \cup {StoreOf(MadeAt[k])}
  /\ Goto(k, "ok")
  /\ UNCHANGED <<store, proxyVars, consVars, ends, name, half, before, faulted>>

Begin(r) == IF r \in Connects THEN Resolve(r) ELSE Number(r)
Requester(r) ==
  IF r \in Connects
  THEN CheckRoute(r) \/ CheckName(r) \/ OutletAnswers(r) \/ InletAnswers(r) \/ Undo(r)
  ELSE CheckNew(r) \/ PushNew(r) \/ PushNewOverwritten(r)
Handler(r, s) ==
  \/ HandleHere(r, s) \/ Push(r, s) \/ PushOverwritten(r, s)
  \/ s = "outlet" /\ HandleOutletThere(r)
  \/ s = "inlet" /\ HandleInletThere(r)

Next ==
  \/ \E r \in Requests : Begin(r) \/ Requester(r)
  \/ \E r \in Connects : TimesOut(r)
  \/ \E r \in Connects, s \in Sides : Handler(r, s) \/ Lost(r, s)
Spec == Init /\ [][Next]_vars
\* Threads run and timeouts expire; nothing makes a request begin.
Fairness ==
  /\ \A r \in Requests : WF_vars(Requester(r))
  /\ \A r \in Connects : WF_vars(TimesOut(r))
  /\ \A r \in Connects, s \in Sides : WF_vars(Handler(r, s))
FairSpec == Spec /\ Fairness

(***************************************************************************)
(* Properties                                                              *)
(***************************************************************************)
TypeOK ==
  LET Ends == {NoEnd} \cup [at : Process, name : Names, rpc : BOOLEAN]
      IsEntry(x) == x.req \in Connects /\ x.peer \in Ends /\ x.inlet \in Inlet
  IN
  /\ opProxies \in [Process -> [Names -> Ends]] /\ outProxies \in [Process -> [Names -> Ends]]
  /\ inProxies \in [Process -> [Names -> [Inlet -> Ends]]]
  /\ \A o \in Ops : /\ \A x \in outletCons[o] : IsEntry(x)
                    /\ \A i \in Inlet : \A x \in inletCons[o][i] : IsEntry(x)
  /\ pc \in [Requests -> {"idle", "route", "name", "outlet", "inlet", "undo", "has", "push", "ok", "error"}]
  /\ ends \in [Connects -> [Sides -> Ends]]
  /\ half \in [Connects -> [Sides -> [status : {"none", "called", "lost", "checked", "ok", "failed"},
                                      peer : Ends]]]

HalfListed(r, s) == \E c \in ListOf(r, s) : c.req = r /\ c.name = name[r]
\* A request to connect that is answered ok has left a connection of the name
\* it chose in the list of the outlet and in the list of the inlet, unless
\* another request was extending one of these lists at the same time.
SuccessMeansBothEnds ==
  \A r \in Connects, s \in Sides :
    pc[r] = "ok" /\ Slot(r, s) \notin torn => HalfListed(r, s)

\* The inlet never has a connection that the outlet does not know of, whatever
\* calls are lost or come late: an outlet without its inlet is the only half
\* that a request can leave behind.
InletHalfHasOutletHalf ==
  \A r \in Connects :
    HalfListed(r, "inlet") /\ Slot(r, "outlet") \notin torn => HalfListed(r, "outlet")

NamesApart ==
  \A p, q \in Process : p # q =>
    \A i \in 1..Len(store[p]), j \in 1..Len(store[q]) : store[p][i].name # store[q][j].name
\* When no call failed, no two processes have an operation of the same name and
\* both ends exist and were given with their addresses, each end is connected to
\* the operation named as the other, though each process resolves it for itself.
ConnectsWhatWasNamed ==
  NamesApart => \A r \in Connects :
    /\ pc[r] = "ok" /\ r \notin faulted /\ Out[r].addr = "full" /\ In[r].addr = "full"
    /\ Exists(Out[r].at, Out[r].name) /\ Exists(In[r].at, In[r].name)
    => /\ \A c \in ListOf(r, "outlet") :
            c.req = r => <<c.peer.at, c.peer.name>> = <<In[r].at, In[r].name>>
       /\ \A c \in ListOf(r, "inlet") :
            c.req = r => <<c.peer.at, c.peer.name>> = <<Out[r].at, Out[r].name>>

\* Of two requests to connect the same ends, one made after the other was
\* answered, only one is granted, if the process of the outlet found the inlet
\* the first time; and two requests that follow one another do not leave
\* connections of one name in one list.
SequentialRequestsAreExclusive ==
  \A r2 \in Connects : \A r1 \in before[r2] \cap Connects :
    /\ pc[r1] = "ok" /\ pc[r2] = "ok" /\ {r1, r2} \cap faulted = {}
    /\ \A s \in Sides : {Slot(r1, s), Slot(r2, s)} \cap torn = {}
    => /\ \A s \in Sides : Slot(r1, s) = Slot(r2, s) => name[r1] # name[r2]
       /\ half[r1]["outlet"].peer # NoEnd => ~(\A s \in Sides : Slot(r1, s) = Slot(r2, s))

\* An operation created for a request that came after another was answered
\* gets a name of its own, and is listed, unless two requests extended the
\* store at the same time.
CreatedNamesUnique ==
  \A k2 \in Creates : pc[k2] = "ok" /\ StoreOf(MadeAt[k2]) \notin torn =>
    /\ Exists(MadeAt[k2], name[k2])
    /\ \A k1 \in before[k2] \cap Creates :
         pc[k1] = "ok" /\ MadeAt[k1] = MadeAt[k2] => name[k1] # name[k2]

\* A proxy stands for its process, and the proxy of an object for the object,
\* whatever it is reached by: what a call made on it does and answers is what the
\* same call does and answers there, unless it is refused or answers nothing; and what
\* data flow across processes rests on is served.  Known exceptions: deleteObject of a
\* connection is taken for deleteConnection and answers its info, isUpdated of a
\* remote inlet answers no, the info of a container that is not there is answered
\* with that of its broker alone, and a WebSocket broker with routes serves them alone.
Answer(p, d) ==
  CASE d.error -> d
    [] ~d.error /\ d.does[1] = "info" -> Get(store[p], d.does[2], d.args[1])
    [] ~d.error /\ d.does[1] = "list" -> ObjectsOf(store[p], d.does[2])
    [] ~d.error /\ d.does = <<"outlet", "connections">> -> outletCons[<<p, d.args[1]>>]
    [] ~d.error /\ d.does[1] \notin {"info", "list"} /\ d.does # <<"outlet", "connections">> -> d
Refused == {Error, Empty}
Faithful == {via \in Transports : via = "websocket" => via \notin Routed}
\* The calls and uses that do something else through a proxy: what, there and here.
Differing(calls, uses, via) ==
  {d \in {[local |-> Core(x), remote |-> Remote(v, x)] : x \in calls, v \in via}
         \cup {[local |-> Here(x), remote |-> Through(v, x)] : x \in uses, v \in via} :
     d.local # d.remote}
Proxied == Differing({x \in Calls : ~(x.method = "deleteObject" /\ x.args[1] = "connection")},
                     {x \in Uses : x.method # "isUpdated"}, Faithful \cup {"unreachable"})
\* What clients and the connection builder call besides.
Needed ==
  OperationCalls \cup ConnectionCalls \cup ContainerCalls \cup ProcessCalls
  \cup {x \in FactoryCalls : x.method = "createObject"}
  \cup {x \in StoreCalls : x.method # "getChildrenClassObjectInfos"}
  \cup {x \in OutletCalls : x.method # "disconnectFrom"}
  \cup {x \in InletCalls : x.method \in {"get", "put", "info", "connections", "connectTo"}}
NeededProxied == Differing(Needed, DataFlowUses, Faithful)
UsedCallsAreServed(p) == \A d \in NeededProxied : Answer(p, d.remote) = Answer(p, d.local)
ProxyIsFaithful ==
  \A p \in Process :
    /\ \A d \in Proxied : d.remote \in Refused \/ Answer(p, d.remote) = Answer(p, d.local)
    /\ UsedCallsAreServed(p)

\* Every request that has begun is answered.
RequestReturns == \A r \in Requests : pc[r] # "idle" ~> Answered(r)
===============================================================================
