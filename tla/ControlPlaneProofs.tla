-------------------------- MODULE ControlPlaneProofs --------------------------
(***************************************************************************)
(* Theorems about ControlPlane, for any number of processes, operations    *)
(* and requests, and whichever remote calls are lost, late or timed out.   *)
(* A connection is made in halves.  IInv says how far each half has come:  *)
(* the requester calls the inlet only after the outlet has answered ok, a  *)
(* half that is ok has been pushed, and lists only grow.  CreateInv says   *)
(* that what was created is there when later requests check names, LinkInv *)
(* that what is resolved by name leads to what its address names, and that *)
(* requests find what those answered before have left.                     *)
(* The last part is about ProxyIsFaithful: what proxies, paths and         *)
(* handlers make of each call, whichever transport carries it.             *)
(***************************************************************************)
EXTENDS ControlPlane, SequenceTheorems, TLAPS

Ends == {NoEnd} \cup [at : Process, name : Names, rpc : BOOLEAN]
Statuses == {"none", "called", "lost", "checked", "ok", "failed"}
Halves == [Connects -> [Sides -> [status : Statuses, peer : Ends]]]
Status(r, s) == half[r][s].status

\* The functions TypeOK does not bound are functions of what they should be.
DomainsKnown ==
  /\ DOMAIN name = Requests
  /\ DOMAIN outletCons = Ops /\ DOMAIN inletCons = Ops
  /\ \A o \in Ops : DOMAIN inletCons[o] = Inlet

\* A half is called once both checks are passed, on an end that was found,
\* and the inlet's only after the outlet's is done.
InOrder(r) ==
  /\ \A s \in Sides : Status(r, s) # "none" =>
       ends[r][s] # NoEnd /\ pc[r] \notin {"idle", "route", "name"}
  /\ Status(r, "inlet") # "none" => Status(r, "outlet") = "ok"
  /\ pc[r] = "outlet" => Status(r, "inlet") = "none"
  /\ pc[r] = "ok" => Status(r, "inlet") = "ok"
HalvesInOrder == \A r \in Connects : InOrder(r)

\* What is listed was pushed, and what was pushed is listed.
OkMeansListed ==
  \A r \in Connects, s \in Sides :
    Status(r, s) = "ok" /\ Slot(r, s) \notin torn => HalfListed(r, s)
ListedMeansOk ==
  \A o \in Ops : \A i \in Inlet : \A x \in inletCons[o][i] : Status(x.req, "inlet") = "ok"

IInv == TypeOK /\ DomainsKnown /\ HalvesInOrder /\ OkMeansListed /\ ListedMeansOk
------------------------------------------------------------------------------
\* No request has called anything at first.
LEMMA IInit == Init => IInv
  <1> SUFFICES ASSUME Init PROVE IInv
    OBVIOUS
  <1>1. TypeOK
    BY DEF Init, TypeOK, Requests, NoHalf, Sides, NoEnd
  <1>2. DomainsKnown
    BY DEF Init, DomainsKnown
  <1>3. HalvesInOrder
    BY DEF Init, HalvesInOrder, InOrder, Status, NoHalf, Sides, Requests
  <1>4. OkMeansListed
    BY DEF Init, OkMeansListed, Status, NoHalf
  <1>5. ListedMeansOk
    BY DEF Init, ListedMeansOk
  <1> QED
    BY <1>1, <1>2, <1>3, <1>4, <1>5 DEF IInv

\* What operationProxy and the caches return is an end (core_broker.cpp).
LEMMA ResolvedIsEnd ==
  ASSUME TypeOK, NEW r \in Connects, NEW p \in Process,
         NEW cache \in [Process -> [Names -> Ends]]
  PROVE  /\ \A e \in OutletAt(r, cache, p, Out[r]) : e \in Ends
         /\ \A e \in InletAt(r, cache, p, In[r], InletOf[r]) : e \in Ends
  <1>1. \A ref \in {Out[r], In[r]} : ref.at \in Process /\ ref.name \in Names
    BY RequestAssumption
  <1>2. InletOf[r] \in Inlet
    BY RequestAssumption
  <1>3. \A q \in Process, n \in Names, b \in BOOLEAN : End(q, n, b) \in Ends
    BY DEF End, Ends
  <1>4. NoEnd \in Ends
    BY DEF Ends
  <1>5. \A ref \in {Out[r], In[r]} : \A e \in OperationAt(r, cache, p, ref) : e \in Ends
    <2> SUFFICES ASSUME NEW ref \in {Out[r], In[r]}, NEW e \in OperationAt(r, cache, p, ref)
                 PROVE  e \in Ends
      OBVIOUS
    <2>1. cache[p][ref.name] \in Ends
      BY <1>1
    <2>2. End(ref.at, ref.name, TRUE) \in Ends /\ End(p, ref.name, FALSE) \in Ends
      BY <1>1, <1>3
    <2>3. e \in {cache[p][ref.name], NoEnd, End(ref.at, ref.name, TRUE), End(p, ref.name, FALSE)}
      BY DEF OperationAt
    <2> QED
      BY <2>1, <2>2, <2>3, <1>4
  <1>6. /\ outProxies \in [Process -> [Names -> Ends]]
        /\ inProxies \in [Process -> [Names -> [Inlet -> Ends]]]
    BY DEF TypeOK, Ends
  <1> QED
    BY <1>1, <1>2, <1>5, <1>6 DEF OutletAt, InletAt

\* Storing an end in a cache leaves it a cache.
LEMMA CachedIsCache ==
  ASSUME NEW p, NEW n, NEW e \in Ends, NEW cache \in [Process -> [Names -> Ends]]
  PROVE  Cached(cache, p, n, e) \in [Process -> [Names -> Ends]]
  BY DEF Cached
LEMMA CachedInletIsCache ==
  ASSUME TypeOK, NEW p \in Process, NEW n \in Names, NEW i \in Inlet, NEW e \in Ends,
         CacheInlet(p, n, i, e)
  PROVE  inProxies' \in [Process -> [Names -> [Inlet -> Ends]]]
  <1>1. inProxies \in [Process -> [Names -> [Inlet -> Ends]]]
    BY DEF TypeOK, Ends
  <1>2. [inProxies[p][n] EXCEPT ![i] = e] \in [Inlet -> Ends]
    BY <1>1
  <1>3. [inProxies[p] EXCEPT ![n] = [inProxies[p][n] EXCEPT ![i] = e]] \in [Names -> [Inlet -> Ends]]
    BY <1>1, <1>2
  <1>4. CASE inProxies' = [inProxies EXCEPT ![p] = [inProxies[p] EXCEPT ![n] = [inProxies[p][n] EXCEPT ![i] = e]]]
    BY <1>1, <1>3, <1>4
  <1> QED
    BY <1>1, <1>4 DEF CacheInlet

ListsGrow ==
  \A o \in Ops : /\ outletCons[o] \subseteq outletCons'[o]
                 /\ \A i \in Inlet : inletCons[o][i] \subseteq inletCons'[o][i]

\* What is listed stays listed while lists grow and the request keeps its ends
\* and its name.
LEMMA ListedStays ==
  ASSUME IInv, ListsGrow, NEW r \in Connects, NEW s \in Sides,
         ends'[r] = ends[r], name'[r] = name[r], HalfListed(r, s)
  PROVE  HalfListed(r, s)'
  <1>1. ends[r][s] \in Ends /\ InletOf[r] \in Inlet
    BY RequestAssumption DEF IInv, TypeOK, Ends
  <1>2. ends[r][s] # NoEnd => Operation(ends[r][s]) \in Ops
    BY <1>1 DEF Ends, Operation, Ops
  <1>3. /\ OutletList(ends[r][s]) \subseteq OutletList(ends[r][s])'
        /\ InletList(ends[r][s], InletOf[r]) \subseteq InletList(ends[r][s], InletOf[r])'
    BY <1>1, <1>2 DEF ListsGrow, OutletList, InletList, Operation
  <1> QED
    BY <1>3 DEF HalfListed, ListOf

\* A step under which a half that is ok was ok before, with its ends and its
\* name, or has just been listed or lost to another thread.
LEMMA OkKept ==
  ASSUME IInv, ListsGrow, torn \subseteq torn',
         \A r \in Connects, s \in Sides : Status(r, s)' = "ok" =>
           \/ Status(r, s) = "ok" /\ ends'[r] = ends[r] /\ name'[r] = name[r]
           \/ HalfListed(r, s)' \/ Slot(r, s)' \in torn'
  PROVE  OkMeansListed'
  <1> SUFFICES ASSUME NEW r \in Connects, NEW s \in Sides,
                      Status(r, s)' = "ok", Slot(r, s)' \notin torn'
               PROVE  HalfListed(r, s)'
    BY DEF OkMeansListed
  <1>1. CASE Status(r, s) = "ok" /\ ends'[r] = ends[r] /\ name'[r] = name[r]
    <2>1. Slot(r, s)' = Slot(r, s)
      BY <1>1 DEF Slot, Operation
    <2>2. HalfListed(r, s)
      BY <1>1, <2>1 DEF IInv, OkMeansListed
    <2> QED
      BY <1>1, <2>2, ListedStays
  <1> QED
    BY <1>1

\* A step that pushes nothing: it is enough that types and the order of the
\* halves are kept, and that a half becomes ok only by a push.
LEMMA NothingPushed ==
  ASSUME IInv, TypeOK', HalvesInOrder', UNCHANGED consVars, torn \subseteq torn',
         DOMAIN name' = Requests,
         \A r \in Connects, s \in Sides :
           /\ Status(r, s)' = "ok" <=> Status(r, s) = "ok"
           /\ Status(r, s) = "ok" => ends'[r] = ends[r] /\ name'[r] = name[r]
  PROVE  IInv'
  <1>1. DomainsKnown'
    BY DEF IInv, DomainsKnown, consVars
  <1>2. ListsGrow
    BY DEF ListsGrow, consVars
  <1>3. OkMeansListed'
    BY <1>2, OkKept
  <1>4. ListedMeansOk'
    <2> SUFFICES ASSUME NEW o \in Ops, NEW i \in Inlet, NEW x \in inletCons[o][i]
                 PROVE  Status(x.req, "inlet")' = "ok"
      BY DEF ListedMeansOk, consVars
    <2>1. x.req \in Connects /\ "inlet" \in Sides
      BY DEF IInv, TypeOK, Sides
    <2>2. Status(x.req, "inlet") = "ok"
      BY DEF IInv, ListedMeansOk
    <2> QED
      BY <2>1, <2>2
  <1> QED
    BY <1>1, <1>3, <1>4 DEF IInv

\* Setting one half, or its status, changes that half alone.
LEMMA HalfSet ==
  ASSUME TypeOK, NEW r \in Connects, NEW s \in Sides,
         NEW h \in [status : Statuses, peer : Ends], half' = [half EXCEPT ![r][s] = h]
  PROVE  /\ half' \in Halves /\ Status(r, s)' = h.status
         /\ \A q \in Connects, z \in Sides : q # r \/ z # s => Status(q, z)' = Status(q, z)
  <1>1. half \in Halves
    BY DEF TypeOK, Halves, Statuses, Ends
  <1>2. half' = [half EXCEPT ![r] = [half[r] EXCEPT ![s] = h]]
    BY <1>1 DEF Halves
  <1>3. [half[r] EXCEPT ![s] = h] \in [Sides -> [status : Statuses, peer : Ends]]
    BY <1>1 DEF Halves
  <1>4. half' \in Halves /\ half'[r][s] = h
    BY <1>1, <1>2, <1>3 DEF Halves
  <1>5. \A q \in Connects, z \in Sides : q # r \/ z # s => half'[q][z] = half[q][z]
    BY <1>1, <1>2 DEF Halves
  <1> QED
    BY <1>4, <1>5 DEF Status
LEMMA StatusSet ==
  ASSUME TypeOK, NEW r \in Connects, NEW s \in Sides, NEW st \in Statuses,
         half' = [half EXCEPT ![r][s].status = st]
  PROVE  /\ half' \in Halves /\ Status(r, s)' = st
         /\ \A q \in Connects, z \in Sides : q # r \/ z # s => Status(q, z)' = Status(q, z)
  <1> DEFINE h == [half[r][s] EXCEPT !.status = st]
  <1>1. half[r][s] \in [status : Statuses, peer : Ends]
    BY DEF TypeOK, Statuses, Ends
  <1>2. h \in [status : Statuses, peer : Ends] /\ h.status = st
    BY <1>1
  <1>3. half' = [half EXCEPT ![r][s] = h]
    OBVIOUS
  <1> HIDE DEF h
  <1> QED
    BY <1>2, <1>3, HalfSet

\* A step of one request leaves the halves of the others in order.
LEMMA OrderKept ==
  ASSUME HalvesInOrder, NEW r \in Requests, r \in Connects => InOrder(r)',
         \A q \in Connects : q # r =>
           /\ pc'[q] = pc[q]
           /\ \A s \in Sides : Status(q, s)' = Status(q, s) /\ ends'[q][s] = ends[q][s]
  PROVE  HalvesInOrder'
  <1> SUFFICES ASSUME NEW q \in Connects, q # r PROVE InOrder(q)'
    BY DEF HalvesInOrder
  <1> QED
    BY DEF HalvesInOrder, InOrder, Sides

\* Resolving the ends fills the caches, before anything is called.
LEMMA ResolveStep == ASSUME IInv, NEW r \in Connects, Resolve(r) PROVE IInv'
  <1>1. At[r] \in Process /\ In[r].name \in Names /\ Out[r].name \in Names /\ InletOf[r] \in Inlet
    BY RequestAssumption
  <1>2. PICK in \in InletAt(r, opProxies, At[r], In[r], InletOf[r]) :
          \E out \in OutletAt(r, Cached(opProxies, At[r], In[r].name, in), At[r], Out[r]) :
            /\ ends' = [ends EXCEPT ![r] = [s \in Sides |-> IF s = "outlet" THEN out ELSE in]]
            /\ opProxies' = Cached(Cached(opProxies, At[r], In[r].name, in), At[r], Out[r].name, out)
            /\ outProxies' = Cached(outProxies, At[r], Out[r].name, out)
            /\ CacheInlet(At[r], In[r].name, InletOf[r], in)
    BY DEF Resolve
  <1>3. PICK out \in OutletAt(r, Cached(opProxies, At[r], In[r].name, in), At[r], Out[r]) :
            /\ ends' = [ends EXCEPT ![r] = [s \in Sides |-> IF s = "outlet" THEN out ELSE in]]
            /\ opProxies' = Cached(Cached(opProxies, At[r], In[r].name, in), At[r], Out[r].name, out)
            /\ outProxies' = Cached(outProxies, At[r], Out[r].name, out)
            /\ CacheInlet(At[r], In[r].name, InletOf[r], in)
    BY <1>2
  <1>4. TypeOK /\ opProxies \in [Process -> [Names -> Ends]] /\ outProxies \in [Process -> [Names -> Ends]]
    BY DEF IInv, TypeOK, Ends
  <1>5. in \in Ends
    BY <1>1, <1>4, ResolvedIsEnd
  <1>6. Cached(opProxies, At[r], In[r].name, in) \in [Process -> [Names -> Ends]]
    BY <1>4, <1>5, CachedIsCache
  <1>7. out \in Ends
    BY <1>1, <1>4, <1>6, ResolvedIsEnd
  <1>8. /\ opProxies' \in [Process -> [Names -> Ends]] /\ outProxies' \in [Process -> [Names -> Ends]]
        /\ inProxies' \in [Process -> [Names -> [Inlet -> Ends]]]
    BY <1>1, <1>3, <1>4, <1>5, <1>6, <1>7, CachedIsCache, CachedInletIsCache
  <1>9. /\ ends' \in [Connects -> [Sides -> Ends]]
        /\ \A q \in Connects : q # r => ends'[q] = ends[q]
    BY <1>3, <1>4, <1>5, <1>7 DEF TypeOK, Ends
  <1>10. /\ pc' = [pc EXCEPT ![r] = "route"] /\ pc[r] = "idle"
         /\ UNCHANGED <<outletCons, inletCons, name, half, torn>>
    BY DEF Resolve, Goto, Begins, consVars
  <1>11. TypeOK'
    BY <1>4, <1>8, <1>9, <1>10 DEF TypeOK, Ends
  <1>12. \A s \in Sides : Status(r, s) = "none"
    BY <1>10 DEF IInv, HalvesInOrder, InOrder
  <1>13. InOrder(r)'
    BY <1>10, <1>12, <1>4 DEF InOrder, Status, TypeOK, Requests, Sides
  <1>14. HalvesInOrder'
    BY <1>9, <1>10, <1>13, <1>4, OrderKept DEF IInv, Status, TypeOK, Requests
  <1> QED
    BY <1>9, <1>10, <1>11, <1>12, <1>14, NothingPushed DEF Status, consVars, IInv, DomainsKnown

\* The checks change the request only; passing the second one calls the outlet.
LEMMA CheckStep == ASSUME IInv, NEW r \in Connects, CheckRoute(r) \/ CheckName(r) PROVE IInv'
  <1>0. TypeOK /\ r \in Requests /\ Sides = {"outlet", "inlet"}
    BY DEF IInv, Requests, Sides
  <1>1. CASE CheckRoute(r)
    <2>1. /\ pc[r] = "route" /\ (pc' = [pc EXCEPT ![r] = "error"] \/ pc' = [pc EXCEPT ![r] = "name"])
          /\ UNCHANGED <<proxyVars, consVars, ends, name, half, torn>>
      BY <1>1 DEF CheckRoute, Goto
    <2>2. TypeOK'
      BY <1>0, <2>1 DEF TypeOK, proxyVars, consVars
    <2>3. \A s \in Sides : Status(r, s) = "none" /\ Status(r, s)' = "none"
      BY <2>1 DEF IInv, HalvesInOrder, InOrder, Status
    <2>4. InOrder(r)'
      BY <1>0, <2>1, <2>3 DEF InOrder, TypeOK
    <2>6. \A q \in Connects : q # r => pc'[q] = pc[q]
      BY <1>0, <2>1 DEF TypeOK, Requests
    <2>7. \A q \in Connects, s \in Sides : Status(q, s)' = Status(q, s) /\ ends'[q][s] = ends[q][s]
      BY <2>1 DEF Status
    <2>5. HalvesInOrder'
      BY <1>0, <2>4, <2>6, <2>7, OrderKept DEF IInv
    <2> QED
      BY <2>1, <2>2, <2>5, NothingPushed DEF Status, IInv, DomainsKnown
  <1>2. CASE CheckName(r)
    <2>1. /\ pc[r] = "name" /\ UNCHANGED <<proxyVars, consVars, ends, torn>>
          /\ \/ pc' = [pc EXCEPT ![r] = "error"] /\ UNCHANGED <<name, half>>
             \/ /\ pc' = [pc EXCEPT ![r] = "outlet"] /\ ends[r]["outlet"] # NoEnd
                /\ half' = [half EXCEPT ![r]["outlet"].status = "called"]
                /\ \E n : name' = [name EXCEPT ![r] = n]
      BY <1>2 DEF CheckName, CallOutlet, Goto
    <2>2. \A s \in Sides : Status(r, s) = "none"
      BY <2>1 DEF IInv, HalvesInOrder, InOrder
    <2>3. CASE UNCHANGED <<name, half>>
      <3>1. TypeOK'
        BY <1>0, <2>1, <2>3 DEF TypeOK, proxyVars, consVars
      <3>3. pc' = [pc EXCEPT ![r] = "error"]
        BY <1>0, <2>1, <2>2, <2>3 DEF TypeOK, Status
      <3>4. InOrder(r)'
        BY <1>0, <2>2, <2>3, <3>3 DEF InOrder, Status, TypeOK
      <3>2. HalvesInOrder'
        BY <1>0, <2>1, <2>3, <3>3, <3>4, OrderKept DEF IInv, Status, TypeOK
      <3> QED
        BY <2>1, <2>3, <3>1, <3>2, NothingPushed DEF Status, IInv, DomainsKnown
    <2>4. CASE /\ pc' = [pc EXCEPT ![r] = "outlet"] /\ ends[r]["outlet"] # NoEnd
               /\ half' = [half EXCEPT ![r]["outlet"].status = "called"]
               /\ \E n : name' = [name EXCEPT ![r] = n]
      <3>1. TypeOK'
        BY <1>0, <2>1, <2>4, StatusSet DEF TypeOK, proxyVars, consVars, Halves, Ends, Statuses
      <3>2. /\ \A q \in Connects, s \in Sides : q # r => Status(q, s)' = Status(q, s)
            /\ Status(r, "outlet")' = "called" /\ Status(r, "inlet")' = "none"
        <4>1. "outlet" \in Sides /\ "inlet" \in Sides /\ "called" \in Statuses
          BY <1>0 DEF Statuses
        <4>2. /\ Status(r, "outlet")' = "called"
              /\ \A q \in Connects, s \in Sides : q # r \/ s # "outlet" => Status(q, s)' = Status(q, s)
          BY <1>0, <2>4, <4>1, StatusSet
        <4> QED
          BY <2>2, <4>1, <4>2
      <3>6. InOrder(r)'
        BY <1>0, <2>1, <2>4, <3>2 DEF InOrder, TypeOK
      <3>3. HalvesInOrder'
        BY <1>0, <2>1, <2>4, <3>2, <3>6, OrderKept DEF IInv, TypeOK
      <3>4. DOMAIN name' = Requests /\ \A q \in Connects : q # r => name'[q] = name[q]
        BY <2>4 DEF IInv, DomainsKnown, Requests
      <3>5. \A q \in Connects, s \in Sides :
              /\ Status(q, s)' = "ok" <=> Status(q, s) = "ok"
              /\ Status(q, s) = "ok" => ends'[q] = ends[q] /\ name'[q] = name[q]
        BY <1>0, <2>1, <2>2, <3>2, <3>4
      <3> QED
        BY <2>1, <3>1, <3>3, <3>4, <3>5, NothingPushed
    <2> QED
      BY <2>1, <2>3, <2>4
  <1> QED
    BY <1>1, <1>2

\* A call that is lost, or whose handler has made its check, is still one half.
LEMMA CallMoves ==
  ASSUME IInv, NEW r \in Connects, NEW s \in Sides, Status(r, s) = "called",
         UNCHANGED <<consVars, pc, ends, name, torn>>,
         opProxies' \in [Process -> [Names -> Ends]], outProxies' \in [Process -> [Names -> Ends]],
         inProxies' \in [Process -> [Names -> [Inlet -> Ends]]],
         half' \in Halves, Status(r, s)' \notin {"none", "ok"},
         \A q \in Connects, z \in Sides : q # r \/ z # s => Status(q, z)' = Status(q, z)
  PROVE  IInv'
  <1>1. TypeOK'
    BY DEF IInv, TypeOK, consVars, Halves, Statuses, Ends
  <1>2. InOrder(r)'
    BY DEF IInv, HalvesInOrder, InOrder, Sides
  <1>3. HalvesInOrder'
    BY <1>2, OrderKept DEF IInv, Requests
  <1>4. \A q \in Connects, z \in Sides : Status(q, z)' = "ok" <=> Status(q, z) = "ok"
    OBVIOUS
  <1> QED
    BY <1>1, <1>3, <1>4, NothingPushed DEF IInv, DomainsKnown

LEMMA LostStep == ASSUME IInv, NEW r \in Connects, NEW s \in Sides, Lost(r, s) PROVE IInv'
  <1>1. /\ Status(r, s) = "called" /\ half' = [half EXCEPT ![r][s].status = "lost"]
        /\ UNCHANGED <<proxyVars, consVars, pc, ends, name, torn>>
    BY DEF Lost, Status, history
  <1>2. TypeOK /\ "lost" \in Statuses
    BY DEF IInv, Statuses
  <1>3. /\ half' \in Halves /\ Status(r, s)' = "lost"
        /\ \A q \in Connects, z \in Sides : q # r \/ z # s => Status(q, z)' = Status(q, z)
    BY <1>1, <1>2, StatusSet
  <1> QED
    BY <1>1, <1>2, <1>3, CallMoves DEF TypeOK, proxyVars, Ends

\* A handler makes its check where the end is: its answer to the check, and the
\* other end as it has resolved it, are the half.
LEMMA HandleStep ==
  ASSUME IInv, NEW r \in Connects, NEW s \in Sides,
         \/ HandleHere(r, s)
         \/ s = "outlet" /\ HandleOutletThere(r)
         \/ s = "inlet" /\ HandleInletThere(r)
  PROVE  IInv'
  <1>1. /\ TypeOK /\ opProxies \in [Process -> [Names -> Ends]]
        /\ outProxies \in [Process -> [Names -> Ends]]
        /\ inProxies \in [Process -> [Names -> [Inlet -> Ends]]]
    BY DEF IInv, TypeOK, Ends
  <1>2. /\ In[r].name \in Names /\ Out[r].name \in Names /\ InletOf[r] \in Inlet
    BY RequestAssumption
  <1>3. \A z \in Sides : ends[r][z] \in Ends /\ Other(z) \in Sides
    BY <1>1 DEF TypeOK, Ends, Other, Sides
  <1>4. Status(r, s) = "called"
    BY DEF HandleHere, HandleOutletThere, HandleInletThere, Status
  <1>5. ends[r][s] # NoEnd /\ ends[r][s].at \in Process
    <2>1. ends[r][s] # NoEnd
      BY <1>4 DEF IInv, HalvesInOrder, InOrder
    <2> QED
      BY <1>3, <2>1 DEF Ends
  <1>6. NameChecked(r, s) \in {"failed", "checked"}
    BY DEF NameChecked
  <1> DEFINE h(e) == [status |-> NameChecked(r, s), peer |-> e]
  <1>7. SUFFICES ASSUME NEW e \in Ends, half' = [half EXCEPT ![r][s] = h(e)],
                        UNCHANGED <<consVars, pc, ends, name, torn>>,
                        opProxies' \in [Process -> [Names -> Ends]],
                        outProxies' \in [Process -> [Names -> Ends]],
                        inProxies' \in [Process -> [Names -> [Inlet -> Ends]]]
                 PROVE  IInv'
    <2>1. CASE HandleHere(r, s)
      BY <1>1, <1>3, <1>7, <2>1 DEF HandleHere, proxyVars, history
    <2>2. CASE s = "outlet" /\ HandleOutletThere(r)
      <3>1. PICK in \in InletAt(r, opProxies, ends[r]["outlet"].at, In[r], InletOf[r]) :
              /\ half' = [half EXCEPT ![r]["outlet"] = [status |-> NameChecked(r, "outlet"), peer |-> in]]
              /\ opProxies' = Cached(opProxies, ends[r]["outlet"].at, In[r].name, in)
              /\ CacheInlet(ends[r]["outlet"].at, In[r].name, InletOf[r], in)
        BY <2>2 DEF HandleOutletThere
      <3>2. UNCHANGED <<outProxies, consVars, pc, ends, name, torn>>
        BY <2>2 DEF HandleOutletThere
      <3>3. in \in Ends
        BY <1>1, <1>5, <2>2, ResolvedIsEnd
      <3>4. opProxies' \in [Process -> [Names -> Ends]]
        BY <1>1, <3>1, <3>3, CachedIsCache
      <3>5. inProxies' \in [Process -> [Names -> [Inlet -> Ends]]]
        BY <1>1, <1>2, <1>5, <2>2, <3>1, <3>3, CachedInletIsCache
      <3> QED
        BY <1>1, <1>7, <2>2, <3>1, <3>2, <3>3, <3>4, <3>5
    <2>3. CASE s = "inlet" /\ HandleInletThere(r)
      <3>1. PICK out \in OutletAt(r, opProxies, ends[r]["inlet"].at, Out[r]) :
              /\ half' = [half EXCEPT ![r]["inlet"] = [status |-> NameChecked(r, "inlet"), peer |-> out]]
              /\ opProxies' = Cached(opProxies, ends[r]["inlet"].at, Out[r].name, out)
              /\ outProxies' = Cached(outProxies, ends[r]["inlet"].at, Out[r].name, out)
        BY <2>3 DEF HandleInletThere
      <3>2. UNCHANGED <<inProxies, consVars, pc, ends, name, torn>>
        BY <2>3 DEF HandleInletThere
      <3>3. out \in Ends
        BY <1>1, <1>5, <2>3, ResolvedIsEnd
      <3>4. opProxies' \in [Process -> [Names -> Ends]] /\ outProxies' \in [Process -> [Names -> Ends]]
        BY <1>1, <3>1, <3>3, CachedIsCache
      <3> QED
        BY <1>1, <1>7, <2>3, <3>1, <3>2, <3>3, <3>4
    <2> QED
      BY <2>1, <2>2, <2>3
  <1>8. h(e) \in [status : Statuses, peer : Ends] /\ h(e).status \in {"failed", "checked"}
    BY <1>6 DEF Statuses
  <1> HIDE DEF h
  <1>9. /\ half' \in Halves /\ Status(r, s)' = h(e).status
        /\ \A q \in Connects, z \in Sides : q # r \/ z # s => Status(q, z)' = Status(q, z)
    BY <1>1, <1>7, <1>8, HalfSet
  <1> QED
    BY <1>4, <1>7, <1>8, <1>9, CallMoves

\* A push makes the half ok and lists it, or marks the list as torn.
LEMMA PushStep ==
  ASSUME IInv, NEW r \in Connects, NEW s \in Sides, Push(r, s) \/ PushOverwritten(r, s)
  PROVE  IInv'
  <1>1. /\ Status(r, s) = "checked" /\ half' = [half EXCEPT ![r][s].status = "ok"]
        /\ UNCHANGED <<proxyVars, pc, ends, name>>
        /\ torn \subseteq torn'
    BY DEF Push, PushOverwritten, Status, history
  <1>2. TypeOK /\ InletOf[r] \in Inlet /\ Sides = {"outlet", "inlet"} /\ "ok" \in Statuses
    BY RequestAssumption DEF IInv, Sides, Statuses
  <1>3. /\ half' \in Halves /\ Status(r, s)' = "ok"
        /\ \A q \in Connects, z \in Sides : q # r \/ z # s => Status(q, z)' = Status(q, z)
    BY <1>1, <1>2, StatusSet
  <1>4. ends[r][s] # NoEnd /\ ends[r][s] \in Ends
    BY <1>1, <1>2 DEF IInv, HalvesInOrder, InOrder, TypeOK, Ends
  <1>5. Operation(ends[r][s]) \in Ops
    BY <1>4 DEF Operation, Ops, Ends
  <1> DEFINE c == Entry(r, s, half[r][s].peer)
             IsEntry(x) == x.req \in Connects /\ x.peer \in Ends /\ x.inlet \in Inlet
  <1>6. c.req = r /\ c.name = name[r] /\ IsEntry(c)
    BY <1>2 DEF Entry, TypeOK, Ends
  <1> HIDE DEF c
  <1>7. \/ Push(r, s) /\ AddTo(r, s, c) /\ torn' = torn
        \/ PushOverwritten(r, s) /\ UNCHANGED consVars /\ Slot(r, s) \in torn'
    BY DEF Push, PushOverwritten, history, c
  <1>8. ListsGrow /\ (DomainsKnown)'
    <2>1. CASE UNCHANGED consVars
      BY <1>1, <2>1 DEF ListsGrow, consVars, IInv, DomainsKnown
    <2>2. CASE AddTo(r, s, c)
      BY <1>1, <1>2, <1>5, <2>2 DEF ListsGrow, AddTo, IInv, DomainsKnown
    <2> QED
      BY <1>7, <2>1, <2>2
  <1>9. \A o \in Ops : /\ \A x \in outletCons'[o] : IsEntry(x)
                       /\ \A i \in Inlet : \A x \in inletCons'[o][i] : IsEntry(x)
    <2>1. \A o \in Ops : /\ \A x \in outletCons[o] : IsEntry(x)
                         /\ \A i \in Inlet : \A x \in inletCons[o][i] : IsEntry(x)
      BY <1>2 DEF TypeOK, Ends
    <2> HIDE DEF IsEntry
    <2>2. CASE UNCHANGED consVars
      BY <2>1, <2>2 DEF consVars
    <2>3. CASE AddTo(r, s, c)
      BY <1>2, <1>5, <1>6, <2>1, <2>3 DEF AddTo, IInv, DomainsKnown
    <2> QED
      BY <1>7, <2>2, <2>3
  <1>10. TypeOK'
    BY <1>1, <1>2, <1>3, <1>9 DEF TypeOK, proxyVars, Halves, Statuses, Ends
  <1>11. InOrder(r)'
    BY <1>1, <1>2, <1>3 DEF IInv, HalvesInOrder, InOrder
  <1>12. HalvesInOrder'
    BY <1>1, <1>3, <1>11, OrderKept DEF IInv, Requests
  <1>13. HalfListed(r, s)' \/ Slot(r, s)' \in torn'
    <2>1. CASE Slot(r, s) \in torn'
      BY <1>1, <2>1 DEF Slot, Operation
    <2>2. CASE AddTo(r, s, c)
      <3>1. c \in ListOf(r, s)'
        BY <1>1, <1>2, <1>4, <1>5, <2>2
           DEF AddTo, ListOf, OutletList, InletList, IInv, DomainsKnown, Operation
      <3> QED
        BY <1>1, <1>6, <3>1 DEF HalfListed
    <2> QED
      BY <1>7, <2>1, <2>2
  <1>14. OkMeansListed'
    BY <1>1, <1>3, <1>8, <1>13, OkKept
  <1>15. ListedMeansOk'
    <2> SUFFICES ASSUME NEW o \in Ops, NEW i \in Inlet, NEW x \in inletCons'[o][i]
                 PROVE  Status(x.req, "inlet")' = "ok"
      BY DEF ListedMeansOk
    <2>1. CASE x \in inletCons[o][i]
      <3>1. x.req \in Connects /\ Status(x.req, "inlet") = "ok"
        BY <1>2, <2>1 DEF IInv, ListedMeansOk, TypeOK
      <3> QED
        BY <1>1, <1>2, <1>3, <3>1
    <2>2. CASE x \notin inletCons[o][i]
      <3>1. s = "inlet" /\ x = c
        BY <1>2, <1>5, <1>7, <2>2 DEF AddTo, consVars, IInv, DomainsKnown
      <3> QED
        BY <1>3, <1>6, <3>1
    <2> QED
      BY <2>1, <2>2
  <1> QED
    BY <1>8, <1>10, <1>12, <1>14, <1>15 DEF IInv

\* An answer moves the requester on; only the outlet's ok calls the inlet.  A
\* timeout moves it on without an answer, and undoing undoes nothing.
LEMMA AnswerStep ==
  ASSUME IInv, NEW r \in Connects,
         OutletAnswers(r) \/ InletAnswers(r) \/ TimesOut(r) \/ Undo(r)
  PROVE  IInv'
  <1>1. UNCHANGED <<store, proxyVars, consVars, ends, name, torn>>
    BY DEF OutletAnswers, InletAnswers, TimesOut, Undo, Disconnected, history, consVars
  <1>2. TypeOK /\ r \in Requests /\ Sides = {"outlet", "inlet"} /\ "called" \in Statuses
        /\ "inlet" \in Sides
    BY DEF IInv, Requests, Sides, Statuses
  <1> DEFINE CallsInlet ==
               /\ pc[r] = "outlet" /\ Status(r, "outlet") = "ok"
               /\ half' = [half EXCEPT ![r]["inlet"].status = "called"]
               /\ pc' = [pc EXCEPT ![r] = "inlet"] /\ ends[r]["inlet"] # NoEnd
             GoesOn ==
               /\ UNCHANGED half
               /\ \/ pc' = [pc EXCEPT ![r] = "error"] \/ pc' = [pc EXCEPT ![r] = "undo"]
                  \/ pc' = [pc EXCEPT ![r] = "ok"] /\ Status(r, "inlet") = "ok"
  <1>5. CallsInlet \/ GoesOn
    <2>1. CASE OutletAnswers(r)
      BY <2>1 DEF OutletAnswers, Goto, Status
    <2>2. CASE InletAnswers(r)
      BY <2>2 DEF InletAnswers, Goto, Status
    <2>3. CASE TimesOut(r)
      BY <2>3 DEF TimesOut, Goto
    <2>4. CASE Undo(r)
      BY <2>4 DEF Undo, Goto
    <2> QED
      BY <2>1, <2>2, <2>3, <2>4
  <1>3. CASE GoesOn
    <2>1. \/ pc' = [pc EXCEPT ![r] = "error"] \/ pc' = [pc EXCEPT ![r] = "undo"]
          \/ pc' = [pc EXCEPT ![r] = "ok"] /\ Status(r, "inlet") = "ok"
      BY <1>3
    <2>2. pc[r] \in {"outlet", "inlet", "undo"}
      BY DEF OutletAnswers, InletAnswers, TimesOut, Undo
    <2>3. TypeOK'
      BY <1>1, <1>2, <1>3, <2>1 DEF TypeOK, proxyVars, consVars
    <2>4. \A q \in Connects, z \in Sides : Status(q, z)' = Status(q, z)
      BY <1>3 DEF Status
    <2>5. InOrder(r)'
      BY <1>1, <1>2, <2>1, <2>4 DEF IInv, HalvesInOrder, InOrder, TypeOK
    <2>6. \A q \in Connects : q # r => pc'[q] = pc[q]
      BY <1>2, <2>1 DEF TypeOK, Requests
    <2>7. HalvesInOrder'
      BY <1>1, <1>2, <2>4, <2>5, <2>6, OrderKept DEF IInv
    <2> QED
      BY <1>1, <2>3, <2>4, <2>7, NothingPushed DEF IInv, DomainsKnown
  <1>4. CASE CallsInlet
    <2>1. CallsInlet
      BY <1>4
    <2>2. Status(r, "inlet") = "none"
      BY <2>1 DEF IInv, HalvesInOrder, InOrder
    <2>3. /\ half' \in Halves /\ Status(r, "inlet")' = "called"
          /\ \A q \in Connects, z \in Sides : q # r \/ z # "inlet" => Status(q, z)' = Status(q, z)
      BY <1>2, <2>1, StatusSet
    <2>4. TypeOK'
      BY <1>1, <1>2, <2>1, <2>3 DEF TypeOK, proxyVars, consVars, Halves, Statuses, Ends
    <2>5. InOrder(r)'
      BY <1>1, <1>2, <2>1, <2>3 DEF IInv, HalvesInOrder, InOrder, TypeOK
    <2>6. \A q \in Connects : q # r => pc'[q] = pc[q]
      BY <1>2, <2>1 DEF TypeOK, Requests
    <2>7. HalvesInOrder'
      BY <1>1, <1>2, <2>3, <2>5, <2>6, OrderKept DEF IInv
    <2>8. \A q \in Connects, z \in Sides : Status(q, z)' = "ok" <=> Status(q, z) = "ok"
      BY <1>2, <2>2, <2>3
    <2> QED
      BY <1>1, <2>4, <2>7, <2>8, NothingPushed DEF IInv, DomainsKnown
  <1> QED
    BY <1>3, <1>4, <1>5

\* Creating an operation touches no connection.
LEMMA CreateStep ==
  ASSUME IInv, NEW k \in Creates,
         Number(k) \/ CheckNew(k) \/ PushNew(k) \/ PushNewOverwritten(k)
  PROVE  IInv'
  <1>1. k \in Requests /\ k \notin Connects
    BY RequestAssumption DEF Requests
  <1>2. /\ UNCHANGED <<proxyVars, consVars, ends, half>> /\ torn \subseteq torn'
        /\ \E l \in {"has", "push", "ok", "error"} : pc' = [pc EXCEPT ![k] = l]
        /\ name' = name \/ \E n : name' = [name EXCEPT ![k] = n]
    BY DEF Number, CheckNew, PushNew, PushNewOverwritten, Goto, history
  <1>3. TypeOK
    BY DEF IInv
  <1>4. TypeOK'
    BY <1>1, <1>2, <1>3 DEF TypeOK, proxyVars, consVars
  <1>5. DOMAIN name' = Requests /\ \A q \in Connects : name'[q] = name[q]
    BY <1>1, <1>2 DEF IInv, DomainsKnown, Requests
  <1>6. \A q \in Connects : pc'[q] = pc[q]
    BY <1>1, <1>2, <1>3 DEF TypeOK, Requests
  <1>7. \A q \in Connects, s \in Sides : Status(q, s)' = Status(q, s) /\ ends'[q][s] = ends[q][s]
    BY <1>2 DEF Status
  <1>8. HalvesInOrder'
    BY <1>1, <1>6, <1>7, OrderKept DEF IInv
  <1> QED
    BY <1>2, <1>4, <1>5, <1>7, <1>8, NothingPushed

LEMMA IStep == IInv /\ [Next]_vars => IInv'
  <1> SUFFICES ASSUME IInv, [Next]_vars PROVE IInv'
    OBVIOUS
  <1>1. CASE \E r \in Requests : Begin(r) \/ Requester(r)
    <2> PICK r \in Requests : Begin(r) \/ Requester(r)
      BY <1>1
    <2>1. CASE r \in Connects
      BY <2>1, ResolveStep, CheckStep, AnswerStep DEF Begin, Requester
    <2>2. CASE r \in Creates /\ r \notin Connects
      BY <2>2, CreateStep DEF Begin, Requester
    <2> QED
      BY <2>1, <2>2 DEF Requests
  <1>2. CASE \E r \in Connects : TimesOut(r)
    BY <1>2, AnswerStep
  <1>3. CASE \E r \in Connects, s \in Sides : Handler(r, s) \/ Lost(r, s)
    BY <1>3, HandleStep, PushStep, LostStep DEF Handler
  <1>4. CASE UNCHANGED vars
    <2>1. UNCHANGED <<opProxies, outProxies, inProxies, outletCons, inletCons, pc, ends, name, half, torn>>
      BY <1>4 DEF vars
    <2>2. TypeOK' /\ DomainsKnown'
      BY <2>1 DEF IInv, TypeOK, DomainsKnown
    <2>3. HalvesInOrder'
      BY <2>1 DEF IInv, HalvesInOrder, InOrder, Status
    <2> QED
      BY <2>1, <2>2, <2>3, NothingPushed DEF IInv, DomainsKnown, Status, consVars
  <1> QED
    BY <1>1, <1>2, <1>3, <1>4 DEF Next

THEOREM Invariance == Spec => []IInv
  BY IInit, IStep, PTL DEF Spec
------------------------------------------------------------------------------
\* The variables of the connection builder keep their types.
THEOREM TypesHold == Spec => []TypeOK
  BY Invariance, PTL DEF IInv

\* A request to connect that is answered ok (connectionBuilder::connect) has
\* left its connection at both ends, however many requests are made and
\* whatever remote calls are lost, late or timed out, unless another thread was
\* extending one of the two lists at the same time.
THEOREM SuccessIsBothEnds == Spec => []SuccessMeansBothEnds
  <1>1. IInv => SuccessMeansBothEnds
    <2> SUFFICES ASSUME IInv, NEW r \in Connects, NEW s \in Sides,
                        pc[r] = "ok", Slot(r, s) \notin torn
                 PROVE  HalfListed(r, s)
      BY DEF SuccessMeansBothEnds
    <2>1. Status(r, s) = "ok"
      BY DEF IInv, HalvesInOrder, InOrder, Sides
    <2> QED
      BY <2>1 DEF IInv, OkMeansListed
  <1> QED
    BY <1>1, Invariance, PTL

\* An inlet has no connection that its outlet does not have, unless another
\* thread was extending the list of the outlet at the same time: the inlet's
\* connectTo is called only after the outlet's has answered.
THEOREM InletHalfIsSecond == Spec => []InletHalfHasOutletHalf
  <1>1. IInv => InletHalfHasOutletHalf
    <2> SUFFICES ASSUME IInv, NEW r \in Connects,
                        HalfListed(r, "inlet"), Slot(r, "outlet") \notin torn
                 PROVE  HalfListed(r, "outlet")
      BY DEF InletHalfHasOutletHalf
    <2>1. InletOf[r] \in Inlet /\ ends[r]["inlet"] \in Ends /\ {"inlet", "outlet"} \subseteq Sides
      BY RequestAssumption DEF IInv, TypeOK, Ends, Sides
    <2>2. PICK x \in InletList(ends[r]["inlet"], InletOf[r]) : x.req = r
      BY DEF HalfListed, ListOf
    <2>3. ends[r]["inlet"] # NoEnd
      BY <2>2 DEF InletList
    <2>4. Operation(ends[r]["inlet"]) \in Ops
      BY <2>1, <2>3 DEF Operation, Ops, Ends
    <2>5. Status(r, "inlet") = "ok"
      BY <2>1, <2>2, <2>3, <2>4 DEF IInv, ListedMeansOk, InletList
    <2>6. Status(r, "outlet") = "ok"
      BY <2>5 DEF IInv, HalvesInOrder, InOrder
    <2> QED
      BY <2>1, <2>6 DEF IInv, OkMeansListed
  <1> QED
    BY <1>1, Invariance, PTL
------------------------------------------------------------------------------
(* Stores grow, and what a request has seen answered stays answered.         *)

StoreOK == DOMAIN store = Process /\ \A p \in Process : \E S : store[p] \in Seq(S)
BeforeOK ==
  /\ DOMAIN before = Requests
  /\ \A r \in Requests : before[r] \subseteq {q \in Requests : Answered(q)}
BaseInv == IInv /\ StoreOK /\ BeforeOK

\* What Append makes of a sequence of anything.
LEMMA AppendIs ==
  ASSUME NEW S, NEW s \in Seq(S), NEW e
  PROVE  /\ Append(s, e) \in Seq(S \cup {e}) /\ Len(Append(s, e)) = Len(s) + 1 /\ Len(s) \in Nat
         /\ \A i \in 1..Len(s) : Append(s, e)[i] = s[i]
         /\ Append(s, e)[Len(s) + 1] = e
  <1> DEFINE T == S \cup {e}
  <1>1. s \in Seq(T) /\ e \in T
    OBVIOUS
  <1> HIDE DEF T
  <1>2. /\ Append(s, e) \in Seq(T) /\ Len(Append(s, e)) = Len(s) + 1
        /\ \A i \in 1..Len(s) : Append(s, e)[i] = s[i]
        /\ Append(s, e)[Len(s) + 1] = e
    BY <1>1, AppendProperties
  <1> QED
    BY <1>1, <1>2, LenProperties DEF T

\* What a store has it still has after something is pushed (process_store.h).
LEMMA HasStays ==
  ASSUME NEW S, NEW s \in Seq(S), NEW e, NEW cls, NEW n, Has(s, cls, n)
  PROVE  Has(Pushed(s, e), cls, n)
  <1> DEFINE z == Append(s, e)
  <1>1. /\ Len(z) = Len(s) + 1 /\ Len(s) \in Nat
        /\ \A i \in 1..Len(s) : z[i] = s[i]
    BY AppendIs
  <1> HIDE DEF z
  <1>2. \A i \in 1..Len(s) : i \in 1..Len(z)
    BY <1>1
  <1>3. \A o : Listed(s, o) => Listed(z, o)
    BY <1>1, <1>2 DEF Listed
  <1>4. Has(z, cls, n)
    BY <1>1, <1>2, <1>3 DEF Has
  <1> QED
    BY <1>4 DEF z, Pushed

\* An object without an owner that was pushed is found by its name.
LEMMA PushedIsThere ==
  ASSUME NEW S, NEW s \in Seq(S), NEW cls, NEW type, NEW n
  PROVE  Has(Pushed(s, Object(cls, type, n, NoOwner)), cls, n)
  <1> DEFINE e == Object(cls, type, n, NoOwner)
             z == Append(s, e)
  <1>1. e.cls = cls /\ e.name = n /\ e.owner = NoOwner
    BY DEF Object
  <1> HIDE DEF e
  <1>2. Len(z) = Len(s) + 1 /\ Len(s) \in Nat /\ z[Len(s) + 1] = e
    BY AppendIs
  <1> HIDE DEF z
  <1>3. Listed(z, e)
    BY <1>1 DEF Listed
  <1>4. Len(s) + 1 \in 1..Len(z)
    BY <1>2
  <1>5. Has(z, cls, n)
    BY <1>1, <1>2, <1>3, <1>4 DEF Has
  <1> QED
    BY <1>5 DEF z, e, Pushed

\* The steps of the specification, by who makes them.
LEMMA Steps ==
  ASSUME [Next]_vars
  PROVE  \/ \E r \in Connects :
              \/ Resolve(r) \/ CheckRoute(r) \/ CheckName(r)
              \/ OutletAnswers(r) \/ InletAnswers(r) \/ Undo(r) \/ TimesOut(r)
         \/ \E k \in Creates : Number(k) \/ CheckNew(k) \/ PushNew(k) \/ PushNewOverwritten(k)
         \/ \E r \in Connects, s \in Sides :
              \/ HandleHere(r, s) \/ Push(r, s) \/ PushOverwritten(r, s) \/ Lost(r, s)
              \/ s = "outlet" /\ HandleOutletThere(r)
              \/ s = "inlet" /\ HandleInletThere(r)
         \/ UNCHANGED vars
  <1>1. ASSUME NEW r \in Requests, Begin(r) \/ Requester(r)
        PROVE  \/ r \in Connects /\ (\/ Resolve(r) \/ CheckRoute(r) \/ CheckName(r)
                                     \/ OutletAnswers(r) \/ InletAnswers(r) \/ Undo(r))
               \/ r \in Creates /\ (Number(r) \/ CheckNew(r) \/ PushNew(r) \/ PushNewOverwritten(r))
    BY <1>1 DEF Begin, Requester, Requests
  <1>2. ASSUME NEW r \in Connects, NEW s \in Sides, Handler(r, s)
        PROVE  \/ HandleHere(r, s) \/ Push(r, s) \/ PushOverwritten(r, s)
               \/ s = "outlet" /\ HandleOutletThere(r)
               \/ s = "inlet" /\ HandleInletThere(r)
    BY <1>2 DEF Handler
  <1> QED
    BY <1>1, <1>2 DEF Next

\* Only pushing a new operation changes a store, and only in its own process.
LEMMA StoreMoves ==
  ASSUME [Next]_vars
  PROVE  UNCHANGED store \/ \E k \in Creates : PushNew(k)
  BY Steps DEF Resolve, CheckRoute, CheckName, OutletAnswers, InletAnswers, Undo, TimesOut,
               Number, CheckNew, PushNewOverwritten, HandleHere, Push, PushOverwritten, Lost,
               HandleOutletThere, HandleInletThere, vars

StoresGrow == \A p \in Process : \A n : Exists(p, n) => Exists(p, n)'
LEMMA StoreStep ==
  ASSUME StoreOK, [Next]_vars
  PROVE  StoreOK' /\ StoresGrow
  <1>1. CASE UNCHANGED store
    BY <1>1 DEF StoreOK, StoresGrow, Exists
  <1>2. ASSUME NEW k \in Creates, PushNew(k) PROVE StoreOK' /\ StoresGrow
    <2> DEFINE q == MadeAt[k]
    <2>1. q \in Process
      BY RequestAssumption
    <2> HIDE DEF q
    <2>2. PICK S : store[q] \in Seq(S)
      BY <2>1 DEF StoreOK
    <2> DEFINE z == Pushed(store[q], Made(k))
    <2>3. /\ DOMAIN store' = Process
          /\ \A p \in Process : store'[p] = IF p = q THEN z ELSE store[p]
      BY <1>2, <2>1 DEF PushNew, StoreOK, q
    <2>4. z \in Seq(S \cup {Made(k)}) /\ \A n : Has(store[q], "operation", n) => Has(z, "operation", n)
      BY <2>2, AppendIs, HasStays DEF Pushed
    <2> HIDE DEF z
    <2>5. StoreOK'
      BY <2>3, <2>4 DEF StoreOK
    <2>6. StoresGrow
      BY <2>3, <2>4 DEF StoresGrow, Exists
    <2> QED
      BY <2>5, <2>6
  <1> QED
    BY <1>1, <1>2, StoreMoves

\* What every step keeps: the record of faults and torn lists, answers, and what
\* a request has found once it has begun.
Kept ==
  /\ torn \subseteq torn' /\ faulted \subseteq faulted'
  /\ DOMAIN before' = Requests
  /\ \A r \in Requests :
       /\ Answered(r) => pc'[r] = pc[r]
       /\ pc[r] # "idle" => pc'[r] # "idle" /\ before'[r] = before[r]
       /\ pc[r] = "idle" /\ pc'[r] # "idle" =>
            before'[r] \subseteq {q \in Requests : Answered(q)} /\ pc'[r] \in {"route", "has"}
       /\ pc[r] = "idle" /\ pc'[r] = "idle" => before'[r] = before[r]
       /\ pc[r] \notin {"idle", "name"} => name'[r] = name[r]
  /\ \A r \in Connects : pc[r] # "idle" => ends'[r] = ends[r]

LEMMA KeptStep == ASSUME IInv, BeforeOK, [Next]_vars PROVE Kept
  <1>1. /\ DOMAIN pc = Requests /\ DOMAIN name = Requests /\ DOMAIN ends = Connects
        /\ DOMAIN before = Requests
    BY DEF IInv, TypeOK, DomainsKnown, BeforeOK
  <1>2. Connects \subseteq Requests /\ Creates \subseteq Requests /\ Connects \cap Creates = {}
    BY RequestAssumption DEF Requests
  <1> USE <1>1, <1>2 DEF Kept, Answered, Goto, history
  <1>3. ASSUME NEW r \in Connects, Resolve(r) PROVE Kept
    BY <1>3 DEF Resolve, Begins, Answered
  <1>4. ASSUME NEW r \in Connects, CheckRoute(r) PROVE Kept
    BY <1>4 DEF CheckRoute
  <1>5. ASSUME NEW r \in Connects, CheckName(r) PROVE Kept
    <2>1. /\ pc[r] = "name" /\ UNCHANGED <<ends, before, torn>> /\ faulted \subseteq faulted'
          /\ \E l \in {"error", "outlet"} : pc' = [pc EXCEPT ![r] = l]
          /\ name' = name \/ \E n : name' = [name EXCEPT ![r] = n]
      BY <1>5 DEF CheckName, CallOutlet
    <2> QED
      BY <2>1
  <1>6. ASSUME NEW r \in Connects, OutletAnswers(r) \/ InletAnswers(r) \/ Undo(r) \/ TimesOut(r) PROVE Kept
    <2>1. /\ pc[r] \in {"outlet", "inlet", "undo"} /\ UNCHANGED <<ends, before, torn, name>>
          /\ faulted \subseteq faulted'
          /\ \E l \in {"error", "outlet", "inlet", "undo", "ok"} : pc' = [pc EXCEPT ![r] = l]
      BY <1>6 DEF OutletAnswers, InletAnswers, Undo, TimesOut
    <2> QED
      BY <2>1
  <1>7. ASSUME NEW k \in Creates, Number(k) PROVE Kept
    BY <1>7 DEF Number, Begins, Answered
  <1>8. ASSUME NEW k \in Creates, CheckNew(k) \/ PushNew(k) \/ PushNewOverwritten(k) PROVE Kept
    <2>1. /\ pc[k] \in {"has", "push"} /\ UNCHANGED <<ends, before, name, faulted>>
          /\ torn \subseteq torn'
          /\ \E l \in {"error", "push", "ok"} : pc' = [pc EXCEPT ![k] = l]
      BY <1>8 DEF CheckNew, PushNew, PushNewOverwritten
    <2> QED
      BY <2>1
  <1>9. ASSUME NEW r \in Connects, NEW s \in Sides,
               \/ HandleHere(r, s) \/ Push(r, s) \/ PushOverwritten(r, s) \/ Lost(r, s)
               \/ s = "outlet" /\ HandleOutletThere(r)
               \/ s = "inlet" /\ HandleInletThere(r)
        PROVE  Kept
    <2>1. UNCHANGED <<pc, ends, before, name>> /\ torn \subseteq torn' /\ faulted \subseteq faulted'
      BY <1>9 DEF HandleHere, Push, PushOverwritten, Lost, HandleOutletThere, HandleInletThere
    <2> QED
      BY <2>1
  <1>10. CASE UNCHANGED vars
    BY <1>10 DEF vars
  <1> QED
    BY <1>3, <1>4, <1>5, <1>6, <1>7, <1>8, <1>9, <1>10, Steps

LEMMA BaseInit == Init => StoreOK /\ BeforeOK
  BY StoreAssumption DEF Init, StoreOK, BeforeOK
LEMMA BeforeStep == ASSUME BeforeOK, Kept PROVE BeforeOK'
  BY DEF BeforeOK, Kept, Answered

\* Everything below rests on these.
LEMMA BaseHolds == Spec => []BaseInv
  <1>1. IInv /\ StoreOK /\ BeforeOK /\ [Next]_vars => StoreOK' /\ BeforeOK'
    BY KeptStep, StoreStep, BeforeStep
  <1> QED
    BY <1>1, Invariance, BaseInit, PTL DEF Spec, BaseInv
------------------------------------------------------------------------------
(* Creating operations: what a request that came before has created is there *)
(* when the names are compared.                                              *)

After(r1, r2) == r1 \in before[r2] /\ pc[r1] = "ok"

\* The object of a request that was answered ok is in the store.
CreatedIsThere ==
  \A k \in Creates :
    /\ pc[k] = "push" => Made(k) # NullObject
    /\ pc[k] = "ok" /\ StoreOf(MadeAt[k]) \notin torn => Exists(MadeAt[k], name[k])
\* A name that was checked differs from those of the requests answered before.
CreatedApart ==
  \A k1, k2 \in Creates :
    /\ After(k1, k2) /\ pc[k2] \in {"push", "ok"} /\ MadeAt[k1] = MadeAt[k2]
    /\ StoreOf(MadeAt[k2]) \notin torn
    => name[k1] # name[k2]
CreatePCs == \A k \in Creates : pc[k] \in {"idle", "has", "push", "ok", "error"}
CreateInv == CreatePCs /\ CreatedIsThere /\ CreatedApart

\* What is made is an operation of the request's name, or nothing.
LEMMA MadeIs ==
  ASSUME NEW k, Made(k) # NullObject
  PROVE  \E type : Made(k) = Object("operation", type, name[k], NoOwner)
  BY DEF Made

\* A factory that was there stays, so what can be made can still be made.
LEMMA MadeStays ==
  ASSUME StoreOK, [Next]_vars, NEW k \in Creates, name'[k] = name[k], Made(k) # NullObject
  PROVE  Made(k)' = Made(k)
  <1> DEFINE p == MadeAt[k]
             HasFactory(st) == \E i \in 1..Len(st) : /\ st[i].cls = "operationFactory"
                                                     /\ st[i].type = MadeInfo[k].typeName
  <1>1. HasFactory(store[p])
    BY DEF Made
  <1>2. p \in Process
    BY RequestAssumption
  <1>3. HasFactory(store'[p])
    <2>1. CASE UNCHANGED store
      BY <1>1, <2>1
    <2>2. ASSUME NEW j \in Creates, PushNew(j) PROVE HasFactory(store'[p])
      <3>1. PICK S : store[p] \in Seq(S)
        BY <1>2 DEF StoreOK
      <3>2. store'[p] = store[p] \/ store'[p] = Append(store[p], Made(j))
        BY <1>2, <2>2 DEF PushNew, StoreOK, Pushed
      <3> DEFINE z == Append(store[p], Made(j))
      <3>3. /\ Len(z) = Len(store[p]) + 1 /\ Len(store[p]) \in Nat
            /\ \A i \in 1..Len(store[p]) : z[i] = store[p][i]
        BY <3>1, AppendIs
      <3> HIDE DEF z
      <3>4. HasFactory(z)
        BY <1>1, <3>3
      <3> QED
        BY <1>1, <3>2, <3>4 DEF z
    <2> QED
      BY <2>1, <2>2, StoreMoves
  <1> QED
    BY <1>1, <1>3 DEF Made

\* Only a request that creates takes its own steps (objectfactory.cpp).
LEMMA CreateMoves ==
  ASSUME IInv, [Next]_vars, NEW k \in Creates, pc'[k] # pc[k]
  PROVE  \/ pc[k] = "idle" /\ pc'[k] = "has"
         \/ CheckNew(k) /\ pc[k] = "has"
         \/ PushNew(k) /\ pc[k] = "push" /\ pc'[k] = "ok"
         \/ PushNewOverwritten(k) /\ pc[k] = "push" /\ pc'[k] = "ok"
  <1>1. DOMAIN pc = Requests
    BY DEF IInv, TypeOK
  <1>2. Connects \subseteq Requests /\ Creates \subseteq Requests /\ Connects \cap Creates = {}
    BY RequestAssumption DEF Requests
  <1>3. ASSUME NEW r \in Requests, r # k, NEW l, pc' = [pc EXCEPT ![r] = l] PROVE FALSE
    BY <1>1, <1>2, <1>3
  <1>4. ASSUME NEW r \in Connects, NEW l, pc' = [pc EXCEPT ![r] = l] PROVE FALSE
    BY <1>2, <1>3, <1>4
  <1>5. ASSUME NEW r \in Connects,
               \/ Resolve(r) \/ CheckRoute(r) \/ CheckName(r)
               \/ OutletAnswers(r) \/ InletAnswers(r) \/ Undo(r) \/ TimesOut(r)
        PROVE  FALSE
    <2>1. \E l : pc' = [pc EXCEPT ![r] = l]
      BY <1>5 DEF Resolve, CheckRoute, CheckName, CallOutlet, OutletAnswers, InletAnswers, Undo,
                  TimesOut, Goto
    <2> QED
      BY <1>4, <2>1
  <1>6. ASSUME NEW j \in Creates, Number(j) \/ CheckNew(j) \/ PushNew(j) \/ PushNewOverwritten(j), j # k
        PROVE  FALSE
    <2>1. \E l : pc' = [pc EXCEPT ![j] = l]
      BY <1>6 DEF Number, CheckNew, PushNew, PushNewOverwritten, Goto
    <2> QED
      BY <1>2, <1>3, <1>6, <2>1
  <1>7. CASE Number(k) \/ CheckNew(k) \/ PushNew(k) \/ PushNewOverwritten(k)
    BY <1>1, <1>2, <1>7 DEF Number, Begins, CheckNew, PushNew, PushNewOverwritten, Goto
  <1>8. ASSUME NEW r \in Connects, NEW s \in Sides,
               \/ HandleHere(r, s) \/ Push(r, s) \/ PushOverwritten(r, s) \/ Lost(r, s)
               \/ s = "outlet" /\ HandleOutletThere(r)
               \/ s = "inlet" /\ HandleInletThere(r)
        PROVE  FALSE
    BY <1>8 DEF HandleHere, Push, PushOverwritten, Lost, HandleOutletThere, HandleInletThere
  <1>9. CASE UNCHANGED vars
    BY <1>9 DEF vars
  <1> QED
    BY <1>5, <1>6, <1>7, <1>8, <1>9, Steps

LEMMA CreateInvInit == Init => CreateInv
  BY RequestAssumption
  DEF Init, CreateInv, CreatePCs, CreatedIsThere, CreatedApart, After, Requests

\* A check finds what the requests before have pushed, and a push lists the name.
LEMMA CreateInvStep == ASSUME BaseInv, CreateInv, [Next]_vars PROVE CreateInv'
  <1>1. Kept /\ StoresGrow /\ IInv /\ StoreOK /\ BeforeOK
    BY KeptStep, StoreStep DEF BaseInv
  <1>2. Creates \subseteq Requests /\ \A k \in Creates : MadeAt[k] \in Process
    BY RequestAssumption DEF Requests
  <1>3. \A k \in Creates : pc[k] # "idle" => name'[k] = name[k] /\ before'[k] = before[k]
    BY <1>1, <1>2 DEF Kept, CreateInv, CreatePCs
  <1>4. \A k \in Creates : pc'[k] # pc[k] =>
          \/ pc[k] = "idle" /\ pc'[k] = "has"
          \/ CheckNew(k) /\ pc[k] = "has"
          \/ PushNew(k) /\ pc[k] = "push" /\ pc'[k] = "ok"
          \/ PushNewOverwritten(k) /\ pc[k] = "push" /\ pc'[k] = "ok"
    BY <1>1, CreateMoves
  <1>5. \A k \in Creates : CheckNew(k) =>
          /\ pc'[k] \in {"push", "error"}
          /\ pc'[k] = "push" => MayAdd(store[MadeAt[k]], Made(k))
    BY <1>1, <1>2 DEF CheckNew, Goto, IInv, TypeOK
  <1>6. CreatePCs'
    BY <1>4, <1>5 DEF CreateInv, CreatePCs
  <1>7. ASSUME NEW k \in Creates, pc'[k] = "push" PROVE Made(k)' # NullObject
    <2>1. Made(k) # NullObject /\ pc[k] # "idle"
      BY <1>4, <1>5, <1>7 DEF CreateInv, CreatedIsThere, MayAdd
    <2> QED
      BY <1>1, <1>3, <2>1, MadeStays
  <1>8. ASSUME NEW k \in Creates, pc'[k] = "ok", StoreOf(MadeAt[k]) \notin torn'
        PROVE  Exists(MadeAt[k], name[k])'
    <2>1. CASE pc[k] = "ok"
      BY <1>1, <1>2, <1>3, <1>8, <2>1 DEF Kept, StoresGrow, CreateInv, CreatedIsThere
    <2>2. CASE PushNew(k) /\ pc[k] = "push"
      <3>1. PICK type : Made(k) = Object("operation", type, name[k], NoOwner)
        BY <2>2, MadeIs DEF CreateInv, CreatedIsThere
      <3>2. PICK S : store[MadeAt[k]] \in Seq(S)
        BY <1>1, <1>2 DEF StoreOK
      <3>3. store'[MadeAt[k]] = Pushed(store[MadeAt[k]], Made(k))
        BY <1>1, <1>2, <2>2 DEF PushNew, StoreOK
      <3>4. Has(store'[MadeAt[k]], "operation", name[k])
        BY <3>1, <3>2, <3>3, PushedIsThere
      <3> QED
        BY <1>3, <2>2, <3>4 DEF Exists
    <2>3. CASE PushNewOverwritten(k)
      BY <1>8, <2>3 DEF PushNewOverwritten
    <2> QED
      BY <1>4, <1>5, <1>8, <2>1, <2>2, <2>3
  <1>9. ASSUME NEW k1 \in Creates, NEW k2 \in Creates, After(k1, k2)', pc'[k2] \in {"push", "ok"},
               MadeAt[k1] = MadeAt[k2], StoreOf(MadeAt[k2]) \notin torn'
        PROVE  name'[k1] # name'[k2]
    <2>1. pc[k2] # "idle"
      BY <1>4, <1>9
    <2>2. After(k1, k2) /\ name'[k1] = name[k1] /\ name'[k2] = name[k2]
      BY <1>1, <1>2, <1>3, <1>9, <2>1 DEF After, BeforeOK, Kept, Answered
    <2>3. StoreOf(MadeAt[k2]) \notin torn
      BY <1>1, <1>9 DEF Kept
    <2>4. CASE pc[k2] \in {"push", "ok"}
      BY <1>9, <2>2, <2>3, <2>4 DEF CreateInv, CreatedApart
    <2>5. CASE CheckNew(k2)
      <3>1. MayAdd(store[MadeAt[k2]], Made(k2))
        BY <1>5, <1>9, <2>5 DEF CheckNew
      <3>2. PICK type : Made(k2) = Object("operation", type, name[k2], NoOwner)
        BY <3>1, MadeIs DEF MayAdd
      <3>3. ~Exists(MadeAt[k2], name[k2])
        BY <3>1, <3>2 DEF MayAdd, Exists, Object
      <3>4. Exists(MadeAt[k1], name[k1])
        BY <1>9, <2>2, <2>3 DEF CreateInv, CreatedIsThere, After
      <3> QED
        BY <1>9, <2>2, <3>3, <3>4
    <2> QED
      BY <1>4, <1>9, <2>1, <2>4, <2>5
  <1> QED
    BY <1>6, <1>7, <1>8, <1>9 DEF CreateInv, CreatedIsThere, CreatedApart

\* An operation created for a request that came after another was answered has a
\* name of its own, and is listed, for any processes, names and stores, unless
\* two requests extended the store at the same time (objectfactory.cpp,
\* ProcessStore::add).
THEOREM NamesAreUnique == Spec => []CreatedNamesUnique
  <1>1. CreateInv => CreatedNamesUnique
    BY DEF CreateInv, CreatedIsThere, CreatedApart, CreatedNamesUnique, After
  <1> QED
    BY <1>1, BaseHolds, CreateInvInit, CreateInvStep, PTL DEF Spec
------------------------------------------------------------------------------
(* Which operation an end is: what is resolved, cached or handed to a half by *)
(* name exists where it is said to be, under that name.                       *)

Ref(r, s) == IF s = "outlet" THEN Out[r] ELSE In[r]
RightEnd(st, e, n) == e # NoEnd => e.name = n /\ Has(st[e.at], "operation", n)
Right(st, cache) == \A p \in Process, n \in Names : RightEnd(st, cache[p][n], n)
CachesRight ==
  /\ Right(store, opProxies) /\ Right(store, outProxies)
  /\ \A p \in Process, n \in Names, i \in Inlet : RightEnd(store, inProxies[p][n][i], n)
EndsRight ==
  \A r \in Connects, s \in Sides :
    /\ RightEnd(store, ends[r][s], Ref(r, s).name)
    /\ RightEnd(store, half[r][s].peer, Ref(r, Other(s)).name)

LEMMA SidesAre ==
  /\ Sides = {"outlet", "inlet"}
  /\ \A s \in Sides : Other(s) \in Sides /\ Other(s) # s
  /\ \A r \in Connects, s \in Sides : Ref(r, s).name \in Names /\ Ref(r, s).at \in Process
  BY RequestAssumption DEF Sides, Other, Ref

\* Resolving by name finds an operation of that name (core_broker.cpp).
LEMMA ResolvedIsRight ==
  ASSUME TypeOK, CachesRight, NEW r \in Connects, NEW p \in Process,
         NEW cache \in [Process -> [Names -> Ends]], Right(store, cache)
  PROVE  /\ \A e \in OutletAt(r, cache, p, Out[r]) : RightEnd(store, e, Out[r].name)
         /\ \A e \in InletAt(r, cache, p, In[r], InletOf[r]) : RightEnd(store, e, In[r].name)
  <1>1. \A ref \in {Out[r], In[r]} : ref.at \in Process /\ ref.name \in Names
    BY RequestAssumption
  <1>2. InletOf[r] \in Inlet
    BY RequestAssumption
  <1>3. ASSUME NEW ref \in {Out[r], In[r]}, NEW e \in OperationAt(r, cache, p, ref)
        PROVE  RightEnd(store, e, ref.name)
    <2>1. RightEnd(store, cache[p][ref.name], ref.name)
      BY <1>1 DEF Right
    <2>2. \/ e = cache[p][ref.name] \/ e = NoEnd
          \/ e = End(ref.at, ref.name, TRUE) /\ Exists(ref.at, ref.name)
          \/ e = End(p, ref.name, FALSE) /\ Exists(p, ref.name)
      BY DEF OperationAt
    <2> QED
      BY <2>1, <2>2 DEF RightEnd, End, Exists
  <1>4. /\ RightEnd(store, outProxies[p][Out[r].name], Out[r].name)
        /\ RightEnd(store, inProxies[p][In[r].name][InletOf[r]], In[r].name)
    BY <1>1, <1>2 DEF CachesRight, Right
  <1> QED
    BY <1>3, <1>4 DEF OutletAt, InletAt

LEMMA CachedIsRight ==
  ASSUME NEW p \in Process, NEW n \in Names, NEW e \in Ends, RightEnd(store, e, n),
         NEW cache \in [Process -> [Names -> Ends]], Right(store, cache)
  PROVE  Right(store, Cached(cache, p, n, e))
  <1>1. CASE Cached(cache, p, n, e) = cache
    BY <1>1
  <1>2. CASE Cached(cache, p, n, e) = [cache EXCEPT ![p][n] = e]
    <2>1. \A q \in Process, m \in Names :
            Cached(cache, p, n, e)[q][m] = IF q = p /\ m = n THEN e ELSE cache[q][m]
      BY <1>2
    <2> QED
      BY <2>1 DEF Right
  <1> QED
    BY <1>1, <1>2 DEF Cached
LEMMA CachedInletIsRight ==
  ASSUME TypeOK, CachesRight, NEW p \in Process, NEW n \in Names, NEW i \in Inlet,
         NEW e \in Ends, RightEnd(store, e, n), CacheInlet(p, n, i, e)
  PROVE  \A q \in Process, m \in Names, j \in Inlet : RightEnd(store, inProxies'[q][m][j], m)
  <1>1. inProxies \in [Process -> [Names -> [Inlet -> Ends]]]
    BY DEF TypeOK, Ends
  <1>2. CASE inProxies' = inProxies
    BY <1>2 DEF CachesRight
  <1>3. CASE inProxies' = [inProxies EXCEPT ![p][n][i] = e]
    <2>1. \A q \in Process, m \in Names, j \in Inlet :
            inProxies'[q][m][j] = IF q = p /\ m = n /\ j = i THEN e ELSE inProxies[q][m][j]
      BY <1>1, <1>3
    <2> QED
      BY <2>1 DEF CachesRight
  <1> QED
    BY <1>2, <1>3 DEF CacheInlet

\* An end that was right stays right while stores grow.
LEMMA RightStays ==
  ASSUME StoresGrow
  PROVE  \A e \in Ends : \A n : RightEnd(store, e, n) => RightEnd(store', e, n)
  BY DEF StoresGrow, Exists, RightEnd, Ends, NoEnd

\* How one half moves, and by which step (connectTo).
LEMMA HalfFrame ==
  ASSUME TypeOK, NEW q \in Connects, NEW z \in Sides, NEW h, half' = [half EXCEPT ![q][z] = h],
         NEW r \in Connects, NEW s \in Sides
  PROVE  half'[r][s] = IF r = q /\ s = z THEN h ELSE half[r][s]
  <1>1. half \in Halves
    BY DEF TypeOK, Halves, Statuses, Ends
  <1> QED
    BY <1>1 DEF Halves
LEMMA StatusFrame ==
  ASSUME TypeOK, NEW q \in Connects, NEW z \in Sides, NEW st, half' = [half EXCEPT ![q][z].status = st],
         NEW r \in Connects, NEW s \in Sides
  PROVE  /\ r # q \/ s # z => half'[r][s] = half[r][s]
         /\ r = q /\ s = z => half'[r][s].status = st /\ half'[r][s].peer = half[r][s].peer
  <1>1. half[q][z] \in [status : Statuses, peer : Ends]
    BY DEF TypeOK, Statuses, Ends
  <1> DEFINE h == [half[q][z] EXCEPT !.status = st]
  <1>2. h.status = st /\ h.peer = half[q][z].peer
    BY <1>1
  <1>3. half' = [half EXCEPT ![q][z] = h]
    OBVIOUS
  <1> HIDE DEF h
  <1>4. half'[r][s] = IF r = q /\ s = z THEN h ELSE half[r][s]
    <2>1. half \in Halves
      BY DEF TypeOK, Halves, Statuses, Ends
    <2> QED
      BY <1>3, <2>1 DEF Halves
  <1> QED
    BY <1>2, <1>4

\* The handler of the call on side s of request r, wherever it runs.
Handles(r, s) ==
  \/ HandleHere(r, s)
  \/ s = "outlet" /\ HandleOutletThere(r)
  \/ s = "inlet" /\ HandleInletThere(r)
LEMMA HalfMoves ==
  ASSUME IInv, [Next]_vars, NEW r \in Connects, NEW s \in Sides, half'[r][s] # half[r][s]
  PROVE  \/ /\ Status(r, s) \in {"none", "called"} /\ Status(r, s)' \in {"called", "lost"}
            /\ half'[r][s].peer = half[r][s].peer
         \/ Handles(r, s)
         \/ /\ Push(r, s) \/ PushOverwritten(r, s)
            /\ Status(r, s) = "checked" /\ Status(r, s)' = "ok"
            /\ half'[r][s].peer = half[r][s].peer
  <1>1. TypeOK /\ Sides = {"outlet", "inlet"}
    BY SidesAre DEF IInv
  <1>2. ASSUME NEW q \in Connects,
               \/ Resolve(q) \/ CheckRoute(q) \/ InletAnswers(q) \/ Undo(q) \/ TimesOut(q)
        PROVE  FALSE
    BY <1>2 DEF Resolve, CheckRoute, InletAnswers, Undo, TimesOut
  <1>3. ASSUME NEW q \in Connects, CheckName(q)
        PROVE  /\ Status(r, s) = "none" /\ Status(r, s)' = "called"
               /\ half'[r][s].peer = half[r][s].peer
    <2>1. pc[q] = "name" /\ half' = [half EXCEPT ![q]["outlet"].status = "called"]
      BY <1>3 DEF CheckName, CallOutlet
    <2>2. r = q /\ s = "outlet" /\ Status(r, s)' = "called" /\ half'[r][s].peer = half[r][s].peer
      BY <1>1, <2>1, StatusFrame DEF Status
    <2> QED
      BY <2>1, <2>2 DEF IInv, HalvesInOrder, InOrder
  <1>4. ASSUME NEW q \in Connects, OutletAnswers(q)
        PROVE  /\ Status(r, s) = "none" /\ Status(r, s)' = "called"
               /\ half'[r][s].peer = half[r][s].peer
    <2>1. pc[q] = "outlet" /\ half' = [half EXCEPT ![q]["inlet"].status = "called"]
      BY <1>4 DEF OutletAnswers
    <2>2. r = q /\ s = "inlet" /\ Status(r, s)' = "called" /\ half'[r][s].peer = half[r][s].peer
      BY <1>1, <2>1, StatusFrame DEF Status
    <2> QED
      BY <2>1, <2>2 DEF IInv, HalvesInOrder, InOrder
  <1>5. ASSUME NEW k \in Creates, Number(k) \/ CheckNew(k) \/ PushNew(k) \/ PushNewOverwritten(k)
        PROVE  FALSE
    BY <1>5 DEF Number, CheckNew, PushNew, PushNewOverwritten
  <1>6. ASSUME NEW q \in Connects, NEW z \in Sides, Handles(q, z)
        PROVE  q = r /\ z = s
    <2>1. \E h : half' = [half EXCEPT ![q][z] = h]
      BY <1>6 DEF Handles, HandleHere, HandleOutletThere, HandleInletThere
    <2> QED
      BY <1>1, <2>1, HalfFrame
  <1>7. ASSUME NEW q \in Connects, NEW z \in Sides, Push(q, z) \/ PushOverwritten(q, z)
        PROVE  /\ Push(r, s) \/ PushOverwritten(r, s)
               /\ Status(r, s) = "checked" /\ Status(r, s)' = "ok"
               /\ half'[r][s].peer = half[r][s].peer
    <2>1. half[q][z].status = "checked" /\ half' = [half EXCEPT ![q][z].status = "ok"]
      BY <1>7 DEF Push, PushOverwritten
    <2>2. q = r /\ z = s /\ half'[r][s].status = "ok" /\ half'[r][s].peer = half[r][s].peer
      BY <1>1, <2>1, StatusFrame
    <2> QED
      BY <1>7, <2>1, <2>2 DEF Status
  <1>8. ASSUME NEW q \in Connects, NEW z \in Sides, Lost(q, z)
        PROVE  /\ Status(r, s) = "called" /\ Status(r, s)' = "lost"
               /\ half'[r][s].peer = half[r][s].peer
    <2>1. half[q][z].status = "called" /\ half' = [half EXCEPT ![q][z].status = "lost"]
      BY <1>8 DEF Lost
    <2>2. q = r /\ z = s /\ half'[r][s].status = "lost" /\ half'[r][s].peer = half[r][s].peer
      BY <1>1, <2>1, StatusFrame
    <2> QED
      BY <2>1, <2>2 DEF Status
  <1>9. CASE UNCHANGED vars
    BY <1>9 DEF vars
  <1> QED
    BY <1>2, <1>3, <1>4, <1>5, <1>6, <1>7, <1>8, <1>9, Steps DEF Handles

LEMMA CachesInit == Init => CachesRight /\ EndsRight
  <1> SUFFICES ASSUME Init PROVE CachesRight /\ EndsRight
    OBVIOUS
  <1>1. \A n : RightEnd(store, NoEnd, n)
    BY DEF RightEnd
  <1>2. \A p \in Process, n \in Names : opProxies[p][n] = NoEnd
    BY DEF Init
  <1>3. \A p \in Process, n \in Names, i \in Inlet : inProxies[p][n][i] = NoEnd
    BY DEF Init
  <1>4. \A r \in Connects, s \in Sides : ends[r][s] = NoEnd /\ half[r][s].peer = NoEnd
    BY DEF Init, NoHalf
  <1>5. outProxies = opProxies
    BY DEF Init
  <1> QED
    BY <1>1, <1>2, <1>3, <1>4, <1>5 DEF CachesRight, EndsRight, Right

\* What a lookup returns is right, and so is what it leaves in the caches.
LEMMA OutletLookup ==
  ASSUME TypeOK, CachesRight, NEW r \in Connects, NEW p \in Process,
         NEW cache \in [Process -> [Names -> Ends]], Right(store, cache),
         NEW e \in OutletAt(r, cache, p, Out[r])
  PROVE  /\ e \in Ends /\ RightEnd(store, e, Out[r].name)
         /\ Cached(cache, p, Out[r].name, e) \in [Process -> [Names -> Ends]]
         /\ Right(store, Cached(cache, p, Out[r].name, e))
         /\ Right(store, Cached(outProxies, p, Out[r].name, e))
  <1>1. e \in Ends /\ RightEnd(store, e, Out[r].name) /\ Out[r].name \in Names
    BY ResolvedIsEnd, ResolvedIsRight, RequestAssumption
  <1>2. outProxies \in [Process -> [Names -> Ends]] /\ Right(store, outProxies)
    BY DEF TypeOK, Ends, CachesRight
  <1> QED
    BY <1>1, <1>2, CachedIsCache, CachedIsRight
LEMMA InletLookup ==
  ASSUME TypeOK, CachesRight, NEW r \in Connects, NEW p \in Process,
         NEW e \in InletAt(r, opProxies, p, In[r], InletOf[r]),
         CacheInlet(p, In[r].name, InletOf[r], e)
  PROVE  /\ e \in Ends /\ RightEnd(store, e, In[r].name)
         /\ Cached(opProxies, p, In[r].name, e) \in [Process -> [Names -> Ends]]
         /\ Right(store, Cached(opProxies, p, In[r].name, e))
         /\ \A q \in Process, m \in Names, j \in Inlet : RightEnd(store, inProxies'[q][m][j], m)
  <1>1. opProxies \in [Process -> [Names -> Ends]] /\ Right(store, opProxies)
    BY DEF TypeOK, Ends, CachesRight
  <1>2. e \in Ends /\ RightEnd(store, e, In[r].name) /\ In[r].name \in Names /\ InletOf[r] \in Inlet
    BY <1>1, ResolvedIsEnd, ResolvedIsRight, RequestAssumption
  <1> QED
    BY <1>1, <1>2, CachedIsCache, CachedIsRight, CachedInletIsRight

\* What a step writes into caches, ends and halves is right already.
WritesRight ==
  /\ Right(store, opProxies') /\ Right(store, outProxies')
  /\ \A p \in Process, n \in Names, i \in Inlet : RightEnd(store, inProxies'[p][n][i], n)
  /\ \A r \in Connects, s \in Sides :
       /\ RightEnd(store, ends'[r][s], Ref(r, s).name)
       /\ RightEnd(store, half'[r][s].peer, Ref(r, Other(s)).name)

LEMMA ResolveIsRight ==
  ASSUME IInv, CachesRight, EndsRight, NEW r \in Connects, Resolve(r)
  PROVE  WritesRight
  <1>1. TypeOK /\ At[r] \in Process
    BY RequestAssumption DEF IInv
  <1>2. PICK in \in InletAt(r, opProxies, At[r], In[r], InletOf[r]) :
          \E out \in OutletAt(r, Cached(opProxies, At[r], In[r].name, in), At[r], Out[r]) :
            /\ ends' = [ends EXCEPT ![r] = [s \in Sides |-> IF s = "outlet" THEN out ELSE in]]
            /\ opProxies' = Cached(Cached(opProxies, At[r], In[r].name, in), At[r], Out[r].name, out)
            /\ outProxies' = Cached(outProxies, At[r], Out[r].name, out)
            /\ CacheInlet(At[r], In[r].name, InletOf[r], in)
    BY DEF Resolve
  <1> DEFINE cache == Cached(opProxies, At[r], In[r].name, in)
  <1>3. PICK out \in OutletAt(r, cache, At[r], Out[r]) :
            /\ ends' = [ends EXCEPT ![r] = [s \in Sides |-> IF s = "outlet" THEN out ELSE in]]
            /\ opProxies' = Cached(cache, At[r], Out[r].name, out)
            /\ outProxies' = Cached(outProxies, At[r], Out[r].name, out)
            /\ CacheInlet(At[r], In[r].name, InletOf[r], in)
    BY <1>2
  <1>4. /\ in \in Ends /\ RightEnd(store, in, In[r].name)
        /\ cache \in [Process -> [Names -> Ends]] /\ Right(store, cache)
        /\ \A q \in Process, m \in Names, j \in Inlet : RightEnd(store, inProxies'[q][m][j], m)
    BY <1>1, <1>3, InletLookup
  <1> HIDE DEF cache
  <1>5. /\ out \in Ends /\ RightEnd(store, out, Out[r].name)
        /\ Right(store, Cached(cache, At[r], Out[r].name, out))
        /\ Right(store, Cached(outProxies, At[r], Out[r].name, out))
    BY <1>1, <1>3, <1>4, OutletLookup
  <1>6. UNCHANGED <<store, half>>
    BY DEF Resolve
  <1>7. \A q \in Connects, s \in Sides :
          ends'[q][s] = IF q # r THEN ends[q][s] ELSE IF s = "outlet" THEN out ELSE in
    BY <1>1, <1>3 DEF TypeOK
  <1>8. \A q \in Connects, s \in Sides : RightEnd(store, ends'[q][s], Ref(q, s).name)
    BY <1>4, <1>5, <1>7 DEF EndsRight, Ref
  <1>9. \A q \in Connects, s \in Sides : RightEnd(store, half'[q][s].peer, Ref(q, Other(s)).name)
    BY <1>6 DEF EndsRight
  <1> QED
    BY <1>3, <1>4, <1>5, <1>8, <1>9 DEF WritesRight

LEMMA HandleIsRight ==
  ASSUME IInv, CachesRight, EndsRight, NEW r \in Connects, NEW s \in Sides, Handles(r, s)
  PROVE  WritesRight
  <1>1. TypeOK /\ Other(s) \in Sides /\ ends[r][s] \in Ends
    BY SidesAre DEF IInv, TypeOK, Ends
  <1>2. ends[r][s].rpc => ends[r][s].at \in Process
    BY <1>1 DEF Ends, NoEnd
  <1>3. UNCHANGED ends
    BY DEF Handles, HandleHere, HandleOutletThere, HandleInletThere
  <1>4. ASSUME NEW e, RightEnd(store, e, Ref(r, Other(s)).name),
               half' = [half EXCEPT ![r][s] = [status |-> NameChecked(r, s), peer |-> e]]
        PROVE  \A q \in Connects, z \in Sides :
                 RightEnd(store, half'[q][z].peer, Ref(q, Other(z)).name)
    <2> SUFFICES ASSUME NEW q \in Connects, NEW z \in Sides
                 PROVE  RightEnd(store, half'[q][z].peer, Ref(q, Other(z)).name)
      OBVIOUS
    <2> DEFINE h == [status |-> NameChecked(r, s), peer |-> e]
    <2>1. half'[q][z] = IF q = r /\ z = s THEN h ELSE half[q][z]
      <3>1. half \in Halves
        BY <1>1 DEF TypeOK, Halves, Statuses, Ends
      <3> QED
        BY <1>4, <3>1 DEF Halves
    <2>2. h.peer = e
      OBVIOUS
    <2> HIDE DEF h
    <2> QED
      BY <1>4, <2>1, <2>2 DEF EndsRight
  <1>5. CASE HandleHere(r, s)
    <2>1. RightEnd(store, ends[r][Other(s)], Ref(r, Other(s)).name)
      BY <1>1 DEF EndsRight
    <2> QED
      BY <1>3, <1>4, <1>5, <2>1 DEF HandleHere, proxyVars, WritesRight, CachesRight, EndsRight
  <1>6. CASE s = "outlet" /\ HandleOutletThere(r)
    <2> DEFINE q == ends[r]["outlet"].at
    <2>1. PICK in \in InletAt(r, opProxies, q, In[r], InletOf[r]) :
            /\ half' = [half EXCEPT ![r]["outlet"] = [status |-> NameChecked(r, "outlet"), peer |-> in]]
            /\ opProxies' = Cached(opProxies, q, In[r].name, in)
            /\ CacheInlet(q, In[r].name, InletOf[r], in)
      BY <1>6 DEF HandleOutletThere
    <2>2. UNCHANGED outProxies /\ q \in Process
      BY <1>2, <1>6 DEF HandleOutletThere
    <2> HIDE DEF q
    <2>3. /\ RightEnd(store, in, In[r].name)
          /\ Right(store, Cached(opProxies, q, In[r].name, in))
          /\ \A p \in Process, m \in Names, j \in Inlet : RightEnd(store, inProxies'[p][m][j], m)
      BY <1>1, <2>1, <2>2, InletLookup
    <2>4. Ref(r, Other(s)).name = In[r].name
      BY <1>6 DEF Ref, Other
    <2> QED
      BY <1>3, <1>4, <1>6, <2>1, <2>2, <2>3, <2>4 DEF WritesRight, CachesRight, EndsRight
  <1>7. CASE s = "inlet" /\ HandleInletThere(r)
    <2> DEFINE q == ends[r]["inlet"].at
    <2>1. PICK out \in OutletAt(r, opProxies, q, Out[r]) :
            /\ half' = [half EXCEPT ![r]["inlet"] = [status |-> NameChecked(r, "inlet"), peer |-> out]]
            /\ opProxies' = Cached(opProxies, q, Out[r].name, out)
            /\ outProxies' = Cached(outProxies, q, Out[r].name, out)
      BY <1>7 DEF HandleInletThere
    <2>2. UNCHANGED inProxies /\ q \in Process
      BY <1>2, <1>7 DEF HandleInletThere
    <2> HIDE DEF q
    <2>3. opProxies \in [Process -> [Names -> Ends]] /\ Right(store, opProxies)
      BY <1>1 DEF TypeOK, Ends, CachesRight
    <2>4. /\ RightEnd(store, out, Out[r].name)
          /\ Right(store, Cached(opProxies, q, Out[r].name, out))
          /\ Right(store, Cached(outProxies, q, Out[r].name, out))
      BY <1>1, <2>1, <2>2, <2>3, OutletLookup
    <2>5. Ref(r, Other(s)).name = Out[r].name
      BY <1>7 DEF Ref, Other
    <2> QED
      BY <1>3, <1>4, <1>7, <2>1, <2>2, <2>4, <2>5 DEF WritesRight, CachesRight, EndsRight
  <1> QED
    BY <1>5, <1>6, <1>7 DEF Handles

\* The other steps change no cache, no end and no peer.
LEMMA RestIsRight ==
  ASSUME IInv, CachesRight, EndsRight, [Next]_vars,
         \A r \in Connects : ~Resolve(r), \A r \in Connects, s \in Sides : ~Handles(r, s)
  PROVE  WritesRight
  <1>1. UNCHANGED <<proxyVars, ends>>
    <2>1. ASSUME NEW r \in Connects, NEW s \in Sides,
                 \/ HandleHere(r, s) \/ Push(r, s) \/ PushOverwritten(r, s) \/ Lost(r, s)
                 \/ s = "outlet" /\ HandleOutletThere(r)
                 \/ s = "inlet" /\ HandleInletThere(r)
          PROVE  Push(r, s) \/ PushOverwritten(r, s) \/ Lost(r, s)
      BY <2>1 DEF Handles
    <2> QED
      BY <2>1, Steps
      DEF CheckRoute, CheckName, OutletAnswers, InletAnswers, Undo, TimesOut,
          Number, CheckNew, PushNew, PushNewOverwritten, Push, PushOverwritten, Lost, vars, proxyVars
  <1>2. \A r \in Connects, s \in Sides : half'[r][s].peer = half[r][s].peer
    BY HalfMoves
  <1> QED
    BY <1>1, <1>2 DEF WritesRight, CachesRight, EndsRight, proxyVars

\* Right ends stay right.
LEMMA CachesStep ==
  ASSUME IInv, IInv', StoresGrow, CachesRight, EndsRight, [Next]_vars
  PROVE  CachesRight' /\ EndsRight'
  <1>1. WritesRight
    BY ResolveIsRight, HandleIsRight, RestIsRight
  <1>2. /\ opProxies' \in [Process -> [Names -> Ends]] /\ outProxies' \in [Process -> [Names -> Ends]]
        /\ inProxies' \in [Process -> [Names -> [Inlet -> Ends]]]
        /\ \A r \in Connects, s \in Sides : ends'[r][s] \in Ends /\ half'[r][s].peer \in Ends
    BY DEF IInv, TypeOK, Ends
  <1>3. CachesRight'
    BY <1>1, <1>2, RightStays DEF WritesRight, CachesRight, Right
  <1>4. EndsRight'
    <2> SUFFICES ASSUME NEW r \in Connects, NEW s \in Sides
                 PROVE  /\ RightEnd(store', ends'[r][s], Ref(r, s).name)
                        /\ RightEnd(store', half'[r][s].peer, Ref(r, Other(s)).name)
      BY DEF EndsRight, Ref, Other
    <2> QED
      BY <1>1, <1>2, RightStays DEF WritesRight
  <1> QED
    BY <1>3, <1>4
------------------------------------------------------------------------------
(* What is listed is what its half brought, and which peers are missing.     *)

\* A connection in a list is the one its request made there.
OutletEntry(o, x) ==
  /\ Status(x.req, "outlet") = "ok" /\ o = Operation(ends[x.req]["outlet"])
  /\ x = Entry(x.req, "outlet", half[x.req]["outlet"].peer)
InletEntry(o, i, x) ==
  /\ Status(x.req, "inlet") = "ok" /\ o = Operation(ends[x.req]["inlet"]) /\ i = InletOf[x.req]
  /\ x = Entry(x.req, "inlet", half[x.req]["inlet"].peer)
EntriesAre ==
  \A o \in Ops :
    /\ \A x \in outletCons[o] : OutletEntry(o, x)
    /\ \A i \in Inlet : \A x \in inletCons[o][i] : InletEntry(o, i, x)
\* Without a fault a handler misses the other end only if the requester found it
\* elsewhere, or not at all.
PeersFound ==
  \A r \in Connects, s \in Sides :
    /\ Status(r, s) \in {"checked", "ok"} /\ half[r][s].peer = NoEnd
    /\ r \notin faulted /\ Ref(r, Other(s)).addr # "core"
    => ends[r][Other(s)] = NoEnd \/ ends[r][Other(s)].at # Ref(r, Other(s)).at

\* A half that is done stays as it is, and its request has its ends and its name.
LEMMA DoneStays ==
  ASSUME IInv, Kept, [Next]_vars, NEW r \in Connects, NEW s \in Sides, Status(r, s) = "ok"
  PROVE  half'[r][s] = half[r][s] /\ ends'[r] = ends[r] /\ name'[r] = name[r]
  <1>1. pc[r] \notin {"idle", "route", "name"} /\ r \in Requests
    BY DEF IInv, HalvesInOrder, InOrder, Requests
  <1>2. half'[r][s] = half[r][s]
    <2>1. ~Handles(r, s)
      BY DEF Handles, HandleHere, HandleOutletThere, HandleInletThere, Status
    <2> QED
      BY <2>1, HalfMoves
  <1> QED
    BY <1>1, <1>2 DEF Kept

\* Only a push extends a list, by its own entry.
LEMMA ListMoves ==
  ASSUME IInv, [Next]_vars
  PROVE  \/ UNCHANGED consVars
         \/ \E r \in Connects, s \in Sides : Push(r, s)
  BY Steps DEF Resolve, CheckRoute, CheckName, OutletAnswers, InletAnswers, Undo, Disconnected, TimesOut,
               Number, CheckNew, PushNew, PushNewOverwritten, HandleHere, PushOverwritten, Lost,
               HandleOutletThere, HandleInletThere, vars, consVars

LEMMA EntriesStep == ASSUME IInv, Kept, EntriesAre, [Next]_vars PROVE EntriesAre'
  <1>1. TypeOK /\ DomainsKnown
    BY DEF IInv
  <1>2. ASSUME NEW o \in Ops, NEW x \in outletCons[o] PROVE OutletEntry(o, x)'
    <2>1. x.req \in Connects /\ OutletEntry(o, x)
      BY <1>1 DEF TypeOK, EntriesAre
    <2>2. /\ half'[x.req]["outlet"] = half[x.req]["outlet"]
          /\ ends'[x.req] = ends[x.req] /\ name'[x.req] = name[x.req]
      BY <2>1, SidesAre, DoneStays DEF OutletEntry
    <2> QED
      BY <2>1, <2>2 DEF OutletEntry, Status, Entry, Operation
  <1>3. ASSUME NEW o \in Ops, NEW i \in Inlet, NEW x \in inletCons[o][i] PROVE InletEntry(o, i, x)'
    <2>1. x.req \in Connects /\ InletEntry(o, i, x)
      BY <1>1 DEF TypeOK, EntriesAre
    <2>2. /\ half'[x.req]["inlet"] = half[x.req]["inlet"]
          /\ ends'[x.req] = ends[x.req] /\ name'[x.req] = name[x.req]
      BY <2>1, SidesAre, DoneStays DEF InletEntry
    <2> QED
      BY <2>1, <2>2 DEF InletEntry, Status, Entry, Operation
  <1>4. CASE UNCHANGED consVars
    BY <1>2, <1>3, <1>4 DEF EntriesAre, consVars
  <1>5. ASSUME NEW r \in Connects, NEW s \in Sides, Push(r, s) PROVE EntriesAre'
    <2>1. PICK o, c : o = Operation(ends[r][s]) /\ c = Entry(r, s, half[r][s].peer)
      OBVIOUS
    <2>2. /\ half' = [half EXCEPT ![r][s].status = "ok"] /\ AddTo(r, s, c)
          /\ UNCHANGED <<ends, name>>
      BY <1>5, <2>1 DEF Push
    <2>3. Status(r, s)' = "ok" /\ half'[r][s].peer = half[r][s].peer
      <3>1. half \in Halves /\ half[r][s] \in [status : Statuses, peer : Ends]
        BY <1>1 DEF TypeOK, Halves, Statuses, Ends
      <3> DEFINE h == [half[r][s] EXCEPT !.status = "ok"]
      <3>2. h.status = "ok" /\ h.peer = half[r][s].peer
        BY <3>1
      <3>3. half' = [half EXCEPT ![r][s] = h]
        BY <2>2
      <3> HIDE DEF h
      <3>4. half'[r][s] = h
        BY <3>1, <3>3 DEF Halves
      <3> QED
        BY <3>2, <3>4 DEF Status
    <2>4. c.req = r /\ c = Entry(r, s, half[r][s].peer)' /\ o = Operation(ends'[r][s])
      BY <2>1, <2>2, <2>3 DEF Entry
    <2>5. CASE s = "outlet"
      <3>1. UNCHANGED inletCons
            /\ \A p \in Ops : outletCons'[p] = IF p = o THEN outletCons[p] \cup {c} ELSE outletCons[p]
        BY <1>1, <2>1, <2>2, <2>5 DEF AddTo, DomainsKnown
      <3>2. OutletEntry(o, c)'
        BY <2>3, <2>4, <2>5 DEF OutletEntry, Operation, Entry
      <3> QED
        BY <1>2, <1>3, <3>1, <3>2 DEF EntriesAre
    <2>6. CASE s = "inlet"
      <3>1. UNCHANGED outletCons
            /\ inletCons' = [inletCons EXCEPT ![o] = [inletCons[o] EXCEPT ![InletOf[r]] = @ \cup {c}]]
        BY <1>1, <2>1, <2>2, <2>6 DEF AddTo, DomainsKnown
      <3>2. \A p \in Ops, i \in Inlet :
              inletCons'[p][i] = IF p = o /\ i = InletOf[r] THEN inletCons[p][i] \cup {c}
                                 ELSE inletCons[p][i]
        BY <1>1, <3>1 DEF DomainsKnown
      <3>3. InletEntry(o, InletOf[r], c)'
        BY <2>3, <2>4, <2>6 DEF InletEntry, Operation, Entry
      <3> QED
        BY <1>2, <1>3, <3>1, <3>2, <3>3 DEF EntriesAre
    <2> QED
      BY <2>5, <2>6, SidesAre
  <1> QED
    BY <1>4, <1>5, ListMoves

\* A lookup that ends with nothing, and is not a fault, looked for something that
\* is not there.
LEMMA NotFound ==
  ASSUME NEW r, NEW p, NEW cache, NEW ref, NoEnd \in OperationAt(r, cache, p, ref),
         ref.addr # "core", ~Missed(r, p, ref, NoEnd)
  PROVE  ~Exists(ref.at, ref.name)
  <1>1. End(ref.at, ref.name, TRUE) # NoEnd
    BY DEF End, NoEnd
  <1> QED
    BY <1>1 DEF OperationAt, Missed

LEMMA PeersStep ==
  ASSUME IInv, Kept, EndsRight, PeersFound, [Next]_vars
  PROVE  PeersFound'
  <1> SUFFICES ASSUME NEW r \in Connects, NEW s \in Sides,
                      Status(r, s)' \in {"checked", "ok"}, half'[r][s].peer = NoEnd,
                      r \notin faulted', Ref(r, Other(s)).addr # "core"
               PROVE  \/ ends'[r][Other(s)] = NoEnd
                      \/ ends'[r][Other(s)].at # Ref(r, Other(s)).at
    BY DEF PeersFound, Ref, Other
  <1> DEFINE far == ends[r][Other(s)]
  <1>1. r \notin faulted /\ r \in Requests /\ TypeOK
    BY DEF Kept, Requests, IInv
  <1>2. ASSUME Handles(r, s) PROVE far = NoEnd \/ far.at # Ref(r, Other(s)).at
    <2>1. RightEnd(store, far, Ref(r, Other(s)).name)
      BY SidesAre DEF EndsRight
    <2>2. CASE HandleHere(r, s)
      <3>1. half' = [half EXCEPT ![r][s] = [status |-> NameChecked(r, s), peer |-> far]]
        BY <2>2 DEF HandleHere
      <3>2. half \in Halves
        BY <1>1 DEF TypeOK, Halves, Statuses, Ends
      <3>3. half'[r][s].peer = far
        BY <3>1, <3>2 DEF Halves
      <3> QED
        BY <3>3
    <2>3. CASE s = "outlet" /\ HandleOutletThere(r)
      <3> DEFINE q == ends[r]["outlet"].at
      <3>1. PICK in \in InletAt(r, opProxies, q, In[r], InletOf[r]) :
              /\ half' = [half EXCEPT ![r]["outlet"] = [status |-> NameChecked(r, "outlet"), peer |-> in]]
              /\ faulted' = IF Missed(r, q, In[r], in) THEN faulted \cup {r} ELSE faulted
        BY <2>3 DEF HandleOutletThere
      <3>2. half \in Halves
        BY <1>1 DEF TypeOK, Halves, Statuses, Ends
      <3>3. half'[r][s].peer = in
        BY <2>3, <3>1, <3>2 DEF Halves
      <3> HIDE DEF q
      <3>4. in = NoEnd /\ ~Missed(r, q, In[r], NoEnd)
        BY <3>1, <3>3
      <3>5. NoEnd \in OperationAt(r, opProxies, q, In[r])
        BY <3>1, <3>4 DEF InletAt
      <3>6. Ref(r, Other(s)) = In[r]
        BY <2>3 DEF Ref, Other
      <3>7. ~Exists(In[r].at, In[r].name)
        BY <3>4, <3>5, <3>6, NotFound
      <3> QED
        BY <2>1, <3>6, <3>7 DEF RightEnd, Exists
    <2>4. CASE s = "inlet" /\ HandleInletThere(r)
      <3> DEFINE q == ends[r]["inlet"].at
      <3>1. PICK out \in OutletAt(r, opProxies, q, Out[r]) :
              /\ half' = [half EXCEPT ![r]["inlet"] = [status |-> NameChecked(r, "inlet"), peer |-> out]]
              /\ faulted' = IF Missed(r, q, Out[r], out) THEN faulted \cup {r} ELSE faulted
        BY <2>4 DEF HandleInletThere
      <3>2. half \in Halves
        BY <1>1 DEF TypeOK, Halves, Statuses, Ends
      <3>3. half'[r][s].peer = out
        BY <2>4, <3>1, <3>2 DEF Halves
      <3> HIDE DEF q
      <3>4. out = NoEnd /\ ~Missed(r, q, Out[r], NoEnd)
        BY <3>1, <3>3
      <3>5. NoEnd \in OperationAt(r, opProxies, q, Out[r])
        BY <3>1, <3>4 DEF OutletAt
      <3>6. Ref(r, Other(s)) = Out[r]
        BY <2>4 DEF Ref, Other
      <3>7. ~Exists(Out[r].at, Out[r].name)
        BY <3>4, <3>5, <3>6, NotFound
      <3> QED
        BY <2>1, <3>6, <3>7 DEF RightEnd, Exists
    <2> QED
      BY <1>2, <2>2, <2>3, <2>4 DEF Handles
  <1>3. \/ Handles(r, s) /\ Status(r, s) = "called"
        \/ Status(r, s) \in {"checked", "ok"} /\ half[r][s].peer = NoEnd
    <2>1. Handles(r, s) => Status(r, s) = "called"
      BY DEF Handles, HandleHere, HandleOutletThere, HandleInletThere, Status
    <2>2. CASE half'[r][s] = half[r][s]
      BY <2>2 DEF Status
    <2>3. CASE half'[r][s] # half[r][s]
      BY <2>1, <2>3, HalfMoves
    <2> QED
      BY <2>2, <2>3
  <1>4. ends'[r] = ends[r]
    <2>1. pc[r] # "idle"
      BY <1>3 DEF IInv, HalvesInOrder, InOrder
    <2> QED
      BY <2>1 DEF Kept
  <1>5. far = NoEnd \/ far.at # Ref(r, Other(s)).at
    BY <1>1, <1>2, <1>3 DEF PeersFound
  <1> QED
    BY <1>4, <1>5
------------------------------------------------------------------------------
(* Requests that follow one another.                                         *)

SameSlot(r1, r2, s) == Slot(r1, s) = Slot(r2, s)
\* The name of a half that was checked is not one that a request answered before
\* has put into the list.
NamesChecked ==
  \A r1, r2 \in Connects, s \in Sides :
    /\ After(r1, r2) /\ Status(r2, s) \in {"checked", "ok"}
    /\ SameSlot(r1, r2, s) /\ Slot(r1, s) \notin torn
    => name[r1] # name[r2]
\* Past the first check, a request is not for ends that one answered before has
\* connected.
RoutesChecked ==
  \A r1, r2 \in Connects :
    /\ After(r1, r2) /\ pc[r2] \notin {"idle", "route", "error"} /\ r2 \notin faulted
    /\ Slot(r1, "outlet") \notin torn /\ half[r1]["outlet"].peer # NoEnd
    => ~(\A s \in Sides : SameSlot(r1, r2, s))

\* Both halves of a request that was answered ok are done, on ends of processes.
LEMMA AnsweredIs ==
  ASSUME IInv, NEW r \in Connects, pc[r] = "ok", NEW s \in Sides
  PROVE  /\ Status(r, s) = "ok" /\ ends[r][s] # NoEnd
         /\ Operation(ends[r][s]) \in Ops
         /\ Slot(r, s) \notin torn => HalfListed(r, s)
  <1>1. Status(r, s) = "ok"
    BY SidesAre DEF IInv, HalvesInOrder, InOrder
  <1>2. ends[r][s] # NoEnd /\ ends[r][s] \in Ends
    BY <1>1 DEF IInv, HalvesInOrder, InOrder, TypeOK, Ends
  <1>3. Operation(ends[r][s]) \in Ops
    BY <1>2 DEF Operation, Ops, Ends
  <1> QED
    BY <1>1, <1>2, <1>3 DEF IInv, OkMeansListed

\* One slot is one list.
LEMMA SlotIsList ==
  ASSUME NEW r1 \in Connects, NEW r2 \in Connects, NEW s \in Sides, SameSlot(r1, r2, s),
         ends[r1][s] # NoEnd, ends[r2][s] # NoEnd
  PROVE  ListOf(r1, s) = ListOf(r2, s)
  <1>1. Operation(ends[r1][s]) = Operation(ends[r2][s])
    BY DEF SameSlot, Slot
  <1>2. s = "inlet" => InletOf[r1] = InletOf[r2]
    BY DEF SameSlot, Slot
  <1> QED
    BY <1>1, <1>2, SidesAre DEF ListOf, OutletList, InletList

\* What an answered request has, it keeps; so does one that has called.
LEMMA AfterWas ==
  ASSUME IInv, BeforeOK, Kept, NEW r1 \in Connects, NEW r2 \in Connects, After(r1, r2)', pc[r2] # "idle"
  PROVE  /\ After(r1, r2) /\ ends'[r1] = ends[r1] /\ name'[r1] = name[r1] /\ ends'[r2] = ends[r2]
         /\ \A s \in Sides : /\ Slot(r1, s)' = Slot(r1, s) /\ Slot(r2, s)' = Slot(r2, s)
                             /\ Slot(r1, s)' \notin torn' => Slot(r1, s) \notin torn
                             /\ SameSlot(r1, r2, s)' <=> SameSlot(r1, r2, s)
  <1>1. r1 \in Requests /\ r2 \in Requests
    BY DEF Requests
  <1>2. After(r1, r2)
    BY <1>1 DEF After, BeforeOK, Kept, Answered
  <1>3. ends'[r1] = ends[r1] /\ name'[r1] = name[r1] /\ ends'[r2] = ends[r2]
    BY <1>1, <1>2 DEF After, Kept
  <1>4. \A s \in Sides : Slot(r1, s)' = Slot(r1, s) /\ Slot(r2, s)' = Slot(r2, s)
    BY <1>3 DEF Slot, Operation
  <1>5. torn \subseteq torn'
    BY DEF Kept
  <1> QED
    BY <1>2, <1>3, <1>4, <1>5 DEF SameSlot

LEMMA NamesStep ==
  ASSUME IInv, BeforeOK, Kept, NamesChecked, [Next]_vars
  PROVE  NamesChecked'
  <1> SUFFICES ASSUME NEW r1 \in Connects, NEW r2 \in Connects, NEW s \in Sides,
                      After(r1, r2)', Status(r2, s)' \in {"checked", "ok"},
                      SameSlot(r1, r2, s)', Slot(r1, s)' \notin torn'
               PROVE  name'[r1] # name'[r2]
    BY DEF NamesChecked
  <1>1. \/ Handles(r2, s) /\ Status(r2, s) = "called"
        \/ Status(r2, s) \in {"checked", "ok"}
    <2>1. Handles(r2, s) => Status(r2, s) = "called"
      BY DEF Handles, HandleHere, HandleOutletThere, HandleInletThere, Status
    <2>2. CASE half'[r2][s] = half[r2][s]
      BY <2>2 DEF Status
    <2>3. CASE half'[r2][s] # half[r2][s]
      BY <2>1, <2>3, HalfMoves
    <2> QED
      BY <2>2, <2>3
  <1>2. pc[r2] \notin {"idle", "route", "name"} /\ ends[r2][s] # NoEnd /\ r2 \in Requests
    BY <1>1 DEF IInv, HalvesInOrder, InOrder, Requests
  <1>3. /\ After(r1, r2) /\ name'[r1] = name[r1] /\ Slot(r1, s) \notin torn
        /\ SameSlot(r1, r2, s)
    BY <1>2, AfterWas
  <1>4. name'[r2] = name[r2]
    BY <1>2 DEF Kept
  <1>5. CASE Status(r2, s) \in {"checked", "ok"}
    BY <1>3, <1>4, <1>5 DEF NamesChecked
  <1>6. CASE Handles(r2, s)
    <2>1. NameChecked(r2, s) = "checked"
      <3>1. \E e : half' = [half EXCEPT ![r2][s] = [status |-> NameChecked(r2, s), peer |-> e]]
        BY <1>6 DEF Handles, HandleHere, HandleOutletThere, HandleInletThere
      <3>2. half \in Halves
        BY DEF IInv, TypeOK, Halves, Statuses, Ends
      <3>3. half'[r2][s].status = NameChecked(r2, s)
        BY <3>1, <3>2 DEF Halves
      <3> QED
        BY <3>3 DEF NameChecked, Status
    <2>2. name[r2] \notin Named(ListOf(r2, s))
      BY <2>1 DEF NameChecked
    <2>3. HalfListed(r1, s) /\ ends[r1][s] # NoEnd
      BY <1>3, AnsweredIs DEF After
    <2>4. ListOf(r1, s) = ListOf(r2, s)
      BY <1>2, <1>3, <2>3, SlotIsList
    <2>5. name[r1] \in Named(ListOf(r2, s))
      BY <2>3, <2>4 DEF HalfListed, Named
    <2> QED
      BY <1>3, <1>4, <2>2, <2>5
  <1> QED
    BY <1>1, <1>5, <1>6

\* A request to connect begins by resolving and goes on from the route check
\* only by checking it.
LEMMA ConnectMoves ==
  ASSUME IInv, [Next]_vars, NEW r \in Connects, pc'[r] # pc[r]
  PROVE  /\ pc[r] = "idle" => pc'[r] = "route"
         /\ pc[r] = "route" => CheckRoute(r)
  <1>1. DOMAIN pc = Requests
    BY DEF IInv, TypeOK
  <1>2. Connects \subseteq Requests /\ Creates \subseteq Requests /\ Connects \cap Creates = {}
    BY RequestAssumption DEF Requests
  <1>3. ASSUME NEW q \in Requests, q # r, NEW l, pc' = [pc EXCEPT ![q] = l] PROVE FALSE
    BY <1>1, <1>2, <1>3
  <1>4. ASSUME NEW q \in Connects,
               \/ Resolve(q) \/ CheckRoute(q) \/ CheckName(q)
               \/ OutletAnswers(q) \/ InletAnswers(q) \/ Undo(q) \/ TimesOut(q), q # r
        PROVE  FALSE
    <2>1. \E l : pc' = [pc EXCEPT ![q] = l]
      BY <1>4 DEF Resolve, CheckRoute, CheckName, CallOutlet, OutletAnswers, InletAnswers, Undo,
                  TimesOut, Goto
    <2> QED
      BY <1>2, <1>3, <1>4, <2>1
  <1>5. ASSUME NEW k \in Creates, Number(k) \/ CheckNew(k) \/ PushNew(k) \/ PushNewOverwritten(k)
        PROVE  FALSE
    <2>1. \E l : pc' = [pc EXCEPT ![k] = l]
      BY <1>5 DEF Number, CheckNew, PushNew, PushNewOverwritten, Goto
    <2> QED
      BY <1>2, <1>3, <2>1
  <1>6. CASE Resolve(r)
    BY <1>1, <1>2, <1>6 DEF Resolve, Begins, Goto
  <1>7. CASE CheckName(r) \/ OutletAnswers(r) \/ InletAnswers(r) \/ Undo(r) \/ TimesOut(r)
    BY <1>7 DEF CheckName, OutletAnswers, InletAnswers, Undo, TimesOut
  <1>8. CASE CheckRoute(r)
    BY <1>8 DEF CheckRoute
  <1>9. ASSUME NEW q \in Connects, NEW s \in Sides,
               \/ HandleHere(q, s) \/ Push(q, s) \/ PushOverwritten(q, s) \/ Lost(q, s)
               \/ s = "outlet" /\ HandleOutletThere(q)
               \/ s = "inlet" /\ HandleInletThere(q)
        PROVE  FALSE
    BY <1>9 DEF HandleHere, Push, PushOverwritten, Lost, HandleOutletThere, HandleInletThere
  <1>10. CASE UNCHANGED vars
    BY <1>10 DEF vars
  <1> QED
    BY <1>4, <1>5, <1>6, <1>7, <1>8, <1>9, <1>10, Steps

\* The check of the route finds the connection of a request answered before.
LEMMA RouteIsTaken ==
  ASSUME IInv, EndsRight, EntriesAre, NEW r1 \in Connects, NEW r2 \in Connects, pc[r1] = "ok",
         Slot(r1, "outlet") \notin torn, half[r1]["outlet"].peer # NoEnd,
         \A s \in Sides : SameSlot(r1, r2, s)
  PROVE  RouteTaken(r2, OutletList(ends[r2]["outlet"]))
  <1>1. "outlet" \in Sides /\ "inlet" \in Sides
    BY SidesAre
  <1>2. /\ HalfListed(r1, "outlet") /\ Operation(ends[r1]["outlet"]) \in Ops
        /\ ends[r1]["outlet"] # NoEnd
    BY <1>1, AnsweredIs
  <1>3. Operation(ends[r1]["inlet"]) \in Ops /\ ends[r1]["inlet"] # NoEnd
    BY <1>1, AnsweredIs
  <1>4. /\ Operation(ends[r2]["outlet"]) = Operation(ends[r1]["outlet"])
        /\ Operation(ends[r2]["inlet"]) = Operation(ends[r1]["inlet"])
        /\ InletOf[r2] = InletOf[r1]
    BY <1>1 DEF SameSlot, Slot
  <1>5. ends[r2]["outlet"] # NoEnd /\ ends[r2]["inlet"] # NoEnd
    <2>1. Operation(NoEnd) \notin Ops
      BY RequestAssumption DEF Operation, NoEnd, Ops
    <2> QED
      BY <1>2, <1>3, <1>4, <2>1
  <1>6. PICK x \in OutletList(ends[r1]["outlet"]) : x.req = r1
    BY <1>2 DEF HalfListed, ListOf
  <1>7. x \in OutletList(ends[r2]["outlet"])
    BY <1>2, <1>4, <1>5, <1>6 DEF OutletList
  <1>8. x.peer = half[r1]["outlet"].peer /\ x.inlet = InletOf[r1]
    <2>1. x \in outletCons[Operation(ends[r1]["outlet"])]
      BY <1>2, <1>6 DEF OutletList
    <2>2. x = Entry(r1, "outlet", half[r1]["outlet"].peer)
      BY <1>2, <1>6, <2>1 DEF EntriesAre, OutletEntry
    <2> QED
      BY <2>2 DEF Entry
  <1>9. x.peer.name = In[r1].name
    <2>1. RightEnd(store, half[r1]["outlet"].peer, Ref(r1, Other("outlet")).name)
      BY <1>1 DEF EndsRight
    <2> QED
      BY <1>8, <2>1 DEF RightEnd, Ref, Other
  <1>10. ends[r2]["inlet"].name = In[r1].name
    <2>1. RightEnd(store, ends[r1]["inlet"], Ref(r1, "inlet").name)
      BY <1>1 DEF EndsRight
    <2>2. ends[r1]["inlet"].name = In[r1].name
      BY <1>3, <2>1 DEF RightEnd, Ref
    <2> QED
      BY <1>4, <2>2 DEF Operation
  <1> QED
    BY <1>4, <1>5, <1>7, <1>8, <1>9, <1>10 DEF RouteTaken, SameRoute

LEMMA RoutesStep ==
  ASSUME IInv, BeforeOK, Kept, EndsRight, EntriesAre, RoutesChecked, [Next]_vars
  PROVE  RoutesChecked'
  <1> SUFFICES ASSUME NEW r1 \in Connects, NEW r2 \in Connects, After(r1, r2)',
                      pc'[r2] \notin {"idle", "route", "error"}, r2 \notin faulted',
                      Slot(r1, "outlet")' \notin torn', half'[r1]["outlet"].peer # NoEnd,
                      \A s \in Sides : SameSlot(r1, r2, s)'
               PROVE  FALSE
    BY DEF RoutesChecked
  <1>1. r1 \in Requests /\ r2 \in Requests /\ "outlet" \in Sides
    BY SidesAre DEF Requests
  <1>2. pc[r2] \notin {"idle", "error"} /\ r2 \notin faulted
    <2>1. pc[r2] # "idle"
      BY ConnectMoves
    <2> QED
      BY <1>1, <2>1 DEF Kept, Answered
  <1>3. /\ After(r1, r2) /\ Slot(r1, "outlet") \notin torn
        /\ \A s \in Sides : SameSlot(r1, r2, s)
    BY <1>1, <1>2, AfterWas
  <1>4. half[r1]["outlet"].peer # NoEnd
    BY <1>1, <1>3, AnsweredIs, DoneStays DEF After
  <1>5. pc[r2] = "route" /\ CheckRoute(r2)
    <2>1. pc[r2] = "route"
      BY <1>2, <1>3, <1>4 DEF RoutesChecked
    <2> QED
      BY <2>1, ConnectMoves
  <1>6. RouteTaken(r2, OutletList(ends[r2]["outlet"]))
    BY <1>3, <1>4, RouteIsTaken DEF After
  <1>7. PICK seen \in Reads(r2, ends[r2]["outlet"], OutletList(ends[r2]["outlet"])),
             known \in {TRUE, ~(ends[r2]["inlet"].rpc /\ r2 \in Faulty)} :
          /\ Goto(r2, IF RouteTaken(r2, seen) /\ known THEN "error" ELSE "name")
          /\ faulted' = IF seen # OutletList(ends[r2]["outlet"]) \/ ~known
                        THEN faulted \cup {r2} ELSE faulted
    BY <1>5 DEF CheckRoute
  <1>8. seen = OutletList(ends[r2]["outlet"]) /\ known
    BY <1>7
  <1>9. pc'[r2] = "error"
    BY <1>1, <1>6, <1>7, <1>8 DEF Goto, IInv, TypeOK
  <1> QED
    BY <1>9

\* What the links between operations, names and routes rest on.
LinkInv == CachesRight /\ EndsRight /\ EntriesAre /\ PeersFound /\ NamesChecked /\ RoutesChecked

LEMMA LinkInit == Init => LinkInv
  <1> SUFFICES ASSUME Init PROVE LinkInv
    OBVIOUS
  <1>1. \A r \in Connects, s \in Sides : Status(r, s) = "none"
    BY DEF Init, Status, NoHalf
  <1>2. EntriesAre
    BY DEF Init, EntriesAre
  <1>3. PeersFound
    BY <1>1 DEF PeersFound
  <1>4. \A r1, r2 \in Connects : ~After(r1, r2)
    BY DEF Init, After, Requests
  <1> QED
    BY <1>2, <1>3, <1>4, CachesInit DEF LinkInv, NamesChecked, RoutesChecked

LEMMA LinkStep == ASSUME BaseInv, LinkInv, [Next]_vars PROVE LinkInv'
  <1>1. IInv /\ IInv' /\ StoreOK /\ BeforeOK /\ Kept /\ StoresGrow
    BY IStep, KeptStep, StoreStep DEF BaseInv
  <1> QED
    BY <1>1, CachesStep, EntriesStep, PeersStep, NamesStep, RoutesStep DEF LinkInv

\* Ends, caches, entries and checks are as LinkInv says in every state.
THEOREM LinksHold == Spec => []LinkInv
  BY BaseHolds, LinkInit, LinkStep, PTL DEF Spec

\* Of two requests to connect the same ends, one made after the other was
\* answered, only one is granted if the outlet's process knows the inlet, and
\* requests that follow one another leave no two connections of one name in a
\* list, for any processes and requests (connectionBuilder::connect).
THEOREM RequestsExclude == Spec => []SequentialRequestsAreExclusive
  <1>1. IInv /\ LinkInv => SequentialRequestsAreExclusive
    <2> SUFFICES ASSUME IInv, LinkInv, NEW r2 \in Connects, NEW r1 \in before[r2] \cap Connects,
                        pc[r1] = "ok", pc[r2] = "ok", {r1, r2} \cap faulted = {},
                        \A s \in Sides : {Slot(r1, s), Slot(r2, s)} \cap torn = {}
                 PROVE  /\ \A s \in Sides : Slot(r1, s) = Slot(r2, s) => name[r1] # name[r2]
                        /\ half[r1]["outlet"].peer # NoEnd =>
                             ~(\A s \in Sides : Slot(r1, s) = Slot(r2, s))
      BY DEF SequentialRequestsAreExclusive
    <2>1. After(r1, r2) /\ r1 \in Connects /\ "outlet" \in Sides
      BY SidesAre DEF After
    <2>2. \A s \in Sides : Status(r2, s) = "ok" /\ Slot(r1, s) \notin torn
      BY AnsweredIs
    <2>3. r2 \notin faulted
      OBVIOUS
    <2>4. \A s \in Sides : Slot(r1, s) = Slot(r2, s) => name[r1] # name[r2]
      BY <2>1, <2>2 DEF LinkInv, NamesChecked, SameSlot
    <2>5. half[r1]["outlet"].peer # NoEnd => ~(\A s \in Sides : Slot(r1, s) = Slot(r2, s))
      BY <2>1, <2>2, <2>3 DEF LinkInv, RoutesChecked, SameSlot
    <2> QED
      BY <2>4, <2>5
  <1> QED
    BY <1>1, Invariance, LinksHold, PTL

\* Where names differ between processes, an operation of a name is in one only.
LEMMA OnePlace ==
  ASSUME NamesApart, NEW p \in Process, NEW q \in Process, NEW n, Exists(p, n), Exists(q, n)
  PROVE  p = q
  <1>1. PICK i \in 1..Len(store[p]) : store[p][i].name = n
    BY DEF Exists, Has
  <1>2. PICK j \in 1..Len(store[q]) : store[q][j].name = n
    BY DEF Exists, Has
  <1> QED
    BY <1>1, <1>2 DEF NamesApart

\* The end a request found, and the one its half brought, is the one named.
LEMMA PeerIsNamed ==
  ASSUME IInv, LinkInv, NamesApart, NEW r \in Connects, NEW s \in Sides, pc[r] = "ok", r \notin faulted,
         Ref(r, Other(s)).addr = "full", Exists(Ref(r, Other(s)).at, Ref(r, Other(s)).name)
  PROVE  LET e == half[r][s].peer IN <<e.at, e.name>> = <<Ref(r, Other(s)).at, Ref(r, Other(s)).name>>
  <1> DEFINE e == half[r][s].peer f == ends[r][Other(s)] ref == Ref(r, Other(s))
  <1>1. Other(s) \in Sides /\ ref.at \in Process
    BY SidesAre
  <1>2. e \in Ends /\ f \in Ends
    BY <1>1 DEF IInv, TypeOK, Ends
  <1>3. RightEnd(store, e, ref.name) /\ RightEnd(store, f, ref.name)
    BY <1>1 DEF LinkInv, EndsRight
  <1>4. f # NoEnd /\ Status(r, s) = "ok"
    BY <1>1, AnsweredIs
  <1>5. e = NoEnd => f.at # ref.at
    BY <1>4 DEF LinkInv, PeersFound
  <1>6. Exists(ref.at, ref.name)
    OBVIOUS
  <1> HIDE DEF e, f, ref
  <1>7. f.at = ref.at
    BY <1>1, <1>2, <1>3, <1>4, <1>6, OnePlace DEF RightEnd, Exists, Ends
  <1>8. e.at = ref.at /\ e.name = ref.name
    BY <1>1, <1>2, <1>3, <1>5, <1>6, <1>7, OnePlace DEF RightEnd, Exists, Ends
  <1> QED
    BY <1>8 DEF e, ref

\* When no call failed, names differ between processes, and the ends exist and
\* were given with their addresses, each end is connected to the operation named
\* as the other, for any processes, stores and requests, although each process
\* resolves it for itself through proxies it caches by name alone.
THEOREM ConnectsTheNamed == Spec => []ConnectsWhatWasNamed
  <1>1. IInv /\ LinkInv => ConnectsWhatWasNamed
    <2> SUFFICES ASSUME IInv, LinkInv, NamesApart, NEW r \in Connects,
                        pc[r] = "ok", r \notin faulted, Out[r].addr = "full", In[r].addr = "full",
                        Exists(Out[r].at, Out[r].name), Exists(In[r].at, In[r].name)
                 PROVE  /\ \A c \in ListOf(r, "outlet") :
                             c.req = r => <<c.peer.at, c.peer.name>> = <<In[r].at, In[r].name>>
                        /\ \A c \in ListOf(r, "inlet") :
                             c.req = r => <<c.peer.at, c.peer.name>> = <<Out[r].at, Out[r].name>>
      BY DEF ConnectsWhatWasNamed
    <2>1. /\ "outlet" \in Sides /\ "inlet" \in Sides /\ InletOf[r] \in Inlet
          /\ Ref(r, Other("outlet")) = In[r] /\ Ref(r, Other("inlet")) = Out[r]
      BY SidesAre, RequestAssumption DEF Ref, Other
    <2>2. ASSUME NEW c \in ListOf(r, "outlet"), c.req = r
          PROVE  c.peer = half[r]["outlet"].peer
      <3>1. c \in outletCons[Operation(ends[r]["outlet"])] /\ Operation(ends[r]["outlet"]) \in Ops
        BY <2>1, <2>2, AnsweredIs DEF ListOf, OutletList
      <3>2. c = Entry(r, "outlet", half[r]["outlet"].peer)
        BY <2>2, <3>1 DEF LinkInv, EntriesAre, OutletEntry
      <3> QED
        BY <3>2 DEF Entry
    <2>3. ASSUME NEW c \in ListOf(r, "inlet"), c.req = r
          PROVE  c.peer = half[r]["inlet"].peer
      <3>1. /\ c \in inletCons[Operation(ends[r]["inlet"])][InletOf[r]]
            /\ Operation(ends[r]["inlet"]) \in Ops
        BY <2>1, <2>3, AnsweredIs DEF ListOf, InletList
      <3>2. c = Entry(r, "inlet", half[r]["inlet"].peer)
        BY <2>1, <2>3, <3>1 DEF LinkInv, EntriesAre, InletEntry
      <3> QED
        BY <3>2 DEF Entry
    <2>4. LET e == half[r]["outlet"].peer IN <<e.at, e.name>> = <<In[r].at, In[r].name>>
      BY <2>1, PeerIsNamed
    <2>5. LET e == half[r]["inlet"].peer IN <<e.at, e.name>> = <<Out[r].at, Out[r].name>>
      BY <2>1, PeerIsNamed
    <2> QED
      BY <2>2, <2>3, <2>4, <2>5
  <1> QED
    BY <1>1, Invariance, LinksHold, PTL
------------------------------------------------------------------------------

\* A plural, a word and the place of any name are three things, and differ as the
\* words in them do.
LEMMA Segments ==
  /\ \A c, d : Plural(c) = Plural(d) <=> c = d
  /\ \A w, v : Word(w) = Word(v) <=> w = v
  /\ \A c, w : Plural(c) # Word(w) /\ Plural(c) # Any /\ Word(w) # Any
  /\ Slash = Word("")
  BY DEF Plural, Word, Any, Slash

\* The class of a plural is the one it is made of.
LEMMA ClassOfPlural == \A c \in Classes : IsPlural(Plural(c)) /\ ClassOf(Plural(c)) = c
  BY Segments DEF IsPlural, ClassOf

\* No word is the plural of a class.
LEMMA WordIsNoPlural == \A w : ~IsPlural(Word(w))
  BY Segments DEF IsPlural

\* The segments of paths that the code spells out are different.
LEMMA Apart ==
  /\ Plural("operation") # Plural("inlet") /\ Plural("operation") # Plural("connection") /\
     Plural("operation") # Plural("container") /\ Plural("inlet") # Plural("connection") /\
     Plural("inlet") # Plural("container") /\ Plural("connection") # Plural("container")
  /\ Plural("operation") # Word("outlet") /\ Plural("operation") # Word("info") /\
     Plural("operation") # Word("fullInfo") /\ Plural("operation") # Word("defaultValue") /\
     Plural("operation") # Word("name") /\ Plural("operation") # Word("isUpdated") /\
     Plural("operation") # Word("call") /\ Plural("operation") # Word("invoke") /\
     Plural("operation") # Word("execute")
  /\ Plural("inlet") # Word("outlet") /\ Plural("inlet") # Word("info") /\ Plural("inlet") #
     Word("fullInfo") /\ Plural("inlet") # Word("defaultValue") /\ Plural("inlet") #
     Word("name") /\ Plural("inlet") # Word("isUpdated") /\ Plural("inlet") # Word("call") /\
     Plural("inlet") # Word("invoke") /\ Plural("inlet") # Word("execute")
  /\ Plural("connection") # Word("outlet") /\ Plural("connection") # Word("info") /\
     Plural("connection") # Word("fullInfo") /\ Plural("connection") # Word("defaultValue")
     /\ Plural("connection") # Word("name") /\ Plural("connection") # Word("isUpdated") /\
     Plural("connection") # Word("call") /\ Plural("connection") # Word("invoke") /\
     Plural("connection") # Word("execute")
  /\ Plural("container") # Word("outlet") /\ Plural("container") # Word("info") /\
     Plural("container") # Word("fullInfo") /\ Plural("container") # Word("defaultValue") /\
     Plural("container") # Word("name") /\ Plural("container") # Word("isUpdated") /\
     Plural("container") # Word("call") /\ Plural("container") # Word("invoke") /\
     Plural("container") # Word("execute")
  /\ Word("outlet") # Word("info") /\ Word("outlet") # Word("fullInfo") /\ Word("outlet") #
     Word("defaultValue") /\ Word("outlet") # Word("name") /\ Word("outlet") #
     Word("isUpdated") /\ Word("outlet") # Word("call") /\ Word("outlet") # Word("invoke") /\
     Word("outlet") # Word("execute")
  /\ Word("info") # Word("fullInfo") /\ Word("info") # Word("defaultValue") /\ Word("info") #
     Word("name") /\ Word("info") # Word("isUpdated") /\ Word("info") # Word("call") /\
     Word("info") # Word("invoke") /\ Word("info") # Word("execute")
  /\ Word("fullInfo") # Word("defaultValue") /\ Word("fullInfo") # Word("name") /\
     Word("fullInfo") # Word("isUpdated") /\ Word("fullInfo") # Word("call") /\
     Word("fullInfo") # Word("invoke") /\ Word("fullInfo") # Word("execute")
  /\ Word("defaultValue") # Word("name") /\ Word("defaultValue") # Word("isUpdated") /\
     Word("defaultValue") # Word("call") /\ Word("defaultValue") # Word("invoke") /\
     Word("defaultValue") # Word("execute")
  /\ Word("name") # Word("isUpdated") /\ Word("name") # Word("call") /\ Word("name") #
     Word("invoke") /\ Word("name") # Word("execute")
  /\ Word("isUpdated") # Word("call") /\ Word("isUpdated") # Word("invoke") /\
     Word("isUpdated") # Word("execute")
  /\ Word("call") # Word("invoke") /\ Word("call") # Word("execute")
  /\ Word("invoke") # Word("execute")
  /\ Plural("operation") # Any /\ Plural("operation") # Slash /\ Plural("inlet") # Any /\
     Plural("inlet") # Slash /\ Plural("connection") # Any /\ Plural("connection") # Slash /\
     Plural("container") # Any /\ Plural("container") # Slash
  /\ Word("outlet") # Any /\ Word("outlet") # Slash /\ Word("info") # Any /\ Word("info") #
     Slash /\ Word("fullInfo") # Any /\ Word("fullInfo") # Slash /\ Word("defaultValue") #
     Any /\ Word("defaultValue") # Slash /\ Word("name") # Any /\ Word("name") # Slash /\
     Word("isUpdated") # Any /\ Word("isUpdated") # Slash /\ Word("call") # Any /\
     Word("call") # Slash /\ Word("invoke") # Any /\ Word("invoke") # Slash /\
     Word("execute") # Any /\ Word("execute") # Slash
  BY DEF Plural, Word, Any, Slash

\* A concatenation, element by element.
LEMMA Joined ==
  ASSUME NEW T, NEW s \in Seq(T), NEW t \in Seq(T), NEW u \in Seq(T),
         Len(u) = Len(s) + Len(t),
         \A i \in 1..Len(u) : u[i] = IF i <= Len(s) THEN s[i] ELSE t[i - Len(s)]
  PROVE  s \o t = u
  <1>1. /\ s \o t \in Seq(T) /\ Len(s \o t) = Len(s) + Len(t)
        /\ \A i \in 1..Len(s) + Len(t) : (s \o t)[i] = IF i <= Len(s) THEN s[i] ELSE t[i - Len(s)]
    BY ConcatProperties
  <1> QED
    BY <1>1, SeqEqual

\* Patterns, written out.
LEMMA Patterns ==
  /\ \A x : OperationPattern(<<x>>) = <<Plural("operation"), Any, x>>
  /\ \A x, y : OperationPattern(<<x, y>>) = <<Plural("operation"), Any, x, y>>
  /\ \A x, y, z : OperationPattern(<<x, y, z>>) = <<Plural("operation"), Any, x, y, z>>
  <1>1. \A p, q, x : <<p, q>> \o <<x>> = <<p, q, x>>
    <2> TAKE p, q, x
    <2> DEFINE T == {p, q, x}  s == <<p, q>>  t == <<x>>  u == <<p, q, x>>
    <2>1. s \in Seq(T) /\ t \in Seq(T) /\ u \in Seq(T) /\ Len(s) = 2 /\ Len(t) = 1 /\ Len(u) = 3
      OBVIOUS
    <2>2. \A i \in 1..3 : u[i] = IF i <= 2 THEN s[i] ELSE t[i - 2]
      OBVIOUS
    <2> HIDE DEF T, s, t, u
    <2>3. s \o t = u
      <3>1. Len(u) = Len(s) + Len(t) /\ \A i \in 1..Len(u) : u[i] = IF i <= Len(s) THEN s[i] ELSE t[i - Len(s)]
        BY <2>1, <2>2
      <3> QED
        BY <2>1, <3>1, Joined
    <2> QED
      BY <2>3 DEF s, t, u
  <1>2. \A p, q, x, y : <<p, q>> \o <<x, y>> = <<p, q, x, y>>
    <2> TAKE p, q, x, y
    <2> DEFINE T == {p, q, x, y}  s == <<p, q>>  t == <<x, y>>  u == <<p, q, x, y>>
    <2>1. s \in Seq(T) /\ t \in Seq(T) /\ u \in Seq(T) /\ Len(s) = 2 /\ Len(t) = 2 /\ Len(u) = 4
      OBVIOUS
    <2>2. \A i \in 1..4 : u[i] = IF i <= 2 THEN s[i] ELSE t[i - 2]
      OBVIOUS
    <2> HIDE DEF T, s, t, u
    <2>3. s \o t = u
      <3>1. Len(u) = Len(s) + Len(t) /\ \A i \in 1..Len(u) : u[i] = IF i <= Len(s) THEN s[i] ELSE t[i - Len(s)]
        BY <2>1, <2>2
      <3> QED
        BY <2>1, <3>1, Joined
    <2> QED
      BY <2>3 DEF s, t, u
  <1>3. \A p, q, x, y, z : <<p, q>> \o <<x, y, z>> = <<p, q, x, y, z>>
    <2> TAKE p, q, x, y, z
    <2> DEFINE T == {p, q, x, y, z}  s == <<p, q>>  t == <<x, y, z>>  u == <<p, q, x, y, z>>
    <2>1. s \in Seq(T) /\ t \in Seq(T) /\ u \in Seq(T) /\ Len(s) = 2 /\ Len(t) = 3 /\ Len(u) = 5
      OBVIOUS
    <2>2. \A i \in 1..5 : u[i] = IF i <= 2 THEN s[i] ELSE t[i - 2]
      OBVIOUS
    <2> HIDE DEF T, s, t, u
    <2>3. s \o t = u
      <3>1. Len(u) = Len(s) + Len(t) /\ \A i \in 1..Len(u) : u[i] = IF i <= Len(s) THEN s[i] ELSE t[i - Len(s)]
        BY <2>1, <2>2
      <3> QED
        BY <2>1, <3>1, Joined
    <2> QED
      BY <2>3 DEF s, t, u
  <1> QED
    BY <1>1, <1>2, <1>3 DEF OperationPattern

\* Which patterns a path of two segments fits.
LEMMA Length2 ==
  ASSUME NEW a, NEW b
  PROVE  /\ \A p, q : Matches(<<a, b>>, <<p, q>>) <=> (p = Any \/ a = p) /\ (q = Any \/ b = q)
         /\ \A p, q, r : ~Matches(<<a, b>>, <<p, q, r>>)
         /\ \A p, q, r, s : ~Matches(<<a, b>>, <<p, q, r, s>>)
         /\ \A p, q, r, s, t : ~Matches(<<a, b>>, <<p, q, r, s, t>>)
  BY DEF Matches

\* A path of one segment fits no pattern.
LEMMA Length1 ==
  ASSUME NEW a
  PROVE  /\ \A p, q : ~Matches(<<a>>, <<p, q>>)
         /\ \A p, q, r : ~Matches(<<a>>, <<p, q, r>>)
         /\ \A p, q, r, s : ~Matches(<<a>>, <<p, q, r, s>>)
         /\ \A p, q, r, s, t : ~Matches(<<a>>, <<p, q, r, s, t>>)
  BY DEF Matches

\* Which patterns a path of three segments fits.
LEMMA Length3 ==
  ASSUME NEW a, NEW b, NEW c
  PROVE  /\ \A p, q : ~Matches(<<a, b, c>>, <<p, q>>)
         /\ \A p, q, r : Matches(<<a, b, c>>, <<p, q, r>>) <=>
                           (p = Any \/ a = p) /\ (q = Any \/ b = q) /\ (r = Any \/ c = r)
         /\ \A p, q, r, s : ~Matches(<<a, b, c>>, <<p, q, r, s>>)
         /\ \A p, q, r, s, t : ~Matches(<<a, b, c>>, <<p, q, r, s, t>>)
  BY DEF Matches

\* Which patterns a path of four segments fits.
LEMMA Length4 ==
  ASSUME NEW a, NEW b, NEW c, NEW d
  PROVE  /\ \A p, q : ~Matches(<<a, b, c, d>>, <<p, q>>)
         /\ \A p, q, r : ~Matches(<<a, b, c, d>>, <<p, q, r>>)
         /\ \A p, q, r, s : Matches(<<a, b, c, d>>, <<p, q, r, s>>) <=>
              (p = Any \/ a = p) /\ (q = Any \/ b = q) /\ (r = Any \/ c = r) /\ (s = Any \/ d = s)
         /\ \A p, q, r, s, t : ~Matches(<<a, b, c, d>>, <<p, q, r, s, t>>)
  BY DEF Matches

\* Which patterns a path of five segments fits.
LEMMA Length5 ==
  ASSUME NEW a, NEW b, NEW c, NEW d, NEW e
  PROVE  /\ \A p, q : ~Matches(<<a, b, c, d, e>>, <<p, q>>)
         /\ \A p, q, r : ~Matches(<<a, b, c, d, e>>, <<p, q, r>>)
         /\ \A p, q, r, s : ~Matches(<<a, b, c, d, e>>, <<p, q, r, s>>)
         /\ \A p, q, r, s, t : Matches(<<a, b, c, d, e>>, <<p, q, r, s, t>>) <=>
              /\ (p = Any \/ a = p) /\ (q = Any \/ b = q) /\ (r = Any \/ c = r)
              /\ (s = Any \/ d = s) /\ (t = Any \/ e = t)
  BY DEF Matches

\* What the read handler makes of each form of path.
Unpatterned(P) ==
  /\ \A x : ~Matches(P, OperationPattern(<<x>>))
  /\ \A x, y : ~Matches(P, OperationPattern(<<x, y>>))
  /\ \A x, y, z : ~Matches(P, OperationPattern(<<x, y, z>>))
  /\ \A x : ~Matches(P, <<Plural("container"), Any, x>>)

\* The read handler, asked for the process.
LEMMA ReadProcess ==
  /\ readResource(<<Word("info")>>) = Core(Call("process", "getProcessInfo", <<>>))
  /\ readResource(<<Word("fullInfo")>>) = Core(Call("process", "getProcessFullInfo", <<>>))
  <1>1. <<Word("fullInfo")>> # <<Word("info")>>
    BY Segments
  <1>2. ASSUME NEW w PROVE Unpatterned(<<Word(w)>>) /\ ~OneClass(<<Word(w)>>) /\ ~ClassAndName(<<Word(w)>>)
    BY Patterns, Length1, WordIsNoPlural DEF Unpatterned, OneClass, ClassAndName
  <1> QED
    BY <1>1, <1>2 DEF readResource, Unpatterned

\* The read handler, asked for the objects of a class.
LEMMA ReadClass ==
  ASSUME NEW c \in Classes
  PROVE  readResource(<<Plural(c)>>) = Core(Call("store", "getClassObjectInfos", <<c>>))
  <1> DEFINE P == <<Plural(c)>>
  <1>1. P # <<Word("info")>> /\ P # <<Word("fullInfo")>>
    BY Segments
  <1>2. OneClass(P) /\ ClassOf(P[1]) = c /\ ~ClassAndName(P)
    BY ClassOfPlural DEF OneClass, ClassAndName
  <1>3. Unpatterned(P)
    BY Patterns, Length1 DEF Unpatterned
  <1> HIDE DEF P
  <1>4. readResource(P) = Core(Call("store", "getClassObjectInfos", <<c>>))
    BY <1>1, <1>2, <1>3 DEF readResource, Unpatterned
  <1> QED
    BY <1>4 DEF P

\* The read handler, asked for an object.
LEMMA ReadObject ==
  ASSUME NEW c \in Classes, NEW n
  PROVE  readResource(<<Plural(c), n>>) = Core(Call("store", "getObjectInfo", <<c, n>>))
  <1> DEFINE P == <<Plural(c), n>>
  <1>1. P # <<Word("info")>> /\ P # <<Word("fullInfo")>> /\ P[2] = n
    OBVIOUS
  <1>2. ~OneClass(P) /\ ClassAndName(P) /\ ClassOf(P[1]) = c
    BY ClassOfPlural DEF OneClass, ClassAndName
  <1>3. Unpatterned(P)
    BY Patterns, Length2 DEF Unpatterned
  <1> HIDE DEF P
  <1>4. readResource(P) = Core(Call("store", "getObjectInfo", <<c, n>>))
    BY <1>1, <1>2, <1>3 DEF readResource, Unpatterned
  <1> QED
    BY <1>4 DEF P

\* A path behind the name of an operation or a container.
Lonely(P) == P # <<Word("info")>> /\ P # <<Word("fullInfo")>> /\ ~OneClass(P) /\ ~ClassAndName(P)
Fits3(P, a, c) ==
  /\ \A x : Matches(P, OperationPattern(<<x>>)) <=> a = Plural("operation") /\ (x = Any \/ c = x)
  /\ \A x, y : ~Matches(P, OperationPattern(<<x, y>>))
  /\ \A x, y, z : ~Matches(P, OperationPattern(<<x, y, z>>))
  /\ \A x : Matches(P, <<Plural("container"), Any, x>>) <=> a = Plural("container") /\ (x = Any \/ c = x)
Fits4(P, a, c, d) ==
  /\ \A x : ~Matches(P, OperationPattern(<<x>>))
  /\ \A x, y : Matches(P, OperationPattern(<<x, y>>)) <=>
                 a = Plural("operation") /\ (x = Any \/ c = x) /\ (y = Any \/ d = y)
  /\ \A x, y, z : ~Matches(P, OperationPattern(<<x, y, z>>))
  /\ \A x : ~Matches(P, <<Plural("container"), Any, x>>)
Fits5(P, a, c, d, e) ==
  /\ \A x : ~Matches(P, OperationPattern(<<x>>))
  /\ \A x, y : ~Matches(P, OperationPattern(<<x, y>>))
  /\ \A x, y, z : Matches(P, OperationPattern(<<x, y, z>>)) <=>
       a = Plural("operation") /\ (x = Any \/ c = x) /\ (y = Any \/ d = y) /\ (z = Any \/ e = z)
  /\ \A x : ~Matches(P, <<Plural("container"), Any, x>>)

\* Paths of three, four and five segments fit by the segments behind the name.
LEMMA LongPaths ==
  /\ \A a, b, c : Lonely(<<a, b, c>>) /\ Fits3(<<a, b, c>>, a, c) /\ ~Matches(<<a, b, c>>, <<Plural("connection"), Any>>)
  /\ \A a, b, c, d : Lonely(<<a, b, c, d>>) /\ Fits4(<<a, b, c, d>>, a, c, d)
                      /\ ~Matches(<<a, b, c, d>>, <<Plural("connection"), Any>>)
  /\ \A a, b, c, d, e : Lonely(<<a, b, c, d, e>>) /\ Fits5(<<a, b, c, d, e>>, a, c, d, e)
                         /\ ~Matches(<<a, b, c, d, e>>, <<Plural("connection"), Any>>)
  <1>1. ASSUME NEW a, NEW b, NEW c
        PROVE  Lonely(<<a, b, c>>) /\ Fits3(<<a, b, c>>, a, c) /\ ~Matches(<<a, b, c>>, <<Plural("connection"), Any>>)
    <2>1. Lonely(<<a, b, c>>)
      BY DEF Lonely, OneClass, ClassAndName
    <2>2. Fits3(<<a, b, c>>, a, c) /\ ~Matches(<<a, b, c>>, <<Plural("connection"), Any>>)
      BY Length3, Patterns, Apart DEF Fits3
    <2> QED
      BY <2>1, <2>2
  <1>2. ASSUME NEW a, NEW b, NEW c, NEW d
        PROVE  Lonely(<<a, b, c, d>>) /\ Fits4(<<a, b, c, d>>, a, c, d)
               /\ ~Matches(<<a, b, c, d>>, <<Plural("connection"), Any>>)
    <2>1. Lonely(<<a, b, c, d>>)
      BY DEF Lonely, OneClass, ClassAndName
    <2>2. Fits4(<<a, b, c, d>>, a, c, d) /\ ~Matches(<<a, b, c, d>>, <<Plural("connection"), Any>>)
      BY Length4, Patterns, Apart DEF Fits4
    <2> QED
      BY <2>1, <2>2
  <1>3. ASSUME NEW a, NEW b, NEW c, NEW d, NEW e
        PROVE  Lonely(<<a, b, c, d, e>>) /\ Fits5(<<a, b, c, d, e>>, a, c, d, e)
               /\ ~Matches(<<a, b, c, d, e>>, <<Plural("connection"), Any>>)
    <2>1. Lonely(<<a, b, c, d, e>>)
      BY DEF Lonely, OneClass, ClassAndName
    <2>2. Fits5(<<a, b, c, d, e>>, a, c, d, e) /\ ~Matches(<<a, b, c, d, e>>, <<Plural("connection"), Any>>)
      BY Length5, Patterns, Apart DEF Fits5
    <2> QED
      BY <2>1, <2>2
  <1> QED
    BY <1>1, <1>2, <1>3

\* The read handler of what is asked of an operation or a container.
LEMMA ReadThree ==
  ASSUME NEW n, NEW P, NEW a, NEW c, Lonely(P), Fits3(P, a, c), P[2] = n
  PROVE  /\ a = Plural("operation") =>
              /\ c = Plural("inlet") => readResource(P) = Core(Call("operation", "inlets", <<n>>))
              /\ c = Word("fullInfo") => readResource(P) = Core(Call("operation", "fullInfo", <<n>>))
              /\ c = Word("outlet") => readResource(P) = Core(Call("outlet", "get", <<n>>))
         /\ a = Plural("container") =>
              /\ c = Plural("operation") => readResource(P) = Core(Call("container", "operations", <<n>>))
              /\ c = Word("fullInfo") => readResource(P) = Core(Call("container", "fullInfo", <<n>>))
  BY Apart DEF readResource, Lonely, Fits3

\* The read handler of what is asked of an inlet or of an outlet.
LEMMA ReadFour ==
  ASSUME NEW n, NEW P, NEW c, NEW d, Lonely(P), Fits4(P, Plural("operation"), c, d), P[2] = n, P[4] = d
  PROVE  /\ c = Plural("inlet") => readResource(P) = Core(Call("inlet", "get", <<n, d>>))
         /\ c = Word("outlet") =>
              /\ d = Plural("connection") => readResource(P) = Core(Call("outlet", "connections", <<n>>))
              /\ d = Word("info") => readResource(P) = Core(Call("outlet", "info", <<n>>))
  BY Apart DEF readResource, Lonely, Fits4

\* The read handler of what is asked about an inlet.
LEMMA ReadFive ==
  ASSUME NEW n, NEW t, NEW P, NEW e, Lonely(P), Fits5(P, Plural("operation"), Plural("inlet"), t, e), P[2] = n, P[4] = t
  PROVE  /\ e = Word("info") => readResource(P) = Core(Call("inlet", "info", <<n, t>>))
         /\ e = Plural("connection") => readResource(P) = Core(Call("inlet", "connections", <<n, t>>))
         /\ e = Word("defaultValue") => readResource(P) = Empty
         /\ e \in {Word("name"), Word("isUpdated")} => readResource(P) = Error
  BY Apart DEF readResource, Lonely, Fits5

\* All of a sequence but its last element.
LEMMA Cut ==
  ASSUME NEW T, NEW s \in Seq(T), NEW u \in Seq(T), Len(s) = Len(u) + 1,
         \A i \in 1..Len(u) : u[i] = s[i]
  PROVE  SubSeq(s, 1, Len(u)) = u
  <1>1. /\ SubSeq(s, 1, Len(u)) \in Seq(T) /\ Len(SubSeq(s, 1, Len(u))) = Len(u)
        /\ \A i \in 1..Len(u) : SubSeq(s, 1, Len(u))[i] = s[i]
    OBVIOUS
  <1> QED
    BY <1>1, SeqEqual

\* The slash is cut off the end.
LEMMA Trims ==
  /\ \A a : a # Slash => Trimmed(<<a>>) = <<a>>
  /\ \A a, b : b # Slash => Trimmed(<<a, b>>) = <<a, b>>
  /\ \A a, b, c : c # Slash => Trimmed(<<a, b, c>>) = <<a, b, c>>
  /\ \A a, b, c, d : d # Slash => Trimmed(<<a, b, c, d>>) = <<a, b, c, d>>
  /\ \A a, b, c, d, e : e # Slash => Trimmed(<<a, b, c, d, e>>) = <<a, b, c, d, e>>
  /\ \A a : Trimmed(<<a, Slash>>) = <<a>>
  /\ \A a, b, c, d : Trimmed(<<a, b, c, d, Slash>>) = <<a, b, c, d>>
  /\ \A a, b, c, d, e : Trimmed(<<a, b, c, d, e, Slash>>) = <<a, b, c, d, e>>
  <1>1. \A a, b : SubSeq(<<a, b>>, 1, 1) = <<a>>
    <2> TAKE a, b
    <2> DEFINE T == {a, b}  s == <<a, b>>  u == <<a>>
    <2>1. s \in Seq(T) /\ u \in Seq(T) /\ Len(s) = 2 /\ Len(u) = 1 /\ \A i \in 1..1 : u[i] = s[i]
      OBVIOUS
    <2> HIDE DEF T, s, u
    <2>2. SubSeq(s, 1, Len(u)) = u
      BY <2>1, Cut
    <2> QED
      BY <2>1, <2>2 DEF s, u
  <1>2. \A a, b, c, d, e : SubSeq(<<a, b, c, d, e>>, 1, 4) = <<a, b, c, d>>
    <2> TAKE a, b, c, d, e
    <2> DEFINE T == {a, b, c, d, e}  s == <<a, b, c, d, e>>  u == <<a, b, c, d>>
    <2>1. s \in Seq(T) /\ u \in Seq(T) /\ Len(s) = 5 /\ Len(u) = 4 /\ \A i \in 1..4 : u[i] = s[i]
      OBVIOUS
    <2> HIDE DEF T, s, u
    <2>2. SubSeq(s, 1, Len(u)) = u
      BY <2>1, Cut
    <2> QED
      BY <2>1, <2>2 DEF s, u
  <1>3. \A a, b, c, d, e, f : SubSeq(<<a, b, c, d, e, f>>, 1, 5) = <<a, b, c, d, e>>
    <2> TAKE a, b, c, d, e, f
    <2> DEFINE T == {a, b, c, d, e, f}  s == <<a, b, c, d, e, f>>  u == <<a, b, c, d, e>>
    <2>1. s \in Seq(T) /\ u \in Seq(T) /\ Len(s) = 6 /\ Len(u) = 5 /\ \A i \in 1..5 : u[i] = s[i]
      OBVIOUS
    <2> HIDE DEF T, s, u
    <2>2. SubSeq(s, 1, Len(u)) = u
      BY <2>1, Cut
    <2> QED
      BY <2>1, <2>2 DEF s, u
  <1>4. /\ \A a : a # Slash => Trimmed(<<a>>) = <<a>>
        /\ \A a, b : b # Slash => Trimmed(<<a, b>>) = <<a, b>>
        /\ \A a, b, c : c # Slash => Trimmed(<<a, b, c>>) = <<a, b, c>>
        /\ \A a, b, c, d : d # Slash => Trimmed(<<a, b, c, d>>) = <<a, b, c, d>>
        /\ \A a, b, c, d, e : e # Slash => Trimmed(<<a, b, c, d, e>>) = <<a, b, c, d, e>>
    BY DEF Trimmed
  <1>5. \A a : Trimmed(<<a, Slash>>) = <<a>>
    BY <1>1 DEF Trimmed
  <1>6. \A a, b, c, d : Trimmed(<<a, b, c, d, Slash>>) = <<a, b, c, d>>
    BY <1>2 DEF Trimmed
  <1>7. \A a, b, c, d, e : Trimmed(<<a, b, c, d, e, Slash>>) = <<a, b, c, d, e>>
    BY <1>3 DEF Trimmed
  <1> QED
    BY <1>4, <1>5, <1>6, <1>7

\* Which handler a broker without routes has for each verb.
LEMMA Handlers ==
  ASSUME NEW v \in Faithful
  PROVE  /\ HandlerFor(v, "GET") = "onRead" /\ HandlerFor(v, "POST") = "onCreate"
         /\ HandlerFor(v, "DELETE") = "onDelete" /\ HandlerFor(v, "PUT") = "onUpdate"
  <1> DEFINE R == Registered(v)
             Served == <<ServedBy("GET", "onRead"), ServedBy("POST", "onCreate"),
                         ServedBy("DELETE", "onDelete"), ServedBy("PUT", "onUpdate")>>
  <1>1. v \notin Routed => R = Served
    BY DEF Registered
  <1>2. v \in Routed => v = "http" /\ R = <<ServedBy("GET", "onRead"), ServedBy("POST", "onCreate"),
             ServedBy("DELETE", "onDelete"), ServedBy("PUT", "onUpdate"), ServedBy("GET", "file")>>
    <2> DEFINE h1 == ServedBy("GET", "onRead")  h2 == ServedBy("POST", "onCreate")
               h3 == ServedBy("DELETE", "onDelete")  h4 == ServedBy("PUT", "onUpdate")
               h5 == ServedBy("GET", "file")  T == {h1, h2, h3, h4, h5}
               s == <<h1, h2, h3, h4>>  t == <<h5>>  u == <<h1, h2, h3, h4, h5>>
    <2>1. v \in Routed => v = "http" /\ R = s \o t
      BY DEF Registered, Faithful, Transports
    <2> HIDE DEF R, h1, h2, h3, h4, h5
    <2>2. s \in Seq(T) /\ t \in Seq(T) /\ u \in Seq(T) /\ Len(s) = 4 /\ Len(t) = 1 /\ Len(u) = 5
      OBVIOUS
    <2>3. \A i \in 1..5 : u[i] = IF i <= 4 THEN s[i] ELSE t[i - 4]
      OBVIOUS
    <2> HIDE DEF T, s, t, u
    <2>4. s \o t = u
      <3>1. Len(u) = Len(s) + Len(t) /\ \A i \in 1..Len(u) : u[i] = IF i <= Len(s) THEN s[i] ELSE t[i - Len(s)]
        BY <2>2, <2>3
      <3> QED
        BY <2>2, <3>1, Joined
    <2> QED
      BY <2>1, <2>4 DEF u, h1, h2, h3, h4, h5
  <1>3. /\ DOMAIN R = IF v \in Routed THEN 1..5 ELSE 1..4
        /\ R[1] = ServedBy("GET", "onRead") /\ R[2] = ServedBy("POST", "onCreate")
        /\ R[3] = ServedBy("DELETE", "onDelete") /\ R[4] = ServedBy("PUT", "onUpdate")
        /\ v \in Routed => R[5] = ServedBy("GET", "file")
    BY <1>1, <1>2
  <1> HIDE DEF R
  <1>4. /\ HandlersFor(v, "GET") = IF v \in Routed THEN {1, 5} ELSE {1}
        /\ HandlersFor(v, "POST") = {2} /\ HandlersFor(v, "DELETE") = {3} /\ HandlersFor(v, "PUT") = {4}
    <2>1. /\ R[1].verb = "GET" /\ R[2].verb = "POST" /\ R[3].verb = "DELETE" /\ R[4].verb = "PUT"
          /\ v \in Routed => R[5].verb = "GET"
      BY <1>3 DEF ServedBy
    <2>2. \A w : HandlersFor(v, w) = {i \in DOMAIN R : R[i].verb = w}
      BY DEF HandlersFor, R
    <2>3. DOMAIN R = IF v \in Routed THEN {1, 2, 3, 4, 5} ELSE {1, 2, 3, 4}
      BY <1>3
    <2> HIDE DEF R
    <2> QED
      BY <2>1, <2>2, <2>3
  <1>5. /\ Min({1, 5}) = 1 /\ Min({1}) = 1 /\ Min({2}) = 2 /\ Min({3}) = 3 /\ Min({4}) = 4
        /\ Max({1}) = 1 /\ Max({2}) = 2 /\ Max({3}) = 3 /\ Max({4}) = 4
    BY DEF Min, Max
  <1>6. CASE v = "http"
    <2>1. \A w : HandlerFor(v, w) = R[Min(HandlersFor(v, w))].does
      BY <1>6 DEF HandlerFor, HttpServes, R
    <2> QED
      BY <1>3, <1>4, <1>5, <2>1 DEF ServedBy
  <1>7. CASE v = "websocket" /\ v \notin Routed
    <2>1. \A w : HandlerFor(v, w) = R[Max(HandlersFor(v, w))].does
      BY <1>7 DEF HandlerFor, WebSocketServes, R
    <2> QED
      BY <1>3, <1>4, <1>5, <1>7, <2>1 DEF ServedBy
  <1> QED
    BY <1>6, <1>7 DEF Faithful, Transports

\* A name is no slash, and neither is a plural.
LEMMA NoSlash == (\A n \in Names : n # Slash) /\ (\A c : Plural(c) # Slash)
  BY RoutingAssumption, Segments DEF Slash, Word

\* What a faithful broker makes of a request with each verb.
LEMMA Served ==
  ASSUME NEW v \in Faithful, NEW path, NEW body
  PROVE  /\ Route(v, Carried(v, Http("GET", path, NoBody))) = readResource(Trimmed(path))
         /\ Route(v, Carried(v, Http("POST", path, body))) = createResource(Trimmed(path), body)
         /\ Route(v, Carried(v, Http("PUT", path, body))) = updateResource(path, body)
         /\ Route(v, Carried(v, Http("DELETE", path, NoBody))) = deleteResource(Trimmed(path))
  <1>1. /\ Carried(v, Http("GET", path, NoBody)) = Http("GET", path, NoBody)
        /\ Carried(v, Http("POST", path, body)) = Http("POST", path, body)
        /\ Carried(v, Http("PUT", path, body)) = Http("PUT", path, body)
        /\ Carried(v, Http("DELETE", path, NoBody)) = Http("DELETE", path, NoBody)
    BY DEF Carried, HttpCarries, WebSocketCarries, Http
  <1> QED
    BY <1>1, Handlers DEF Route, Http

\* What is called on the proxy of a process is what it sends.
LEMMA Sent ==
  ASSUME NEW v \in Faithful, NEW x, x.method # "getChildrenClassObjectInfos"
  PROVE  Remote(v, x) = Route(v, Carried(v, ProxyRequest(x)))
  BY DEF Remote, Faithful

\* The create handler, given a class.
LEMMA CreateOne ==
  ASSUME NEW c \in Classes, NEW body
  PROVE  createResource(<<Plural(c)>>, body) = Core(Call("factory", "createObject", <<c, body>>))
  <1> DEFINE P == <<Plural(c)>>
  <1>1. OneClass(P) /\ ClassOf(P[1]) = c
    BY ClassOfPlural DEF OneClass
  <1>2. Unpatterned(P)
    BY Patterns, Length1 DEF Unpatterned
  <1> HIDE DEF P
  <1>3. createResource(P, body) = Core(Call("factory", "createObject", <<c, body>>))
    BY <1>1, <1>2 DEF createResource, Unpatterned
  <1> QED
    BY <1>3 DEF P

\* The create handler, given the connections of an end.
LEMMA CreateEnds ==
  ASSUME NEW n, NEW t, NEW body
  PROVE  /\ createResource(<<Plural("operation"), n, Word("outlet"), Plural("connection")>>, body)
              = Core(Call("outlet", "connectTo", <<n, body>>))
         /\ createResource(<<Plural("operation"), n, Plural("inlet"), t, Plural("connection")>>, body)
              = Core(Call("inlet", "connectTo", <<n, t, body>>))
  <1> DEFINE P == <<Plural("operation"), n, Word("outlet"), Plural("connection")>>
             Q == <<Plural("operation"), n, Plural("inlet"), t, Plural("connection")>>
  <1>1. /\ Lonely(P) /\ Fits4(P, Plural("operation"), Word("outlet"), Plural("connection")) /\ P[2] = n
        /\ Lonely(Q) /\ Fits5(Q, Plural("operation"), Plural("inlet"), t, Plural("connection"))
        /\ Q[2] = n /\ Q[4] = t
    BY LongPaths
  <1> HIDE DEF P, Q
  <1>2. createResource(P, body) = Core(Call("outlet", "connectTo", <<n, body>>))
    BY <1>1, Apart DEF createResource, Lonely, Fits4
  <1>3. createResource(Q, body) = Core(Call("inlet", "connectTo", <<n, t, body>>))
    BY <1>1, Apart DEF createResource, Lonely, Fits5
  <1> QED
    BY <1>2, <1>3 DEF P, Q

\* The update handler of inlets and operations.
LEMMA Updates ==
  ASSUME NEW n, NEW t, NEW body
  PROVE  /\ updateResource(<<Plural("operation"), n, Plural("inlet"), t>>, body)
              = Core(Call("inlet", "put", <<n, t, body>>))
         /\ updateResource(<<Plural("operation"), n, Word("call")>>, body)
              = Core(Call("operation", "call", <<n, body>>))
         /\ updateResource(<<Plural("operation"), n, Word("invoke")>>, body)
              = Core(Call("operation", "invoke", <<n>>))
         /\ updateResource(<<Plural("operation"), n, Word("execute")>>, body)
              = Core(Call("operation", "execute", <<n>>))
  <1>1. ASSUME NEW P, Fits4(P, Plural("operation"), Plural("inlet"), t), P[2] = n, P[4] = t
        PROVE  updateResource(P, body) = Core(Call("inlet", "put", <<n, t, body>>))
    BY <1>1, Apart DEF updateResource, Fits4
  <1>2. ASSUME NEW P, NEW w, Fits3(P, Plural("operation"), w), P[2] = n
        PROVE  /\ w = Word("call") => updateResource(P, body) = Core(Call("operation", "call", <<n, body>>))
               /\ w = Word("invoke") => updateResource(P, body) = Core(Call("operation", "invoke", <<n>>))
               /\ w = Word("execute") => updateResource(P, body) = Core(Call("operation", "execute", <<n>>))
    BY <1>2, Apart DEF updateResource, Fits3
  <1>3. \A w : <<Plural("operation"), n, w>>[2] = n /\ Fits3(<<Plural("operation"), n, w>>, Plural("operation"), w)
    BY LongPaths
  <1>4. /\ <<Plural("operation"), n, Plural("inlet"), t>>[2] = n
        /\ <<Plural("operation"), n, Plural("inlet"), t>>[4] = t
        /\ Fits4(<<Plural("operation"), n, Plural("inlet"), t>>, Plural("operation"), Plural("inlet"), t)
    BY LongPaths
  <1> QED
    BY <1>1, <1>2, <1>3, <1>4

\* The delete handler deletes connections only, and those do not go.
LEMMA Deletes ==
  /\ \A c, n : deleteResource(<<Plural(c), n>>)
       = IF c = "connection" THEN Core(Call("connection", "deleteConnection", <<n>>)) ELSE Error
  /\ \A a, b, c, d : deleteResource(<<a, b, c, d>>) = Error
  /\ \A a, b, c, d, e : deleteResource(<<a, b, c, d, e>>) = Error
  <1>1. \A c, n : deleteResource(<<Plural(c), n>>)
       = IF c = "connection" THEN Core(Call("connection", "deleteConnection", <<n>>)) ELSE Error
    <2> TAKE c, n
    <2> DEFINE P == <<Plural(c), n>>
    <2>1. P[2] = n /\ (Matches(P, <<Plural("connection"), Any>>) <=> c = "connection")
      <3>1. Matches(P, <<Plural("connection"), Any>>) <=> Plural("connection") = Any \/ Plural(c) = Plural("connection")
        BY Length2
      <3>2. Plural(c) = Plural("connection") <=> c = "connection"
        BY DEF Plural
      <3> QED
        BY <3>1, <3>2, Apart
    <2> HIDE DEF P
    <2>2. deleteResource(P) = IF c = "connection" THEN Core(Call("connection", "deleteConnection", <<n>>)) ELSE Error
      BY <2>1 DEF deleteResource
    <2> QED
      BY <2>2 DEF P
  <1>2. \A a, b, c, d : deleteResource(<<a, b, c, d>>) = Error
    BY LongPaths DEF deleteResource
  <1>3. \A a, b, c, d, e : deleteResource(<<a, b, c, d, e>>) = Error
    BY LongPaths DEF deleteResource
  <1> QED
    BY <1>1, <1>2, <1>3

\* What each part of the interface does, called on the proxy of another process:
\* objects are created, and only connections deleted.
LEMMA FactoryRemote ==
  ASSUME NEW v \in Faithful, NEW c \in Classes
  PROVE  /\ \A b : Remote(v, Call("factory", "createObject", <<c, b>>)) = Core(Call("factory", "createObject", <<c, b>>))
         /\ c # "connection" => \A n \in Names : Remote(v, Call("factory", "deleteObject", <<c, n>>)) = Error
  <1>1. ASSUME NEW b
        PROVE  Remote(v, Call("factory", "createObject", <<c, b>>)) = Core(Call("factory", "createObject", <<c, b>>))
    <2> DEFINE x == Call("factory", "createObject", <<c, b>>)
    <2>1. x.method = "createObject" /\ ProxyRequest(x) = Http("POST", <<Plural(c), Slash>>, b)
      BY DEF Call, ProxyRequest, FactoryPath
    <2> HIDE DEF x
    <2>2. Remote(v, x) = createResource(<<Plural(c)>>, b)
      BY <2>1, Sent, Served, Trims
    <2> QED
      BY <2>2, CreateOne DEF x
  <1>2. ASSUME NEW n \in Names, c # "connection"
        PROVE  Remote(v, Call("factory", "deleteObject", <<c, n>>)) = Error
    <2> DEFINE x == Call("factory", "deleteObject", <<c, n>>)
    <2>1. x.method = "deleteObject" /\ ProxyRequest(x) = Http("DELETE", <<Plural(c), n>>, NoBody)
      BY DEF Call, ProxyRequest, FactoryPath
    <2> HIDE DEF x
    <2>2. Remote(v, x) = deleteResource(<<Plural(c), n>>)
      BY <2>1, Sent, Served, Trims, NoSlash
    <2> QED
      BY <1>2, <2>2, Deletes DEF x
  <1> QED
    BY <1>1, <1>2

\* What is asked of the store of another process.
LEMMA StoreRemote ==
  ASSUME NEW v \in Faithful, NEW c \in Classes, NEW n \in Names
  PROVE  /\ Remote(v, Call("store", "getObjectInfo", <<c, n>>)) = Core(Call("store", "getObjectInfo", <<c, n>>))
         /\ Remote(v, Call("store", "getClassObjectInfos", <<c>>)) = Core(Call("store", "getClassObjectInfos", <<c>>))
         /\ Remote(v, Call("store", "getChildrenClassObjectInfos", <<n, c>>)) = Empty
  <1> DEFINE x == Call("store", "getObjectInfo", <<c, n>>)
             y == Call("store", "getClassObjectInfos", <<c>>)
             z == Call("store", "getChildrenClassObjectInfos", <<n, c>>)
  <1>1. /\ x.method = "getObjectInfo" /\ ProxyRequest(x) = Http("GET", <<Plural(c), n>>, NoBody)
        /\ y.method = "getClassObjectInfos" /\ ProxyRequest(y) = Http("GET", <<Plural(c), Slash>>, NoBody)
        /\ z.method = "getChildrenClassObjectInfos"
    BY DEF Call, ProxyRequest, StorePath
  <1> HIDE DEF x, y, z
  <1>2. Remote(v, x) = readResource(<<Plural(c), n>>)
    BY <1>1, Sent, Served, Trims, NoSlash
  <1>3. Remote(v, y) = readResource(<<Plural(c)>>)
    BY <1>1, Sent, Served, Trims
  <1>4. Remote(v, z) = Empty
    BY <1>1 DEF Remote, Faithful
  <1> QED
    BY <1>2, <1>3, <1>4, ReadClass, ReadObject DEF x, y, z

\* What is asked of an operation of another process.
LEMMA OperationRemote ==
  ASSUME NEW v \in Faithful, NEW n \in Names
  PROVE  /\ \A f \in {"fullInfo", "invoke", "execute", "inlets"} :
              Remote(v, Call("operation", f, <<n>>)) = Core(Call("operation", f, <<n>>))
         /\ \A b : Remote(v, Call("operation", "call", <<n, b>>)) = Core(Call("operation", "call", <<n, b>>))
  <1>1. ASSUME NEW f \in {"fullInfo", "inlets"}
        PROVE  Remote(v, Call("operation", f, <<n>>)) = Core(Call("operation", f, <<n>>))
    <2> DEFINE x == Call("operation", f, <<n>>)  w == IF f = "inlets" THEN Plural("inlet") ELSE Word("fullInfo")
               P == <<Plural("operation"), n, w>>
    <2>1. x.method = f /\ ProxyRequest(x) = Http("GET", P, NoBody)
      BY DEF Call, ProxyRequest, OperationPath
    <2>2. w # Slash
      BY Apart
    <2>3. Trimmed(P) = P /\ Lonely(P) /\ Fits3(P, Plural("operation"), w) /\ P[2] = n
      BY <2>2, Trims, LongPaths
    <2> HIDE DEF x, P
    <2>4. Remote(v, x) = readResource(P)
      BY <2>1, <2>3, Sent, Served
    <2>5. readResource(P) = Core(Call("operation", f, <<n>>))
      BY <2>3, ReadThree
    <2> QED
      BY <2>4, <2>5 DEF x
  <1>2. ASSUME NEW f \in {"invoke", "execute"}
        PROVE  Remote(v, Call("operation", f, <<n>>)) = Core(Call("operation", f, <<n>>))
    <2> DEFINE x == Call("operation", f, <<n>>)
    <2>1. x.method = f /\ ProxyRequest(x) = Http("PUT", <<Plural("operation"), n, Word(f)>>, NoBody)
      BY DEF Call, ProxyRequest, OperationPath
    <2> HIDE DEF x
    <2>2. Remote(v, x) = updateResource(<<Plural("operation"), n, Word(f)>>, NoBody)
      BY <2>1, Sent, Served
    <2> QED
      BY <2>2, Updates DEF x
  <1>3. ASSUME NEW b
        PROVE  Remote(v, Call("operation", "call", <<n, b>>)) = Core(Call("operation", "call", <<n, b>>))
    <2> DEFINE x == Call("operation", "call", <<n, b>>)
    <2>1. x.method = "call" /\ ProxyRequest(x) = Http("PUT", <<Plural("operation"), n, Word("call")>>, b)
      BY DEF Call, ProxyRequest, OperationPath
    <2> HIDE DEF x
    <2>2. Remote(v, x) = updateResource(<<Plural("operation"), n, Word("call")>>, b)
      BY <2>1, Sent, Served
    <2> QED
      BY <2>2, Updates DEF x
  <1> QED
    BY <1>1, <1>2, <1>3

\* The paths of ends, written out.
LEMMA Behind ==
  /\ \A a, n, b, c : <<a, n, b>> \o <<c>> = <<a, n, b, c>>
  /\ \A a, n, b, c, d : <<a, n, b>> \o <<c, d>> = <<a, n, b, c, d>>
  /\ \A a, n, b, t, c : <<a, n, b, t>> \o <<c>> = <<a, n, b, t, c>>
  /\ \A a, n, b, t, c, d : <<a, n, b, t>> \o <<c, d>> = <<a, n, b, t, c, d>>
  <1>1. \A a, n, b, c : <<a, n, b>> \o <<c>> = <<a, n, b, c>>
    <2> TAKE a, n, b, c
    <2> DEFINE T == {a, n, b, c}  s == <<a, n, b>>  t == <<c>>  u == <<a, n, b, c>>
    <2>1. s \in Seq(T) /\ t \in Seq(T) /\ u \in Seq(T) /\ Len(s) = 3 /\ Len(t) = 1 /\ Len(u) = 4
      OBVIOUS
    <2>2. \A i \in 1..4 : u[i] = IF i <= 3 THEN s[i] ELSE t[i - 3]
      OBVIOUS
    <2> HIDE DEF T, s, t, u
    <2>3. Len(u) = Len(s) + Len(t) /\ \A i \in 1..Len(u) : u[i] = IF i <= Len(s) THEN s[i] ELSE t[i - Len(s)]
      BY <2>1, <2>2
    <2>4. s \o t = u
      BY <2>1, <2>3, Joined
    <2> QED
      BY <2>4 DEF s, t, u
  <1>2. \A a, n, b, c, d : <<a, n, b>> \o <<c, d>> = <<a, n, b, c, d>>
    <2> TAKE a, n, b, c, d
    <2> DEFINE T == {a, n, b, c, d}  s == <<a, n, b>>  t == <<c, d>>  u == <<a, n, b, c, d>>
    <2>1. s \in Seq(T) /\ t \in Seq(T) /\ u \in Seq(T) /\ Len(s) = 3 /\ Len(t) = 2 /\ Len(u) = 5
      OBVIOUS
    <2>2. \A i \in 1..5 : u[i] = IF i <= 3 THEN s[i] ELSE t[i - 3]
      OBVIOUS
    <2> HIDE DEF T, s, t, u
    <2>3. Len(u) = Len(s) + Len(t) /\ \A i \in 1..Len(u) : u[i] = IF i <= Len(s) THEN s[i] ELSE t[i - Len(s)]
      BY <2>1, <2>2
    <2>4. s \o t = u
      BY <2>1, <2>3, Joined
    <2> QED
      BY <2>4 DEF s, t, u
  <1>3. \A a, n, b, t, c : <<a, n, b, t>> \o <<c>> = <<a, n, b, t, c>>
    <2> TAKE a, n, b, f, c
    <2> DEFINE T == {a, n, b, f, c}  s == <<a, n, b, f>>  t == <<c>>  u == <<a, n, b, f, c>>
    <2>1. s \in Seq(T) /\ t \in Seq(T) /\ u \in Seq(T) /\ Len(s) = 4 /\ Len(t) = 1 /\ Len(u) = 5
      OBVIOUS
    <2>2. \A i \in 1..5 : u[i] = IF i <= 4 THEN s[i] ELSE t[i - 4]
      OBVIOUS
    <2> HIDE DEF T, s, t, u
    <2>3. Len(u) = Len(s) + Len(t) /\ \A i \in 1..Len(u) : u[i] = IF i <= Len(s) THEN s[i] ELSE t[i - Len(s)]
      BY <2>1, <2>2
    <2>4. s \o t = u
      BY <2>1, <2>3, Joined
    <2> QED
      BY <2>4 DEF s, t, u
  <1>4. \A a, n, b, t, c, d : <<a, n, b, t>> \o <<c, d>> = <<a, n, b, t, c, d>>
    <2> TAKE a, n, b, f, c, d
    <2> DEFINE T == {a, n, b, f, c, d}  s == <<a, n, b, f>>  t == <<c, d>>  u == <<a, n, b, f, c, d>>
    <2>1. s \in Seq(T) /\ t \in Seq(T) /\ u \in Seq(T) /\ Len(s) = 4 /\ Len(t) = 2 /\ Len(u) = 6
      OBVIOUS
    <2>2. \A i \in 1..6 : u[i] = IF i <= 4 THEN s[i] ELSE t[i - 4]
      OBVIOUS
    <2> HIDE DEF T, s, t, u
    <2>3. Len(u) = Len(s) + Len(t) /\ \A i \in 1..Len(u) : u[i] = IF i <= Len(s) THEN s[i] ELSE t[i - Len(s)]
      BY <2>1, <2>2
    <2>4. s \o t = u
      BY <2>1, <2>3, Joined
    <2> QED
      BY <2>4 DEF s, t, u
  <1> QED
    BY <1>1, <1>2, <1>3, <1>4

\* What is asked of an outlet of another process.
LEMMA OutletRemote ==
  ASSUME NEW v \in Faithful, NEW n \in Names
  PROVE  /\ \A f \in {"get", "connections", "info"} :
              Remote(v, Call("outlet", f, <<n>>)) = Core(Call("outlet", f, <<n>>))
         /\ \A b : Remote(v, Call("outlet", "connectTo", <<n, b>>)) = Core(Call("outlet", "connectTo", <<n, b>>))
         /\ \A b : Remote(v, Call("outlet", "disconnectFrom", <<n, b>>)) = Error
  <1>1. Remote(v, Call("outlet", "get", <<n>>)) = Core(Call("outlet", "get", <<n>>))
    <2> DEFINE x == Call("outlet", "get", <<n>>)  P == <<Plural("operation"), n, Word("outlet")>>
    <2>1. x.method = "get" /\ ProxyRequest(x) = Http("GET", P, NoBody)
      BY DEF Call, ProxyRequest, OutletPath
    <2>2. Trimmed(P) = P /\ Lonely(P) /\ Fits3(P, Plural("operation"), Word("outlet")) /\ P[2] = n
      BY Apart, Trims, LongPaths
    <2> HIDE DEF x, P
    <2>3. Remote(v, x) = readResource(P)
      BY <2>1, <2>2, Sent, Served
    <2>4. readResource(P) = Core(Call("outlet", "get", <<n>>))
      BY <2>2, ReadThree
    <2> QED
      BY <2>3, <2>4 DEF x
  <1>2. ASSUME NEW f \in {"connections", "info"}
        PROVE  Remote(v, Call("outlet", f, <<n>>)) = Core(Call("outlet", f, <<n>>))
    <2> DEFINE x == Call("outlet", f, <<n>>)  w == IF f = "info" THEN Word("info") ELSE Plural("connection")
               P == <<Plural("operation"), n, Word("outlet"), w>>
    <2>1. x.method = f /\ ProxyRequest(x) = Http("GET", P, NoBody)
      <3>1. <<Plural("operation"), n, Word("outlet")>> \o <<w>> = P
        BY Behind
      <3>2. x.method = f /\ ProxyRequest(x) = Http("GET", <<Plural("operation"), n, Word("outlet")>> \o <<w>>, NoBody)
        BY DEF Call, ProxyRequest, OutletPath
      <3> QED
        BY <3>1, <3>2
    <2>2. w # Slash
      BY Apart
    <2>3. Trimmed(P) = P /\ Lonely(P) /\ Fits4(P, Plural("operation"), Word("outlet"), w) /\ P[2] = n /\ P[4] = w
      BY <2>2, Trims, LongPaths
    <2> HIDE DEF x, P
    <2>4. Remote(v, x) = readResource(P)
      BY <2>1, <2>3, Sent, Served
    <2>5. readResource(P) = Core(Call("outlet", f, <<n>>))
      BY <2>3, ReadFour
    <2> QED
      BY <2>4, <2>5 DEF x
  <1>3. ASSUME NEW b
        PROVE  Remote(v, Call("outlet", "connectTo", <<n, b>>)) = Core(Call("outlet", "connectTo", <<n, b>>))
    <2> DEFINE x == Call("outlet", "connectTo", <<n, b>>)
               P == <<Plural("operation"), n, Word("outlet"), Plural("connection"), Slash>>
               Q == <<Plural("operation"), n, Word("outlet"), Plural("connection")>>
    <2>1. x.method = "connectTo" /\ ProxyRequest(x) = Http("POST", P, b)
      <3>1. <<Plural("operation"), n, Word("outlet")>> \o <<Plural("connection"), Slash>> = P
        BY Behind
      <3>2. x.method = "connectTo" /\ ProxyRequest(x) = Http("POST", <<Plural("operation"), n, Word("outlet")>> \o <<Plural("connection"), Slash>>, b)
        BY DEF Call, ProxyRequest, OutletPath
      <3> QED
        BY <3>1, <3>2
    <2>2. Trimmed(P) = Q
      BY Trims
    <2> HIDE DEF x, P
    <2>3. Remote(v, x) = createResource(Q, b)
      BY <2>1, <2>2, Sent, Served
    <2> QED
      BY <2>3, CreateEnds DEF x
  <1>4. ASSUME NEW b
        PROVE  Remote(v, Call("outlet", "disconnectFrom", <<n, b>>)) = Error
    <2> DEFINE x == Call("outlet", "disconnectFrom", <<n, b>>)
               P == <<Plural("operation"), n, Word("outlet"), Plural("connection"), Word("name")>>
    <2>1. x.method = "disconnectFrom" /\ ProxyRequest(x) = Http("DELETE", P, NoBody)
      <3>1. <<Plural("operation"), n, Word("outlet")>> \o <<Plural("connection"), Word("name")>> = P
        BY Behind
      <3>2. x.method = "disconnectFrom" /\ ProxyRequest(x) = Http("DELETE", <<Plural("operation"), n, Word("outlet")>> \o <<Plural("connection"), Word("name")>>, NoBody)
        BY DEF Call, ProxyRequest, OutletPath
      <3> QED
        BY <3>1, <3>2
    <2>2. Trimmed(P) = P /\ deleteResource(P) = Error
      BY Trims, Apart, Deletes
    <2> HIDE DEF x, P
    <2>3. Remote(v, x) = deleteResource(P)
      BY <2>1, <2>2, Sent, Served
    <2> QED
      BY <2>2, <2>3 DEF x
  <1> QED
    BY <1>1, <1>2, <1>3, <1>4

\* What is asked of an inlet of another process.
LEMMA InletRemote ==
  ASSUME NEW v \in Faithful, NEW n \in Names, NEW t \in Names
  PROVE  /\ \A f \in {"get", "info", "connections"} :
              Remote(v, Call("inlet", f, <<n, t>>)) = Core(Call("inlet", f, <<n, t>>))
         /\ Remote(v, Call("inlet", "defaultValue", <<n, t>>)) = Empty
         /\ \A f \in {"name", "isUpdated"} : Remote(v, Call("inlet", f, <<n, t>>)) = Error
         /\ \A b : Remote(v, Call("inlet", "put", <<n, t, b>>)) = Core(Call("inlet", "put", <<n, t, b>>))
         /\ \A b : Remote(v, Call("inlet", "connectTo", <<n, t, b>>)) = Core(Call("inlet", "connectTo", <<n, t, b>>))
         /\ \A b : Remote(v, Call("inlet", "disconnectFrom", <<n, t, b>>)) = Error
  <1>1. Remote(v, Call("inlet", "get", <<n, t>>)) = Core(Call("inlet", "get", <<n, t>>))
    <2> DEFINE x == Call("inlet", "get", <<n, t>>)  P == <<Plural("operation"), n, Plural("inlet"), t>>
    <2>1. x.method = "get" /\ ProxyRequest(x) = Http("GET", P, NoBody)
      BY DEF Call, ProxyRequest, InletPath
    <2>2. Trimmed(P) = P /\ Lonely(P) /\ Fits4(P, Plural("operation"), Plural("inlet"), t) /\ P[2] = n /\ P[4] = t
      BY NoSlash, Trims, LongPaths
    <2> HIDE DEF x, P
    <2>3. Remote(v, x) = readResource(P)
      BY <2>1, <2>2, Sent, Served
    <2>4. readResource(P) = Core(Call("inlet", "get", <<n, t>>))
      BY <2>2, ReadFour
    <2> QED
      BY <2>3, <2>4 DEF x
  <1>2. ASSUME NEW f \in {"info", "connections", "defaultValue", "name", "isUpdated"}
        PROVE  Remote(v, Call("inlet", f, <<n, t>>)) =
                 CASE f \in {"info", "connections"} -> Core(Call("inlet", f, <<n, t>>))
                   [] f = "defaultValue" -> Empty
                   [] OTHER -> Error
    <2> DEFINE x == Call("inlet", f, <<n, t>>)  w == IF f = "connections" THEN Plural("connection") ELSE Word(f)
               P == <<Plural("operation"), n, Plural("inlet"), t, w>>
    <2>1. x.method = f /\ ProxyRequest(x) = Http("GET", P, NoBody)
      <3>1. <<Plural("operation"), n, Plural("inlet"), t>> \o <<w>> = P
        BY Behind
      <3>2. x.method = f /\ ProxyRequest(x) = Http("GET", <<Plural("operation"), n, Plural("inlet"), t>> \o <<w>>, NoBody)
        BY DEF Call, ProxyRequest, InletPath
      <3> QED
        BY <3>1, <3>2
    <2>2. w # Slash
      BY Apart
    <2>3. Trimmed(P) = P /\ Lonely(P) /\ Fits5(P, Plural("operation"), Plural("inlet"), t, w) /\ P[2] = n /\ P[4] = t
      BY <2>2, Trims, LongPaths
    <2> HIDE DEF x, P
    <2>4. Remote(v, x) = readResource(P)
      BY <2>1, <2>3, Sent, Served
    <2>5. readResource(P) = CASE f \in {"info", "connections"} -> Core(Call("inlet", f, <<n, t>>))
                   [] f = "defaultValue" -> Empty
                   [] OTHER -> Error
      BY <2>3, ReadFive
    <2> QED
      BY <2>4, <2>5 DEF x
  <1>3. ASSUME NEW b
        PROVE  Remote(v, Call("inlet", "put", <<n, t, b>>)) = Core(Call("inlet", "put", <<n, t, b>>))
    <2> DEFINE x == Call("inlet", "put", <<n, t, b>>)  P == <<Plural("operation"), n, Plural("inlet"), t>>
    <2>1. x.method = "put" /\ ProxyRequest(x) = Http("PUT", P, b)
      BY DEF Call, ProxyRequest, InletPath
    <2> HIDE DEF x
    <2>2. Remote(v, x) = updateResource(P, b)
      BY <2>1, Sent, Served
    <2> QED
      BY <2>2, Updates DEF x
  <1>4. ASSUME NEW b
        PROVE  Remote(v, Call("inlet", "connectTo", <<n, t, b>>)) = Core(Call("inlet", "connectTo", <<n, t, b>>))
    <2> DEFINE x == Call("inlet", "connectTo", <<n, t, b>>)
               P == <<Plural("operation"), n, Plural("inlet"), t, Plural("connection"), Slash>>
               Q == <<Plural("operation"), n, Plural("inlet"), t, Plural("connection")>>
    <2>1. x.method = "connectTo" /\ ProxyRequest(x) = Http("POST", P, b)
      <3>1. <<Plural("operation"), n, Plural("inlet"), t>> \o <<Plural("connection"), Slash>> = P
        BY Behind
      <3>2. x.method = "connectTo" /\ ProxyRequest(x) = Http("POST", <<Plural("operation"), n, Plural("inlet"), t>> \o <<Plural("connection"), Slash>>, b)
        BY DEF Call, ProxyRequest, InletPath
      <3> QED
        BY <3>1, <3>2
    <2>2. Trimmed(P) = Q
      BY Trims
    <2> HIDE DEF x, P
    <2>3. Remote(v, x) = createResource(Q, b)
      BY <2>1, <2>2, Sent, Served
    <2> QED
      BY <2>3, CreateEnds DEF x
  <1>5. ASSUME NEW b
        PROVE  Remote(v, Call("inlet", "disconnectFrom", <<n, t, b>>)) = Error
    <2> DEFINE x == Call("inlet", "disconnectFrom", <<n, t, b>>)
               P == <<Plural("operation"), n, Plural("inlet"), t, Plural("connection"), Word("name")>>
    <2>1. x.method = "disconnectFrom" /\ ProxyRequest(x) = Http("DELETE", P, NoBody)
      <3>1. <<Plural("operation"), n, Plural("inlet"), t>> \o <<Plural("connection"), Word("name")>> = P
        BY Behind
      <3>2. x.method = "disconnectFrom" /\ ProxyRequest(x) = Http("DELETE", <<Plural("operation"), n, Plural("inlet"), t>> \o <<Plural("connection"), Word("name")>>, NoBody)
        BY DEF Call, ProxyRequest, InletPath
      <3> QED
        BY <3>1, <3>2
    <2>2. Matches(P, <<Plural("connection"), Any>>) = FALSE
      BY DEF Matches
    <2>3. Trimmed(P) = P
      BY Apart DEF Trimmed
    <2> HIDE DEF x, P
    <2>4. Remote(v, x) = deleteResource(P)
      BY <2>1, <2>3, Sent, Served
    <2> QED
      BY <2>2, <2>4 DEF x, deleteResource
  <1> QED
    BY <1>1, <1>2, <1>3, <1>4, <1>5

\* What is asked about connections of another process.
LEMMA ConnectionRemote ==
  ASSUME NEW v \in Faithful
  PROVE  /\ \A b : Remote(v, Call("connection", "createConnection", <<b>>)) = Core(Call("connection", "createConnection", <<b>>))
         /\ \A n \in Names : Remote(v, Call("connection", "deleteConnection", <<n>>)) = Core(Call("connection", "deleteConnection", <<n>>))
  <1>1. ASSUME NEW b
        PROVE  Remote(v, Call("connection", "createConnection", <<b>>)) = Core(Call("connection", "createConnection", <<b>>))
    <2> DEFINE x == Call("connection", "createConnection", <<b>>)
    <2>1. x.method = "createConnection" /\ ProxyRequest(x) = Http("POST", <<Plural("connection"), Slash>>, b)
      BY DEF Call, ProxyRequest, ConnectionPath
    <2> HIDE DEF x
    <2>2. Remote(v, x) = createResource(<<Plural("connection")>>, b)
      BY <2>1, Sent, Served, Trims
    <2>3. createResource(<<Plural("connection")>>, b) = Core(Call("factory", "createObject", <<"connection", b>>))
      BY CreateOne DEF Classes
    <2>4. Core(Call("factory", "createObject", <<"connection", b>>)) = Does(<<"create", "connection">>, <<b>>)
      BY DEF Core, Call, CoreCreate
    <2>5. Core(x) = Does(<<"create", "connection">>, <<b>>)
      BY DEF Core, Call, CoreConnection, x
    <2> QED
      BY <2>2, <2>3, <2>4, <2>5 DEF x
  <1>2. ASSUME NEW n \in Names
        PROVE  Remote(v, Call("connection", "deleteConnection", <<n>>)) = Core(Call("connection", "deleteConnection", <<n>>))
    <2> DEFINE x == Call("connection", "deleteConnection", <<n>>)
    <2>1. x.method = "deleteConnection" /\ ProxyRequest(x) = Http("GET", <<Plural("connection"), n>>, NoBody)
      BY DEF Call, ProxyRequest, ConnectionPath
    <2> HIDE DEF x
    <2>2. Remote(v, x) = readResource(<<Plural("connection"), n>>)
      BY <2>1, Sent, Served, Trims, NoSlash
    <2>3. readResource(<<Plural("connection"), n>>) = Core(Call("store", "getObjectInfo", <<"connection", n>>))
      BY ReadObject DEF Classes
    <2>4. Core(Call("store", "getObjectInfo", <<"connection", n>>)) = Does(<<"info", "connection">>, <<n>>)
      BY DEF Core, Call, CoreInfo
    <2>5. Core(x) = Does(<<"info", "connection">>, <<n>>)
      BY DEF Core, Call, CoreConnection, DeleteConnection, x
    <2> QED
      BY <2>2, <2>3, <2>4, <2>5 DEF x
  <1> QED
    BY <1>1, <1>2

\* What is asked of a container of another process.
LEMMA ContainerRemote ==
  ASSUME NEW v \in Faithful, NEW n \in Names, NEW f \in {"operations", "fullInfo"}
  PROVE  Remote(v, Call("container", f, <<n>>)) = Core(Call("container", f, <<n>>))
  <1> DEFINE x == Call("container", f, <<n>>)
             w == IF f = "operations" THEN Plural("operation") ELSE Word("fullInfo")
             P == <<Plural("container"), n, w>>
  <1>1. x.method = f /\ ProxyRequest(x) = Http("GET", P, NoBody)
    BY DEF Call, ProxyRequest, ContainerPath
  <1>2. w # Slash
    BY Apart
  <1>3. Trimmed(P) = P /\ Lonely(P) /\ Fits3(P, Plural("container"), w) /\ P[2] = n
    BY <1>2, Trims, LongPaths
  <1> HIDE DEF x, P
  <1>4. Remote(v, x) = readResource(P)
    BY <1>1, <1>3, Sent, Served
  <1>5. readResource(P) = Core(Call("container", f, <<n>>))
    BY <1>3, ReadThree
  <1> QED
    BY <1>4, <1>5 DEF x

\* What is asked of another process itself.
LEMMA ProcessRemote ==
  ASSUME NEW v \in Faithful, NEW f \in {"getProcessInfo", "getProcessFullInfo"}
  PROVE  Remote(v, Call("process", f, <<>>)) = Core(Call("process", f, <<>>))
  <1> DEFINE x == Call("process", f, <<>>)
             w == IF f = "getProcessInfo" THEN Word("info") ELSE Word("fullInfo")
  <1>1. x.method = f /\ ProxyRequest(x) = Http("GET", <<w>>, NoBody)
    BY DEF Call, ProxyRequest, ProcessPath
  <1>2. w # Slash
    BY Apart
  <1> HIDE DEF x
  <1>3. Remote(v, x) = readResource(<<w>>)
    BY <1>1, <1>2, Sent, Served, Trims
  <1> QED
    BY <1>3, ReadProcess DEF x

\* The forms of the calls of operations.
LEMMA OperationForms ==
  ASSUME NEW x \in OperationCalls
  PROVE  \/ \E f \in {"fullInfo", "invoke", "execute", "inlets"}, n \in Names : x = Call("operation", f, <<n>>)
         \/ \E n \in Names, b \in Payloads : x = Call("operation", "call", <<n, b>>)
  <1> DEFINE F == {"fullInfo", "invoke", "execute", "inlets"}
             A == {Call("operation", f, <<n>>) : f \in F, n \in Names}
             B == {Call("operation", "call", <<n, b>>) : n \in Names, b \in Payloads}
  <1>1. OperationCalls = A \cup B
    BY DEF OperationCalls
  <1> HIDE DEF F
  <1>2. ASSUME x \in A PROVE \E f \in F, n \in Names : x = Call("operation", f, <<n>>)
    BY <1>2
  <1>3. ASSUME x \in B PROVE \E n \in Names, b \in Payloads : x = Call("operation", "call", <<n, b>>)
    BY <1>3
  <1> HIDE DEF A, B
  <1>4. x \in A \/ x \in B
    BY <1>1
  <1> QED
    BY <1>2, <1>3, <1>4 DEF F

\* The forms of the calls of inlets.
LEMMA InletForms ==
  ASSUME NEW x \in InletCalls
  PROVE  \/ \E f \in {"name", "defaultValue", "get", "info", "isUpdated", "connections"}, n \in Names, t \in Names : x = Call("inlet", f, <<n, t>>)
         \/ \E f \in {"put", "connectTo", "disconnectFrom"}, n \in Names, t \in Names, b \in Payloads : x = Call("inlet", f, <<n, t, b>>)
  <1> DEFINE F == {"name", "defaultValue", "get", "info", "isUpdated", "connections"}
             G == {"put", "connectTo", "disconnectFrom"}
             A == {Call("inlet", f, <<n, t>>) : f \in F, n \in Names, t \in Names}
             B == {Call("inlet", f, <<n, t, b>>) : f \in G, n \in Names, t \in Names, b \in Payloads}
  <1>1. InletCalls = A \cup B
    BY DEF InletCalls
  <1> HIDE DEF F, G
  <1>2. ASSUME x \in A PROVE \E f \in F, n \in Names, t \in Names : x = Call("inlet", f, <<n, t>>)
    BY <1>2
  <1>3. ASSUME x \in B PROVE \E f \in G, n \in Names, t \in Names, b \in Payloads : x = Call("inlet", f, <<n, t, b>>)
    BY <1>3
  <1> HIDE DEF A, B
  <1>4. x \in A \/ x \in B
    BY <1>1
  <1> QED
    BY <1>2, <1>3, <1>4 DEF F, G

\* The forms of the uses of operations.
LEMMA OperationUseForms ==
  ASSUME NEW x \in OperationUses
  PROVE  \/ \E f \in {"info", "fullInfo", "invoke", "execute", "inlets"}, n \in Names : x = Use("operation", f, <<n>>)
         \/ \E n \in Names, b \in Payloads : x = Use("operation", "call", <<n, b>>)
  <1> DEFINE F == {"info", "fullInfo", "invoke", "execute", "inlets"}
             A == {Use("operation", f, <<n>>) : f \in F, n \in Names}
             B == {Use("operation", "call", <<n, b>>) : n \in Names, b \in Payloads}
  <1>1. OperationUses = A \cup B
    BY DEF OperationUses
  <1> HIDE DEF F
  <1>2. ASSUME x \in A PROVE \E f \in F, n \in Names : x = Use("operation", f, <<n>>)
    BY <1>2
  <1>3. ASSUME x \in B PROVE \E n \in Names, b \in Payloads : x = Use("operation", "call", <<n, b>>)
    BY <1>3
  <1> HIDE DEF A, B
  <1>4. x \in A \/ x \in B
    BY <1>1
  <1> QED
    BY <1>2, <1>3, <1>4 DEF F

\* The forms of the uses of inlets.
LEMMA InletUseForms ==
  ASSUME NEW x \in InletUses
  PROVE  \/ \E f \in {"defaultValue", "get", "info", "isUpdated", "connections", "executeOwner"}, n \in Names, t \in Names : x = Use("inlet", f, <<n, t>>)
         \/ \E f \in {"put", "connectTo"}, n \in Names, t \in Names, b \in Payloads : x = Use("inlet", f, <<n, t, b>>)
  <1> DEFINE F == {"defaultValue", "get", "info", "isUpdated", "connections", "executeOwner"}
             G == {"put", "connectTo"}
             A == {Use("inlet", f, <<n, t>>) : f \in F, n \in Names, t \in Names}
             B == {Use("inlet", f, <<n, t, b>>) : f \in G, n \in Names, t \in Names, b \in Payloads}
  <1>1. InletUses = A \cup B
    BY DEF InletUses
  <1> HIDE DEF F, G
  <1>2. ASSUME x \in A PROVE \E f \in F, n \in Names, t \in Names : x = Use("inlet", f, <<n, t>>)
    BY <1>2
  <1>3. ASSUME x \in B PROVE \E f \in G, n \in Names, t \in Names, b \in Payloads : x = Use("inlet", f, <<n, t, b>>)
    BY <1>3
  <1> HIDE DEF A, B
  <1>4. x \in A \/ x \in B
    BY <1>1
  <1> QED
    BY <1>2, <1>3, <1>4 DEF F, G

\* The forms of the uses of outlets.
LEMMA OutletUseForms ==
  ASSUME NEW x \in OutletUses
  PROVE  \/ \E f \in {"get", "connections", "info", "invokeOwner"}, n \in Names : x = Use("outlet", f, <<n>>)
         \/ \E f \in {"connectTo", "disconnectFrom"}, n \in Names, b \in Payloads : x = Use("outlet", f, <<n, b>>)
  <1> DEFINE F == {"get", "connections", "info", "invokeOwner"}
             G == {"connectTo", "disconnectFrom"}
             A == {Use("outlet", f, <<n>>) : f \in F, n \in Names}
             B == {Use("outlet", f, <<n, b>>) : f \in G, n \in Names, b \in Payloads}
  <1>1. OutletUses = A \cup B
    BY DEF OutletUses
  <1> HIDE DEF F, G
  <1>2. ASSUME x \in A PROVE \E f \in F, n \in Names : x = Use("outlet", f, <<n>>)
    BY <1>2 DEF Use
  <1>3. ASSUME x \in B PROVE \E f \in G, n \in Names, b \in Payloads : x = Use("outlet", f, <<n, b>>)
    BY <1>3
  <1> HIDE DEF A, B
  <1>4. x \in A \/ x \in B
    BY <1>1
  <1> QED
    BY <1>2, <1>3, <1>4 DEF F, G

\* The forms of the uses of containers.
LEMMA ContainerUseForms ==
  ASSUME NEW x \in ContainerUses
  PROVE  \/ \E f \in {"info", "fullInfo", "operations"}, n \in Names : x = Use("container", f, <<n>>)
         \/ \E f \in {"addOperation", "deleteOperation"}, n \in Names, m \in Names : x = Use("container", f, <<n, m>>)
  <1> DEFINE F == {"info", "fullInfo", "operations"}
             G == {"addOperation", "deleteOperation"}
             A == {Use("container", f, <<n>>) : f \in F, n \in Names}
             B == {Use("container", f, <<n, m>>) : f \in G, n \in Names, m \in Names}
  <1>1. ContainerUses = A \cup B
    BY DEF ContainerUses
  <1> HIDE DEF F, G
  <1>2. ASSUME x \in A PROVE \E f \in F, n \in Names : x = Use("container", f, <<n>>)
    BY <1>2 DEF Use
  <1>3. ASSUME x \in B PROVE \E f \in G, n \in Names, m \in Names : x = Use("container", f, <<n, m>>)
    BY <1>3
  <1> HIDE DEF A, B
  <1>4. x \in A \/ x \in B
    BY <1>1
  <1> QED
    BY <1>2, <1>3, <1>4 DEF F, G

\* A call on the proxy of an inlet does what it says, or nothing.
LEMMA InletCallsThere ==
  ASSUME NEW v \in Faithful, NEW x \in InletCalls
  PROVE  Remote(v, x) \in {Core(x)} \cup Refused
  <1>1. \/ \E f \in {"name", "defaultValue", "get", "info", "isUpdated", "connections"}, n \in Names, t \in Names :
             x = Call("inlet", f, <<n, t>>)
        \/ \E f \in {"put", "connectTo", "disconnectFrom"}, n \in Names, t \in Names, b \in Payloads :
             x = Call("inlet", f, <<n, t, b>>)
    BY InletForms
  <1>2. ASSUME NEW f \in {"name", "defaultValue", "get", "info", "isUpdated", "connections"},
               NEW n \in Names, NEW t \in Names, x = Call("inlet", f, <<n, t>>)
        PROVE  Remote(v, x) \in {Core(x), Error, Empty}
    BY <1>2, InletRemote
  <1>3. ASSUME NEW f \in {"put", "connectTo", "disconnectFrom"}, NEW n \in Names, NEW t \in Names,
               NEW b \in Payloads, x = Call("inlet", f, <<n, t, b>>)
        PROVE  Remote(v, x) \in {Core(x), Error}
    <2>1. /\ Remote(v, Call("inlet", "put", <<n, t, b>>)) = Core(Call("inlet", "put", <<n, t, b>>))
          /\ Remote(v, Call("inlet", "connectTo", <<n, t, b>>)) = Core(Call("inlet", "connectTo", <<n, t, b>>))
      BY InletRemote
    <2>2. \A c : Remote(v, Call("inlet", "disconnectFrom", <<n, t, c>>)) = Error
      BY InletRemote
    <2> QED
      BY <1>3, <2>1, <2>2
  <1> QED
    BY <1>1, <1>2, <1>3 DEF Refused

\* A call that is made on the proxy of a process does there what it says, or nothing.
LEMMA CallsDoWhatTheySay ==
  ASSUME NEW v \in Faithful, NEW x \in Calls, ~(x.method = "deleteObject" /\ x.args[1] = "connection")
  PROVE  Remote(v, x) \in {Core(x)} \cup Refused
  <1>1. CASE x \in FactoryCalls
    <2>1. \/ \E c \in Classes, b \in Payloads : x = Call("factory", "createObject", <<c, b>>)
          \/ \E c \in Classes, n \in Names : x = Call("factory", "deleteObject", <<c, n>>)
      BY <1>1 DEF FactoryCalls
    <2>2. ASSUME NEW c \in Classes, NEW b \in Payloads, x = Call("factory", "createObject", <<c, b>>)
          PROVE  Remote(v, x) = Core(x)
      BY <2>2, FactoryRemote
    <2>3. ASSUME NEW c \in Classes, NEW n \in Names, x = Call("factory", "deleteObject", <<c, n>>)
          PROVE  Remote(v, x) = Error
      <3>1. c # "connection"
        BY <2>3 DEF Call
      <3> QED
        BY <2>3, <3>1, FactoryRemote
    <2> QED
      BY <2>1, <2>2, <2>3 DEF Refused
  <1>2. CASE x \in StoreCalls
    <2>1. \/ \E c \in Classes, n \in Names : x = Call("store", "getObjectInfo", <<c, n>>)
          \/ \E c \in Classes : x = Call("store", "getClassObjectInfos", <<c>>)
          \/ \E c \in Classes, n \in Names : x = Call("store", "getChildrenClassObjectInfos", <<n, c>>)
      BY <1>2 DEF StoreCalls
    <2>2. ASSUME NEW c \in Classes, NEW n \in Names
          PROVE  /\ Remote(v, Call("store", "getObjectInfo", <<c, n>>)) = Core(Call("store", "getObjectInfo", <<c, n>>))
                 /\ Remote(v, Call("store", "getClassObjectInfos", <<c>>)) = Core(Call("store", "getClassObjectInfos", <<c>>))
                 /\ Remote(v, Call("store", "getChildrenClassObjectInfos", <<n, c>>)) = Empty
      BY StoreRemote
    <2>3. PICK m \in Names : TRUE
      BY RoutingAssumption
    <2>4. \A c \in Classes :
            Remote(v, Call("store", "getClassObjectInfos", <<c>>)) = Core(Call("store", "getClassObjectInfos", <<c>>))
      BY <2>2, <2>3
    <2> QED
      BY <2>1, <2>2, <2>4 DEF Refused
  <1>3. CASE x \in OperationCalls
    <2>1. \/ \E f \in {"fullInfo", "invoke", "execute", "inlets"}, n \in Names : x = Call("operation", f, <<n>>)
          \/ \E n \in Names, b \in Payloads : x = Call("operation", "call", <<n, b>>)
      BY <1>3, OperationForms
    <2>2. ASSUME NEW f \in {"fullInfo", "invoke", "execute", "inlets"}, NEW n \in Names, x = Call("operation", f, <<n>>)
          PROVE  Remote(v, x) = Core(x)
      BY <2>2, OperationRemote
    <2>3. ASSUME NEW n \in Names, NEW b \in Payloads, x = Call("operation", "call", <<n, b>>)
          PROVE  Remote(v, x) = Core(x)
      BY <2>3, OperationRemote
    <2> QED
      BY <2>1, <2>2, <2>3
  <1>4. CASE x \in OutletCalls
    <2>1. \/ \E f \in {"get", "connections", "info"}, n \in Names : x = Call("outlet", f, <<n>>)
          \/ \E f \in {"connectTo", "disconnectFrom"}, n \in Names, b \in Payloads : x = Call("outlet", f, <<n, b>>)
      BY <1>4 DEF OutletCalls
    <2>2. ASSUME NEW f \in {"get", "connections", "info"}, NEW n \in Names, x = Call("outlet", f, <<n>>)
          PROVE  Remote(v, x) = Core(x)
      BY <2>2, OutletRemote
    <2>3. ASSUME NEW f \in {"connectTo", "disconnectFrom"}, NEW n \in Names, NEW b \in Payloads,
                 x = Call("outlet", f, <<n, b>>)
          PROVE  Remote(v, x) = Core(x) \/ Remote(v, x) = Error
      BY <2>3, OutletRemote
    <2> QED
      BY <2>1, <2>2, <2>3 DEF Refused
  <1>5. CASE x \in InletCalls
    BY <1>5, InletCallsThere
  <1>6. CASE x \in ConnectionCalls
    <2>1. \/ \E b \in Payloads : x = Call("connection", "createConnection", <<b>>)
          \/ \E n \in Names : x = Call("connection", "deleteConnection", <<n>>)
      BY <1>6 DEF ConnectionCalls
    <2> QED
      BY <2>1, ConnectionRemote
  <1>7. CASE x \in ContainerCalls
    <2>1. PICK f \in {"operations", "fullInfo"}, n \in Names : x = Call("container", f, <<n>>)
      BY <1>7 DEF ContainerCalls
    <2>2. Remote(v, Call("container", f, <<n>>)) = Core(Call("container", f, <<n>>))
      BY ContainerRemote
    <2> QED
      BY <2>1, <2>2
  <1>8. CASE x \in ProcessCalls
    <2>1. PICK f \in {"getProcessInfo", "getProcessFullInfo"} : x = Call("process", f, <<>>)
      BY <1>8 DEF ProcessCalls
    <2> QED
      BY <2>1, ProcessRemote
  <1> QED
    BY <1>1, <1>2, <1>3, <1>4, <1>5, <1>6, <1>7, <1>8 DEF Calls

\* The calls that clients and the connection builder make are all served.
LEMMA NeededCallsAreServed ==
  ASSUME NEW v \in Faithful, NEW x \in Needed
  PROVE  Remote(v, x) = Core(x)
  <1>1. CASE x \in FactoryCalls /\ x.method = "createObject"
    <2>1. \/ \E c \in Classes, b \in Payloads : x = Call("factory", "createObject", <<c, b>>)
          \/ \E c \in Classes, n \in Names : x = Call("factory", "deleteObject", <<c, n>>)
      BY <1>1 DEF FactoryCalls
    <2>2. \A a, m, s : Call(a, m, s).method = m
      BY DEF Call
    <2>3. PICK c \in Classes, b \in Payloads : x = Call("factory", "createObject", <<c, b>>)
      BY <1>1, <2>1, <2>2
    <2> QED
      BY <2>3, FactoryRemote
  <1>2. CASE x \in StoreCalls /\ x.method # "getChildrenClassObjectInfos"
    <2>1. \/ \E c \in Classes, n \in Names : x = Call("store", "getObjectInfo", <<c, n>>)
          \/ \E c \in Classes : x = Call("store", "getClassObjectInfos", <<c>>)
          \/ \E c \in Classes, n \in Names : x = Call("store", "getChildrenClassObjectInfos", <<n, c>>)
      BY <1>2 DEF StoreCalls
    <2>2. \A a, m, s : Call(a, m, s).method = m
      BY DEF Call
    <2>3. \/ \E c \in Classes, n \in Names : x = Call("store", "getObjectInfo", <<c, n>>)
          \/ \E c \in Classes : x = Call("store", "getClassObjectInfos", <<c>>)
      BY <1>2, <2>1, <2>2
    <2>4. ASSUME NEW c \in Classes, NEW n \in Names
          PROVE  /\ Remote(v, Call("store", "getObjectInfo", <<c, n>>)) = Core(Call("store", "getObjectInfo", <<c, n>>))
                 /\ Remote(v, Call("store", "getClassObjectInfos", <<c>>)) = Core(Call("store", "getClassObjectInfos", <<c>>))
      BY StoreRemote
    <2>5. PICK m \in Names : TRUE
      BY RoutingAssumption
    <2>6. \A c \in Classes :
            Remote(v, Call("store", "getClassObjectInfos", <<c>>)) = Core(Call("store", "getClassObjectInfos", <<c>>))
      BY <2>4, <2>5
    <2> QED
      BY <2>3, <2>4, <2>6
  <1>3. CASE x \in OperationCalls
    <2>1. \/ \E f \in {"fullInfo", "invoke", "execute", "inlets"}, n \in Names : x = Call("operation", f, <<n>>)
          \/ \E n \in Names, b \in Payloads : x = Call("operation", "call", <<n, b>>)
      BY <1>3, OperationForms
    <2>2. ASSUME NEW f \in {"fullInfo", "invoke", "execute", "inlets"}, NEW n \in Names, x = Call("operation", f, <<n>>)
          PROVE  Remote(v, x) = Core(x)
      BY <2>2, OperationRemote
    <2>3. ASSUME NEW n \in Names, NEW b \in Payloads, x = Call("operation", "call", <<n, b>>)
          PROVE  Remote(v, x) = Core(x)
      BY <2>3, OperationRemote
    <2> QED
      BY <2>1, <2>2, <2>3
  <1>4. CASE x \in OutletCalls /\ x.method # "disconnectFrom"
    <2>1. \/ \E f \in {"get", "connections", "info"}, n \in Names : x = Call("outlet", f, <<n>>)
          \/ \E f \in {"connectTo", "disconnectFrom"}, n \in Names, b \in Payloads : x = Call("outlet", f, <<n, b>>)
      BY <1>4 DEF OutletCalls
    <2>2. ASSUME NEW f \in {"get", "connections", "info"}, NEW n \in Names, x = Call("outlet", f, <<n>>)
          PROVE  Remote(v, x) = Core(x)
      BY <2>2, OutletRemote
    <2>3. ASSUME NEW f \in {"connectTo", "disconnectFrom"}, NEW n \in Names, NEW b \in Payloads,
                 x = Call("outlet", f, <<n, b>>)
          PROVE  Remote(v, x) = Core(x)
      <3>1. f = "connectTo"
        BY <1>4, <2>3 DEF Call
      <3> QED
        BY <2>3, <3>1, OutletRemote
    <2> QED
      BY <2>1, <2>2, <2>3
  <1>5. CASE x \in InletCalls /\ x.method \in {"get", "put", "info", "connections", "connectTo"}
    <2>1. \/ \E f \in {"name", "defaultValue", "get", "info", "isUpdated", "connections"}, n \in Names, t \in Names :
               x = Call("inlet", f, <<n, t>>)
          \/ \E f \in {"put", "connectTo", "disconnectFrom"}, n \in Names, t \in Names, b \in Payloads :
               x = Call("inlet", f, <<n, t, b>>)
      BY <1>5, InletForms
    <2>2. ASSUME NEW f \in {"name", "defaultValue", "get", "info", "isUpdated", "connections"},
                 NEW n \in Names, NEW t \in Names, x = Call("inlet", f, <<n, t>>)
          PROVE  Remote(v, x) = Core(x)
      <3>1. f \in {"get", "info", "connections"}
        BY <1>5, <2>2 DEF Call
      <3> QED
        BY <2>2, <3>1, InletRemote
    <2>3. ASSUME NEW f \in {"put", "connectTo", "disconnectFrom"}, NEW n \in Names, NEW t \in Names,
                 NEW b \in Payloads, x = Call("inlet", f, <<n, t, b>>)
          PROVE  Remote(v, x) = Core(x)
      <3>1. f \in {"put", "connectTo"}
        BY <1>5, <2>3 DEF Call
      <3>2. /\ Remote(v, Call("inlet", "put", <<n, t, b>>)) = Core(Call("inlet", "put", <<n, t, b>>))
            /\ Remote(v, Call("inlet", "connectTo", <<n, t, b>>)) = Core(Call("inlet", "connectTo", <<n, t, b>>))
        BY InletRemote
      <3> QED
        BY <2>3, <3>1, <3>2
    <2> QED
      BY <2>1, <2>2, <2>3
  <1>6. CASE x \in ConnectionCalls
    <2>1. \/ \E b \in Payloads : x = Call("connection", "createConnection", <<b>>)
          \/ \E n \in Names : x = Call("connection", "deleteConnection", <<n>>)
      BY <1>6 DEF ConnectionCalls
    <2> QED
      BY <2>1, ConnectionRemote
  <1>7. CASE x \in ContainerCalls
    <2>1. PICK f \in {"operations", "fullInfo"}, n \in Names : x = Call("container", f, <<n>>)
      BY <1>7 DEF ContainerCalls
    <2>2. Remote(v, Call("container", f, <<n>>)) = Core(Call("container", f, <<n>>))
      BY ContainerRemote
    <2> QED
      BY <2>1, <2>2
  <1>8. CASE x \in ProcessCalls
    <2>1. PICK f \in {"getProcessInfo", "getProcessFullInfo"} : x = Call("process", f, <<>>)
      BY <1>8 DEF ProcessCalls
    <2> QED
      BY <2>1, ProcessRemote
  <1> QED
    BY <1>1, <1>2, <1>3, <1>4, <1>5, <1>6, <1>7, <1>8 DEF Needed

\* What the core broker does for the calls that the proxies of objects make.
LEMMA CoreOfUses ==
  ASSUME NEW n
  PROVE  /\ \A f : Core(Call("operation", f, <<n>>)) = Does(<<"operation", f>>, <<n>>)
         /\ \A f, b : Core(Call("operation", f, <<n, b>>)) = Does(<<"operation", f>>, <<n, b>>)
         /\ \A c \in {"operation", "container"} :
              Core(Call("store", "getObjectInfo", <<c, n>>)) = Does(<<"info", c>>, <<n>>)
         /\ \A f \in {"get", "connections", "info"} :
              Core(Call("outlet", f, <<n>>)) = Does(<<"outlet", f>>, <<n>>)
         /\ \A b : Core(Call("outlet", "connectTo", <<n, b>>)) = Does(<<"create", "outletConnection">>, <<n, b>>)
         /\ \A f \in {"get", "info", "connections"} : \A t :
              Core(Call("inlet", f, <<n, t>>)) = Does(<<"inlet", f>>, <<n, t>>)
         /\ \A t, b : Core(Call("inlet", "put", <<n, t, b>>)) = Does(<<"inlet", "put">>, <<n, t, b>>)
         /\ \A t, b : Core(Call("inlet", "connectTo", <<n, t, b>>)) = Does(<<"create", "inletConnection">>, <<n, t, b>>)
         /\ \A f : Core(Call("container", f, <<n>>)) = Does(<<"container", f>>, <<n>>)
  <1>1. /\ \A f : Core(Call("operation", f, <<n>>)) = Does(<<"operation", f>>, <<n>>)
        /\ \A f, b : Core(Call("operation", f, <<n, b>>)) = Does(<<"operation", f>>, <<n, b>>)
    BY DEF Core, Call, CoreOperation
  <1>2. \A c \in {"operation", "container"} :
              Core(Call("store", "getObjectInfo", <<c, n>>)) = Does(<<"info", c>>, <<n>>)
    BY DEF Core, Call, CoreInfo
  <1>3. /\ \A f \in {"get", "connections", "info"} :
              Core(Call("outlet", f, <<n>>)) = Does(<<"outlet", f>>, <<n>>)
        /\ \A b : Core(Call("outlet", "connectTo", <<n, b>>)) = Does(<<"create", "outletConnection">>, <<n, b>>)
    BY DEF Core, Call, CoreOutlet
  <1>4. /\ \A f \in {"get", "info", "connections"} : \A t :
              Core(Call("inlet", f, <<n, t>>)) = Does(<<"inlet", f>>, <<n, t>>)
        /\ \A t, b : Core(Call("inlet", "put", <<n, t, b>>)) = Does(<<"inlet", "put">>, <<n, t, b>>)
        /\ \A t, b : Core(Call("inlet", "connectTo", <<n, t, b>>)) = Does(<<"create", "inletConnection">>, <<n, t, b>>)
    BY DEF Core, Call, CoreInlet
  <1>5. \A f : Core(Call("container", f, <<n>>)) = Does(<<"container", f>>, <<n>>)
    BY DEF Core, Call, CoreContainer
  <1> QED
    BY <1>1, <1>2, <1>3, <1>4, <1>5

\* An answer is an error only where it is refused.
LEMMA DoesIsNoError == (\A w, a : Does(w, a) # Error) /\ Empty # Error
  BY DEF Does, Error, Empty

\* A broker is added to what is no error.
LEMMA BrokerAdded == \A w, a : WithBroker(Does(w, a)) = Does(w, a)
  BY DoesIsNoError DEF WithBroker

\* The proxy of an operation does what the operation does.
LEMMA OperationUsesThere ==
  ASSUME NEW v \in Faithful, NEW n \in Names
  PROVE  /\ \A f \in {"info", "fullInfo", "invoke", "execute", "inlets"} :
              OperationProxy(v, Use("operation", f, <<n>>)) = Here(Use("operation", f, <<n>>))
         /\ \A b : OperationProxy(v, Use("operation", "call", <<n, b>>)) = Here(Use("operation", "call", <<n, b>>))
         /\ ~IsNullProxy(v, n)
  <1>1. OperationProxy(v, Use("operation", "info", <<n>>)) = Here(Use("operation", "info", <<n>>))
    <2>1. OperationProxy(v, Use("operation", "info", <<n>>))
            = WithBroker(Remote(v, Call("store", "getObjectInfo", <<"operation", n>>)))
      BY DEF OperationProxy, Use
    <2>2. Here(Use("operation", "info", <<n>>)) = Does(<<"info", "operation">>, <<n>>)
      BY DEF Here, OperationDoes, InfoOr, Use
    <2>3. Remote(v, Call("store", "getObjectInfo", <<"operation", n>>)) = Does(<<"info", "operation">>, <<n>>)
      BY StoreRemote, CoreOfUses DEF Classes
    <2> QED
      BY <2>1, <2>2, <2>3, BrokerAdded
  <1>2. ASSUME NEW f \in {"fullInfo", "invoke", "execute", "inlets"}
        PROVE  /\ OperationProxy(v, Use("operation", f, <<n>>)) = Does(<<"operation", f>>, <<n>>)
               /\ Here(Use("operation", f, <<n>>)) = Does(<<"operation", f>>, <<n>>)
    <2>1. OperationProxy(v, Use("operation", f, <<n>>)) = Remote(v, Call("operation", f, <<n>>))
      BY DEF OperationProxy, Use
    <2>2. Here(Use("operation", f, <<n>>)) = Does(<<"operation", f>>, <<n>>)
      BY DEF Here, OperationDoes, InfoOr, Use
    <2> QED
      BY <2>1, <2>2, OperationRemote, CoreOfUses
  <1>3. ASSUME NEW b
        PROVE  OperationProxy(v, Use("operation", "call", <<n, b>>)) = Here(Use("operation", "call", <<n, b>>))
    <2>1. OperationProxy(v, Use("operation", "call", <<n, b>>)) = Remote(v, Call("operation", "call", <<n, b>>))
      BY DEF OperationProxy, Use
    <2>2. Here(Use("operation", "call", <<n, b>>)) = Does(<<"operation", "call">>, <<n, b>>)
      BY DEF Here, OperationDoes, InfoOr, Use
    <2>3. Remote(v, Call("operation", "call", <<n, b>>)) = Core(Call("operation", "call", <<n, b>>))
      BY OperationRemote
    <2>4. Core(Call("operation", "call", <<n, b>>)) = Does(<<"operation", "call">>, <<n, b>>)
      BY DEF Core, Call, CoreOperation
    <2> QED
      BY <2>1, <2>2, <2>3, <2>4
  <1>4. ~IsNullProxy(v, n)
    BY <1>2, DoesIsNoError DEF IsNullProxy
  <1> QED
    BY <1>1, <1>2, <1>3, <1>4

\* The proxy of an inlet does what the inlet does; its defaultValue is nothing.
LEMMA InletUsesThere ==
  ASSUME NEW v \in Faithful, NEW n \in Names, NEW t \in Names
  PROVE  /\ \A f \in {"get", "info", "connections", "executeOwner"} :
              InletProxy(v, Use("inlet", f, <<n, t>>)) = Here(Use("inlet", f, <<n, t>>))
         /\ InletProxy(v, Use("inlet", "defaultValue", <<n, t>>)) = Empty
         /\ \A f \in {"put", "connectTo"} : \A b :
              InletProxy(v, Use("inlet", f, <<n, t, b>>)) = Here(Use("inlet", f, <<n, t, b>>))
  <1>1. ASSUME NEW f \in {"get", "info", "connections"}
        PROVE  InletProxy(v, Use("inlet", f, <<n, t>>)) = Here(Use("inlet", f, <<n, t>>))
    <2>1. LET answer == Remote(v, Call("inlet", f, <<n, t>>))
          IN  InletProxy(v, Use("inlet", f, <<n, t>>)) \in {answer, WithBroker(answer)}
      BY DEF InletProxy, Use
    <2>2. Here(Use("inlet", f, <<n, t>>)) = Does(<<"inlet", f>>, <<n, t>>)
      BY DEF Here, InletDoes, Use
    <2>3. Remote(v, Call("inlet", f, <<n, t>>)) = Core(Call("inlet", f, <<n, t>>))
      BY InletRemote
    <2>4. Core(Call("inlet", f, <<n, t>>)) = Does(<<"inlet", f>>, <<n, t>>)
      BY CoreOfUses
    <2> QED
      BY <2>1, <2>2, <2>3, <2>4, BrokerAdded
  <1>2. InletProxy(v, Use("inlet", "executeOwner", <<n, t>>)) = Here(Use("inlet", "executeOwner", <<n, t>>))
    <2>1. InletProxy(v, Use("inlet", "executeOwner", <<n, t>>)) = OperationProxy(v, Use("operation", "execute", <<n>>))
      BY DEF InletProxy, ExecuteOwner, Use
    <2>2. Here(Use("inlet", "executeOwner", <<n, t>>)) = Does(<<"operation", "execute">>, <<n>>)
      BY DEF Here, InletDoes, Use
    <2>3. Here(Use("operation", "execute", <<n>>)) = Does(<<"operation", "execute">>, <<n>>)
      BY DEF Here, OperationDoes, InfoOr, Use
    <2> QED
      BY <2>1, <2>2, <2>3, OperationUsesThere
  <1>3. InletProxy(v, Use("inlet", "defaultValue", <<n, t>>)) = Empty
    <2>1. InletProxy(v, Use("inlet", "defaultValue", <<n, t>>)) = Remote(v, Call("inlet", "defaultValue", <<n, t>>))
      BY DEF InletProxy, Use
    <2> QED
      BY <2>1, InletRemote
  <1>4. ASSUME NEW b
        PROVE  /\ InletProxy(v, Use("inlet", "put", <<n, t, b>>)) = Here(Use("inlet", "put", <<n, t, b>>))
               /\ InletProxy(v, Use("inlet", "connectTo", <<n, t, b>>)) = Here(Use("inlet", "connectTo", <<n, t, b>>))
    <2>1. /\ InletProxy(v, Use("inlet", "put", <<n, t, b>>)) = Remote(v, Call("inlet", "put", <<n, t, b>>))
          /\ InletProxy(v, Use("inlet", "connectTo", <<n, t, b>>)) = Remote(v, Call("inlet", "connectTo", <<n, t, b>>))
      BY DEF InletProxy, Use
    <2>2. /\ Here(Use("inlet", "put", <<n, t, b>>)) = Does(<<"inlet", "put">>, <<n, t, b>>)
          /\ Here(Use("inlet", "connectTo", <<n, t, b>>)) = Does(<<"create", "inletConnection">>, <<n, t, b>>)
      BY DEF Here, InletDoes, Use
    <2>3. /\ Remote(v, Call("inlet", "put", <<n, t, b>>)) = Core(Call("inlet", "put", <<n, t, b>>))
          /\ Remote(v, Call("inlet", "connectTo", <<n, t, b>>)) = Core(Call("inlet", "connectTo", <<n, t, b>>))
      BY InletRemote
    <2>4. /\ Core(Call("inlet", "put", <<n, t, b>>)) = Does(<<"inlet", "put">>, <<n, t, b>>)
          /\ Core(Call("inlet", "connectTo", <<n, t, b>>)) = Does(<<"create", "inletConnection">>, <<n, t, b>>)
      BY DEF Core, Call, CoreInlet
    <2> QED
      BY <2>1, <2>2, <2>3, <2>4
  <1> QED
    BY <1>1, <1>2, <1>3, <1>4

\* The proxy of an outlet does what the outlet does.
LEMMA OutletUsesThere ==
  ASSUME NEW v \in Faithful, NEW n \in Names
  PROVE  /\ \A f \in {"get", "connections", "info", "invokeOwner"} :
              OutletProxy(v, Use("outlet", f, <<n>>)) = Here(Use("outlet", f, <<n>>))
         /\ \A f \in {"connectTo", "disconnectFrom"} : \A b :
              OutletProxy(v, Use("outlet", f, <<n, b>>)) = Here(Use("outlet", f, <<n, b>>))
  <1>1. ASSUME NEW f \in {"get", "info"}
        PROVE  OutletProxy(v, Use("outlet", f, <<n>>)) = Here(Use("outlet", f, <<n>>))
    <2>1. LET answer == Remote(v, Call("outlet", f, <<n>>))
          IN  OutletProxy(v, Use("outlet", f, <<n>>)) \in {answer, WithBroker(answer)}
      BY DEF OutletProxy, Use
    <2>2. Here(Use("outlet", f, <<n>>)) = Does(<<"outlet", f>>, <<n>>)
      BY DEF Here, OutletDoes, Use
    <2>3. Remote(v, Call("outlet", f, <<n>>)) = Core(Call("outlet", f, <<n>>))
      BY OutletRemote
    <2>4. Core(Call("outlet", f, <<n>>)) = Does(<<"outlet", f>>, <<n>>)
      BY CoreOfUses
    <2> QED
      BY <2>1, <2>2, <2>3, <2>4, BrokerAdded
  <1>2. OutletProxy(v, Use("outlet", "connections", <<n>>)) = Here(Use("outlet", "connections", <<n>>))
    <2>1. Remote(v, Call("outlet", "connections", <<n>>)) = Does(<<"outlet", "connections">>, <<n>>)
      BY OutletRemote, CoreOfUses
    <2>2. Remote(v, Call("outlet", "connections", <<n>>)) # Error
      BY <2>1, DoesIsNoError
    <2>3. OutletProxy(v, Use("outlet", "connections", <<n>>)) = Remote(v, Call("outlet", "connections", <<n>>))
      BY <2>2 DEF OutletProxy, Use
    <2>4. Here(Use("outlet", "connections", <<n>>)) = Does(<<"outlet", "connections">>, <<n>>)
      BY DEF Here, OutletDoes, Use
    <2> QED
      BY <2>1, <2>3, <2>4
  <1>3. OutletProxy(v, Use("outlet", "invokeOwner", <<n>>)) = Here(Use("outlet", "invokeOwner", <<n>>))
    <2>1. OutletProxy(v, Use("outlet", "invokeOwner", <<n>>)) = OperationProxy(v, Use("operation", "invoke", <<n>>))
      BY DEF OutletProxy, Use
    <2>2. Here(Use("outlet", "invokeOwner", <<n>>)) = Does(<<"operation", "invoke">>, <<n>>)
      BY DEF Here, OutletDoes, Use
    <2>3. Here(Use("operation", "invoke", <<n>>)) = Does(<<"operation", "invoke">>, <<n>>)
      BY DEF Here, OperationDoes, InfoOr, Use
    <2> QED
      BY <2>1, <2>2, <2>3, OperationUsesThere
  <1>4. ASSUME NEW b
        PROVE  /\ OutletProxy(v, Use("outlet", "connectTo", <<n, b>>)) = Here(Use("outlet", "connectTo", <<n, b>>))
               /\ OutletProxy(v, Use("outlet", "disconnectFrom", <<n, b>>)) = Here(Use("outlet", "disconnectFrom", <<n, b>>))
    <2>1. /\ OutletProxy(v, Use("outlet", "connectTo", <<n, b>>)) = Remote(v, Call("outlet", "connectTo", <<n, b>>))
          /\ OutletProxy(v, Use("outlet", "disconnectFrom", <<n, b>>)) = Remote(v, Call("outlet", "disconnectFrom", <<n, b>>))
      BY DEF OutletProxy, Use
    <2>2. /\ Here(Use("outlet", "connectTo", <<n, b>>)) = Does(<<"create", "outletConnection">>, <<n, b>>)
          /\ Here(Use("outlet", "disconnectFrom", <<n, b>>)) = Error
      BY DEF Here, OutletDoes, Use
    <2>3. /\ Remote(v, Call("outlet", "connectTo", <<n, b>>)) = Core(Call("outlet", "connectTo", <<n, b>>))
          /\ Remote(v, Call("outlet", "disconnectFrom", <<n, b>>)) = Error
      BY OutletRemote
    <2>4. Core(Call("outlet", "connectTo", <<n, b>>)) = Does(<<"create", "outletConnection">>, <<n, b>>)
      BY CoreOfUses
    <2> QED
      BY <2>1, <2>2, <2>3, <2>4
  <1> QED
    BY <1>1, <1>2, <1>3, <1>4

\* The proxy of a container does what the container does, but adds and deletes nothing.
LEMMA ContainerUsesThere ==
  ASSUME NEW v \in Faithful, NEW n \in Names
  PROVE  /\ \A f \in {"info", "fullInfo", "operations"} :
              ContainerProxy(v, Use("container", f, <<n>>)) = Here(Use("container", f, <<n>>))
         /\ \A f \in {"addOperation", "deleteOperation"} : \A m : ContainerProxy(v, Use("container", f, <<n, m>>)) = Error
  <1>1. ContainerProxy(v, Use("container", "info", <<n>>)) = Here(Use("container", "info", <<n>>))
    <2>1. ContainerProxy(v, Use("container", "info", <<n>>))
            = WithBroker(Remote(v, Call("store", "getObjectInfo", <<"container", n>>)))
      BY DEF ContainerProxy, Use
    <2>2. Here(Use("container", "info", <<n>>)) = Does(<<"info", "container">>, <<n>>)
      BY DEF Here, ContainerDoes, InfoOr, Use
    <2>3. Remote(v, Call("store", "getObjectInfo", <<"container", n>>)) = Does(<<"info", "container">>, <<n>>)
      BY StoreRemote, CoreOfUses DEF Classes
    <2> QED
      BY <2>1, <2>2, <2>3, BrokerAdded
  <1>2. ASSUME NEW f \in {"fullInfo", "operations"}
        PROVE  ContainerProxy(v, Use("container", f, <<n>>)) = Here(Use("container", f, <<n>>))
    <2>1. LET answer == Remote(v, Call("container", f, <<n>>))
          IN  ContainerProxy(v, Use("container", f, <<n>>)) \in {answer, WithBroker(answer)}
      BY DEF ContainerProxy, Use
    <2>2. Here(Use("container", f, <<n>>)) = Does(<<"container", f>>, <<n>>)
      BY DEF Here, ContainerDoes, InfoOr, Use
    <2>3. Remote(v, Call("container", f, <<n>>)) = Core(Call("container", f, <<n>>))
      BY ContainerRemote
    <2>4. Core(Call("container", f, <<n>>)) = Does(<<"container", f>>, <<n>>)
      BY CoreOfUses
    <2> QED
      BY <2>1, <2>2, <2>3, <2>4, BrokerAdded
  <1>3. \A f \in {"addOperation", "deleteOperation"} : \A m : ContainerProxy(v, Use("container", f, <<n, m>>)) = Error
    BY DEF ContainerProxy, Use
  <1> QED
    BY <1>1, <1>2, <1>3

\* A proxy is built where the broker is one that can be reached.
LEMMA ThroughIsThere ==
  ASSUME NEW v \in Faithful, NEW x
  PROVE  /\ x.kind \in {"container", "connection"} => Through(v, x) = There(v, x)
         /\ x.args[1] \in Names => Through(v, x) = There(v, x)
  BY OperationUsesThere DEF Through, Faithful

\* What uses an object through its proxy gets what the object itself would do, or
\* nothing; and what data flow rests on is done.
LEMMA UsesDoWhatTheySay ==
  ASSUME NEW v \in Faithful, NEW x \in Uses
  PROVE  /\ x.method # "isUpdated" => Through(v, x) \in {Here(x)} \cup Refused
         /\ x \in DataFlowUses => Through(v, x) = Here(x)
  <1>1. CASE x \in OperationUses
    <2>1. x.kind = "operation" /\ x.args[1] \in Names
      BY <1>1 DEF OperationUses, Use
    <2>2. Through(v, x) = OperationProxy(v, x)
      BY <2>1, ThroughIsThere DEF There
    <2>3. OperationProxy(v, x) = Here(x)
      <3>1. CASE \E f \in {"info", "fullInfo", "invoke", "execute", "inlets"}, n \in Names : x = Use("operation", f, <<n>>)
        <4>1. PICK f \in {"info", "fullInfo", "invoke", "execute", "inlets"}, n \in Names : x = Use("operation", f, <<n>>)
          BY <3>1
        <4> QED
          BY <4>1, OperationUsesThere
      <3>2. CASE \E n \in Names, b \in Payloads : x = Use("operation", "call", <<n, b>>)
        <4>1. PICK n \in Names, b \in Payloads : x = Use("operation", "call", <<n, b>>)
          BY <3>2
        <4>2. OperationProxy(v, Use("operation", "call", <<n, b>>)) = Here(Use("operation", "call", <<n, b>>))
          BY OperationUsesThere
        <4> QED
          BY <4>1, <4>2
      <3> QED
        BY <1>1, <3>1, <3>2, OperationUseForms
    <2> QED
      BY <2>2, <2>3
  <1>2. CASE x \in InletUses
    <2>1. x.kind = "inlet" /\ x.args[1] \in Names
      BY <1>2 DEF InletUses, Use
    <2>2. Through(v, x) = InletProxy(v, x)
      BY <2>1, ThroughIsThere DEF There
    <2>3. CASE \E f \in {"defaultValue", "get", "info", "isUpdated", "connections", "executeOwner"}, n \in Names, t \in Names :
                 x = Use("inlet", f, <<n, t>>)
      <3>1. PICK f \in {"defaultValue", "get", "info", "isUpdated", "connections", "executeOwner"}, n \in Names, t \in Names :
                 x = Use("inlet", f, <<n, t>>)
        BY <2>3
      <3>2. x.method = f /\ x.kind = "inlet"
        BY <3>1 DEF Use
      <3>3. f \in {"get", "info", "connections", "executeOwner"} => InletProxy(v, x) = Here(x)
        BY <3>1, InletUsesThere
      <3>4. f = "defaultValue" => InletProxy(v, x) = Empty
        BY <3>1, InletUsesThere
      <3>5. x \in DataFlowUses => f \in {"get", "info", "connections", "executeOwner"}
        <4>1. /\ \A y \in OperationUses : y.kind = "operation"
              /\ \A y \in OutletUses : y.kind = "outlet"
              /\ \A y \in ContainerUses : y.kind = "container"
          BY DEF OperationUses, OutletUses, ContainerUses, Use
        <4>2. x \in DataFlowUses => x.method \in {"put", "get", "info", "connections", "connectTo", "executeOwner"}
          BY <3>2, <4>1 DEF DataFlowUses
        <4> QED
          BY <3>2, <4>2
      <3> QED
        BY <2>2, <3>2, <3>3, <3>4, <3>5 DEF Refused
    <2>4. CASE \E f \in {"put", "connectTo"}, n \in Names, t \in Names, b \in Payloads : x = Use("inlet", f, <<n, t, b>>)
      <3>1. PICK f \in {"put", "connectTo"}, n \in Names, t \in Names, b \in Payloads : x = Use("inlet", f, <<n, t, b>>)
        BY <2>4
      <3>2. InletProxy(v, Use("inlet", f, <<n, t, b>>)) = Here(Use("inlet", f, <<n, t, b>>))
        BY InletUsesThere, Zenon
      <3> QED
        BY <2>2, <3>1, <3>2
    <2> QED
      BY <1>2, <2>3, <2>4, InletUseForms
  <1>3. CASE x \in OutletUses
    <2>1. x.kind = "outlet" /\ x.args[1] \in Names
      BY <1>3 DEF OutletUses, Use
    <2>2. Through(v, x) = OutletProxy(v, x)
      BY <2>1, ThroughIsThere DEF There
    <2>3. OutletProxy(v, x) = Here(x)
      <3>1. CASE \E f \in {"get", "connections", "info", "invokeOwner"}, n \in Names : x = Use("outlet", f, <<n>>)
        <4>1. PICK f \in {"get", "connections", "info", "invokeOwner"}, n \in Names : x = Use("outlet", f, <<n>>)
          BY <3>1
        <4> QED
          BY <4>1, OutletUsesThere
      <3>2. CASE \E f \in {"connectTo", "disconnectFrom"}, n \in Names, b \in Payloads : x = Use("outlet", f, <<n, b>>)
        <4>1. PICK f \in {"connectTo", "disconnectFrom"}, n \in Names, b \in Payloads : x = Use("outlet", f, <<n, b>>)
          BY <3>2
        <4>2. OutletProxy(v, Use("outlet", f, <<n, b>>)) = Here(Use("outlet", f, <<n, b>>))
          BY OutletUsesThere, Zenon
        <4> QED
          BY <4>1, <4>2
      <3> QED
        BY <1>3, <3>1, <3>2, OutletUseForms
    <2> QED
      BY <2>2, <2>3
  <1>4. CASE x \in ContainerUses
    <2>1. x.kind = "container"
      BY <1>4 DEF ContainerUses, Use
    <2>2. Through(v, x) = ContainerProxy(v, x)
      BY <2>1, ThroughIsThere DEF There
    <2>3. CASE \E f \in {"info", "fullInfo", "operations"}, n \in Names : x = Use("container", f, <<n>>)
      BY <2>2, <2>3, ContainerUsesThere
    <2>4. CASE \E f \in {"addOperation", "deleteOperation"}, n \in Names, m \in Names : x = Use("container", f, <<n, m>>)
      <3>1. PICK f \in {"addOperation", "deleteOperation"}, n \in Names, m \in Names : x = Use("container", f, <<n, m>>)
        BY <2>4
      <3>2. x.method \in {"addOperation", "deleteOperation"}
        BY <3>1 DEF Use
      <3>3. x \notin DataFlowUses
        BY <2>1, <3>2 DEF DataFlowUses, OperationUses, InletUses, OutletUses, Use
      <3>4. ContainerProxy(v, x) = Error
        BY <3>1, ContainerUsesThere
      <3> QED
        BY <2>2, <3>3, <3>4 DEF Refused
    <2> QED
      BY <1>4, <2>3, <2>4, ContainerUseForms
  <1>5. CASE x \in ConnectionUses
    <2>1. x.kind = "connection"
      BY <1>5 DEF ConnectionUses, Use
    <2>2. Through(v, x) = Error
      BY <2>1, ThroughIsThere DEF There, ConnectionProxy
    <2>3. x \notin DataFlowUses
      BY <2>1 DEF DataFlowUses, OperationUses, InletUses, OutletUses, ContainerUses, Use
    <2> QED
      BY <2>2, <2>3 DEF Refused
  <1> QED
    BY <1>1, <1>2, <1>3, <1>4, <1>5 DEF Uses

\* A broker that cannot be reached refuses, and the null objects answer nothing.
LEMMA UnreachableRefuses ==
  /\ \A x : Remote("unreachable", x) = Error
  /\ \A x : x.method # "isUpdated" => Through("unreachable", x) \in Refused
  <1>1. "unreachable" \notin Transports
    BY DEF Transports
  <1> QED
    BY <1>1 DEF Remote, NullBroker, Through, NullDoes, NullOperation, NullContainer,
                NullOperationInlet, NullOperationOutlet, NullConnection, Refused

\* A call made on a proxy does in the process it is a proxy of what the call says, as
\* if it were made there, and so does the use of an object through its proxy, or it is
\* refused or answered with nothing; and no call or use that clients and the connection
\* builder need is refused: whatever the names and the payloads, over either
\* transport, as object_mapper.cpp takes apart what crud_broker_proxy_base.cpp puts
\* together.
THEOREM ProxiesAreFaithful == Spec => []ProxyIsFaithful
  <1>1. \A d \in Proxied : d.remote \in Refused
    <2> SUFFICES ASSUME NEW d \in Proxied PROVE d.remote \in Refused
      OBVIOUS
    <2> DEFINE V == Faithful \cup {"unreachable"}
               C == {x \in Calls : ~(x.method = "deleteObject" /\ x.args[1] = "connection")}
               U == {x \in Uses : x.method # "isUpdated"}
    <2>1. d.local # d.remote
      BY DEF Proxied, Differing
    <2>2. \/ \E x \in C, v \in V : d = [local |-> Core(x), remote |-> Remote(v, x)]
          \/ \E x \in U, v \in V : d = [local |-> Here(x), remote |-> Through(v, x)]
      BY DEF Proxied, Differing
    <2>3. ASSUME NEW x \in C, NEW v \in V, d = [local |-> Core(x), remote |-> Remote(v, x)]
          PROVE  d.remote \in Refused
      BY <2>1, <2>3, CallsDoWhatTheySay, UnreachableRefuses DEF Refused
    <2>4. ASSUME NEW x \in U, NEW v \in V, d = [local |-> Here(x), remote |-> Through(v, x)]
          PROVE  d.remote \in Refused
      BY <2>1, <2>4, UsesDoWhatTheySay, UnreachableRefuses
    <2> QED
      BY <2>2, <2>3, <2>4
  <1>2. NeededProxied = {}
    <2> SUFFICES ASSUME NEW d \in NeededProxied PROVE FALSE
      OBVIOUS
    <2>1. d.local # d.remote
      BY DEF NeededProxied, Differing
    <2>2. \/ \E x \in Needed, v \in Faithful : d = [local |-> Core(x), remote |-> Remote(v, x)]
          \/ \E x \in DataFlowUses, v \in Faithful : d = [local |-> Here(x), remote |-> Through(v, x)]
      BY DEF NeededProxied, Differing
    <2>3. DataFlowUses \subseteq Uses
      BY DEF DataFlowUses, Uses
    <2> QED
      BY <2>1, <2>2, <2>3, NeededCallsAreServed, UsesDoWhatTheySay
  <1>3. ProxyIsFaithful
    BY <1>1, <1>2 DEF ProxyIsFaithful, UsedCallsAreServed
  <1> QED
    BY <1>3, PTL
==============================================================================
