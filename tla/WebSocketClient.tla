--------------------------- MODULE WebSocketClient ---------------------------
(***************************************************************************)
(* The WebSocket client of a broker proxy (ws_client_ixwebsocket.cpp) and  *)
(* the server it talks to (ws_server_ixwebsocket.cpp).  The threads of a   *)
(* process share the client: one reply slot, one flag and one condition    *)
(* variable serve them all.  The socket's own thread fills the slot and    *)
(* notifies without the mutex.  Every request carries the same id, so the  *)
(* identity a request has here is seen by no one.  The socket reconnects   *)
(* by itself; what is in flight when it loses the connection is lost, and  *)
(* a request has no timeout.                                               *)
(***************************************************************************)
EXTENDS Naturals, Sequences

CONSTANTS
  User,         \* threads that make requests
  MaxRequests,  \* bound: requests of a thread
  MaxDrops,     \* bound: times the connection is lost
  MaxSpurious   \* bound: times a wait ends without a notification

ASSUME BoundsAssumption == MaxRequests \in Nat \ {0} /\ MaxDrops \in Nat /\ MaxSpurious \in Nat

VARIABLES
  ctor,      \* the constructor: "new", "started", "asleep", "woken", "done"
  link,      \* whether the socket is open
  asked,     \* requests on their way to the server
  replies,   \* replies on their way back
  callback,  \* the socket's thread: "idle", "open", "writing", "flag", "notify"
  incoming,  \* the message the callback was called with
  buffer,    \* message_buffer_
  flag,      \* is_message_received_
  mutex,     \* who holds mtx
  pc,        \* where a user's request stands
  count,     \* requests a user has made
  got,       \* got[u]: what its last request returned
  handled,   \* the requests the server has handled
  alone,     \* alone[u]: nothing was in flight when its request began, and no
             \* other request has begun since
  drops,     \* times the connection was lost
  spurious,  \* times a wait ended without a notification
  serial     \* the users take turns

vars == <<ctor, link, asked, replies, callback, incoming, buffer, flag, mutex,
          pc, count, got, handled, alone, drops, spurious, serial>>
wire == <<link, asked, replies, drops>>
slot == <<callback, incoming, buffer>>
record == <<count, got, handled, alone>>
setting == <<spurious, serial>>

Free == "free"
Nothing == <<"nothing", 0>>
Torn == <<"torn", 0>>      \* a string read while it is assigned; JSON cannot parse it
Current(u) == <<u, count[u]>>
Idle(u) == pc[u] = "idle"

Init ==
  /\ ctor = "new" /\ link = FALSE /\ asked = <<>> /\ replies = <<>>
  /\ callback = "idle" /\ incoming = Nothing /\ buffer = Nothing /\ flag = FALSE
  /\ mutex = Free /\ pc = [u \in User |-> "idle"] /\ count = [u \in User |-> 0]
  /\ got = [u \in User |-> Nothing] /\ handled = {} /\ alone = [u \in User |-> FALSE]
  /\ drops = 0 /\ spurious = 0 /\ serial \in BOOLEAN

(***************************************************************************)
(* The constructor starts the socket, then waits, without a condition, to  *)
(* be notified that it is open.                                            *)
(***************************************************************************)
Start ==
  /\ ctor = "new" /\ ctor' = "started"
  /\ UNCHANGED <<wire, slot, flag, mutex, pc, record, setting>>
Wait ==
  /\ ctor = "started" /\ ctor' = "asleep"
  /\ UNCHANGED <<wire, slot, flag, mutex, pc, record, setting>>
Constructed ==
  /\ ctor = "woken" /\ ctor' = "done"
  /\ UNCHANGED <<wire, slot, flag, mutex, pc, record, setting>>

(***************************************************************************)
(* request: the flag is reset without the mutex; then send, lock, wait     *)
(* until the flag is set, and take what is in the slot.  The mutex is held *)
(* but for the wait.                                                       *)
(***************************************************************************)
Goto(u, l) == pc' = [pc EXCEPT ![u] = l]
InFlight == asked # <<>> \/ replies # <<>> \/ callback # "idle"
Reset_Missing(u) ==
  /\ ctor = "done" /\ Idle(u) /\ count[u] < MaxRequests
  /\ serial => \A v \in User : Idle(v)
  /\ count' = [count EXCEPT ![u] = @ + 1]
  /\ alone' = [v \in User |-> v = u /\ ~InFlight /\ \A w \in User : Idle(w)]
  /\ Goto(u, "send")
  /\ UNCHANGED <<ctor, wire, slot, flag, mutex, got, handled, setting>>
Reset(u) ==
  /\ ctor = "done" /\ Idle(u) /\ count[u] < MaxRequests
  /\ serial => \A v \in User : Idle(v)
  /\ flag' = FALSE
  /\ count' = [count EXCEPT ![u] = @ + 1]
  /\ alone' = [v \in User |-> v = u /\ ~InFlight /\ \A w \in User : Idle(w)]
  /\ Goto(u, "send")
  /\ UNCHANGED <<ctor, wire, slot, mutex, got, handled, setting>>
\* A message sent while the socket is not open is gone.
Send(u) ==
  /\ pc[u] = "send" /\ Goto(u, "lock")
  /\ asked' = IF link THEN Append(asked, Current(u)) ELSE asked
  /\ UNCHANGED <<ctor, link, replies, drops, slot, flag, mutex, record, setting>>
Lock(u) ==
  /\ pc[u] \in {"lock", "woken"} /\ mutex = Free
  /\ mutex' = u /\ Goto(u, "check")
  /\ UNCHANGED <<ctor, wire, slot, flag, record, setting>>
Check(u) ==
  /\ pc[u] = "check" /\ Goto(u, IF flag THEN "read" ELSE "block")
  /\ UNCHANGED <<ctor, wire, slot, flag, mutex, record, setting>>
Block(u) ==
  /\ pc[u] = "block" /\ Goto(u, "asleep") /\ mutex' = Free
  /\ UNCHANGED <<ctor, wire, slot, flag, record, setting>>
Read_Kept(u) ==
  /\ pc[u] = "check"
  /\ got' = [got EXCEPT ![u] = buffer]
  /\ Goto(u, "idle") /\ mutex' = Free
  /\ UNCHANGED <<ctor, wire, slot, flag, count, handled, alone, setting>>
Read(u) ==
  /\ pc[u] = "read"
  /\ \E s \in IF callback = "writing" THEN {buffer, incoming, Torn} ELSE {buffer} :
       got' = [got EXCEPT ![u] = s]
  /\ Goto(u, "idle") /\ mutex' = Free
  /\ UNCHANGED <<ctor, wire, slot, flag, count, handled, alone, setting>>

(***************************************************************************)
(* The server handles the messages of a connection in order and sends each *)
(* reply before it takes the next.                                         *)
(***************************************************************************)
Handle ==
  /\ asked # <<>>
  /\ asked' = Tail(asked) /\ replies' = Append(replies, Head(asked))
  /\ handled' = handled \cup {Head(asked)}
  /\ UNCHANGED <<ctor, link, drops, slot, flag, mutex, pc, count, got, alone, setting>>

(***************************************************************************)
(* The socket's thread.  notify_all wakes whoever sleeps at that moment.   *)
(***************************************************************************)
Opens ==
  /\ ctor # "new" /\ ~link /\ callback = "idle"
  /\ link' = TRUE /\ callback' = "open"
  /\ UNCHANGED <<ctor, asked, replies, drops, incoming, buffer, flag, mutex, pc, record, setting>>
Drop ==
  /\ link /\ drops < MaxDrops /\ callback = "idle"
  /\ link' = FALSE /\ asked' = <<>> /\ replies' = <<>> /\ drops' = drops + 1
  /\ UNCHANGED <<ctor, slot, flag, mutex, pc, record, setting>>
Receive ==
  /\ callback = "idle" /\ replies # <<>>
  /\ incoming' = Head(replies) /\ replies' = Tail(replies) /\ callback' = "writing"
  /\ UNCHANGED <<ctor, link, asked, drops, buffer, flag, mutex, pc, record, setting>>
Write ==
  /\ callback = "writing" /\ buffer' = incoming /\ callback' = "flag"
  /\ UNCHANGED <<ctor, wire, incoming, flag, mutex, pc, record, setting>>
SetFlag ==
  /\ callback = "flag" /\ flag' = TRUE /\ callback' = "notify"
  /\ UNCHANGED <<ctor, wire, incoming, buffer, mutex, pc, record, setting>>
Notify_Lost ==
  /\ callback \in {"open", "notify"} /\ callback' = "idle"
  /\ ctor' = IF callback = "open" /\ ctor = "asleep" THEN "woken" ELSE ctor
  /\ UNCHANGED <<pc, wire, incoming, buffer, flag, mutex, record, setting>>
Notify ==
  /\ callback \in {"open", "notify"} /\ callback' = "idle"
  /\ pc' = [u \in User |-> IF pc[u] = "asleep" THEN "woken" ELSE pc[u]]
  /\ ctor' = IF ctor = "asleep" THEN "woken" ELSE ctor
  /\ UNCHANGED <<wire, incoming, buffer, flag, mutex, record, setting>>
\* A wait on a condition variable may end without a notification.
Spurious ==
  /\ spurious < MaxSpurious /\ spurious' = spurious + 1
  /\ \/ \E u \in User : pc[u] = "asleep" /\ Goto(u, "woken") /\ UNCHANGED ctor
     \/ ctor = "asleep" /\ ctor' = "woken" /\ UNCHANGED pc
  /\ UNCHANGED <<wire, slot, flag, mutex, record, serial>>

Constructor == Start \/ Wait \/ Constructed
Request(u) == Send(u) \/ Lock(u) \/ Check(u) \/ Block(u) \/ Read(u)
Socket == Opens \/ Receive \/ Write \/ SetFlag \/ Notify
Next == \/ Constructor \/ Handle \/ Socket \/ Drop \/ Spurious
        \/ \E u \in User : Reset(u) \/ Request(u)
Spec == Init /\ [][Next]_vars
\* Threads run; nobody is bound to make a request, and a waiter is woken only
\* by a notification.
Fairness == /\ WF_vars(Constructor) /\ WF_vars(Handle) /\ WF_vars(Socket)
            /\ \A u \in User : WF_vars(Request(u))
FairSpec == Spec /\ Fairness

(***************************************************************************)
(* Properties                                                              *)
(***************************************************************************)
Message == (User \X Nat) \cup {Nothing, Torn}
TypeOK ==
  /\ ctor \in {"new", "started", "asleep", "woken", "done"} /\ link \in BOOLEAN
  /\ asked \in Seq(Message) /\ replies \in Seq(Message)
  /\ callback \in {"idle", "open", "writing", "flag", "notify"}
  /\ incoming \in Message /\ buffer \in Message /\ flag \in BOOLEAN
  /\ mutex \in User \cup {Free} /\ count \in [User -> 0..MaxRequests]
  /\ pc \in [User -> {"idle", "send", "lock", "check", "block", "asleep", "woken", "read"}]
  /\ got \in [User -> Message] /\ handled \subseteq Message
  /\ alone \in [User -> BOOLEAN] /\ drops \in 0..MaxDrops /\ spurious \in 0..MaxSpurious /\ serial \in BOOLEAN

\* A request that began with nothing in flight, and during which no other was
\* made, returns the reply to itself; with others about, it may return theirs,
\* or what can be read of a reply that is being written.
LoneRequestGetsItsReply ==
  \A u \in User : Idle(u) /\ alone[u] => got[u] = Current(u)

\* Users that take turns see a service: each request is handled once, before
\* it returns, and returns what handling it produced.
Served(u) == serial /\ ~Idle(u) /\ Current(u) \in handled
Phase == [u \in User |-> CASE Served(u) -> "served"
                          [] serial /\ ~Idle(u) /\ ~Served(u) -> "pending"
                          [] OTHER -> "idle"]
Outcome == [u \in User |-> CASE ~serial -> Nothing
                            [] Served(u) -> Current(u)
                            [] OTHER -> got[u]]
Service == INSTANCE TaskService WITH
  Callers <- User, Outcomes <- (User \X (0..MaxRequests)) \cup {Nothing},
  phase <- Phase, outcome <- Outcome
ImplementsTaskService == Service!Spec

\* A user that sleeps when its request, the only one, is still to be handled or
\* its reply still to come returns, unless the connection is lost or something
\* other than a notification wakes it.
Underway(u) == \E i \in 1..Len(asked \o replies) : (asked \o replies)[i] = Current(u)
SleeperIsWoken ==
  \A u \in User :
    serial /\ alone[u] /\ pc[u] = "asleep" /\ Underway(u) 
      ~> Idle(u) \/ drops > 0 \/ spurious > 0

\* A constructor that sleeps before the socket is open returns.
ConstructorReturns == ctor = "asleep" /\ ~link ~> ctor = "done"

\* A wait that a notification is still to come for ends with it: the flag and
\* the notification reach the waiters in an order that loses neither.
WaitsEnd == SleeperIsWoken /\ ConstructorReturns
==============================================================================
