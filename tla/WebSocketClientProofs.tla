------------------------ MODULE WebSocketClientProofs ------------------------
(***************************************************************************)
(* Theorems about WebSocketClient, for any number of users, requests, lost *)
(* connections and spurious wake-ups.  No message says which request it    *)
(* answers, so everything rests on how many are on their way: for a user   *)
(* that has the client to itself IInv follows its one message from the     *)
(* socket to the server and back into the reply slot.                      *)
(***************************************************************************)
EXTENDS WebSocketClient, TLAPS

InCallback == callback \in {"writing", "flag"}
Quiet == asked = <<>> /\ replies = <<>> /\ ~InCallback

\* What was asked or handled was asked by a request that has been made.
Known(m) == \E v \in User : \E n \in 0..count[v] : m = <<v, n>>
OnlyKnown == /\ \A i \in DOMAIN asked : Known(asked[i])
             /\ \A m \in handled : Known(m)

\* A user has the client to itself when the users take turns, or by chance.
Mine(u) == ~Idle(u) /\ (serial \/ alone[u])
Sole == \A u \in User : Mine(u) => \A v \in User : v # u => Idle(v)
\* Users that take turns leave nothing behind but the notification.
QuietBetween == serial /\ (\A u \in User : Idle(u)) => Quiet

\* Where the message of such a user is.
Follows(u) ==
  LET m == Current(u) IN
  /\ pc[u] = "send" => Quiet /\ ~flag /\ m \notin handled
  /\ asked # <<>> => asked = <<m>> /\ replies = <<>> /\ ~InCallback /\ m \notin handled
  /\ replies # <<>> => replies = <<m>> /\ ~InCallback /\ m \in handled
  /\ InCallback => incoming = m /\ m \in handled
  /\ callback = "flag" => buffer = m
  /\ flag => Quiet /\ buffer = m /\ m \in handled
  /\ pc[u] = "read" => flag
Followed == \A u \in User : Mine(u) => Follows(u)

IInv == /\ TypeOK /\ OnlyKnown /\ Sole /\ QuietBetween /\ Followed
        /\ LoneRequestGetsItsReply
------------------------------------------------------------------------------
\* Nothing is on its way and nobody is waiting at first.
LEMMA IInit == Init => IInv
  <1> SUFFICES ASSUME Init PROVE IInv
    OBVIOUS
  <1>1. TypeOK
    <2>1. asked \in Seq(Message) /\ replies \in Seq(Message) /\ Nothing \in Message
      BY DEF Init, Message
    <2>2. count \in [User -> 0..MaxRequests] /\ 0 \in 0..MaxDrops /\ 0 \in 0..MaxSpurious
      BY BoundsAssumption DEF Init
    <2> QED
      BY <2>1, <2>2 DEF Init, TypeOK
  <1> QED
    BY <1>1 DEF Init, IInv, OnlyKnown, Sole, QuietBetween, Followed, LoneRequestGetsItsReply,
                Mine, Idle, Quiet, InCallback

\* Every step keeps the types.
LEMMA TypeStep == TypeOK /\ [Next]_vars => TypeOK'
  <1> SUFFICES ASSUME TypeOK, [Next]_vars PROVE TypeOK'
    OBVIOUS
  <1> USE BoundsAssumption DEF TypeOK, wire, slot, record, setting
  <1>1. CASE Constructor
    BY <1>1 DEF Constructor, Start, Wait, Constructed
  <1>2. CASE Handle
    BY <1>2 DEF Handle
  <1>3. CASE Opens
    BY <1>3 DEF Opens
  <1>4. CASE Receive
    BY <1>4 DEF Receive
  <1>5. CASE Write
    BY <1>5 DEF Write
  <1>6. CASE SetFlag
    BY <1>6 DEF SetFlag
  <1>7. CASE Notify
    BY <1>7 DEF Notify
  <1>8. CASE Drop
    <2>1. drops' \in 0..MaxDrops /\ asked' \in Seq(Message) /\ replies' \in Seq(Message)
      BY <1>8 DEF Drop
    <2> QED
      BY <1>8, <2>1 DEF Drop
  <1>9. CASE Spurious
    BY <1>9 DEF Spurious, Goto
  <1>10. ASSUME NEW u \in User, Reset(u) PROVE TypeOK'
    <2>1. count' \in [User -> 0..MaxRequests]
      BY <1>10 DEF Reset
    <2>2. alone' \in [User -> BOOLEAN]
      BY <1>10, Zenon DEF Reset
    <2> QED
      BY <1>10, <2>1, <2>2 DEF Reset, Goto
  <1>11. ASSUME NEW u \in User, Send(u) PROVE TypeOK'
    BY <1>11 DEF Send, Goto, Current, Message
  <1>12. ASSUME NEW u \in User, Lock(u) \/ Check(u) \/ Block(u) PROVE TypeOK'
    BY <1>12 DEF Lock, Check, Block, Goto
  <1>13. ASSUME NEW u \in User, Read(u) PROVE TypeOK'
    <2>1. PICK s \in {buffer, incoming, Torn} : got' = [got EXCEPT ![u] = s]
      BY <1>13 DEF Read
    <2>2. got' \in [User -> Message]
      BY <2>1 DEF Message
    <2> QED
      BY <1>13, <2>2 DEF Read, Goto
  <1>14. CASE UNCHANGED vars
    BY <1>14 DEF vars
  <1> QED
    BY <1>1, <1>2, <1>3, <1>4, <1>5, <1>6, <1>7, <1>8, <1>9, <1>10, <1>11, <1>12, <1>13, <1>14
       DEF Next, Socket, Request

\* A step that starts and ends no request, and asks nothing: the users that have
\* the client to themselves are the same, and what they need is to be followed.
LEMMA OthersStep ==
  ASSUME IInv, TypeOK',
         UNCHANGED <<count, got, alone, serial>>,
         \A u \in User : pc'[u] = "idle" <=> pc[u] = "idle",
         asked' # <<>> => \A i \in DOMAIN asked' : Known(asked'[i]),
         \A m \in handled' : Known(m),
         QuietBetween', Followed'
  PROVE  IInv'
  <1>1. OnlyKnown'
    BY DEF OnlyKnown, Known
  <1>2. Sole'
    BY DEF IInv, Sole, Mine, Idle
  <1>3. LoneRequestGetsItsReply'
    BY DEF IInv, LoneRequestGetsItsReply, Current, Idle
  <1> QED
    BY <1>1, <1>2, <1>3 DEF IInv

\* The server takes the message it was sent and sends it back.
LEMMA HandleStep == ASSUME IInv, TypeOK', Handle PROVE IInv'
  <1>1. /\ asked # <<>> /\ asked' = Tail(asked) /\ replies' = Append(replies, Head(asked))
        /\ handled' = handled \cup {Head(asked)} /\ asked \in Seq(Message)
        /\ UNCHANGED <<callback, incoming, buffer, flag, pc, count, got, alone, serial>>
    BY DEF Handle, slot, setting, IInv, TypeOK
  <1>2. QuietBetween'
    BY <1>1 DEF IInv, QuietBetween, Quiet, Idle
  <1>3. Followed'
    <2> SUFFICES ASSUME NEW u \in User, Mine(u) PROVE Follows(u)'
      BY <1>1 DEF Followed, Mine, Idle
    <2>1. Follows(u) /\ asked = <<Current(u)>>
      BY <1>1 DEF IInv, Followed, Follows
    <2>2. replies = <<>> /\ ~InCallback /\ ~flag /\ pc[u] # "send" /\ callback # "flag"
      BY <1>1, <2>1 DEF Follows, Quiet, InCallback
    <2>3. asked' = <<>> /\ replies' = <<Current(u)>> /\ Current(u) \in handled'
      BY <1>1, <2>1, <2>2
    <2>4. Current(u)' = Current(u) /\ ~InCallback'
      BY <1>1, <2>2 DEF Current, InCallback
    <2> QED
      BY <1>1, <2>1, <2>2, <2>3, <2>4 DEF Follows
  <1>4. \A m \in handled' : Known(m)
    <2>1. 1 \in DOMAIN asked /\ Head(asked) = asked[1]
      BY <1>1
    <2> QED
      BY <1>1, <2>1 DEF IInv, OnlyKnown
  <1>5. \A i \in DOMAIN asked' : Known(asked'[i])
    <2>1. \A i \in DOMAIN asked' : i + 1 \in DOMAIN asked /\ asked'[i] = asked[i + 1]
      BY <1>1
    <2> QED
      BY <2>1 DEF IInv, OnlyKnown
  <1>6. \A u \in User : pc'[u] = "idle" <=> pc[u] = "idle"
    BY <1>1
  <1> QED
    BY <1>1, <1>2, <1>3, <1>4, <1>5, <1>6, OthersStep

\* The socket's thread takes the reply, writes it, sets the flag and notifies; it
\* may lose the connection and what is on its way.
LEMMA SocketStep == ASSUME IInv, TypeOK', Socket \/ Drop PROVE IInv'
  <1>1. /\ UNCHANGED <<handled, count, got, alone, serial>>
        /\ asked' = asked \/ asked' = <<>>
    BY DEF Socket, Drop, Opens, Receive, Write, SetFlag, Notify, wire, slot, record, setting
  <1>2. TypeOK /\ asked \in Seq(Message) /\ replies \in Seq(Message)
    BY DEF IInv, TypeOK
  <1>3. \A u \in User, l \in {"idle", "send", "read"} : pc'[u] = l <=> pc[u] = l
    BY <1>2 DEF Socket, Drop, Opens, Receive, Write, SetFlag, Notify, TypeOK
  <1>4. QuietBetween'
    <2> SUFFICES ASSUME Quiet PROVE Quiet'
      BY <1>1, <1>3 DEF IInv, QuietBetween, Idle
    <2>1. ~Receive /\ ~Write /\ ~SetFlag
      BY DEF Quiet, InCallback, Receive, Write, SetFlag
    <2>2. CASE Opens \/ Notify
      BY <2>2 DEF Quiet, InCallback, Opens, Notify, wire
    <2>3. CASE Drop
      BY <2>3 DEF Quiet, InCallback, Drop, slot
    <2> QED
      BY <2>1, <2>2, <2>3 DEF Socket
  <1>5. Followed'
    <2> SUFFICES ASSUME NEW u \in User, Mine(u) PROVE Follows(u)'
      BY <1>1, <1>3 DEF Followed, Mine, Idle
    <2> DEFINE m == Current(u)
    <2>1. Follows(u) /\ m' = m
      BY <1>1 DEF IInv, Followed, Current
    <2> HIDE DEF m
    <2>2. CASE Receive
      <3>1. /\ replies = <<m>> /\ callback = "idle" /\ m \in handled
            /\ callback' = "writing" /\ UNCHANGED <<asked, flag>>
        BY <2>1, <2>2 DEF Receive, Follows, m
      <3>2. incoming' = m /\ replies' = <<>>
        BY <2>2, <3>1 DEF Receive
      <3>3. asked = <<>> /\ ~flag
        BY <2>1, <3>1 DEF Follows, Quiet, m
      <3> QED
        BY <1>1, <1>3, <2>1, <3>1, <3>2, <3>3 DEF Follows, Quiet, InCallback, m
    <2>3. CASE Opens \/ Write \/ SetFlag \/ Notify \/ Drop
      BY <1>1, <1>3, <2>1, <2>3
         DEF Follows, Quiet, InCallback, Opens, Write, SetFlag, Notify, Drop, wire, slot, m
    <2> QED
      BY <2>2, <2>3 DEF Socket
  <1>6. asked' # <<>> => \A i \in DOMAIN asked' : Known(asked'[i])
    BY <1>1 DEF IInv, OnlyKnown
  <1> QED
    BY <1>1, <1>3, <1>4, <1>5, <1>6, OthersStep DEF IInv, OnlyKnown

\* The constructor and a wake-up without cause move no message.
LEMMA WakeStep == ASSUME IInv, TypeOK', Constructor \/ Spurious PROVE IInv'
  <1>1. UNCHANGED <<asked, replies, callback, incoming, buffer, flag, handled, count, got, alone, serial>>
    BY DEF Constructor, Start, Wait, Constructed, Spurious, wire, slot, record, setting
  <1>2. \A u \in User, l \in {"idle", "send", "read"} : pc'[u] = l <=> pc[u] = l
    BY DEF IInv, TypeOK, Constructor, Start, Wait, Constructed, Spurious, Goto
  <1>3. QuietBetween' /\ Followed'
    BY <1>1, <1>2 DEF IInv, QuietBetween, Followed, Follows, Mine, Idle, Quiet, InCallback, Current
  <1> QED
    BY <1>1, <1>2, <1>3, OthersStep DEF IInv, OnlyKnown

\* A new request finds nothing of an old one when its user has the client to
\* itself, and takes every other request's solitude.
LEMMA ResetStep == ASSUME IInv, TypeOK', NEW u \in User, Reset(u) PROVE IInv'
  <1>1. /\ Idle(u) /\ ~Idle(u)' /\ pc'[u] = "send" /\ ~flag'
        /\ \A v \in User : v # u => pc'[v] = pc[v] /\ Current(v)' = Current(v)
        /\ count'[u] = count[u] + 1 /\ Current(u)' = <<u, count[u] + 1>>
        /\ serial => \A v \in User : Idle(v)
        /\ alone' = [v \in User |-> v = u /\ ~InFlight /\ \A w \in User : Idle(w)]
        /\ UNCHANGED <<asked, replies, callback, incoming, buffer, handled, got, serial>>
    BY DEF IInv, TypeOK, Reset, Goto, Idle, Current, wire, slot, setting
  <1>2. count \in [User -> Nat] /\ count' \in [User -> Nat]
    BY DEF IInv, TypeOK
  <1>3. \A v \in User : count[v] <= count'[v]
    BY <1>1, <1>2 DEF IInv, TypeOK, Reset
  <1>4. OnlyKnown'
    <2>1. \A m : Known(m) => Known(m)'
      BY <1>2, <1>3 DEF Known
    <2> QED
      BY <1>1, <2>1 DEF IInv, OnlyKnown
  <1>5. \A v \in User : v # u => ~Mine(v)'
    <2> SUFFICES ASSUME NEW v \in User, v # u, Mine(v)' PROVE FALSE
      OBVIOUS
    <2>1. ~alone'[v]
      BY <1>1
    <2>2. serial /\ pc[v] # "idle"
      BY <1>1, <2>1 DEF Mine, Idle
    <2> QED
      BY <1>1, <2>2 DEF Idle
  <1>6. Mine(u)' => \A v \in User : Idle(v)
    BY <1>1 DEF Mine
  <1>7. Sole'
    BY <1>1, <1>5, <1>6 DEF Sole, Idle
  <1>8. QuietBetween'
    BY <1>1 DEF QuietBetween
  <1>9. Mine(u)' => Follows(u)'
    <2> SUFFICES ASSUME Mine(u)' PROVE Follows(u)'
      OBVIOUS
    <2>1. Quiet
      <3>1. CASE serial
        BY <1>6, <3>1 DEF IInv, QuietBetween
      <3>2. CASE ~serial
        <4>1. alone'[u]
          BY <1>1, <3>2 DEF Mine
        <4> QED
          BY <1>1, <4>1 DEF InFlight, Quiet, InCallback
      <3> QED
        BY <3>1, <3>2
    <2>2. <<u, count[u] + 1>> \notin handled
      BY <1>2 DEF IInv, OnlyKnown, Known
    <2> QED
      BY <1>1, <2>1, <2>2 DEF Follows, Quiet, InCallback
  <1>10. Followed'
    BY <1>5, <1>9 DEF Followed
  <1>11. LoneRequestGetsItsReply'
    <2>1. \A v \in User : alone'[v] => v = u
      BY <1>1
    <2> QED
      BY <1>1, <2>1 DEF LoneRequestGetsItsReply
  <1> QED
    BY <1>4, <1>7, <1>8, <1>10, <1>11 DEF IInv

\* Sending puts the request on its way, unless the socket is not open; locking,
\* checking and going to sleep only find out where it is.
LEMMA RequestStep ==
  ASSUME IInv, TypeOK', NEW u \in User, Send(u) \/ Lock(u) \/ Check(u) \/ Block(u)
  PROVE  IInv'
  <1>1. /\ UNCHANGED <<replies, callback, incoming, buffer, flag, handled, count, got, alone, serial>>
        /\ asked' = asked \/ (pc[u] = "send" /\ asked' = Append(asked, Current(u)))
    <2>1. CASE Send(u)
      BY <2>1 DEF Send, slot, record, setting
    <2>2. CASE Lock(u)
      BY <2>2 DEF Lock, wire, slot, record, setting
    <2>3. CASE Check(u)
      BY <2>3 DEF Check, wire, slot, record, setting
    <2>4. CASE Block(u)
      BY <2>4 DEF Block, wire, slot, record, setting
    <2> QED
      BY <2>1, <2>2, <2>3, <2>4
  <1>2. /\ \A v \in User : v # u => pc'[v] = pc[v]
        /\ pc[u] # "idle" /\ pc'[u] \notin {"idle", "send"}
        /\ pc'[u] = "read" => flag
    BY DEF IInv, TypeOK, Send, Lock, Check, Block, Goto
  <1>3. QuietBetween'
    BY <1>2 DEF QuietBetween, Idle
  <1>4. Followed'
    <2> SUFFICES ASSUME NEW v \in User, Mine(v) PROVE Follows(v)'
      BY <1>1, <1>2 DEF Followed, Mine, Idle
    <2>1. v = u
      BY <1>2 DEF IInv, Sole, Idle
    <2>2. Follows(u)
      BY <2>1 DEF IInv, Followed
    <2>3. Current(u)' = Current(u)
      BY <1>1 DEF Current
    <2>4. CASE asked' = asked
      BY <1>1, <1>2, <2>1, <2>2, <2>3, <2>4 DEF Follows, Quiet, InCallback
    <2>5. CASE pc[u] = "send" /\ asked' = Append(asked, Current(u))
      <3>2. Quiet /\ ~flag /\ Current(u) \notin handled
        BY <2>2, <2>5 DEF Follows
      <3>3. asked' = <<Current(u)>>
        BY <2>5, <3>2 DEF Quiet
      <3> QED
        BY <1>1, <1>2, <2>1, <2>3, <3>2, <3>3 DEF Follows, Quiet, InCallback
    <2> QED
      BY <1>1, <2>4, <2>5
  <1>5. \A i \in DOMAIN asked' : Known(asked'[i])
    <2>1. Known(Current(u))
      BY DEF Known, Current, IInv, TypeOK
    <2>2. asked \in Seq(Message)
      BY DEF IInv, TypeOK
    <2> QED
      BY <1>1, <2>1, <2>2 DEF IInv, OnlyKnown
  <1> QED
    BY <1>1, <1>2, <1>3, <1>4, <1>5, OthersStep DEF IInv, OnlyKnown

\* What a user that has the client to itself takes is its own reply.
LEMMA OwnReply ==
  ASSUME IInv, NEW u \in User, Read(u), Mine(u)
  PROVE  got'[u] = Current(u) /\ Quiet /\ Current(u) \in handled
  <1>1. flag /\ Follows(u)
    BY DEF IInv, Followed, Follows, Read
  <1>2. Quiet /\ buffer = Current(u) /\ Current(u) \in handled
    BY <1>1 DEF Follows
  <1>3. callback # "writing"
    BY <1>2 DEF Quiet, InCallback
  <1> QED
    BY <1>2, <1>3 DEF Read, IInv, TypeOK
LEMMA ReadStep == ASSUME IInv, TypeOK', NEW u \in User, Read(u) PROVE IInv'
  <1>1. /\ UNCHANGED <<asked, replies, callback, incoming, buffer, flag, handled, count, alone, serial>>
        /\ pc[u] = "read" /\ pc'[u] = "idle"
        /\ \A v \in User : v # u => pc'[v] = pc[v] /\ got'[v] = got[v]
    <2>1. /\ UNCHANGED <<asked, replies, callback, incoming, buffer, flag, handled, count, alone, serial>>
          /\ pc[u] = "read" /\ pc' = [pc EXCEPT ![u] = "idle"]
          /\ \E s : got' = [got EXCEPT ![u] = s]
      BY DEF Read, Goto, wire, slot, setting
    <2> QED
      BY <2>1 DEF IInv, TypeOK
  <1>2. OnlyKnown'
    BY <1>1 DEF IInv, OnlyKnown, Known
  <1>3. Sole'
    BY <1>1 DEF IInv, Sole, Mine, Idle
  <1>4. QuietBetween'
    <2> SUFFICES ASSUME serial PROVE Quiet'
      BY <1>1 DEF QuietBetween
    <2>1. Mine(u)
      BY <1>1 DEF Mine, Idle
    <2> QED
      BY <1>1, <2>1, OwnReply DEF Quiet, InCallback
  <1>5. Followed'
    <2> SUFFICES ASSUME NEW v \in User, v # u, Mine(v) PROVE Follows(v)'
      BY <1>1 DEF Followed, Mine, Idle
    <2> QED
      BY <1>1 DEF IInv, Sole, Idle
  <1>6. LoneRequestGetsItsReply'
    <2> SUFFICES ASSUME NEW v \in User, Idle(v)', alone[v] PROVE got'[v] = Current(v)'
      BY <1>1 DEF LoneRequestGetsItsReply
    <2>1. Current(v)' = Current(v)
      BY <1>1 DEF Current
    <2>2. CASE v = u
      <3>1. Mine(u)
        BY <1>1, <2>2 DEF Mine, Idle
      <3> QED
        BY <2>1, <2>2, <3>1, OwnReply
    <2>3. CASE v # u
      BY <1>1, <2>1, <2>3 DEF IInv, LoneRequestGetsItsReply, Idle
    <2> QED
      BY <2>2, <2>3
  <1> QED
    BY <1>2, <1>3, <1>4, <1>5, <1>6 DEF IInv

LEMMA IStep == IInv /\ [Next]_vars => IInv'
  <1> SUFFICES ASSUME IInv, [Next]_vars PROVE IInv'
    OBVIOUS
  <1>1. TypeOK'
    BY TypeStep DEF IInv
  <1>2. CASE Constructor \/ Handle \/ Socket \/ Drop \/ Spurious
    BY <1>1, <1>2, HandleStep, SocketStep, WakeStep
  <1>3. CASE \E u \in User : Reset(u) \/ Request(u)
    BY <1>1, <1>3, ResetStep, RequestStep, ReadStep DEF Request
  <1>4. CASE UNCHANGED vars
    BY <1>4 DEF vars, IInv, TypeOK, OnlyKnown, Known, Sole, QuietBetween, Followed, Follows, Mine,
                Idle, Quiet, InCallback, Current, LoneRequestGetsItsReply
  <1> QED
    BY <1>2, <1>3, <1>4 DEF Next

THEOREM Invariance == Spec => []IInv
  BY IInit, IStep, PTL DEF Spec
------------------------------------------------------------------------------
\* The variables of the client keep their types.
THEOREM TypesHold == Spec => []TypeOK
  BY Invariance, PTL DEF IInv

\* A request that begins with nothing in flight and has the client to itself
\* returns the reply to itself (WSClient_ixwebsocket::request), though a reply
\* does not say what it answers, however often the connection is lost.
THEOREM LoneRequests == Spec => []LoneRequestGetsItsReply
  BY Invariance, PTL DEF IInv
------------------------------------------------------------------------------
\* A step after which every user is in its phase, with its outcome, is no step
\* of the service.
LEMMA NothingServed ==
  ASSUME serial' = serial,
         \A u \in User : /\ Idle(u)' <=> Idle(u)
                         /\ Current(u)' = Current(u) /\ got'[u] = got[u]
                         /\ serial /\ ~Idle(u) => (Current(u) \in handled' <=> Current(u) \in handled)
  PROVE  UNCHANGED <<Phase, Outcome>>
  <1>1. \A u \in User : Served(u)' <=> Served(u)
    BY DEF Served
  <1>2. Phase' = Phase
    BY <1>1 DEF Phase
  <1>3. Outcome' = Outcome
    BY <1>1 DEF Outcome
  <1> QED
    BY <1>2, <1>3

\* The service begins, serves and replies with Reset, Handle and Read.
LEMMA ResetCalls ==
  ASSUME IInv, NEW u \in User, Reset(u)
  PROVE  Service!Next \/ UNCHANGED <<Phase, Outcome>>
  <1>1. /\ pc[u] = "idle" /\ pc' = [pc EXCEPT ![u] = "send"] /\ count' = [count EXCEPT ![u] = @ + 1]
        /\ UNCHANGED <<got, handled, serial>>
    BY DEF Reset, Goto, Idle, setting
  <1>2. \A v \in User : v # u => /\ pc'[v] = pc[v] /\ Current(v)' = Current(v)
    BY <1>1 DEF IInv, TypeOK, Current
  <1>3. \A v \in User : v # u => (Served(v)' <=> Served(v)) /\ (Idle(v)' <=> Idle(v))
    BY <1>1, <1>2 DEF Served, Idle
  <1>4. Idle(u) /\ ~Idle(u)' /\ ~Served(u)
    BY <1>1 DEF Idle, Served, IInv, TypeOK
  <1>5. ~Served(u)'
    <2>1. Current(u)' = <<u, count[u] + 1>> /\ count[u] \in Nat
      BY <1>1 DEF Current, IInv, TypeOK
    <2>2. <<u, count[u] + 1>> \notin handled
      BY <2>1 DEF IInv, OnlyKnown, Known
    <2> QED
      BY <1>1, <2>1, <2>2 DEF Served
  <1>6. Outcome' = Outcome
    BY <1>1, <1>2, <1>3, <1>4, <1>5 DEF Outcome
  <1>7. CASE ~serial
    BY <1>1, <1>6, <1>7 DEF Phase, Served
  <1>8. CASE serial
    <2>1. Phase[u] = "idle" /\ Phase' = [Phase EXCEPT ![u] = "pending"]
      BY <1>1, <1>3, <1>4, <1>5, <1>8 DEF Phase
    <2> QED
      BY <1>6, <2>1 DEF Service!Next, Service!Call
  <1> QED
    BY <1>7, <1>8

LEMMA HandleServes ==
  ASSUME IInv, Handle
  PROVE  Service!Next \/ UNCHANGED <<Phase, Outcome>>
  <1>1. /\ asked # <<>> /\ handled' = handled \cup {Head(asked)} /\ UNCHANGED <<pc, count, got, serial>>
    BY DEF Handle, setting
  <1>2. \A v \in User : Current(v)' = Current(v) /\ (Idle(v)' <=> Idle(v))
    BY <1>1 DEF Current, Idle
  <1>3. CASE ~serial
    BY <1>1, <1>2, <1>3, NothingServed
  <1>4. CASE serial
    <2>1. PICK u \in User : ~Idle(u)
      BY <1>1, <1>4 DEF IInv, QuietBetween, Quiet
    <2>2. Mine(u) /\ \A v \in User : v # u => Idle(v)
      BY <1>4, <2>1 DEF IInv, Sole, Mine
    <2>3. asked = <<Current(u)>> /\ Current(u) \notin handled
      BY <1>1, <2>2 DEF IInv, Followed, Follows
    <2>4. /\ ~Served(u) /\ Served(u)'
          /\ \A v \in User : v # u => ~Served(v) /\ ~Served(v)'
      BY <1>1, <1>2, <1>4, <2>1, <2>2, <2>3 DEF Served
    <2>5. Phase[u] = "pending" /\ Phase' = [Phase EXCEPT ![u] = "served"]
      BY <1>1, <1>2, <1>4, <2>1, <2>2, <2>4 DEF Phase
    <2>6. Outcome' = [Outcome EXCEPT ![u] = Current(u)]
      BY <1>1, <1>2, <1>4, <2>4 DEF Outcome
    <2>7. Current(u) \in User \X (0..MaxRequests)
      BY DEF Current, IInv, TypeOK
    <2> QED
      BY <2>5, <2>6, <2>7 DEF Service!Next, Service!Serve
  <1> QED
    BY <1>3, <1>4

LEMMA ReadReplies ==
  ASSUME IInv, NEW u \in User, Read(u)
  PROVE  Service!Next \/ UNCHANGED <<Phase, Outcome>>
  <1>1. /\ pc[u] = "read" /\ pc' = [pc EXCEPT ![u] = "idle"] /\ UNCHANGED <<count, handled, serial>>
        /\ \E s : got' = [got EXCEPT ![u] = s]
    BY DEF Read, Goto, setting
  <1>2. \A v \in User : /\ Current(v)' = Current(v)
                        /\ v # u => (Idle(v)' <=> Idle(v)) /\ got'[v] = got[v]
    BY <1>1 DEF Current, Idle, IInv, TypeOK
  <1>3. Idle(u)' /\ ~Idle(u)
    BY <1>1 DEF Idle, IInv, TypeOK
  <1>4. \A v \in User : v # u => (Served(v)' <=> Served(v))
    BY <1>1, <1>2 DEF Served
  <1>5. CASE ~serial
    BY <1>1, <1>5 DEF Phase, Outcome, Served
  <1>6. CASE serial
    <2>1. got'[u] = Current(u) /\ Served(u) /\ ~Served(u)'
      BY <1>1, <1>3, <1>6, OwnReply DEF Mine, Served
    <2>2. Phase[u] = "served" /\ Phase' = [Phase EXCEPT ![u] = "idle"]
      BY <1>1, <1>2, <1>3, <1>4, <1>6, <2>1 DEF Phase
    <2>3. Outcome' = Outcome
      BY <1>1, <1>2, <1>4, <1>6, <2>1 DEF Outcome
    <2> QED
      BY <2>2, <2>3 DEF Service!Next, Service!Reply
  <1> QED
    BY <1>5, <1>6

LEMMA StepSimulation == IInv /\ [Next]_vars => [Service!Next]_(Service!svcVars)
  <1> SUFFICES ASSUME IInv, [Next]_vars
               PROVE Service!Next \/ UNCHANGED <<Phase, Outcome>>
    BY DEF Service!svcVars
  <1>1. CASE Handle
    BY <1>1, HandleServes
  <1>2. CASE Constructor \/ Socket \/ Drop \/ Spurious
    <2>1. UNCHANGED <<count, got, handled, serial>>
      BY <1>2 DEF Constructor, Start, Wait, Constructed, Socket, Drop, Opens, Receive, Write,
                  SetFlag, Notify, Spurious, record, setting
    <2>2. \A u \in User : pc'[u] = "idle" <=> pc[u] = "idle"
      BY <1>2 DEF IInv, TypeOK, Constructor, Start, Wait, Constructed, Socket, Drop, Opens,
                  Receive, Write, SetFlag, Notify, Spurious, Goto
    <2> QED
      BY <2>1, <2>2, NothingServed DEF Idle, Current
  <1>3. CASE \E u \in User : Reset(u) \/ Read(u)
    BY <1>3, ResetCalls, ReadReplies
  <1>4. ASSUME NEW u \in User, Send(u) \/ Lock(u) \/ Check(u) \/ Block(u)
        PROVE  UNCHANGED <<Phase, Outcome>>
    <2>1. UNCHANGED <<count, got, handled, serial>>
      BY <1>4 DEF Send, Lock, Check, Block, record, setting
    <2>2. \A v \in User : pc'[v] = "idle" <=> pc[v] = "idle"
      BY <1>4 DEF IInv, TypeOK, Send, Lock, Check, Block, Goto
    <2> QED
      BY <2>1, <2>2, NothingServed DEF Idle, Current
  <1>5. CASE UNCHANGED vars
    BY <1>5, NothingServed DEF vars, Idle, Current
  <1> QED
    BY <1>1, <1>2, <1>3, <1>4, <1>5 DEF Next, Request

\* Users that take turns see a service (WSClient_ixwebsocket::request and the
\* server's onMessage): every request is handled once, before it returns, and
\* returns what handling it produced, in spite of lost connections.
THEOREM TurnsImplementService == Spec => ImplementsTaskService
  <1>1. Init => Service!Init
    BY DEF Init, Service!Init, Phase, Outcome, Served, Idle
  <1> QED
    BY <1>1, IInit, IStep, StepSimulation, PTL DEF Spec, ImplementsTaskService, Service!Spec
===============================================================================
