---------------------------- MODULE DataFlowProofs ----------------------------
(***************************************************************************)
(* Theorems about DataFlow, for any graph and any number of threads.  They *)
(* rest on what a call leaves on the stacks: a call that waits for another *)
(* is one that pulls or delivers, the call it waits for is that of the     *)
(* connection it deals with and began after the value was obtained, and a  *)
(* call that has its value has run the body of an operation with inlets.   *)
(* The facts about one stack take clock and lastRun as parameters c and L, *)
(* because every thread's steps let them grow.                             *)
(***************************************************************************)
EXTENDS DataFlow, SequenceTheorems, WellFoundedInduction, TLAPS

IsFrame(f) ==
  /\ DOMAIN f = {"op", "mode", "pc", "i", "k", "args", "val", "pulled", "born", "at"}
  /\ f = [x \in DOMAIN f |-> f[x]]
FrameOK(f, c, L) ==
  /\ IsFrame(f)
  /\ f.op \in Ops
  /\ f.mode \in {"invoke", "execute"}
  /\ f.pc \in {"decide", "collect", "pulled", "invoked", "deliver"}
  /\ f.i \in Nat \ {0} /\ f.k \in Nat \ {0}
  /\ f.args \in [InletIndexes(f.op) -> Value \ {ErrorValue}]
  /\ f.val \in Value
  /\ DOMAIN f.pulled \subseteq InletIndexes(f.op)
  /\ f.born \in 0..c /\ f.at \in 0..c
  /\ f.pc = "pulled" => f.i \in InletIndexes(f.op)
  /\ f.pc \in {"invoked", "deliver"} /\ Inlets[f.op] # <<>> => L[f.op] > f.born

\* The EVENT connections before the m-th have run what they are connected to.
ServedBefore(f, m, L) ==
  \A j \in 1..Len(OutConnections(f.op)) :
    LET o == OutConnections(f.op)[j] IN
      j < m /\ o.type = "EVENT" /\ Inlets[o.to] # <<>> => L[o.to] > f.at

\* f waits for g.
Waits(f, g, L) ==
  /\ f.pc \in {"pulled", "deliver"}
  /\ f.pc = "deliver" =>
       /\ g.op = OutConnections(f.op)[f.k - 1].to
       /\ g.born >= f.at
       /\ ServedBefore(f, f.k - 1, L)

StackOK(s, c, L) ==
  /\ \E S : s \in Seq(S)
  /\ \A n \in 1..Len(s) : FrameOK(s[n], c, L)
  /\ \A n \in 1..(Len(s) - 1) : Waits(s[n], s[n + 1], L)
  /\ s # <<>> /\ s[Len(s)].pc = "deliver" => ServedBefore(s[Len(s)], s[Len(s)].k, L)

Tables ==
  /\ buffer = [o \in Ops |-> buffer[o]] /\ updated = [o \in Ops |-> updated[o]]
  /\ seen = [o \in Ops |-> seen[o]]
  /\ \A o \in Ops : /\ buffer[o] \in [InletIndexes(o) -> Value \ {ErrorValue}]
                    /\ updated[o] \in [InletIndexes(o) -> BOOLEAN]
                    /\ seen[o] \in [InletIndexes(o) -> Value \ {ErrorValue}]
  /\ outlet \in [Ops -> Value] /\ first \in [Ops -> BOOLEAN]
Counters ==
  /\ ret \in [Threads -> Value]
  /\ requests \in 0..MaxRequests /\ clock \in 0..MaxClock
  /\ lastRun \in [Ops -> 0..clock]

IInv == /\ Tables /\ Counters
        /\ stack = [t \in Threads |-> stack[t]]
        /\ \A t \in Threads : StackOK(stack[t], clock, lastRun)
------------------------------------------------------------------------------
(* What is selected from a sequence *)

\* The order of the naturals, as a set.
R == {ss \in Nat \X Nat : ss[1] < ss[2]}
\* A set of naturals that has a member has a least one: a property of every
\* natural is proved from the least counterexample it could have.
LEMMA Least ==
  ASSUME NEW A, A \subseteq Nat, A # {}
  PROVE  \E m \in A : \A n \in A : m <= n
  <1>1. IsWellFoundedOn(R, Nat)
    BY NatLessThanWellFounded, Zenon DEF OpToRel, R
  <1>2. PICK m \in A : \A n \in A : ~(<<n, m>> \in R)
    BY <1>1, WFMin
  <1>3. \A n \in A : ~(n < m)
    BY <1>2 DEF R
  <1> QED
    BY <1>3

\* F satisfies the recursion of Among up to N.
Rec(s, T, N, F) ==
  F = [n \in 0..N |-> IF n = 0 THEN <<>> ELSE IF s[n] \in T THEN Append(F[n - 1], s[n]) ELSE F[n - 1]]

\* One such F exists.
LEMMA RecExists ==
  ASSUME NEW s, NEW T, NEW N \in Nat
  PROVE  \E F : Rec(s, T, N, F)
  <1> DEFINE A == {n \in Nat : ~ \E F : Rec(s, T, n, F)}
  <1>1. SUFFICES A = {}
    OBVIOUS
  <1>2. SUFFICES ASSUME A # {} PROVE FALSE
    OBVIOUS
  <1>3. PICK m \in A : \A n \in A : m <= n
    <2> HIDE DEF A
    <2>1. A \subseteq Nat
      BY DEF A
    <2> QED
      BY <1>2, <2>1, Least
  <1>4. m # 0
    <2>1. Rec(s, T, 0, [n \in 0..0 |-> <<>>])
      BY DEF Rec
    <2> QED
      BY <2>1
  <1>5. PICK G : Rec(s, T, m - 1, G)
    BY <1>3, <1>4
  <1> DEFINE H == [n \in 0..m |-> IF n < m THEN G[n] ELSE
                     IF s[n] \in T THEN Append(G[n - 1], s[n]) ELSE G[n - 1]]
  <1>6. m \in Nat \ {0} /\ \A n \in 0..m : n < m <=> n \in 0..(m - 1)
    BY <1>3, <1>4
  <1>7. /\ \A n \in 0..(m - 1) : H[n] = G[n]
        /\ H[m] = IF s[m] \in T THEN Append(G[m - 1], s[m]) ELSE G[m - 1]
    BY <1>6
  <1>8. \A n \in 0..(m - 1) : G[n] = IF n = 0 THEN <<>> ELSE IF s[n] \in T THEN Append(G[n - 1], s[n]) ELSE G[n - 1]
    BY <1>5 DEF Rec
  <1> DEFINE K == [n \in 0..m |-> IF n = 0 THEN <<>> ELSE
                     IF s[n] \in T THEN Append(H[n - 1], s[n]) ELSE H[n - 1]]
  <1>9. ASSUME NEW n \in 0..m PROVE H[n] = K[n]
    <2> HIDE DEF H
    <2>1. n # 0 => n - 1 \in 0..(m - 1)
      BY <1>6
    <2>2. CASE n = m
      BY <1>4, <1>7, <2>1, <2>2
    <2>3. CASE n < m
      BY <1>6, <1>7, <1>8, <2>1, <2>3
    <2> QED
      BY <1>6, <2>2, <2>3
  <1>10. H = K
    <2>1. H = [n \in 0..m |-> H[n]] /\ K = [n \in 0..m |-> K[n]]
      OBVIOUS
    <2> HIDE DEF H, K
    <2> QED
      BY <1>9, <2>1
  <1>11. Rec(s, T, m, H)
    <2> HIDE DEF H
    <2> QED
      BY <1>10 DEF Rec
  <1> QED
    BY <1>3, <1>11

\* Among is the last value of one.
LEMMA AmongRec ==
  ASSUME NEW S, NEW s \in Seq(S), NEW T
  PROVE  \E F : Rec(s, T, Len(s), F) /\ Among(s, T) = F[Len(s)]
  <1>0. Len(s) \in Nat
    OBVIOUS
  <1>1. \E F : Rec(s, T, Len(s), F)
    BY <1>0, RecExists
  <1> QED
    BY <1>1 DEF Among, Rec

\* What Among selects from s is in s and in T, and it forgets nothing.
LEMMA AmongIs ==
  ASSUME NEW S, NEW s \in Seq(S), NEW T
  PROVE  /\ Among(s, T) \in Seq(S \cap T)
         /\ \A m \in 1..Len(s) : s[m] \in T => \E j \in 1..Len(Among(s, T)) : Among(s, T)[j] = s[m]
  <1>1. PICK F : Rec(s, T, Len(s), F) /\ Among(s, T) = F[Len(s)]
    BY AmongRec
  <1>2. Len(s) \in Nat /\ \A m \in 1..Len(s) : s[m] \in S
    OBVIOUS
  <1>3. /\ F[0] = <<>>
        /\ \A n \in 1..Len(s) : F[n] = IF s[n] \in T THEN Append(F[n - 1], s[n]) ELSE F[n - 1]
    <2> DEFINE rhs(n) == IF n = 0 THEN <<>> ELSE IF s[n] \in T THEN Append(F[n - 1], s[n]) ELSE F[n - 1]
    <2>1. F = [n \in 0..Len(s) |-> rhs(n)]
      BY <1>1 DEF Rec
    <2> HIDE DEF rhs
    <2>2. \A n \in 0..Len(s) : F[n] = rhs(n)
      BY <2>1
    <2>3. F[0] = rhs(0) /\ \A n \in 1..Len(s) : F[n] = rhs(n)
      BY <1>2, <2>2
    <2> QED
      BY <2>3 DEF rhs
  <1> DEFINE Good(n) == /\ F[n] \in Seq(S \cap T)
                        /\ \A m \in 1..n : s[m] \in T => \E j \in 1..Len(F[n]) : F[n][j] = s[m]
             A == {n \in 0..Len(s) : ~Good(n)}
  <1>4. SUFFICES ASSUME A # {} PROVE FALSE
    BY <1>1, <1>2
  <1>5. PICK n \in A : \A k \in A : n <= k
    <2> HIDE DEF A
    <2>1. A \subseteq Nat
      BY <1>2 DEF A
    <2> QED
      BY <1>4, <2>1, Least
  <1>6. n \in Nat /\ n <= Len(s) /\ ~Good(n)
    BY <1>2, <1>5
  <1>7. n # 0
    <2>1. F[0] \in Seq(S \cap T) /\ \A m \in 1..0 : FALSE
      BY <1>3
    <2>2. Good(0)
      BY <2>1
    <2> HIDE DEF Good
    <2> QED
      BY <1>6, <2>2
  <1>8. n - 1 \in 0..Len(s) /\ n \in 1..Len(s) /\ Good(n - 1)
    <2>1. n - 1 \in 0..Len(s) /\ n \in 1..Len(s)
      BY <1>2, <1>6, <1>7
    <2> HIDE DEF Good
    <2>2. n - 1 \notin A
      BY <1>5, <1>6
    <2> QED
      BY <2>1, <2>2
  <1> DEFINE z == F[n - 1]
  <1>9. /\ z \in Seq(S \cap T)
        /\ \A m \in 1..(n - 1) : s[m] \in T => \E j \in 1..Len(z) : z[j] = s[m]
    BY <1>8
  <1>10. F[n] = IF s[n] \in T THEN Append(z, s[n]) ELSE z
    BY <1>3, <1>8
  <1> HIDE DEF z
  <1>11. CASE s[n] \notin T
    <2>1. F[n] = z
      BY <1>10, <1>11
    <2>2. \A m \in 1..n : s[m] \in T => m \in 1..(n - 1)
      BY <1>6, <1>11
    <2> QED
      BY <1>6, <1>9, <2>1, <2>2
  <1>12. CASE s[n] \in T
    <2>1. s[n] \in S \cap T
      BY <1>2, <1>8, <1>12
    <2>2. F[n] = Append(z, s[n])
      BY <1>10, <1>12
    <2>3. /\ F[n] \in Seq(S \cap T) /\ Len(F[n]) = Len(z) + 1 /\ F[n][Len(z) + 1] = s[n]
          /\ \A j \in 1..Len(z) : F[n][j] = z[j]
          /\ Len(z) \in Nat
      BY <1>9, <2>1, <2>2
    <2>4. ASSUME NEW m \in 1..n, s[m] \in T PROVE \E j \in 1..Len(F[n]) : F[n][j] = s[m]
      <3>1. CASE m = n
        BY <2>3, <3>1
      <3>2. CASE m \in 1..(n - 1)
        <4>1. PICK j \in 1..Len(z) : z[j] = s[m]
          BY <1>9, <2>4, <3>2
        <4>2. j \in 1..Len(F[n]) /\ F[n][j] = s[m]
          BY <2>3, <4>1
        <4> QED
          BY <4>2
      <3> QED
        BY <1>6, <2>4, <3>1, <3>2
    <2> QED
      BY <1>6, <2>3, <2>4
  <1> QED
    BY <1>11, <1>12
------------------------------------------------------------------------------
(* The connections of an operation *)

\* Connections are from and to operations.
LEMMA LinksAre ==
  /\ Connections \in Seq(Links)
  /\ \A c \in Links : \E m \in 1..Len(Connections) : Connections[m] = c
  /\ \A c \in Links : c.from \in Ops /\ c.to \in Ops /\ c.inlet \in STRING
  <1> DEFINE C == [type : ConnectionTypes, from : Ops, to : Ops, inlet : STRING]
  <1>1. \A c \in C : c.from \in Ops /\ c.to \in Ops /\ c.inlet \in STRING
    OBVIOUS
  <1>2. Connections \in Seq(C)
    BY GraphAssumption
  <1> HIDE DEF C
  <1>3. Connections \in Seq(Links) /\ \A c \in Links : \E m \in 1..Len(Connections) : Connections[m] = c
    BY <1>2 DEF Links, ToSet
  <1>4. Links \subseteq C
    BY <1>2 DEF Links, ToSet
  <1> QED
    BY <1>1, <1>3, <1>4

\* The connections of an outlet: all those from its operation.
LEMMA OutsAre ==
  ASSUME NEW o \in Ops
  PROVE  /\ Len(OutConnections(o)) \in Nat
         /\ \A k \in 1..Len(OutConnections(o)) :
              OutConnections(o)[k] \in Links /\ OutConnections(o)[k].from = o
         /\ \A c \in Links : c.from = o =>
              \E k \in 1..Len(OutConnections(o)) : OutConnections(o)[k] = c
  <1> DEFINE T == {c \in Links : c.from = o}
  <1>1. Connections \in Seq(Links) /\ \A c \in Links : \E m \in 1..Len(Connections) : Connections[m] = c
    BY LinksAre
  <1> HIDE DEF T
  <1>2. /\ Among(Connections, T) \in Seq(Links \cap T)
        /\ \A m \in 1..Len(Connections) : Connections[m] \in T =>
             \E j \in 1..Len(Among(Connections, T)) : Among(Connections, T)[j] = Connections[m]
    BY <1>1, AmongIs, SMTT(20)
  <1>3. OutConnections(o) = Among(Connections, T)
    BY DEF OutConnections, T
  <1>4. \A k \in 1..Len(OutConnections(o)) : OutConnections(o)[k] \in Links \cap T
    BY <1>2, <1>3
  <1>5. \A c \in Links : c.from = o => \E k \in 1..Len(OutConnections(o)) : OutConnections(o)[k] = c
    BY <1>1, <1>2, <1>3 DEF T
  <1>6. Len(OutConnections(o)) \in Nat
    BY <1>2, <1>3
  <1> QED
    BY <1>4, <1>5, <1>6 DEF T

\* The PULL connections of an inlet are PULL connections to it.
LEMMA PullsAre ==
  ASSUME NEW o \in Ops, NEW i \in InletIndexes(o)
  PROVE  /\ Len(PullConnections(o, i)) \in Nat
         /\ \A k \in 1..Len(PullConnections(o, i)) :
              /\ PullConnections(o, i)[k] \in Links /\ PullConnections(o, i)[k].type = "PULL"
              /\ PullConnections(o, i)[k].to = o /\ PullConnections(o, i)[k].inlet = Inlets[o][i]
              /\ HasPull(o, i)
  <1> DEFINE T == {c \in Links : c.to = o /\ c.inlet = Inlets[o][i]}
             P == {c \in Links : c.type = "PULL"}
             z == InConnections(o, i)
  <1>1. Connections \in Seq(Links)
    BY LinksAre
  <1> HIDE DEF T, P
  <1>2. Among(Connections, T) \in Seq(Links \cap T)
    BY <1>1, AmongIs
  <1>3. z \in Seq(Links \cap T)
    BY <1>2 DEF InConnections, T
  <1> HIDE DEF z
  <1>4. z \in Seq(ToSet(z)) /\ \A c \in ToSet(z) : c \in Links \cap T /\ \E k \in DOMAIN z : z[k] = c
    BY <1>3 DEF ToSet
  <1>5. Among(z, P) \in Seq(ToSet(z) \cap P)
    BY <1>4, AmongIs
  <1>6. PullConnections(o, i) = Among(z, P)
    BY DEF PullConnections, P, z
  <1>7. Len(PullConnections(o, i)) \in Nat
        /\ \A k \in 1..Len(PullConnections(o, i)) : PullConnections(o, i)[k] \in ToSet(z) \cap P
    BY <1>5, <1>6
  <1> QED
    BY <1>4, <1>7 DEF HasPull, T, P, z

\* The inlets a put reaches.
LEMMA TargetsAre ==
  ASSUME NEW c \in Links, NEW v
  PROVE  /\ Len(TargetInlets(c, v)) \in Nat
         /\ \A m \in 1..Len(TargetInlets(c, v)) : TargetInlets(c, v)[m] \in Reached(c, v)
         /\ \A i \in Reached(c, v) :
              \E m \in 1..Len(TargetInlets(c, v)) : TargetInlets(c, v)[m] = i
         /\ ToSet(TargetInlets(c, v)) \subseteq Reached(c, v)
  <1> DEFINE I == InletIndexes(c.to)
             s == [i \in I |-> i]
             T == Reached(c, v)
  <1>1. c.to \in Ops
    BY LinksAre
  <1>2. Inlets[c.to] \in Seq(STRING)
    BY <1>1, GraphAssumption
  <1>3. s \in Seq(I) /\ Len(s) = Len(Inlets[c.to]) /\ \A i \in I : i \in 1..Len(s) /\ s[i] = i
    BY <1>2 DEF InletIndexes
  <1>4. T \subseteq I
    BY DEF Reached
  <1>5. TargetInlets(c, v) = Among(s, T)
    BY DEF TargetInlets
  <1> HIDE DEF s, T, I
  <1>9. s \in Seq(I)
    BY <1>3
  <1>6. /\ Among(s, T) \in Seq(I \cap T)
        /\ \A m \in 1..Len(s) : s[m] \in T => \E j \in 1..Len(Among(s, T)) : Among(s, T)[j] = s[m]
    BY <1>9, AmongIs
  <1>7. /\ Len(Among(s, T)) \in Nat
        /\ \A m \in 1..Len(Among(s, T)) : Among(s, T)[m] \in T
        /\ ToSet(Among(s, T)) \subseteq T
    BY <1>6 DEF ToSet
  <1>8. \A i \in T : \E j \in 1..Len(Among(s, T)) : Among(s, T)[j] = i
    <2> TAKE i \in T
    <2>1. i \in 1..Len(s) /\ s[i] = i
      BY <1>3, <1>4
    <2> QED
      BY <1>6, <2>1
  <1> QED
    BY <1>5, <1>7, <1>8 DEF T

------------------------------------------------------------------------------
(* One stack *)

\* Connections are from and to operations.
LEMMA Selected ==
  ASSUME NEW o \in Ops
  PROVE  /\ Len(OutConnections(o)) \in Nat
         /\ \A k \in 1..Len(OutConnections(o)) : OutConnections(o)[k].to \in Ops
         /\ \A i \in InletIndexes(o) :
              /\ Len(PullConnections(o, i)) \in Nat
              /\ \A k \in 1..Len(PullConnections(o, i)) : PullConnections(o, i)[k].from \in Ops
              /\ \A k \in Nat \ {0} : k <= Len(PullConnections(o, i)) =>
                                        PullConnections(o, i)[k].from \in Ops
  <1>1. \A x \in Links : x.from \in Ops /\ x.to \in Ops
    BY LinksAre
  <1>2. Len(OutConnections(o)) \in Nat
        /\ \A k \in 1..Len(OutConnections(o)) : OutConnections(o)[k].to \in Ops
    BY <1>1, OutsAre
  <1>3. ASSUME NEW i \in InletIndexes(o)
        PROVE  /\ Len(PullConnections(o, i)) \in Nat
               /\ \A k \in 1..Len(PullConnections(o, i)) : PullConnections(o, i)[k].from \in Ops
    BY <1>1, PullsAre
  <1> QED
    BY <1>2, <1>3

LEMMA NoCall == \A c, L : StackOK(<<>>, c, L)
  BY DEF StackOK

\* A fresh call.
LEMMA FreshFrame ==
  ASSUME NEW o \in Ops, NEW mode \in {"invoke", "execute"}, Counters, NEW L
  PROVE  /\ FrameOK(Frame(o, mode), clock, L)
         /\ Frame(o, mode).pc = "decide" /\ Frame(o, mode).op = o /\ Frame(o, mode).born = clock
  <1> DEFINE a == [j \in InletIndexes(o) |-> DefaultValue]
             e == <<>>
             f == Frame(o, mode)
  <1>1. clock \in Nat /\ clock \in 0..clock
    BY BoundAssumption DEF Counters
  <1>2. a \in [InletIndexes(o) -> Value \ {ErrorValue}] /\ DOMAIN e \subseteq InletIndexes(o) /\ EmptyValue \in Value
    BY DEF DefaultValue, ErrorValue, EmptyValue, Value
  <1>3. f = [op |-> o, mode |-> mode, pc |-> "decide", i |-> 1, k |-> 1, args |-> a,
             val |-> EmptyValue, pulled |-> e, born |-> clock, at |-> clock]
    BY DEF Frame
  <1> HIDE DEF a, e, f
  <1>4. /\ f.op = o /\ f.mode = mode /\ f.pc = "decide" /\ f.i = 1 /\ f.k = 1 /\ f.args = a
        /\ f.val = EmptyValue /\ f.pulled = e /\ f.born = clock /\ f.at = clock
    BY <1>3
  <1>5. IsFrame(f)
    BY <1>3 DEF IsFrame
  <1>6. FrameOK(f, clock, L)
    BY <1>1, <1>2, <1>4, <1>5 DEF FrameOK
  <1> QED
    BY <1>4, <1>6 DEF f

\* A call of nobody else.
LEMMA OneCall ==
  ASSUME NEW f, NEW c, NEW L, FrameOK(f, c, L), f.pc = "decide"
  PROVE  StackOK(<<f>>, c, L)
  <1> DEFINE z == <<f>>
  <1>1. z \in Seq({f}) /\ Len(z) = 1 /\ z[1] = f
    OBVIOUS
  <1> HIDE DEF z
  <1>2. /\ \A n \in 1..Len(z) : FrameOK(z[n], c, L)
        /\ \A n \in 1..(Len(z) - 1) : Waits(z[n], z[n + 1], L)
        /\ z[Len(z)].pc # "deliver"
    BY <1>1
  <1>3. StackOK(z, c, L)
    BY <1>1, <1>2 DEF StackOK
  <1> QED
    BY <1>3 DEF z

\* What holds of a stack holds when the clock and the runs have grown.
LEMMA Grows ==
  ASSUME NEW c \in Nat, NEW d \in Nat, c <= d,
         NEW L \in [Ops -> Nat], NEW M \in [Ops -> Nat], \A o \in Ops : L[o] <= M[o],
         NEW s, StackOK(s, c, L)
  PROVE  StackOK(s, d, M)
  <1>1. \A f : FrameOK(f, c, L) => FrameOK(f, d, M)
    <2> SUFFICES ASSUME NEW f, FrameOK(f, c, L) PROVE FrameOK(f, d, M)
      OBVIOUS
    <2>1. L[f.op] <= M[f.op] /\ L[f.op] \in Nat /\ M[f.op] \in Nat
      BY DEF FrameOK
    <2>2. f.born \in 0..d /\ f.at \in 0..d
      BY DEF FrameOK
    <2>3. f.pc \in {"invoked", "deliver"} /\ Inlets[f.op] # <<>> => M[f.op] > f.born
      BY <2>1, <2>2 DEF FrameOK
    <2> QED
      BY <2>2, <2>3 DEF FrameOK
  <1>2. \A f, m : FrameOK(f, c, L) /\ ServedBefore(f, m, L) => ServedBefore(f, m, M)
    <2> SUFFICES ASSUME NEW f, NEW m, FrameOK(f, c, L), ServedBefore(f, m, L),
                        NEW j \in 1..Len(OutConnections(f.op)), j < m,
                        OutConnections(f.op)[j].type = "EVENT",
                        Inlets[OutConnections(f.op)[j].to] # <<>>
                 PROVE  M[OutConnections(f.op)[j].to] > f.at
      BY DEF ServedBefore
    <2>1. OutConnections(f.op)[j].to \in Ops
      BY Selected DEF FrameOK
    <2>2. L[OutConnections(f.op)[j].to] > f.at
      BY DEF ServedBefore
    <2>3. f.at \in Nat
      BY DEF FrameOK
    <2> QED
      BY <2>1, <2>2, <2>3
  <1>3. \A n \in 1..(Len(s) - 1) : Waits(s[n], s[n + 1], M)
    <2> SUFFICES ASSUME NEW n \in 1..(Len(s) - 1) PROVE Waits(s[n], s[n + 1], M)
      OBVIOUS
    <2>1. Len(s) \in Nat /\ n \in 1..Len(s)
      BY DEF StackOK
    <2> QED
      BY <1>2, <2>1 DEF StackOK, Waits
  <1>4. s # <<>> => Len(s) \in 1..Len(s)
    BY DEF StackOK
  <1> QED
    BY <1>1, <1>2, <1>3, <1>4 DEF StackOK

\* The parts of a stack that the changes of its top keep.
LEMMA TopOfStack ==
  ASSUME NEW s, NEW c, NEW L, StackOK(s, c, L), s # <<>>
  PROVE  /\ Len(s) \in Nat \ {0} /\ Last(s) = s[Len(s)] /\ FrameOK(Last(s), c, L)
         /\ Len(Front(s)) = Len(s) - 1
         /\ \A n \in 1..(Len(s) - 1) : Front(s)[n] = s[n]
         /\ \E S : s \in Seq(S) /\ Front(s) \in Seq(S)
  <1>1. PICK S : s \in Seq(S)
    BY DEF StackOK
  <1>2. Len(s) \in Nat \ {0} /\ Len(s) \in DOMAIN s
    BY <1>1
  <1>3. Last(s) = s[Len(s)] /\ FrameOK(Last(s), c, L)
    BY <1>2 DEF Last, StackOK
  <1> DEFINE l == Len(s) - 1
  <1>4. 1 \in Int /\ l \in Int /\ l \in Nat /\ \A i \in 1..l : s[i] \in S
    BY <1>1, <1>2
  <1> HIDE DEF l
  <1>5. /\ SubSeq(s, 1, l) \in Seq(S) /\ Len(SubSeq(s, 1, l)) = IF 1 <= l THEN l - 1 + 1 ELSE 0
        /\ \A i \in 1..(l - 1 + 1) : SubSeq(s, 1, l)[i] = s[1 + i - 1]
    BY <1>4, SubSeqProperties
  <1>6. /\ Len(SubSeq(s, 1, l)) = l
        /\ \A n \in 1..l : SubSeq(s, 1, l)[n] = s[n]
    BY <1>4, <1>5
  <1> QED
    BY <1>1, <1>2, <1>3, <1>5, <1>6 DEF Front, l

\* The innermost call goes on as f.
LEMMA GoesOn ==
  ASSUME NEW s, NEW c, NEW L, StackOK(s, c, L), s # <<>>,
         NEW f, FrameOK(f, c, L), f.op = Last(s).op, f.born = Last(s).born,
         f.pc = "deliver" => ServedBefore(f, f.k, L)
  PROVE  StackOK(Append(Front(s), f), c, L)
  <1> DEFINE z == Append(Front(s), f)
  <1>1. PICK S : s \in Seq(S) /\ Front(s) \in Seq(S)
    BY TopOfStack
  <1>2. /\ Len(s) \in Nat \ {0} /\ Last(s) = s[Len(s)] /\ Len(Front(s)) = Len(s) - 1
        /\ \A n \in 1..(Len(s) - 1) : Front(s)[n] = s[n]
    BY TopOfStack
  <1>3. Front(s) \in Seq(S \cup {f})
    BY <1>1
  <1>4. z \in Seq(S \cup {f})
    BY <1>3
  <1>5. z # <<>> /\ Len(z) = Len(s) /\ z[Len(s)] = f /\ \A n \in 1..(Len(s) - 1) : z[n] = s[n]
    BY <1>2, <1>3
  <1> HIDE DEF z
  <1>6. \A n \in 1..Len(s) : FrameOK(z[n], c, L)
    <2> TAKE n \in 1..Len(s)
    <2>1. CASE n = Len(s)
      BY <1>5, <2>1
    <2>2. CASE n \in 1..(Len(s) - 1)
      BY <1>5, <2>2 DEF StackOK
    <2> QED
      BY <1>2, <2>1, <2>2
  <1>7. \A n \in 1..(Len(s) - 1) : Waits(z[n], z[n + 1], L)
    <2> TAKE n \in 1..(Len(s) - 1)
    <2>1. Waits(s[n], s[n + 1], L) /\ z[n] = s[n]
      BY <1>5 DEF StackOK
    <2>2. CASE n + 1 = Len(s)
      BY <1>2, <1>5, <2>1, <2>2 DEF Waits
    <2>3. CASE n + 1 \in 1..(Len(s) - 1)
      BY <1>5, <2>1, <2>3
    <2> QED
      BY <1>2, <2>2, <2>3
  <1> QED
    BY <1>4, <1>5, <1>6, <1>7 DEF StackOK, z

\* It goes on as f and calls g.
LEMMA Calls ==
  ASSUME NEW s, NEW c, NEW L, StackOK(s, c, L), s # <<>>,
         NEW f, FrameOK(f, c, L), f.op = Last(s).op, f.born = Last(s).born,
         NEW g, FrameOK(g, c, L), g.pc = "decide", Waits(f, g, L)
  PROVE  StackOK(Front(s) \o <<f, g>>, c, L)
  <1> DEFINE z == Front(s) \o <<f, g>>
  <1>1. PICK S : s \in Seq(S) /\ Front(s) \in Seq(S)
    BY TopOfStack
  <1>2. /\ Len(s) \in Nat \ {0} /\ Last(s) = s[Len(s)] /\ Len(Front(s)) = Len(s) - 1
        /\ \A n \in 1..(Len(s) - 1) : Front(s)[n] = s[n]
    BY TopOfStack
  <1>3. Front(s) \in Seq(S \cup {f, g}) /\ <<f, g>> \in Seq(S \cup {f, g})
    BY <1>1
  <1>4. z \in Seq(S \cup {f, g})
    BY <1>3
  <1>5. /\ z # <<>> /\ Len(z) = Len(s) + 1 /\ z[Len(s)] = f /\ z[Len(s) + 1] = g
        /\ \A n \in 1..(Len(s) - 1) : z[n] = s[n]
    BY <1>2, <1>3
  <1> HIDE DEF z
  <1>6. \A n \in 1..Len(z) : FrameOK(z[n], c, L)
    <2> TAKE n \in 1..Len(z)
    <2>1. CASE n = Len(s) \/ n = Len(s) + 1
      BY <1>5, <2>1
    <2>2. CASE n \in 1..(Len(s) - 1)
      BY <1>2, <1>5, <2>2 DEF StackOK
    <2> QED
      BY <1>2, <1>5, <2>1, <2>2
  <1>7. \A n \in 1..Len(s) : Waits(z[n], z[n + 1], L)
    <2> TAKE n \in 1..Len(s)
    <2>1. CASE n = Len(s)
      BY <1>5, <2>1
    <2>2. CASE n \in 1..(Len(s) - 1)
      <3>1. Waits(s[n], s[n + 1], L) /\ z[n] = s[n]
        BY <1>5, <2>2 DEF StackOK
      <3>2. CASE n + 1 = Len(s)
        BY <1>2, <1>5, <3>1, <3>2 DEF Waits
      <3>3. CASE n + 1 \in 1..(Len(s) - 1)
        BY <1>5, <3>1, <3>3
      <3> QED
        BY <1>2, <2>2, <3>2, <3>3
    <2> QED
      BY <1>2, <2>1, <2>2
  <1>8. Len(z) - 1 = Len(s)
    BY <1>2, <1>5
  <1> QED
    BY <1>4, <1>5, <1>6, <1>7, <1>8 DEF StackOK, z

\* It returns, having its value: what its caller dealt with has run.
LEMMA Returns ==
  ASSUME NEW s, NEW c \in Nat, NEW L \in [Ops -> Nat], StackOK(s, c, L), s # <<>>,
         Last(s).pc \in {"invoked", "deliver"}
  PROVE  StackOK(Front(s), c, L)
  <1> DEFINE z == Front(s)
  <1>1. PICK S : s \in Seq(S) /\ z \in Seq(S)
    BY TopOfStack
  <1>2. /\ Len(s) \in Nat \ {0} /\ Last(s) = s[Len(s)] /\ Len(z) = Len(s) - 1
        /\ \A n \in 1..(Len(s) - 1) : z[n] = s[n]
    BY TopOfStack
  <1> HIDE DEF z
  <1>3. \A n \in 1..Len(z) : FrameOK(z[n], c, L)
    BY <1>2 DEF StackOK
  <1>4. \A n \in 1..(Len(z) - 1) : Waits(z[n], z[n + 1], L)
    <2> TAKE n \in 1..(Len(z) - 1)
    <2>1. n \in 1..(Len(s) - 1) /\ n + 1 \in 1..(Len(s) - 1)
      BY <1>2
    <2> QED
      BY <1>2, <2>1 DEF StackOK
  <1>5. ASSUME z # <<>>, z[Len(z)].pc = "deliver"
        PROVE  ServedBefore(z[Len(z)], z[Len(z)].k, L)
    <2> DEFINE f == z[Len(z)] g == s[Len(s)]
    <2>1. Len(z) \in 1..(Len(s) - 1) /\ Len(z) + 1 = Len(s) /\ Len(z) \in 1..Len(s)
      BY <1>1, <1>2, <1>5
    <2>2. f = s[Len(z)] /\ FrameOK(f, c, L) /\ FrameOK(g, c, L) /\ Waits(f, g, L)
      BY <1>2, <2>1 DEF StackOK
    <2> HIDE DEF f, g
    <2>3. /\ g.op = OutConnections(f.op)[f.k - 1].to /\ g.born >= f.at
          /\ ServedBefore(f, f.k - 1, L)
      BY <1>5, <2>2 DEF Waits, f
    <2>4. Inlets[g.op] # <<>> => L[g.op] > g.born
      BY <1>2, <2>2 DEF FrameOK, g
    <2>5. g.op \in Ops /\ g.born \in Nat /\ f.at \in Nat /\ f.k \in Nat \ {0} /\ L[g.op] \in Nat
      BY <2>2 DEF FrameOK
    <2>6. Inlets[g.op] # <<>> => L[g.op] > f.at
      BY <2>3, <2>4, <2>5
    <2>7. ServedBefore(f, f.k, L)
      <3> SUFFICES ASSUME NEW j \in 1..Len(OutConnections(f.op)), j < f.k,
                          OutConnections(f.op)[j].type = "EVENT",
                          Inlets[OutConnections(f.op)[j].to] # <<>>
                   PROVE  L[OutConnections(f.op)[j].to] > f.at
        BY DEF ServedBefore
      <3>1. CASE j = f.k - 1
        BY <2>3, <2>6, <3>1
      <3>2. CASE j < f.k - 1
        BY <2>3, <3>2 DEF ServedBefore
      <3> QED
        BY <2>5, <3>1, <3>2
    <2> QED
      BY <2>7 DEF f
  <1> QED
    BY <1>1, <1>3, <1>4, <1>5 DEF StackOK, z
------------------------------------------------------------------------------
(* The actions *)

LEMMA Numbers ==
  ASSUME Counters
  PROVE  /\ clock \in Nat /\ MaxClock \in Nat /\ requests \in Nat /\ MaxRequests \in Nat
         /\ lastRun \in [Ops -> Nat] /\ \A o \in Ops : lastRun[o] <= clock
  BY BoundAssumption DEF Counters

\* A step changes the stack of one thread, and the other threads' stacks stay
\* good although the clock and the runs have grown.
LEMMA StepKeeps ==
  ASSUME IInv, NEW t \in Threads, Tables', Counters', NEW z,
         stack' = [stack EXCEPT ![t] = z], StackOK(z, clock', lastRun'),
         clock <= clock', \A o \in Ops : lastRun[o] <= lastRun'[o]
  PROVE  IInv'
  <1>1. clock \in Nat /\ clock' \in Nat /\ lastRun \in [Ops -> Nat] /\ lastRun' \in [Ops -> Nat]
    BY BoundAssumption DEF IInv, Counters
  <1>2. \A u \in Threads : stack'[u] = IF u = t THEN z ELSE stack[u]
    BY DEF IInv
  <1>3. stack' = [u \in Threads |-> stack'[u]]
    BY DEF IInv
  <1>4. \A u \in Threads : StackOK(stack[u], clock', lastRun')
    BY <1>1, Grows DEF IInv
  <1>5. \A u \in Threads : StackOK(stack'[u], clock', lastRun')
    BY <1>2, <1>4
  <1> QED
    BY <1>3, <1>5 DEF IInv

\* When neither grows.
LEMMA QuietStepKeeps ==
  ASSUME IInv, NEW t \in Threads, Tables', Counters', NEW z,
         stack' = [stack EXCEPT ![t] = z], UNCHANGED <<clock, lastRun>>,
         StackOK(z, clock, lastRun)
  PROVE  IInv'
  <1>1. clock <= clock' /\ \A o \in Ops : lastRun[o] <= lastRun'[o]
    BY Numbers DEF IInv
  <1>2. StackOK(z, clock', lastRun')
    OBVIOUS
  <1> QED
    BY <1>1, <1>2, StepKeeps

LEMMA TopIsOK ==
  ASSUME IInv, NEW t \in Threads, stack[t] # <<>>
  PROVE  StackOK(stack[t], clock, lastRun) /\ FrameOK(Top(t), clock, lastRun)
         /\ Top(t) = stack[t][Len(stack[t])] /\ Top(t) = Last(stack[t])
  BY TopOfStack DEF IInv, Top

\* The innermost call returns its value.
LEMMA LeaveKeeps ==
  ASSUME IInv, NEW t \in Threads, stack[t] # <<>>, Top(t).pc \in {"invoked", "deliver"},
         stack' = [stack EXCEPT ![t] = Front(stack[t])], ret' = [ret EXCEPT ![t] = Top(t).val],
         UNCHANGED <<graphVars, history, requests, clock>>
  PROVE  IInv'
  <1>1. /\ FrameOK(Top(t), clock, lastRun) /\ StackOK(stack[t], clock, lastRun)
        /\ Top(t) = Last(stack[t])
    BY TopIsOK
  <1>2. Top(t).val \in Value
    BY <1>1 DEF FrameOK
  <1>3. Tables' /\ Counters' /\ UNCHANGED <<clock, lastRun>>
    BY <1>2 DEF IInv, Tables, Counters, graphVars, history
  <1>4. clock \in Nat /\ lastRun \in [Ops -> Nat]
    BY Numbers DEF IInv
  <1>5. StackOK(Front(stack[t]), clock, lastRun)
    BY <1>1, <1>4, Returns
  <1> QED
    BY <1>3, <1>5, QuietStepKeeps

\* An inlet keeps a value that is no error, in a slot it has.
LEMMA PutKeeps ==
  ASSUME IInv, NEW o \in Ops, NEW i, NEW v \in Value, PutInlet(o, i, v),
         UNCHANGED <<outlet, first, seen>>
  PROVE  Tables'
  <1>1. CASE v = ErrorValue
    BY <1>1 DEF IInv, Tables, PutInlet, Accepted
  <1>2. CASE v # ErrorValue
    <2>1. /\ buffer' = [buffer EXCEPT ![o] = [buffer[o] EXCEPT ![i] = v]]
          /\ updated' = [updated EXCEPT ![o] = [updated[o] EXCEPT ![i] = TRUE]]
      BY <1>2 DEF PutInlet, Accepted
    <2> DEFINE b == [buffer[o] EXCEPT ![i] = v] w == [updated[o] EXCEPT ![i] = TRUE]
    <2>2. b \in [InletIndexes(o) -> Value \ {ErrorValue}] /\ w \in [InletIndexes(o) -> BOOLEAN]
      BY <1>2 DEF IInv, Tables
    <2> HIDE DEF b, w
    <2>3. /\ buffer' = [p \in Ops |-> buffer'[p]] /\ updated' = [p \in Ops |-> updated'[p]]
          /\ \A p \in Ops : /\ buffer'[p] \in [InletIndexes(p) -> Value \ {ErrorValue}]
                            /\ updated'[p] \in [InletIndexes(p) -> BOOLEAN]
      BY <2>1, <2>2 DEF IInv, Tables, b, w
    <2> QED
      BY <2>3 DEF IInv, Tables
  <1> QED
    BY <1>1, <1>2

\* An operation with inlets is called by every invoke: an inlet that is never
\* pulled for counts as updated.
LEMMA InletsMeanCall ==
  ASSUME NEW o \in Ops, Inlets[o] # <<>>
  PROVE  MustCall(o)
  <1>1. 1 \in InletIndexes(o)
    BY GraphAssumption DEF InletIndexes
  <1>2. HasPull(o, 1) \/ IsUpdated(o, 1)
    BY DEF HasPull, IsUpdated
  <1> QED
    BY <1>1, <1>2 DEF MustCall

LEMMA RequestCallStep ==
  ASSUME IInv, NEW t \in Threads, NEW o \in Ops, NEW mode \in {"invoke", "execute"},
         RequestCall(t, o, mode)
  PROVE  IInv'
  <1>1. Tables' /\ Counters'
    <2>1. requests' \in 0..MaxRequests
      BY Numbers DEF IInv, RequestCall, Request
    <2> QED
      BY <2>1 DEF IInv, RequestCall, graphVars, history, Tables, Counters
  <1>2. StackOK(<<Frame(o, mode)>>, clock, lastRun)
    BY FreshFrame, OneCall DEF IInv
  <1> QED
    BY <1>1, <1>2, QuietStepKeeps DEF RequestCall, history

LEMMA RequestPutStep ==
  ASSUME IInv, NEW t \in Threads, NEW o \in Ops, NEW i \in InletIndexes(o), RequestPut(t, o, i)
  PROVE  IInv'
  <1>1. /\ clock \in Nat /\ clock' = clock + 1 /\ clock' \in 0..MaxClock
        /\ requests' \in 0..MaxRequests
        /\ UNCHANGED <<outlet, first, stack, ret, lastRun, seen>>
    BY Numbers DEF IInv, RequestPut, Request
  <1>2. Tables'
    BY <1>1, PutKeeps DEF RequestPut, Value
  <1>3. lastRun \in [Ops -> Nat] /\ lastRun \in [Ops -> 0..clock'] /\ clock' \in Nat
    BY <1>1, Numbers DEF IInv
  <1>4. Counters'
    BY <1>1, <1>3 DEF IInv, Counters
  <1>5. \A u \in Threads : StackOK(stack[u], clock', lastRun)
    BY <1>1, <1>3, Grows DEF IInv
  <1> QED
    BY <1>1, <1>2, <1>4, <1>5 DEF IInv

LEMMA DecideStep == ASSUME IInv, NEW t \in Threads, Decide(t) PROVE IInv'
  <1> DEFINE f == Top(t)
             call == [f EXCEPT !.pc = "collect"]
             old == [f EXCEPT !.pc = "invoked", !.val = outlet[f.op], !.at = clock]
  <1>1. stack[t] # <<>> /\ f.pc = "decide" /\ UNCHANGED <<graphVars, history, ret, requests, clock>>
    BY DEF Decide, At
  <1>2. FrameOK(f, clock, lastRun) /\ StackOK(stack[t], clock, lastRun) /\ f = Last(stack[t])
    BY <1>1, TopIsOK
  <1>3. Tables' /\ Counters' /\ UNCHANGED <<clock, lastRun>>
    BY <1>1 DEF IInv, Tables, Counters, graphVars, history
  <1>4. CASE MustCall(f.op)
    <2>1. stack' = [stack EXCEPT ![t] = Append(Front(stack[t]), call)]
      BY <1>4 DEF Decide, Continue
    <2>2. FrameOK(call, clock, lastRun) /\ call.op = f.op /\ call.born = f.born /\ call.pc = "collect"
      BY <1>1, <1>2 DEF FrameOK, IsFrame
    <2>3. StackOK(Append(Front(stack[t]), call), clock, lastRun)
      BY <1>1, <1>2, <2>2, GoesOn
    <2> QED
      BY <1>3, <2>1, <2>3, QuietStepKeeps
  <1>5. CASE ~MustCall(f.op)
    <2>1. stack' = [stack EXCEPT ![t] = Append(Front(stack[t]), old)]
      BY <1>5 DEF Decide, Continue
    <2>2. Inlets[f.op] = <<>>
      BY <1>2, <1>5, InletsMeanCall DEF FrameOK
    <2>3. clock \in 0..clock /\ outlet[f.op] \in Value
      BY <1>2, Numbers DEF IInv, Tables, FrameOK
    <2>4. FrameOK(old, clock, lastRun) /\ old.op = f.op /\ old.born = f.born /\ old.pc = "invoked"
      <3> DEFINE v == outlet[f.op]
      <3> HIDE DEF f, v
      <3>1. v \in Value
        BY <2>3 DEF v
      <3>2. /\ old.op = f.op /\ old.mode = f.mode /\ old.pc = "invoked" /\ old.i = f.i /\ old.k = f.k
            /\ old.args = f.args /\ old.val = v /\ old.pulled = f.pulled /\ old.born = f.born
            /\ old.at = clock
            /\ IsFrame(old)
        BY <1>2 DEF FrameOK, IsFrame, v
      <3> QED
        BY <1>2, <2>2, <2>3, <3>1, <3>2 DEF FrameOK
    <2>5. StackOK(Append(Front(stack[t]), old), clock, lastRun)
      BY <1>1, <1>2, <2>4, GoesOn
    <2> QED
      BY <1>3, <2>1, <2>5, QuietStepKeeps
  <1> QED
    BY <1>4, <1>5

LEMMA StartPullStep == ASSUME IInv, NEW t \in Threads, StartPull(t) PROVE IInv'
  <1> DEFINE f == Top(t)
             o == PullConnections(f.op, f.i)[f.k].from
             g == [f EXCEPT !.pc = "pulled"]
             h == Frame(o, "invoke")
  <1>1. /\ stack[t] # <<>> /\ f.pc = "collect" /\ UNCHANGED <<graphVars, history, ret, requests, clock>>
        /\ f.i \in InletIndexes(f.op) /\ f.k <= Len(PullConnections(f.op, f.i))
        /\ stack' = [stack EXCEPT ![t] = Front(stack[t]) \o <<g, h>>]
    BY DEF StartPull, At, Enter
  <1>2. FrameOK(f, clock, lastRun) /\ StackOK(stack[t], clock, lastRun) /\ f = Last(stack[t])
    BY <1>1, TopIsOK
  <1>3. Tables' /\ Counters' /\ UNCHANGED <<clock, lastRun>>
    BY <1>1 DEF IInv, Tables, Counters, graphVars, history
  <1>4. FrameOK(g, clock, lastRun) /\ g.op = f.op /\ g.born = f.born /\ g.pc = "pulled"
    BY <1>1, <1>2 DEF FrameOK, IsFrame
  <1>5. o \in Ops
    <2>1. f.op \in Ops /\ f.k \in Nat \ {0}
      BY <1>2 DEF FrameOK
    <2> QED
      BY <1>1, <2>1, Selected
  <1>6. FrameOK(h, clock, lastRun) /\ h.pc = "decide"
    BY <1>5, FreshFrame DEF IInv
  <1>7. Waits(g, h, lastRun)
    BY <1>4 DEF Waits
  <1> HIDE DEF f, g, h, o
  <1>8. StackOK(Front(stack[t]) \o <<g, h>>, clock, lastRun)
    BY <1>1, <1>2, <1>4, <1>6, <1>7, Calls
  <1> QED
    BY <1>1, <1>3, <1>8, QuietStepKeeps

LEMMA EndPullStep == ASSUME IInv, NEW t \in Threads, EndPull(t) PROVE IInv'
  <1> DEFINE f == Top(t)
             v == ret[t]
             p == IF v = ErrorValue THEN f.pulled ELSE PulledNow(f)
             g == [f EXCEPT !.pc = "collect", !.k = NextPull(f, v), !.pulled = p]
  <1>1. /\ stack[t] # <<>> /\ f.pc = "pulled" /\ PutInlet(f.op, f.i, v)
        /\ UNCHANGED <<outlet, first, ret, requests, clock, lastRun, seen>>
        /\ stack' = [stack EXCEPT ![t] = Append(Front(stack[t]), g)]
    BY DEF EndPull, At, Continue
  <1>2. FrameOK(f, clock, lastRun) /\ StackOK(stack[t], clock, lastRun) /\ f = Last(stack[t])
    BY <1>1, TopIsOK
  <1>3. v \in Value
    BY DEF IInv, Counters
  <1> HIDE DEF f, v
  <1>4. f.op \in Ops /\ f.i \in InletIndexes(f.op) /\ f.k \in Nat \ {0}
    BY <1>1, <1>2 DEF FrameOK
  <1>5. Tables'
    BY <1>1, <1>3, <1>4, PutKeeps
  <1>6. Counters' /\ UNCHANGED <<clock, lastRun>>
    BY <1>1 DEF IInv, Counters
  <1>7. NextPull(f, v) \in Nat \ {0}
    <2>1. Len(PullConnections(f.op, f.i)) \in Nat
      BY <1>4, Selected
    <2> QED
      BY <1>4, <2>1 DEF NextPull
  <1>8. DOMAIN p \subseteq InletIndexes(f.op)
    BY <1>2, <1>4 DEF FrameOK, PulledNow
  <1> DEFINE k == NextPull(f, v)
  <1> HIDE DEF k, p
  <1>9. /\ g.op = f.op /\ g.mode = f.mode /\ g.pc = "collect" /\ g.i = f.i /\ g.k = k
        /\ g.args = f.args /\ g.val = f.val /\ g.pulled = p /\ g.born = f.born /\ g.at = f.at
        /\ IsFrame(g)
    BY <1>2 DEF FrameOK, IsFrame, k
  <1>10. FrameOK(g, clock, lastRun)
    BY <1>2, <1>7, <1>8, <1>9 DEF FrameOK, k
  <1> HIDE DEF g
  <1>11. StackOK(Append(Front(stack[t]), g), clock, lastRun)
    BY <1>1, <1>2, <1>9, <1>10, GoesOn
  <1> QED
    BY <1>1, <1>5, <1>6, <1>11, QuietStepKeeps

LEMMA CollectStep == ASSUME IInv, NEW t \in Threads, Collect(t) PROVE IInv'
  <1> DEFINE f == Top(t)
             a == [f.args EXCEPT ![f.i] = buffer[f.op][f.i]]
             g == [f EXCEPT !.args = a, !.i = f.i + 1, !.k = 1]
  <1>1. /\ stack[t] # <<>> /\ f.pc = "collect" /\ f.i \in InletIndexes(f.op)
        /\ UNCHANGED <<graphVars, history, ret, requests, clock>>
        /\ stack' = [stack EXCEPT ![t] = Append(Front(stack[t]), g)]
    BY DEF Collect, At, Continue
  <1>2. FrameOK(f, clock, lastRun) /\ StackOK(stack[t], clock, lastRun) /\ f = Last(stack[t])
    BY <1>1, TopIsOK
  <1>3. Tables' /\ Counters' /\ UNCHANGED <<clock, lastRun>>
    BY <1>1 DEF IInv, Tables, Counters, graphVars, history
  <1>4. a \in [InletIndexes(f.op) -> Value \ {ErrorValue}]
    BY <1>1, <1>2 DEF FrameOK, IInv, Tables
  <1> HIDE DEF f, a
  <1>5. /\ g.op = f.op /\ g.mode = f.mode /\ g.pc = f.pc /\ g.i = f.i + 1 /\ g.k = 1
        /\ g.args = a /\ g.val = f.val /\ g.pulled = f.pulled /\ g.born = f.born /\ g.at = f.at
        /\ IsFrame(g)
    BY <1>2 DEF FrameOK, IsFrame
  <1>6. FrameOK(g, clock, lastRun)
    <2>1. g.i \in Nat \ {0} /\ g.k \in Nat \ {0} /\ g.pc = "collect"
      BY <1>1, <1>2, <1>5 DEF FrameOK
    <2>2. /\ g.op \in Ops /\ g.mode \in {"invoke", "execute"} /\ g.val \in Value
          /\ DOMAIN g.pulled \subseteq InletIndexes(g.op)
          /\ g.born \in 0..clock /\ g.at \in 0..clock
      BY <1>2, <1>5 DEF FrameOK
    <2> QED
      BY <1>4, <1>5, <2>1, <2>2 DEF FrameOK
  <1> HIDE DEF g
  <1>7. StackOK(Append(Front(stack[t]), g), clock, lastRun)
    BY <1>1, <1>2, <1>5, <1>6, GoesOn
  <1> QED
    BY <1>1, <1>3, <1>7, QuietStepKeeps

LEMMA CallStep == ASSUME IInv, NEW t \in Threads, Call(t) PROVE IInv'
  <1> DEFINE f == Top(t)
             now == clock + 1
             run == [lastRun EXCEPT ![f.op] = now]
  <1>1. PICK v \in {now, ErrorValue}, throws \in BOOLEAN :
          /\ stack[t] # <<>> /\ f.pc = "collect" /\ clock < MaxClock /\ clock' = now
          /\ first' = [first EXCEPT ![f.op] = @ \/ ~throws]
          /\ stack' = [stack EXCEPT ![t] =
                         Append(Front(@), [f EXCEPT !.pc = "invoked", !.val = v, !.at = now])]
          /\ lastRun' = run
          /\ seen' = [seen EXCEPT ![f.op] = f.args]
          /\ UNCHANGED <<buffer, updated, outlet, ret, requests>>
    BY DEF Call, At, Continue
  <1> DEFINE g == [f EXCEPT !.pc = "invoked", !.val = v, !.at = now]
  <1>2. FrameOK(f, clock, lastRun) /\ StackOK(stack[t], clock, lastRun) /\ f = Last(stack[t])
    BY <1>1, TopIsOK
  <1>3. /\ clock \in Nat /\ now \in Nat /\ clock <= now /\ now \in 0..MaxClock
        /\ lastRun \in [Ops -> Nat] /\ \A o \in Ops : lastRun[o] <= clock
    BY <1>1, Numbers DEF IInv
  <1>4. v \in Value
    BY <1>3 DEF Value
  <1> HIDE DEF f
  <1>5. f.op \in Ops /\ f.args \in [InletIndexes(f.op) -> Value \ {ErrorValue}] /\ f.born \in 0..clock
    BY <1>2 DEF FrameOK
  <1>6. /\ run \in [Ops -> 0..now] /\ run \in [Ops -> Nat] /\ run[f.op] = now
        /\ \A o \in Ops : lastRun[o] <= run[o]
    BY <1>3, <1>5
  <1>7. Tables'
    BY <1>1, <1>5 DEF IInv, Tables
  <1>8. Counters'
    BY <1>1, <1>3, <1>6 DEF IInv, Counters
  <1> HIDE DEF now, run
  <1>9. /\ g.op = f.op /\ g.mode = f.mode /\ g.pc = "invoked" /\ g.i = f.i /\ g.k = f.k
        /\ g.args = f.args /\ g.val = v /\ g.pulled = f.pulled /\ g.born = f.born /\ g.at = now
        /\ IsFrame(g)
    BY <1>2 DEF FrameOK, IsFrame
  <1>10. now > f.born /\ f.born \in 0..now /\ now \in 0..now
    BY <1>3, <1>5 DEF now
  <1>11. FrameOK(g, now, run)
    BY <1>2, <1>4, <1>6, <1>9, <1>10 DEF FrameOK
  <1>12. StackOK(stack[t], now, run)
    BY <1>2, <1>3, <1>6, Grows
  <1> HIDE DEF g
  <1>13. StackOK(Append(Front(stack[t]), g), now, run)
    BY <1>1, <1>2, <1>9, <1>11, <1>12, GoesOn
  <1>14. clock <= clock' /\ \A o \in Ops : lastRun[o] <= lastRun'[o]
    BY <1>1, <1>3, <1>6
  <1> QED
    BY <1>1, <1>7, <1>8, <1>13, <1>14, StepKeeps DEF g

LEMMA ReturnInvokeStep == ASSUME IInv, NEW t \in Threads, ReturnInvoke(t) PROVE IInv'
  <1>1. /\ stack[t] # <<>> /\ Top(t).pc = "invoked"
        /\ stack' = [stack EXCEPT ![t] = Front(stack[t])]
        /\ ret' = [ret EXCEPT ![t] = Top(t).val]
        /\ UNCHANGED <<graphVars, history, requests, clock>>
    BY DEF ReturnInvoke, At, Leave
  <1> QED
    BY <1>1, LeaveKeeps

LEMMA ReturnExecuteStep == ASSUME IInv, NEW t \in Threads, ReturnExecute(t) PROVE IInv'
  <1>1. /\ stack[t] # <<>> /\ Top(t).pc = "deliver"
        /\ stack' = [stack EXCEPT ![t] = Front(stack[t])]
        /\ ret' = [ret EXCEPT ![t] = Top(t).val]
        /\ UNCHANGED <<graphVars, history, requests, clock>>
    BY DEF ReturnExecute, At, Leave
  <1> QED
    BY <1>1, LeaveKeeps

LEMMA PutOutletStep == ASSUME IInv, NEW t \in Threads, PutOutlet(t) PROVE IInv'
  <1> DEFINE f == Top(t)
             g == [f EXCEPT !.pc = "deliver", !.i = 1, !.k = 1]
  <1>1. /\ stack[t] # <<>> /\ f.pc = "invoked" /\ outlet' = [outlet EXCEPT ![f.op] = f.val]
        /\ UNCHANGED <<buffer, updated, first, history, ret, requests, clock>>
        /\ stack' = [stack EXCEPT ![t] = Append(Front(stack[t]), g)]
    BY DEF PutOutlet, At, Continue
  <1>2. FrameOK(f, clock, lastRun) /\ StackOK(stack[t], clock, lastRun) /\ f = Last(stack[t])
    BY <1>1, TopIsOK
  <1> HIDE DEF f
  <1>3. f.val \in Value /\ f.op \in Ops
    BY <1>2 DEF FrameOK
  <1>4. Tables' /\ Counters' /\ UNCHANGED <<clock, lastRun>>
    BY <1>1, <1>3 DEF IInv, Tables, Counters, history
  <1>5. /\ g.op = f.op /\ g.mode = f.mode /\ g.pc = "deliver" /\ g.i = 1 /\ g.k = 1
        /\ g.args = f.args /\ g.val = f.val /\ g.pulled = f.pulled /\ g.born = f.born /\ g.at = f.at
        /\ IsFrame(g)
    BY <1>2 DEF FrameOK, IsFrame
  <1>6. FrameOK(g, clock, lastRun)
    BY <1>1, <1>2, <1>5 DEF FrameOK
  <1>7. ServedBefore(g, g.k, lastRun)
    BY <1>5, <1>3, Selected DEF ServedBefore
  <1> HIDE DEF g
  <1>8. StackOK(Append(Front(stack[t]), g), clock, lastRun)
    BY <1>1, <1>2, <1>5, <1>6, <1>7, GoesOn
  <1> QED
    BY <1>1, <1>4, <1>8, QuietStepKeeps

LEMMA DeliverStep == ASSUME IInv, NEW t \in Threads, Deliver(t) PROVE IInv'
  <1> DEFINE f == Top(t)
             c == OutConnections(f.op)[f.k]
             g == [f EXCEPT !.i = f.i + 1]
  <1>1. /\ stack[t] # <<>> /\ f.pc = "deliver" /\ f.k <= Len(OutConnections(f.op))
        /\ PutInlet(c.to, TargetInlets(c, f.val)[f.i], f.val)
        /\ UNCHANGED <<outlet, first, ret, requests, clock, lastRun, seen>>
        /\ stack' = [stack EXCEPT ![t] = Append(Front(stack[t]), g)]
    BY DEF Deliver, At, Continue
  <1>2. FrameOK(f, clock, lastRun) /\ StackOK(stack[t], clock, lastRun) /\ f = Last(stack[t])
        /\ f = stack[t][Len(stack[t])]
    BY <1>1, TopIsOK
  <1>3. ServedBefore(f, f.k, lastRun)
    BY <1>1, <1>2 DEF StackOK
  <1> HIDE DEF f
  <1>4. f.val \in Value /\ f.op \in Ops /\ f.k \in 1..Len(OutConnections(f.op))
    <2>1. f.val \in Value /\ f.op \in Ops /\ f.k \in Nat \ {0}
      BY <1>2 DEF FrameOK
    <2>2. Len(OutConnections(f.op)) \in Nat
      BY <2>1, Selected
    <2> QED
      BY <1>1, <2>1, <2>2
  <1>5. c.to \in Ops
    BY <1>4, Selected
  <1> HIDE DEF c
  <1>6. Tables'
    BY <1>1, <1>4, <1>5, PutKeeps
  <1>7. Counters' /\ UNCHANGED <<clock, lastRun>>
    BY <1>1 DEF IInv, Counters
  <1>8. /\ g.op = f.op /\ g.mode = f.mode /\ g.pc = f.pc /\ g.i = f.i + 1 /\ g.k = f.k
        /\ g.args = f.args /\ g.val = f.val /\ g.pulled = f.pulled /\ g.born = f.born /\ g.at = f.at
        /\ IsFrame(g)
    BY <1>2 DEF FrameOK, IsFrame
  <1>9. FrameOK(g, clock, lastRun)
    <2>1. g.i \in Nat \ {0} /\ g.k \in Nat \ {0} /\ g.pc = "deliver"
      BY <1>1, <1>2, <1>8, SMTT(20) DEF FrameOK
    <2>2. /\ g.mode \in {"invoke", "execute"} /\ g.args \in [InletIndexes(g.op) -> Value \ {ErrorValue}]
          /\ g.val \in Value /\ DOMAIN g.pulled \subseteq InletIndexes(g.op)
          /\ g.born \in 0..clock /\ g.at \in 0..clock
          /\ Inlets[g.op] # <<>> => lastRun[g.op] > g.born
      BY <1>1, <1>2, <1>8 DEF FrameOK
    <2> QED
      BY <1>4, <1>8, <2>1, <2>2 DEF FrameOK
  <1>10. ServedBefore(g, g.k, lastRun)
    BY <1>3, <1>8 DEF ServedBefore
  <1> HIDE DEF g
  <1>11. StackOK(Append(Front(stack[t]), g), clock, lastRun)
    BY <1>1, <1>2, <1>8, <1>9, <1>10, GoesOn
  <1> QED
    BY <1>1, <1>6, <1>7, <1>11, QuietStepKeeps

\* A connection that is no event is dealt with at once; for an event the call
\* of its operation begins after the value was obtained.
LEMMA FinishConnectionStep == ASSUME IInv, NEW t \in Threads, FinishConnection(t) PROVE IInv'
  <1> DEFINE f == Top(t)
             c == OutConnections(f.op)[f.k]
             g == [f EXCEPT !.k = f.k + 1, !.i = 1]
             h == Frame(c.to, "execute")
  <1>1. /\ stack[t] # <<>> /\ f.pc = "deliver" /\ f.k <= Len(OutConnections(f.op))
        /\ UNCHANGED <<graphVars, history, ret, requests, clock>>
        /\ IF c.type = "EVENT"
             THEN stack' = [stack EXCEPT ![t] = Front(stack[t]) \o <<g, h>>]
             ELSE stack' = [stack EXCEPT ![t] = Append(Front(stack[t]), g)]
    BY DEF FinishConnection, FiresOwner, At, Continue, Enter
  <1>2. FrameOK(f, clock, lastRun) /\ StackOK(stack[t], clock, lastRun) /\ f = Last(stack[t])
        /\ f = stack[t][Len(stack[t])]
    BY <1>1, TopIsOK
  <1>3. ServedBefore(f, f.k, lastRun)
    BY <1>1, <1>2 DEF StackOK
  <1>4. Tables' /\ Counters' /\ UNCHANGED <<clock, lastRun>>
    BY <1>1 DEF IInv, Tables, Counters, graphVars, history
  <1> HIDE DEF f
  <1>5. /\ f.op \in Ops /\ f.k \in 1..Len(OutConnections(f.op)) /\ f.k \in Nat \ {0} /\ f.at \in 0..clock
        /\ clock \in Nat
    BY <1>1, <1>2, Selected, Numbers DEF FrameOK, IInv
  <1>6. c.to \in Ops
    BY <1>5, Selected
  <1>7. /\ g.op = f.op /\ g.mode = f.mode /\ g.pc = f.pc /\ g.i = 1 /\ g.k = f.k + 1
        /\ g.args = f.args /\ g.val = f.val /\ g.pulled = f.pulled /\ g.born = f.born /\ g.at = f.at
        /\ IsFrame(g)
    BY <1>2 DEF FrameOK, IsFrame
  <1>8. FrameOK(g, clock, lastRun)
    <2>1. g.k \in Nat \ {0} /\ g.i \in Nat \ {0} /\ g.pc # "pulled"
      BY <1>1, <1>5, <1>7
    <2>2. /\ g.mode \in {"invoke", "execute"} /\ g.args \in [InletIndexes(g.op) -> Value \ {ErrorValue}]
          /\ g.val \in Value /\ DOMAIN g.pulled \subseteq InletIndexes(g.op)
          /\ g.born \in 0..clock /\ g.at \in 0..clock
          /\ Inlets[g.op] # <<>> => lastRun[g.op] > g.born
      BY <1>1, <1>2, <1>7 DEF FrameOK
    <2> QED
      BY <1>1, <1>5, <1>7, <2>1, <2>2 DEF FrameOK
  <1>9. FrameOK(h, clock, lastRun) /\ h.pc = "decide" /\ h.op = c.to /\ h.born = clock
    BY <1>6, FreshFrame DEF IInv
  <1> HIDE DEF g, h
  <1>10. CASE c.type = "EVENT"
    <2>1. g.k - 1 = f.k
      BY <1>5, <1>7
    <2>2. Waits(g, h, lastRun)
      <3>1. ServedBefore(g, f.k, lastRun)
        BY <1>3, <1>7 DEF ServedBefore
      <3>2. h.op = OutConnections(g.op)[g.k - 1].to /\ ServedBefore(g, g.k - 1, lastRun)
        BY <1>7, <1>9, <2>1, <3>1
      <3>3. h.born >= g.at
        BY <1>5, <1>7, <1>9
      <3> QED
        BY <1>1, <1>7, <3>2, <3>3 DEF Waits
    <2>3. StackOK(Front(stack[t]) \o <<g, h>>, clock, lastRun)
      BY <1>1, <1>2, <1>7, <1>8, <1>9, <2>2, Calls
    <2> QED
      BY <1>1, <1>4, <1>10, <2>3, QuietStepKeeps
  <1>11. CASE c.type # "EVENT"
    <2>1. ServedBefore(g, g.k, lastRun)
      <3> SUFFICES ASSUME NEW j \in 1..Len(OutConnections(f.op)), j < f.k + 1,
                          OutConnections(f.op)[j].type = "EVENT",
                          Inlets[OutConnections(f.op)[j].to] # <<>>
                   PROVE  lastRun[OutConnections(f.op)[j].to] > f.at
        BY <1>7 DEF ServedBefore
      <3>1. j # f.k
        BY <1>11
      <3>2. j < f.k
        BY <1>5, <3>1
      <3> QED
        BY <1>3, <3>2 DEF ServedBefore
    <2>2. StackOK(Append(Front(stack[t]), g), clock, lastRun)
      BY <1>1, <1>2, <1>7, <1>8, <2>1, GoesOn
    <2> QED
      BY <1>1, <1>4, <1>11, <2>2, QuietStepKeeps
  <1> QED
    BY <1>10, <1>11
------------------------------------------------------------------------------
LEMMA IInit == Init => IInv
  <1> SUFFICES ASSUME Init PROVE IInv
    OBVIOUS
  <1>1. 0 \in Value /\ EmptyValue \in Value /\ DefaultValue \in Value \ {ErrorValue}
    BY DEF Value, EmptyValue, DefaultValue, ErrorValue
  <1>2. Tables
    BY <1>1 DEF Init, Tables
  <1>3. Counters
    BY <1>1, BoundAssumption DEF Init, Counters
  <1> QED
    BY <1>2, <1>3, NoCall DEF Init, IInv

LEMMA IStep == IInv /\ [Next]_vars => IInv'
  <1> SUFFICES ASSUME IInv, [Next]_vars PROVE IInv'
    OBVIOUS
  <1>1. ASSUME NEW t \in Threads, Step(t) PROVE IInv'
    BY <1>1, DecideStep, StartPullStep, EndPullStep, CollectStep, CallStep, ReturnInvokeStep,
       PutOutletStep, DeliverStep, FinishConnectionStep, ReturnExecuteStep DEF Step
  <1>2. ASSUME NEW t \in Threads, NEW o \in Ops,
               RequestCall(t, o, "execute") \/ RequestCall(t, o, "invoke")
        PROVE  IInv'
    BY <1>2, RequestCallStep
  <1>3. ASSUME NEW t \in Threads, NEW o \in Ops, NEW i \in InletIndexes(o), RequestPut(t, o, i)
        PROVE  IInv'
    BY <1>3, RequestPutStep
  <1>4. CASE UNCHANGED vars
    BY <1>4 DEF vars, IInv, Tables, Counters
  <1> QED
    BY <1>1, <1>2, <1>3, <1>4, GraphAssumption DEF Next

THEOREM Invariance == Spec => []IInv
  BY IInit, IStep, PTL DEF Spec
------------------------------------------------------------------------------
\* The buffers, flags and calls keep their types: in particular an inlet never
\* holds an error, whatever bodies fail (OperationInletBase::put).
THEOREM TypesHold == Spec => []TypeOK
  <1>1. ASSUME IInv PROVE TypeOK
    <2>1. \A t \in Threads : \A n \in DOMAIN stack[t] : FrameType(stack[t][n])
      <3> SUFFICES ASSUME NEW t \in Threads, NEW n \in DOMAIN stack[t] PROVE FrameType(stack[t][n])
        OBVIOUS
      <3>1. FrameOK(stack[t][n], clock, lastRun)
        BY <1>1 DEF IInv, StackOK
      <3> QED
        BY <3>1 DEF FrameOK, FrameType
    <2> QED
      BY <1>1, <2>1 DEF IInv, Tables, Counters, TypeOK
  <1> QED
    BY <1>1, Invariance, PTL

\* Once execute has dealt with an EVENT connection, the connected operation has
\* run after the value was obtained, for any graph, failures and threads
\* (Connection::put, OperationBase::invoke).
THEOREM EventsReachOwners == Spec => []EventReachesOwner
  <1>1. ASSUME IInv PROVE EventReachesOwner
    <2> SUFFICES ASSUME NEW t \in Threads, NEW n \in DOMAIN stack[t], NEW j \in Served(t, n),
                        OutConnections(stack[t][n].op)[j].type = "EVENT",
                        Inlets[OutConnections(stack[t][n].op)[j].to] # <<>>
                 PROVE  lastRun[OutConnections(stack[t][n].op)[j].to] > stack[t][n].at
      BY DEF EventReachesOwner
    <2> DEFINE f == stack[t][n]
    <2>1. StackOK(stack[t], clock, lastRun)
      BY <1>1 DEF IInv
    <2>2. Len(stack[t]) \in Nat /\ n \in 1..Len(stack[t])
      BY <2>1 DEF StackOK
    <2>3. FrameOK(f, clock, lastRun)
      BY <2>1, <2>2 DEF StackOK
    <2>4. /\ j \in 1..Len(OutConnections(f.op)) /\ f.pc = "deliver"
          /\ j < f.k - (IF n = Len(stack[t]) THEN 0 ELSE 1)
      BY DEF Served
    <2>5. CASE n = Len(stack[t])
      <3>1. ServedBefore(f, f.k, lastRun)
        BY <2>1, <2>2, <2>4, <2>5 DEF StackOK
      <3>2. f.k \in Nat
        BY <2>3 DEF FrameOK
      <3> QED
        BY <2>4, <2>5, <3>1, <3>2, SMTT(20) DEF ServedBefore
    <2>6. CASE n # Len(stack[t])
      <3>1. n \in 1..(Len(stack[t]) - 1)
        BY <2>2, <2>6
      <3>2. ServedBefore(f, f.k - 1, lastRun)
        BY <2>1, <2>4, <3>1 DEF StackOK, Waits
      <3> QED
        BY <2>4, <2>6, <3>2 DEF ServedBefore
    <2> QED
      BY <2>5, <2>6
  <1> QED
    BY <1>1, Invariance, PTL
------------------------------------------------------------------------------
(* What a step does to a stack, without the sequence operators *)

Below(s, z) == \A n \in 1..(Len(s) - 1) : z[n] = s[n]
Replaced(s, z, g) == /\ Len(s) \in Nat \ {0} /\ Len(z) = Len(s) /\ z # <<>>
                     /\ Below(s, z) /\ z[Len(s)] = g
Pushed(s, z, g, h) == /\ Len(s) \in Nat \ {0} /\ Len(z) = Len(s) + 1 /\ z # <<>>
                      /\ Below(s, z) /\ z[Len(s)] = g /\ z[Len(s) + 1] = h
Popped(s, z) == /\ Len(s) \in Nat \ {0} /\ Len(z) = Len(s) - 1
                /\ Below(s, z) /\ (z # <<>> => Len(z) \in Nat \ {0})

\* The three ways a stack changes (Continue, Enter and Leave).
LEMMA MovesAre ==
  ASSUME NEW s, NEW c, NEW L, StackOK(s, c, L), s # <<>>, NEW g, NEW h
  PROVE  /\ Replaced(s, Append(Front(s), g), g)
         /\ Pushed(s, Front(s) \o <<g, h>>, g, h)
         /\ Popped(s, Front(s))
  <1>1. PICK S : s \in Seq(S) /\ Front(s) \in Seq(S)
    BY TopOfStack
  <1>2. /\ Len(s) \in Nat \ {0} /\ Len(Front(s)) = Len(s) - 1
        /\ \A n \in 1..(Len(s) - 1) : Front(s)[n] = s[n]
    BY TopOfStack
  <1> DEFINE z == Front(s)
  <1>3. z \in Seq(S \cup {g, h}) /\ <<g, h>> \in Seq(S \cup {g, h}) /\ g \in S \cup {g, h}
    BY <1>1
  <1> HIDE DEF z
  <1>4. Replaced(s, Append(z, g), g)
    BY <1>2, <1>3 DEF Replaced, Below, z
  <1>5. Pushed(s, z \o <<g, h>>, g, h)
    <2> DEFINE w == z \o <<g, h>>
    <2>1. w # <<>> /\ Len(w) = Len(z) + 2 /\ w[Len(z) + 1] = g /\ w[Len(z) + 2] = h
          /\ \A n \in 1..Len(z) : w[n] = z[n]
      BY <1>3
    <2>2. Len(z) + 1 = Len(s) /\ Len(z) + 2 = Len(s) + 1 /\ \A n \in 1..(Len(s) - 1) : z[n] = s[n]
      BY <1>2 DEF z
    <2>3. 1..(Len(s) - 1) = 1..Len(z)
      BY <1>2 DEF z
    <2> HIDE DEF w
    <2>4. Below(s, w)
      BY <2>1, <2>2, <2>3 DEF Below
    <2>5. Pushed(s, w, g, h)
      BY <1>2, <2>1, <2>2, <2>4 DEF Pushed
    <2> QED
      BY <2>5 DEF w
  <1>6. Popped(s, z)
    BY <1>2, <1>3 DEF Popped, Below, z
  <1> QED
    BY <1>4, <1>5, <1>6 DEF z

\* What IInv knows of a stack, without the sequence operators.
Stood(s, c, L) ==
  /\ Len(s) \in Nat
  /\ s # <<>> <=> Len(s) # 0
  /\ \A n \in 1..Len(s) : FrameOK(s[n], c, L)
  /\ \A n \in 1..(Len(s) - 1) : Waits(s[n], s[n + 1], L)

LEMMA Stands == \A s, c, L : StackOK(s, c, L) => Stood(s, c, L)
  BY DEF StackOK, Stood

Keeps(f, g) == g.op = f.op /\ g.mode = f.mode /\ g.born = f.born
FreshCall(h, o, mode) ==
  /\ h.op = o /\ h.mode = mode /\ h.pc = "decide" /\ h.i = 1 /\ h.k = 1
  /\ DOMAIN h.pulled = {} /\ h.born = clock
OthersKeep(t) == \A u \in Threads \ {t} : stack'[u] = stack[u]

LEMMA FrameIs == \A o, mode : FreshCall(Frame(o, mode), o, mode)
  <1> TAKE o, mode
  <1> DEFINE a == [j \in InletIndexes(o) |-> DefaultValue]
             e == <<>>
  <1>1. Frame(o, mode) = [op |-> o, mode |-> mode, pc |-> "decide", i |-> 1, k |-> 1,
                          args |-> a, val |-> EmptyValue, pulled |-> e,
                          born |-> clock, at |-> clock]
    BY DEF Frame
  <1>2. DOMAIN e = {}
    OBVIOUS
  <1> HIDE DEF a, e
  <1> QED
    BY <1>1, <1>2 DEF FreshCall

\* The thread's innermost call before a step, and its stack afterwards.
LEMMA Before ==
  ASSUME IInv, NEW t \in Threads, stack[t] # <<>>
  PROVE  /\ Top(t) = stack[t][Len(stack[t])] /\ FrameOK(Top(t), clock, lastRun)
         /\ StackOK(stack[t], clock, lastRun) /\ Stood(stack[t], clock, lastRun)
         /\ \A z : stack' = [stack EXCEPT ![t] = z] => stack'[t] = z /\ OthersKeep(t)
  BY TopIsOK, Stands DEF IInv, OthersKeep

LEMMA DecideIs ==
  ASSUME IInv, NEW t \in Threads, Decide(t)
  PROVE  LET f == stack[t][Len(stack[t])] IN
         /\ f.pc = "decide" /\ OthersKeep(t) /\ UNCHANGED <<buffer, seen, outlet, ret, clock>>
         /\ \E g : /\ Replaced(stack[t], stack'[t], g) /\ Keeps(f, g)
                   /\ g.i = f.i /\ g.args = f.args /\ g.pulled = f.pulled
                   /\ g.pc = "collect" \/ (g.pc = "invoked" /\ Inlets[f.op] = <<>>)
  <1> DEFINE f == Top(t)
             call == [f EXCEPT !.pc = "collect"]
             old == [f EXCEPT !.pc = "invoked", !.val = outlet[f.op], !.at = clock]
  <1>1. /\ stack[t] # <<>> /\ f.pc = "decide" /\ UNCHANGED <<buffer, seen, outlet, ret, clock>>
    BY DEF Decide, At, graphVars, history
  <1>2. IF MustCall(f.op) THEN stack' = [stack EXCEPT ![t] = Append(Front(stack[t]), call)]
                          ELSE stack' = [stack EXCEPT ![t] = Append(Front(stack[t]), old)]
    BY DEF Decide, Continue
  <1>3. /\ f = stack[t][Len(stack[t])] /\ FrameOK(f, clock, lastRun)
        /\ StackOK(stack[t], clock, lastRun)
        /\ \A z : stack' = [stack EXCEPT ![t] = z] => stack'[t] = z /\ OthersKeep(t)
    BY <1>1, Before
  <1>4. ~MustCall(f.op) => Inlets[f.op] = <<>>
    BY <1>3, InletsMeanCall DEF FrameOK
  <1> DEFINE v == outlet[f.op]
  <1> HIDE DEF f, v
  <1>5. /\ Keeps(f, call) /\ call.i = f.i /\ call.args = f.args /\ call.pulled = f.pulled
        /\ call.pc = "collect"
    BY <1>3 DEF FrameOK, IsFrame, Keeps
  <1>6. /\ Keeps(f, old) /\ old.i = f.i /\ old.args = f.args /\ old.pulled = f.pulled
        /\ old.pc = "invoked"
    BY <1>3 DEF FrameOK, IsFrame, Keeps, v
  <1> HIDE DEF call, old
  <1>7. CASE MustCall(f.op)
    <2>1. Replaced(stack[t], Append(Front(stack[t]), call), call)
      BY <1>1, <1>3, MovesAre
    <2>2. stack'[t] = Append(Front(stack[t]), call) /\ OthersKeep(t)
      BY <1>2, <1>3, <1>7
    <2> QED
      BY <1>1, <1>3, <1>5, <2>1, <2>2
  <1>8. CASE ~MustCall(f.op)
    <2>1. Replaced(stack[t], Append(Front(stack[t]), old), old)
      BY <1>1, <1>3, MovesAre
    <2>2. stack'[t] = Append(Front(stack[t]), old) /\ OthersKeep(t)
      BY <1>2, <1>3, <1>8
    <2> QED
      BY <1>1, <1>3, <1>4, <1>6, <1>8, <2>1, <2>2
  <1> QED
    BY <1>7, <1>8

LEMMA StartPullIs ==
  ASSUME IInv, NEW t \in Threads, StartPull(t)
  PROVE  LET f == stack[t][Len(stack[t])] IN
         /\ f.pc = "collect" /\ OthersKeep(t) /\ UNCHANGED <<buffer, seen, outlet, ret, clock>>
         /\ f.i \in InletIndexes(f.op) /\ f.k \in 1..Len(PullConnections(f.op, f.i))
         /\ \E g, h : /\ Pushed(stack[t], stack'[t], g, h) /\ Keeps(f, g)
                      /\ g.pc = "pulled" /\ g.i = f.i /\ g.k = f.k
                      /\ g.args = f.args /\ g.pulled = f.pulled
                      /\ FreshCall(h, PullConnections(f.op, f.i)[f.k].from, "invoke")
  <1> DEFINE f == Top(t)
             o == PullConnections(f.op, f.i)[f.k].from
             g == [f EXCEPT !.pc = "pulled"]
             h == Frame(o, "invoke")
  <1>1. /\ stack[t] # <<>> /\ f.pc = "collect" /\ UNCHANGED <<buffer, seen, outlet, ret, clock>>
        /\ f.i \in InletIndexes(f.op) /\ f.k <= Len(PullConnections(f.op, f.i))
        /\ stack' = [stack EXCEPT ![t] = Front(stack[t]) \o <<g, h>>]
    BY DEF StartPull, At, Enter, graphVars, history
  <1>2. /\ f = stack[t][Len(stack[t])] /\ FrameOK(f, clock, lastRun)
        /\ StackOK(stack[t], clock, lastRun)
        /\ \A z : stack' = [stack EXCEPT ![t] = z] => stack'[t] = z /\ OthersKeep(t)
    BY <1>1, Before
  <1>3. FreshCall(h, o, "invoke")
    BY FrameIs
  <1> HIDE DEF f, h, o
  <1>4. Keeps(f, g) /\ g.pc = "pulled" /\ g.i = f.i /\ g.k = f.k /\ g.args = f.args /\ g.pulled = f.pulled
    BY <1>2 DEF FrameOK, IsFrame, Keeps
  <1> HIDE DEF g
  <1>5. Pushed(stack[t], stack'[t], g, h) /\ OthersKeep(t)
    BY <1>1, <1>2, MovesAre
  <1>6. f.k \in 1..Len(PullConnections(f.op, f.i))
    BY <1>1, <1>2, PullsAre DEF FrameOK
  <1> QED
    BY <1>1, <1>2, <1>3, <1>4, <1>5, <1>6 DEF o

LEMMA EndPullIs ==
  ASSUME IInv, NEW t \in Threads, EndPull(t)
  PROVE  LET f == stack[t][Len(stack[t])] IN
         /\ f.pc = "pulled" /\ OthersKeep(t) /\ UNCHANGED <<seen, outlet, ret, clock>>
         /\ PutInlet(f.op, f.i, ret[t])
         /\ \E g : /\ Replaced(stack[t], stack'[t], g) /\ Keeps(f, g)
                   /\ g.pc = "collect" /\ g.i = f.i /\ g.args = f.args
                   /\ ret[t] = ErrorValue => g.pulled = f.pulled
                   /\ ret[t] # ErrorValue => /\ g.pulled = PulledNow(f)
                                             /\ g.k = Len(PullConnections(f.op, f.i)) + 1
  <1> DEFINE f == Top(t)
             v == ret[t]
             p == IF v = ErrorValue THEN f.pulled ELSE PulledNow(f)
             k == NextPull(f, v)
             g == [f EXCEPT !.pc = "collect", !.k = k, !.pulled = p]
  <1>1. /\ stack[t] # <<>> /\ f.pc = "pulled" /\ PutInlet(f.op, f.i, v)
        /\ UNCHANGED <<outlet, ret, clock, seen>>
        /\ stack' = [stack EXCEPT ![t] = Append(Front(stack[t]), g)]
    BY DEF EndPull, At, Continue
  <1>2. /\ f = stack[t][Len(stack[t])] /\ FrameOK(f, clock, lastRun)
        /\ StackOK(stack[t], clock, lastRun)
        /\ \A z : stack' = [stack EXCEPT ![t] = z] => stack'[t] = z /\ OthersKeep(t)
    BY <1>1, Before
  <1>3. v # ErrorValue => k = Len(PullConnections(f.op, f.i)) + 1
    BY DEF NextPull
  <1> HIDE DEF f, p, k
  <1>4. Keeps(f, g) /\ g.pc = "collect" /\ g.i = f.i /\ g.k = k /\ g.args = f.args /\ g.pulled = p
    BY <1>2 DEF FrameOK, IsFrame, Keeps
  <1> HIDE DEF g
  <1>5. Replaced(stack[t], stack'[t], g) /\ OthersKeep(t)
    BY <1>1, <1>2, MovesAre
  <1> QED
    BY <1>1, <1>2, <1>3, <1>4, <1>5 DEF p

LEMMA CollectIs ==
  ASSUME IInv, NEW t \in Threads, Collect(t)
  PROVE  LET f == stack[t][Len(stack[t])] IN
         /\ f.pc = "collect" /\ OthersKeep(t) /\ UNCHANGED <<buffer, seen, outlet, ret, clock>>
         /\ f.i \in InletIndexes(f.op) /\ f.k > Len(PullConnections(f.op, f.i))
         /\ \E g : /\ Replaced(stack[t], stack'[t], g) /\ Keeps(f, g)
                   /\ g.pc = "collect" /\ g.i = f.i + 1 /\ g.k = 1 /\ g.pulled = f.pulled
                   /\ g.args = [f.args EXCEPT ![f.i] = buffer[f.op][f.i]]
  <1> DEFINE f == Top(t)
             a == [f.args EXCEPT ![f.i] = buffer[f.op][f.i]]
             g == [f EXCEPT !.args = a, !.i = f.i + 1, !.k = 1]
  <1>1. /\ stack[t] # <<>> /\ f.pc = "collect" /\ UNCHANGED <<buffer, seen, outlet, ret, clock>>
        /\ f.i \in InletIndexes(f.op) /\ f.k > Len(PullConnections(f.op, f.i))
        /\ stack' = [stack EXCEPT ![t] = Append(Front(stack[t]), g)]
    BY DEF Collect, At, Continue, graphVars, history
  <1>2. /\ f = stack[t][Len(stack[t])] /\ FrameOK(f, clock, lastRun)
        /\ StackOK(stack[t], clock, lastRun)
        /\ \A z : stack' = [stack EXCEPT ![t] = z] => stack'[t] = z /\ OthersKeep(t)
    BY <1>1, Before
  <1> HIDE DEF f, a
  <1>4. /\ Keeps(f, g) /\ g.pc = f.pc /\ g.i = f.i + 1 /\ g.k = 1 /\ g.args = a
        /\ g.pulled = f.pulled
    BY <1>2 DEF FrameOK, IsFrame, Keeps
  <1> HIDE DEF g
  <1>5. Replaced(stack[t], stack'[t], g) /\ OthersKeep(t)
    BY <1>1, <1>2, MovesAre
  <1> QED
    BY <1>1, <1>2, <1>4, <1>5 DEF a

LEMMA CallIs ==
  ASSUME IInv, NEW t \in Threads, Call(t)
  PROVE  LET f == stack[t][Len(stack[t])] IN
         /\ f.pc = "collect" /\ OthersKeep(t) /\ UNCHANGED <<buffer, outlet, ret>>
         /\ f.i > Len(Inlets[f.op]) /\ seen' = [seen EXCEPT ![f.op] = f.args]
         /\ \E g : /\ Replaced(stack[t], stack'[t], g) /\ Keeps(f, g)
                   /\ g.pc = "invoked" /\ g.val \in {clock + 1, ErrorValue}
  <1> DEFINE f == Top(t)
             now == clock + 1
  <1>1. PICK v \in {now, ErrorValue} :
          /\ stack[t] # <<>> /\ f.pc = "collect" /\ UNCHANGED <<buffer, outlet, ret>>
          /\ f.i > Len(Inlets[f.op]) /\ seen' = [seen EXCEPT ![f.op] = f.args]
          /\ stack' = [stack EXCEPT ![t] =
                         Append(Front(stack[t]), [f EXCEPT !.pc = "invoked", !.val = v, !.at = now])]
    BY DEF Call, At, Continue
  <1> DEFINE g == [f EXCEPT !.pc = "invoked", !.val = v, !.at = now]
  <1>2. /\ f = stack[t][Len(stack[t])] /\ FrameOK(f, clock, lastRun)
        /\ StackOK(stack[t], clock, lastRun)
        /\ \A z : stack' = [stack EXCEPT ![t] = z] => stack'[t] = z /\ OthersKeep(t)
    BY <1>1, Before
  <1> HIDE DEF f, now
  <1>4. Keeps(f, g) /\ g.pc = "invoked" /\ g.val = v
    BY <1>2 DEF FrameOK, IsFrame, Keeps
  <1>5. Replaced(stack[t], stack'[t], g) /\ OthersKeep(t)
    <2> HIDE DEF g
    <2>1. stack' = [stack EXCEPT ![t] = Append(Front(stack[t]), g)]
      BY <1>1 DEF g
    <2>2. Replaced(stack[t], Append(Front(stack[t]), g), g)
      BY <1>1, <1>2, MovesAre
    <2> QED
      BY <1>2, <2>1, <2>2
  <1> HIDE DEF g
  <1> QED
    BY <1>1, <1>2, <1>4, <1>5 DEF now

LEMMA ReturnIs ==
  ASSUME IInv, NEW t \in Threads, ReturnInvoke(t) \/ ReturnExecute(t)
  PROVE  LET f == stack[t][Len(stack[t])] IN
         /\ OthersKeep(t) /\ UNCHANGED <<buffer, seen, outlet, clock>>
         /\ Popped(stack[t], stack'[t]) /\ ret'[t] = f.val
         /\ \/ f.pc = "invoked" /\ f.mode = "invoke"
            \/ f.pc = "deliver" /\ f.k > Len(OutConnections(f.op))
  <1> DEFINE f == Top(t)
  <1>1. /\ stack[t] # <<>> /\ UNCHANGED <<buffer, seen, outlet, clock>>
        /\ \/ f.pc = "invoked" /\ f.mode = "invoke"
           \/ f.pc = "deliver" /\ f.k > Len(OutConnections(f.op))
        /\ ret' = [ret EXCEPT ![t] = f.val]
        /\ stack' = [stack EXCEPT ![t] = Front(stack[t])]
    BY DEF ReturnInvoke, ReturnExecute, At, Leave, graphVars, history
  <1>2. /\ f = stack[t][Len(stack[t])] /\ StackOK(stack[t], clock, lastRun)
        /\ \A z : stack' = [stack EXCEPT ![t] = z] => stack'[t] = z /\ OthersKeep(t)
    BY <1>1, Before
  <1>3. ret'[t] = f.val
    BY <1>1 DEF IInv, Counters
  <1> HIDE DEF f
  <1>5. Popped(stack[t], stack'[t]) /\ OthersKeep(t)
    BY <1>1, <1>2, MovesAre
  <1> QED
    BY <1>1, <1>2, <1>3, <1>5

LEMMA PutOutletIs ==
  ASSUME IInv, NEW t \in Threads, PutOutlet(t)
  PROVE  LET f == stack[t][Len(stack[t])] IN
         /\ f.pc = "invoked" /\ f.mode = "execute"
         /\ OthersKeep(t) /\ UNCHANGED <<buffer, seen, ret, clock>>
         /\ outlet' = [outlet EXCEPT ![f.op] = f.val]
         /\ \E g : /\ Replaced(stack[t], stack'[t], g) /\ Keeps(f, g)
                   /\ g.pc = "deliver" /\ g.i = 1 /\ g.k = 1 /\ g.val = f.val
  <1> DEFINE f == Top(t)
             g == [f EXCEPT !.pc = "deliver", !.i = 1, !.k = 1]
  <1>1. /\ stack[t] # <<>> /\ f.pc = "invoked" /\ f.mode = "execute"
        /\ outlet' = [outlet EXCEPT ![f.op] = f.val]
        /\ UNCHANGED <<buffer, seen, ret, clock>>
        /\ stack' = [stack EXCEPT ![t] = Append(Front(stack[t]), g)]
    BY DEF PutOutlet, At, Continue, history
  <1>2. /\ f = stack[t][Len(stack[t])] /\ FrameOK(f, clock, lastRun)
        /\ StackOK(stack[t], clock, lastRun)
        /\ \A z : stack' = [stack EXCEPT ![t] = z] => stack'[t] = z /\ OthersKeep(t)
    BY <1>1, Before
  <1> HIDE DEF f
  <1>4. Keeps(f, g) /\ g.pc = "deliver" /\ g.i = 1 /\ g.k = 1 /\ g.val = f.val
    BY <1>2 DEF FrameOK, IsFrame, Keeps
  <1> HIDE DEF g
  <1>5. Replaced(stack[t], stack'[t], g) /\ OthersKeep(t)
    BY <1>1, <1>2, MovesAre
  <1> QED
    BY <1>1, <1>2, <1>4, <1>5

LEMMA DeliverIs ==
  ASSUME IInv, NEW t \in Threads, Deliver(t)
  PROVE  LET f == stack[t][Len(stack[t])]
             c == OutConnections(f.op)[f.k]
         IN
         /\ f.pc = "deliver" /\ OthersKeep(t) /\ UNCHANGED <<seen, outlet, ret, clock>>
         /\ f.k \in 1..Len(OutConnections(f.op)) /\ f.i \in 1..Len(TargetInlets(c, f.val))
         /\ PutInlet(c.to, TargetInlets(c, f.val)[f.i], f.val)
         /\ \E g : /\ Replaced(stack[t], stack'[t], g) /\ Keeps(f, g)
                   /\ g.pc = "deliver" /\ g.i = f.i + 1 /\ g.k = f.k /\ g.val = f.val
  <1> DEFINE f == Top(t)
             c == OutConnections(f.op)[f.k]
             g == [f EXCEPT !.i = f.i + 1]
  <1>1. /\ stack[t] # <<>> /\ f.pc = "deliver" /\ f.k <= Len(OutConnections(f.op))
        /\ f.i <= Len(TargetInlets(c, f.val))
        /\ PutInlet(c.to, TargetInlets(c, f.val)[f.i], f.val)
        /\ UNCHANGED <<seen, outlet, ret, clock>>
        /\ stack' = [stack EXCEPT ![t] = Append(Front(stack[t]), g)]
    BY DEF Deliver, At, Continue
  <1>2. /\ f = stack[t][Len(stack[t])] /\ FrameOK(f, clock, lastRun)
        /\ StackOK(stack[t], clock, lastRun)
        /\ \A z : stack' = [stack EXCEPT ![t] = z] => stack'[t] = z /\ OthersKeep(t)
    BY <1>1, Before
  <1> HIDE DEF f
  <1>3. f.op \in Ops /\ f.k \in Nat \ {0} /\ f.i \in Nat \ {0}
    BY <1>2 DEF FrameOK
  <1>4. f.k \in 1..Len(OutConnections(f.op)) /\ c \in Links
    BY <1>1, <1>3, OutsAre
  <1>5. f.i \in 1..Len(TargetInlets(c, f.val))
    BY <1>1, <1>3, <1>4, TargetsAre
  <1>6. Keeps(f, g) /\ g.pc = f.pc /\ g.i = f.i + 1 /\ g.k = f.k /\ g.val = f.val
    BY <1>2 DEF FrameOK, IsFrame, Keeps
  <1> HIDE DEF g
  <1>7. Replaced(stack[t], stack'[t], g) /\ OthersKeep(t)
    BY <1>1, <1>2, MovesAre
  <1> QED
    BY <1>1, <1>2, <1>4, <1>5, <1>6, <1>7 DEF c

LEMMA FinishConnectionIs ==
  ASSUME IInv, NEW t \in Threads, FinishConnection(t)
  PROVE  LET f == stack[t][Len(stack[t])]
             c == OutConnections(f.op)[f.k]
         IN
         /\ f.pc = "deliver" /\ OthersKeep(t) /\ UNCHANGED <<buffer, seen, outlet, ret, clock>>
         /\ f.k \in 1..Len(OutConnections(f.op)) /\ f.i > Len(TargetInlets(c, f.val))
         /\ \E g, h : /\ Keeps(f, g) /\ g.pc = "deliver"
                      /\ g.i = 1 /\ g.k = f.k + 1 /\ g.val = f.val
                      /\ \/ /\ c.type = "EVENT" /\ Pushed(stack[t], stack'[t], g, h)
                            /\ FreshCall(h, c.to, "execute")
                         \/ c.type # "EVENT" /\ Replaced(stack[t], stack'[t], g)
  <1> DEFINE f == Top(t)
             c == OutConnections(f.op)[f.k]
             g == [f EXCEPT !.k = f.k + 1, !.i = 1]
             h == Frame(c.to, "execute")
  <1>1. /\ stack[t] # <<>> /\ f.pc = "deliver" /\ f.k <= Len(OutConnections(f.op))
        /\ f.i > Len(TargetInlets(c, f.val))
        /\ UNCHANGED <<buffer, seen, outlet, ret, clock>>
        /\ IF c.type = "EVENT"
             THEN stack' = [stack EXCEPT ![t] = Front(stack[t]) \o <<g, h>>]
             ELSE stack' = [stack EXCEPT ![t] = Append(Front(stack[t]), g)]
    BY DEF FinishConnection, FiresOwner, At, Continue, Enter, graphVars, history
  <1>2. /\ f = stack[t][Len(stack[t])] /\ FrameOK(f, clock, lastRun)
        /\ StackOK(stack[t], clock, lastRun)
        /\ \A z : stack' = [stack EXCEPT ![t] = z] => stack'[t] = z /\ OthersKeep(t)
    BY <1>1, Before
  <1>3. FreshCall(h, c.to, "execute")
    BY FrameIs
  <1> HIDE DEF f, h
  <1>4. f.k \in 1..Len(OutConnections(f.op))
    <2>1. f.op \in Ops /\ f.k \in Nat \ {0}
      BY <1>2 DEF FrameOK
    <2> QED
      BY <1>1, <2>1, OutsAre
  <1>5. Keeps(f, g) /\ g.pc = f.pc /\ g.i = 1 /\ g.k = f.k + 1 /\ g.val = f.val
    BY <1>2 DEF FrameOK, IsFrame, Keeps
  <1> HIDE DEF g
  <1>6. CASE c.type = "EVENT"
    <2>1. Pushed(stack[t], Front(stack[t]) \o <<g, h>>, g, h)
      BY <1>1, <1>2, MovesAre
    <2>2. stack'[t] = Front(stack[t]) \o <<g, h>> /\ OthersKeep(t)
      BY <1>1, <1>2, <1>6
    <2> QED
      BY <1>1, <1>2, <1>3, <1>4, <1>5, <1>6, <2>1, <2>2 DEF c
  <1>7. CASE c.type # "EVENT"
    <2>1. Replaced(stack[t], Append(Front(stack[t]), g), g)
      BY <1>1, <1>2, MovesAre
    <2>2. stack'[t] = Append(Front(stack[t]), g) /\ OthersKeep(t)
      BY <1>1, <1>2, <1>7
    <2> QED
      BY <1>1, <1>2, <1>4, <1>5, <1>7, <2>1, <2>2 DEF c
  <1> QED
    BY <1>6, <1>7

LEMMA RequestCallIs ==
  ASSUME IInv, NEW t \in Threads, NEW o \in Ops, NEW mode, RequestCall(t, o, mode)
  PROVE  /\ stack[t] = <<>> /\ OthersKeep(t) /\ UNCHANGED <<buffer, seen, outlet, ret, clock>>
         /\ Len(stack'[t]) = 1 /\ stack'[t] # <<>> /\ FreshCall(stack'[t][1], o, mode)
  <1> DEFINE h == Frame(o, mode)
  <1>1. /\ stack[t] = <<>> /\ UNCHANGED <<buffer, seen, outlet, ret, clock>>
        /\ stack' = [stack EXCEPT ![t] = <<h>>]
    BY DEF RequestCall, Request, graphVars, history
  <1>2. FreshCall(h, o, mode)
    BY FrameIs
  <1> HIDE DEF h
  <1>3. stack'[t] = <<h>> /\ OthersKeep(t)
    BY <1>1 DEF IInv, OthersKeep
  <1> QED
    BY <1>1, <1>2, <1>3

------------------------------------------------------------------------------
(* The shape of a stack.  What is pulled for never delivers, so above a call *)
(* that waits for a pull all calls are invokes.  And a call that delivers    *)
(* does not return while an earlier one of the same operation delivers: it   *)
(* would first have to deal with the EVENT connection that led to it, and so *)
(* end up in itself once more.                                               *)

UpOf(f) == PullConnections(f.op, f.i)[f.k].from
ConnectionOf(f, k) == OutConnections(f.op)[k]

FrameShape(f) ==
  /\ f.mode = "invoke" => f.pc # "deliver"
  /\ f.pc = "decide" => f.i = 1
  /\ f.pc = "deliver" => f.k <= Len(OutConnections(f.op)) + 1
  /\ f.pc = "pulled" => f.k <= Len(PullConnections(f.op, f.i))
Link(f, g) ==
  /\ f.pc = "pulled" => g.op = UpOf(f) /\ g.mode = "invoke" /\ g.born >= f.born
  /\ f.pc = "deliver" => /\ g.mode = "execute" /\ f.i = 1 /\ f.k >= 2
                         /\ ConnectionOf(f, f.k - 1).type = "EVENT"
PullsOnly(s) == \A n, m \in 1..Len(s) : n < m /\ s[n].pc = "pulled" => s[m].mode = "invoke"
NoReturn(s) ==
  \A n, m \in 1..Len(s) :
    n < m /\ s[n].pc = "deliver" /\ s[m].pc = "deliver" /\ s[n].op = s[m].op =>
      s[m].k <= s[n].k /\ (m = Len(s) => s[m].k < s[n].k)
Shape(s) == /\ \A n \in 1..Len(s) : FrameShape(s[n])
            /\ \A n \in 1..(Len(s) - 1) : Link(s[n], s[n + 1])
            /\ PullsOnly(s) /\ NoReturn(s)

LEMMA ShapeReplaced ==
  ASSUME NEW s, NEW z, NEW g, NEW c, NEW L, Stood(s, c, L), Shape(s), Replaced(s, z, g),
         Keeps(s[Len(s)], g), FrameShape(g),
         g.pc = "deliver" => g.k \in Nat /\ \A n \in 1..(Len(s) - 1) :
                               s[n].pc = "deliver" /\ s[n].op = g.op => g.k < s[n].k
  PROVE  Shape(z)
  <1>1. Len(s) \in Nat \ {0} /\ Len(z) = Len(s) /\ z[Len(s)] = g
        /\ \A n \in 1..(Len(s) - 1) : z[n] = s[n]
    BY DEF Replaced, Below
  <1>2. \A n \in 1..Len(z) : n = Len(s) \/ n \in 1..(Len(s) - 1)
    BY <1>1
  <1>3. \A n \in 1..(Len(s) - 1) : n \in 1..Len(s) /\ (n + 1 = Len(s) \/ n + 1 \in 1..(Len(s) - 1))
    BY <1>1
  <1>4. \A n \in 1..Len(z) : FrameShape(z[n])
    BY <1>1, <1>2, <1>3 DEF Shape
  <1>5. \A n \in 1..(Len(z) - 1) : Link(z[n], z[n + 1])
    <2> TAKE n \in 1..(Len(z) - 1)
    <2>1. Link(s[n], s[n + 1]) /\ z[n] = s[n]
      BY <1>1 DEF Shape
    <2>2. CASE n + 1 = Len(s)
      BY <1>1, <2>1, <2>2 DEF Link, Keeps
    <2>3. CASE n + 1 \in 1..(Len(s) - 1)
      BY <1>1, <2>1, <2>3
    <2> QED
      BY <1>1, <1>3, <2>2, <2>3
  <1>6. PullsOnly(z)
    <2> SUFFICES ASSUME NEW n \in 1..Len(z), NEW m \in 1..Len(z), n < m, z[n].pc = "pulled"
                 PROVE  z[m].mode = "invoke"
      BY DEF PullsOnly
    <2>1. n \in 1..(Len(s) - 1) /\ n \in 1..Len(s) /\ m \in 1..Len(s)
      BY <1>1
    <2>2. s[m].mode = "invoke"
      BY <1>1, <2>1 DEF Shape, PullsOnly
    <2> QED
      BY <1>1, <1>2, <2>2 DEF Keeps
  <1>7. NoReturn(z)
    <2> SUFFICES ASSUME NEW n \in 1..Len(z), NEW m \in 1..Len(z), n < m,
                        z[n].pc = "deliver", z[m].pc = "deliver", z[n].op = z[m].op
                 PROVE  z[m].k <= z[n].k /\ (m = Len(z) => z[m].k < z[n].k)
      BY DEF NoReturn
    <2>1. n \in 1..(Len(s) - 1) /\ n \in 1..Len(s) /\ m \in 1..Len(s) /\ z[n] = s[n]
      BY <1>1
    <2>2. CASE m = Len(s)
      <3>1. g.k < s[n].k /\ g.k \in Nat
        BY <1>1, <2>1, <2>2
      <3>2. s[n].k \in Nat
        BY <2>1 DEF Stood, FrameOK
      <3>3. g.k <= s[n].k
        BY <3>1, <3>2
      <3> QED
        BY <1>1, <2>1, <2>2, <3>1, <3>3
    <2>3. CASE m \in 1..(Len(s) - 1)
      BY <1>1, <2>1, <2>3 DEF Shape, NoReturn
    <2> QED
      BY <1>2, <2>2, <2>3
  <1> QED
    BY <1>4, <1>5, <1>6, <1>7 DEF Shape

LEMMA ShapePushed ==
  ASSUME NEW s, NEW z, NEW g, NEW h, NEW c, NEW L, NEW o, NEW mode,
         Stood(s, c, L), Shape(s), Pushed(s, z, g, h),
         Keeps(s[Len(s)], g), FrameShape(g), g.pc \in {"pulled", "deliver"},
         FreshCall(h, o, mode), Link(g, h),
         g.pc = "deliver" => \A n \in 1..(Len(s) - 1) :
                               s[n].pc = "deliver" /\ s[n].op = g.op => g.k <= s[n].k
  PROVE  Shape(z)
  <1>1. Len(s) \in Nat \ {0} /\ Len(z) = Len(s) + 1 /\ z[Len(s)] = g /\ z[Len(s) + 1] = h
        /\ \A n \in 1..(Len(s) - 1) : z[n] = s[n]
    BY DEF Pushed, Below
  <1>2. \A n \in 1..Len(z) : n = Len(s) + 1 \/ n = Len(s) \/ n \in 1..(Len(s) - 1)
    BY <1>1
  <1>3. \A n \in 1..(Len(s) - 1) : n \in 1..Len(s) /\ (n + 1 = Len(s) \/ n + 1 \in 1..(Len(s) - 1))
    BY <1>1
  <1>4. FrameShape(h) /\ h.pc = "decide"
    BY DEF FreshCall, FrameShape
  <1>5. \A n \in 1..Len(z) : FrameShape(z[n])
    BY <1>1, <1>2, <1>3, <1>4 DEF Shape
  <1>6. \A n \in 1..(Len(z) - 1) : Link(z[n], z[n + 1])
    <2> TAKE n \in 1..(Len(z) - 1)
    <2>1. CASE n = Len(s)
      BY <1>1, <2>1
    <2>2. CASE n \in 1..(Len(s) - 1)
      <3>1. Link(s[n], s[n + 1]) /\ z[n] = s[n]
        BY <1>1, <2>2 DEF Shape
      <3>2. CASE n + 1 = Len(s)
        BY <1>1, <3>1, <3>2 DEF Link, Keeps
      <3>3. CASE n + 1 \in 1..(Len(s) - 1)
        BY <1>1, <3>1, <3>3
      <3> QED
        BY <1>3, <2>2, <3>2, <3>3
    <2> QED
      BY <1>1, <2>1, <2>2
  <1>7. PullsOnly(z)
    <2> SUFFICES ASSUME NEW n \in 1..Len(z), NEW m \in 1..Len(z), n < m, z[n].pc = "pulled"
                 PROVE  z[m].mode = "invoke"
      BY DEF PullsOnly
    <2>1. CASE n = Len(s)
      <3>1. m = Len(s) + 1
        BY <1>1, <2>1
      <3> QED
        BY <1>1, <2>1, <3>1 DEF Link
    <2>2. CASE n \in 1..(Len(s) - 1)
      <3>1. n \in 1..Len(s) /\ Len(s) \in 1..Len(s) /\ n < Len(s) /\ s[n].pc = "pulled"
        BY <1>1, <2>2
      <3>2. \A x \in 1..Len(s) : n < x => s[x].mode = "invoke"
        BY <3>1 DEF Shape, PullsOnly
      <3>3. g.mode = "invoke" /\ h.mode = "invoke"
        BY <3>1, <3>2 DEF Keeps, FrameShape, Link
      <3> QED
        BY <1>1, <1>2, <1>3, <3>2, <3>3
    <2>3. n # Len(s) + 1
      BY <1>1
    <2> QED
      BY <1>2, <2>1, <2>2, <2>3
  <1>8. NoReturn(z)
    <2> SUFFICES ASSUME NEW n \in 1..Len(z), NEW m \in 1..Len(z), n < m,
                        z[n].pc = "deliver", z[m].pc = "deliver", z[n].op = z[m].op
                 PROVE  z[m].k <= z[n].k /\ (m = Len(z) => z[m].k < z[n].k)
      BY DEF NoReturn
    <2>1. m # Len(s) + 1
      BY <1>1, <1>4
    <2>2. m # Len(z) /\ m \in 1..Len(s) /\ n \in 1..(Len(s) - 1) /\ n \in 1..Len(s)
      <3>1. m \in 1..(Len(s) + 1) /\ n \in 1..(Len(s) + 1) /\ n < m /\ Len(s) \in Nat
        BY <1>1
      <3> QED
        BY <1>1, <2>1, <3>1
    <2>5. z[n] = s[n]
      BY <1>1, <2>2
    <2>3. CASE m = Len(s)
      BY <1>1, <2>2, <2>3, <2>5
    <2>4. CASE m \in 1..(Len(s) - 1)
      BY <1>1, <2>2, <2>4, <2>5 DEF Shape, NoReturn
    <2> QED
      BY <1>2, <2>1, <2>2, <2>3, <2>4
  <1> QED
    BY <1>5, <1>6, <1>7, <1>8 DEF Shape

\* A call that returns from delivering is the only one of its operation that
\* delivers.
LEMMA DeliversOnce ==
  ASSUME NEW s, NEW c, NEW L, Stood(s, c, L), Shape(s), s # <<>>,
         s[Len(s)].pc = "deliver", s[Len(s)].k > Len(OutConnections(s[Len(s)].op)),
         NEW n \in 1..(Len(s) - 1), s[n].op = s[Len(s)].op
  PROVE  s[n].pc # "deliver"
  <1> DEFINE f == s[Len(s)] g == s[n]
  <1>1. Len(s) \in Nat \ {0} /\ n \in 1..Len(s) /\ Len(s) \in 1..Len(s) /\ n < Len(s)
    BY DEF Stood
  <1>2. /\ f.k \in Nat /\ g.k \in Nat /\ f.op \in Ops /\ g.op = f.op
        /\ g.pc = "deliver" => g.k <= Len(OutConnections(g.op)) + 1
    BY <1>1 DEF Stood, FrameOK, Shape, FrameShape
  <1>3. g.pc = "deliver" => f.k < g.k
    BY <1>1 DEF Shape, NoReturn
  <1>4. Len(OutConnections(f.op)) \in Nat /\ f.k > Len(OutConnections(f.op))
    BY <1>2, OutsAre
  <1> HIDE DEF f, g
  <1>5. g.pc # "deliver"
    BY <1>2, <1>3, <1>4
  <1> QED
    BY <1>5 DEF g

LEMMA ShapePopped ==
  ASSUME NEW s, NEW z, NEW c, NEW L, Stood(s, c, L), Shape(s), Popped(s, z),
         LET f == s[Len(s)] IN \/ f.pc = "invoked" /\ f.mode = "invoke"
                               \/ f.pc = "deliver" /\ f.k > Len(OutConnections(f.op))
  PROVE  Shape(z)
  <1>1. Len(s) \in Nat \ {0} /\ Len(z) = Len(s) - 1 /\ \A n \in 1..(Len(s) - 1) : z[n] = s[n]
    BY DEF Popped, Below
  <1>2. \A n \in 1..Len(z) : n \in 1..(Len(s) - 1) /\ n \in 1..Len(s)
    BY <1>1
  <1>3. \A n \in 1..Len(z) : FrameShape(z[n])
    BY <1>1, <1>2 DEF Shape
  <1>4. \A n \in 1..(Len(z) - 1) : Link(z[n], z[n + 1])
    <2> TAKE n \in 1..(Len(z) - 1)
    <2>1. n \in 1..(Len(s) - 1) /\ n + 1 \in 1..(Len(s) - 1)
      BY <1>1
    <2> QED
      BY <1>1, <2>1 DEF Shape
  <1>5. PullsOnly(z)
    BY <1>1, <1>2 DEF Shape, PullsOnly
  <1>6. NoReturn(z)
    <2> SUFFICES ASSUME NEW n \in 1..Len(z), NEW m \in 1..Len(z), n < m,
                        z[n].pc = "deliver", z[m].pc = "deliver", z[n].op = z[m].op
                 PROVE  z[m].k <= z[n].k /\ (m = Len(z) => z[m].k < z[n].k)
      BY DEF NoReturn
    <2>1. /\ n \in 1..Len(s) /\ m \in 1..Len(s) /\ n \in 1..(Len(s) - 1) /\ m \in 1..(Len(s) - 1)
          /\ z[n] = s[n] /\ z[m] = s[m]
      BY <1>1, <1>2
    <2>2. s[m].k <= s[n].k /\ s[m].k \in Nat /\ s[n].k \in Nat
      BY <2>1 DEF Shape, NoReturn, Stood, FrameOK
    <2>3. ASSUME m = Len(z), s[m].k = s[n].k PROVE FALSE
      <3> DEFINE f == s[Len(s)]
      <3>1. m = Len(s) - 1 /\ m + 1 = Len(s)
        BY <1>1, <2>3
      <3>2. /\ Link(s[m], f) /\ Waits(s[m], f, L) /\ Waits(s[n], s[n + 1], L)
        BY <2>1, <3>1 DEF Shape, Stood
      <3>3. f.mode = "execute" /\ f.op = s[n + 1].op
        BY <2>1, <2>3, <3>2 DEF Link, Waits
      <3>4. f.pc = "deliver" /\ f.k > Len(OutConnections(f.op))
        BY <3>3
      <3>5. n + 1 \in 1..(Len(s) - 1) /\ n + 1 \in 1..Len(s) /\ Len(s) \in 1..Len(s) /\ n + 1 < Len(s)
        BY <1>1, <2>1, <3>1
      <3>6. s[n + 1].pc \in {"pulled", "deliver"}
        BY <3>5 DEF Stood, Waits
      <3>7. s[n + 1].pc # "pulled"
        BY <3>3, <3>5 DEF Shape, PullsOnly
      <3>8. s # <<>>
        BY <1>1 DEF Stood
      <3>9. s[n + 1].pc # "deliver"
        BY <3>3, <3>4, <3>5, <3>8, DeliversOnce
      <3> QED
        BY <3>6, <3>7, <3>9
    <2> QED
      BY <2>1, <2>2, <2>3
  <1> QED
    BY <1>3, <1>4, <1>5, <1>6 DEF Shape

ShapeInv == \A t \in Threads : Shape(stack[t])

\* Every step of a thread keeps the shape of its stack (invoke, execute).
LEMMA StepShape ==
  ASSUME IInv, NEW t \in Threads, Shape(stack[t]), Step(t)
  PROVE  Shape(stack'[t]) /\ OthersKeep(t)
  <1> DEFINE s == stack[t] z == stack'[t] f == s[Len(s)]
  <1>1. s # <<>>
    BY DEF Step, Decide, StartPull, EndPull, Collect, Call, ReturnInvoke, PutOutlet, Deliver,
           FinishConnection, ReturnExecute, At
  <1>2. Stood(s, clock, lastRun) /\ FrameOK(f, clock, lastRun) /\ FrameShape(f) /\ Len(s) \in Nat \ {0}
    <2>1. Stood(s, clock, lastRun)
      BY <1>1, Before
    <2>2. Len(s) \in Nat \ {0} /\ Len(s) \in 1..Len(s)
      BY <1>1, <2>1 DEF Stood
    <2> QED
      BY <2>1, <2>2 DEF Stood, Shape
  <1>3. f.op \in Ops /\ f.k \in Nat \ {0} /\ f.born \in 0..clock
    BY <1>2 DEF FrameOK
  <1>4. CASE Decide(t)
    <2>1. PICK g : Replaced(s, z, g) /\ Keeps(f, g) /\ g.pc \in {"collect", "invoked"}
      BY <1>4, DecideIs
    <2>2. FrameShape(g)
      BY <2>1 DEF FrameShape
    <2> QED
      BY <1>2, <1>4, <2>1, <2>2, ShapeReplaced, DecideIs
  <1>5. CASE StartPull(t)
    <2>1. PICK g, h : /\ Pushed(s, z, g, h) /\ Keeps(f, g)
                      /\ g.pc = "pulled" /\ g.i = f.i /\ g.k = f.k
                      /\ FreshCall(h, PullConnections(f.op, f.i)[f.k].from, "invoke")
      BY <1>5, StartPullIs
    <2>2. f.k \in 1..Len(PullConnections(f.op, f.i)) /\ OthersKeep(t) /\ f.i \in InletIndexes(f.op)
      BY <1>5, StartPullIs
    <2>3. FrameShape(g)
      BY <2>1, <2>2, <1>3, PullsAre, SMTT(20) DEF FrameShape, Keeps
    <2>4. h.op = UpOf(g) /\ h.mode = "invoke" /\ h.born >= g.born
      <3>1. UpOf(g) = PullConnections(f.op, f.i)[f.k].from
        BY <2>1 DEF UpOf, Keeps
      <3>2. h.born = clock /\ clock \in Nat /\ g.born = f.born
        BY <2>1, Numbers DEF Keeps, FreshCall, IInv
      <3> QED
        BY <1>3, <2>1, <3>1, <3>2 DEF FreshCall
    <2>5. Link(g, h)
      BY <2>1, <2>4 DEF Link
    <2> QED
      BY <1>2, <2>1, <2>2, <2>3, <2>5, ShapePushed
  <1>6. CASE EndPull(t)
    <2>1. PICK g : Replaced(s, z, g) /\ Keeps(f, g) /\ g.pc = "collect"
      BY <1>6, EndPullIs
    <2>2. FrameShape(g)
      BY <2>1 DEF FrameShape
    <2> QED
      BY <1>2, <1>6, <2>1, <2>2, ShapeReplaced, EndPullIs
  <1>7. CASE Collect(t)
    <2>1. PICK g : Replaced(s, z, g) /\ Keeps(f, g) /\ g.pc = "collect"
      BY <1>7, CollectIs
    <2>2. FrameShape(g)
      BY <2>1 DEF FrameShape
    <2> QED
      BY <1>2, <1>7, <2>1, <2>2, ShapeReplaced, CollectIs
  <1>8. CASE Call(t)
    <2>1. PICK g : Replaced(s, z, g) /\ Keeps(f, g) /\ g.pc = "invoked"
      BY <1>8, CallIs
    <2>2. FrameShape(g)
      BY <2>1 DEF FrameShape
    <2> QED
      BY <1>2, <1>8, <2>1, <2>2, ShapeReplaced, CallIs
  <1>9. CASE ReturnInvoke(t) \/ ReturnExecute(t)
    BY <1>2, <1>9, ReturnIs, ShapePopped
  <1>10. CASE PutOutlet(t)
    <2>1. PICK g : Replaced(s, z, g) /\ Keeps(f, g) /\ g.pc = "deliver" /\ g.k = 1
      BY <1>10, PutOutletIs
    <2>2. f.mode = "execute" /\ OthersKeep(t)
      BY <1>10, PutOutletIs
    <2>3. FrameShape(g)
      BY <1>3, <2>1, <2>2, OutsAre DEF FrameShape, Keeps
    <2>4. \A n \in 1..(Len(s) - 1) : s[n].pc = "deliver" => s[n].k \in Nat /\ s[n].k >= 2
      BY <1>2 DEF Stood, FrameOK, Shape, Link
    <2>5. \A n \in 1..(Len(s) - 1) : s[n].pc = "deliver" /\ s[n].op = g.op => g.k < s[n].k
      BY <2>1, <2>4
    <2> QED
      BY <1>2, <2>1, <2>2, <2>3, <2>5, ShapeReplaced
  <1>11. CASE Deliver(t)
    <2>1. PICK g : Replaced(s, z, g) /\ Keeps(f, g) /\ g.pc = "deliver" /\ g.k = f.k
      BY <1>11, DeliverIs
    <2>2. f.pc = "deliver" /\ OthersKeep(t)
      BY <1>11, DeliverIs
    <2>3. FrameShape(g)
      BY <1>2, <2>1, <2>2 DEF FrameShape, Keeps
    <2>4. \A n \in 1..(Len(s) - 1) : s[n].pc = "deliver" /\ s[n].op = g.op => g.k < s[n].k
      BY <1>2, <2>1, <2>2 DEF Shape, NoReturn, Keeps
    <2>5. g.k \in Nat
      BY <1>3, <2>1
    <2> QED
      BY <1>2, <2>1, <2>2, <2>3, <2>4, <2>5, ShapeReplaced
  <1>12. CASE FinishConnection(t)
    <2> DEFINE c == OutConnections(f.op)[f.k]
    <2>1. PICK g, h : /\ Keeps(f, g) /\ g.pc = "deliver" /\ g.i = 1 /\ g.k = f.k + 1
                      /\ \/ /\ c.type = "EVENT" /\ Pushed(s, z, g, h)
                            /\ FreshCall(h, c.to, "execute")
                         \/ c.type # "EVENT" /\ Replaced(s, z, g)
      BY <1>12, FinishConnectionIs
    <2>2. f.pc = "deliver" /\ OthersKeep(t) /\ f.k \in 1..Len(OutConnections(f.op))
      BY <1>12, FinishConnectionIs
    <2>3. FrameShape(g)
      BY <1>2, <1>3, <2>1, <2>2, OutsAre DEF FrameShape, Keeps
    <2>4. \A n \in 1..(Len(s) - 1) : s[n].pc = "deliver" /\ s[n].op = f.op =>
            s[n].k \in Nat /\ f.k < s[n].k /\ ConnectionOf(s[n], s[n].k - 1).type = "EVENT"
      <3> SUFFICES ASSUME NEW n \in 1..(Len(s) - 1), s[n].pc = "deliver", s[n].op = f.op
                   PROVE  /\ s[n].k \in Nat /\ f.k < s[n].k
                          /\ ConnectionOf(s[n], s[n].k - 1).type = "EVENT"
        OBVIOUS
      <3>1. n \in 1..Len(s) /\ Len(s) \in 1..Len(s) /\ n < Len(s)
        BY <1>2
      <3>2. s[n].k \in Nat
        BY <1>2, <3>1 DEF Stood, FrameOK
      <3>3. f.k < s[n].k
        BY <2>2, <3>1 DEF Shape, NoReturn
      <3>4. ConnectionOf(s[n], s[n].k - 1).type = "EVENT"
        BY DEF Shape, Link
      <3> QED
        BY <3>2, <3>3, <3>4
    <2>5. CASE c.type = "EVENT"
      <3>1. Pushed(s, z, g, h) /\ FreshCall(h, c.to, "execute")
        BY <2>1, <2>5
      <3>2. g.k - 1 = f.k /\ g.k >= 2 /\ g.op = f.op
        BY <1>3, <2>1 DEF Keeps
      <3>3. Link(g, h)
        BY <2>1, <2>5, <3>1, <3>2 DEF Link, ConnectionOf, FreshCall
      <3>4. \A n \in 1..(Len(s) - 1) : s[n].pc = "deliver" /\ s[n].op = g.op => g.k <= s[n].k
        BY <1>3, <2>1, <2>4, <3>2, SMTT(20)
      <3> QED
        BY <1>2, <2>1, <2>2, <2>3, <3>1, <3>3, <3>4, ShapePushed
    <2>6. CASE c.type # "EVENT"
      <3>1. Replaced(s, z, g)
        BY <2>1, <2>6
      <3>2. ASSUME NEW n \in 1..(Len(s) - 1), s[n].pc = "deliver", s[n].op = g.op
            PROVE  g.k < s[n].k
        <4>1. s[n].op = f.op
          BY <2>1, <3>2 DEF Keeps
        <4>2. s[n].k - 1 # f.k
          BY <2>4, <2>6, <3>2, <4>1 DEF ConnectionOf
        <4>3. s[n].k \in Nat /\ f.k < s[n].k /\ g.k = f.k + 1 /\ f.k \in Nat
          BY <1>3, <2>1, <2>4, <3>2, <4>1
        <4> HIDE DEF s, f
        <4> QED
          BY <4>2, <4>3
      <3>3. g.k \in Nat
        BY <1>3, <2>1
      <3> QED
        BY <1>2, <2>1, <2>2, <2>3, <3>1, <3>2, <3>3, ShapeReplaced, SMTT(20)
    <2> QED
      BY <2>5, <2>6
  <1> QED
    BY <1>4, <1>5, <1>6, <1>7, <1>8, <1>9, <1>10, <1>11, <1>12 DEF Step

LEMMA ShapeInit == Init => ShapeInv
  BY DEF Init, ShapeInv, Shape, PullsOnly, NoReturn

LEMMA ShapeNext == IInv /\ ShapeInv /\ [Next]_vars => ShapeInv'
  <1> SUFFICES ASSUME IInv, ShapeInv, [Next]_vars PROVE ShapeInv'
    OBVIOUS
  <1>1. ASSUME NEW t \in Threads, Step(t) PROVE ShapeInv'
    BY <1>1, StepShape DEF ShapeInv, OthersKeep
  <1>2. ASSUME NEW t \in Threads, NEW o \in Ops, NEW mode, RequestCall(t, o, mode)
        PROVE  ShapeInv'
    <2>1. Len(stack'[t]) = 1 /\ FreshCall(stack'[t][1], o, mode) /\ OthersKeep(t)
      BY <1>2, RequestCallIs
    <2>2. FrameShape(stack'[t][1])
      BY <2>1 DEF FrameShape, FreshCall
    <2>3. Shape(stack'[t])
      BY <2>1, <2>2 DEF Shape, PullsOnly, NoReturn
    <2> QED
      BY <2>1, <2>3 DEF ShapeInv, OthersKeep
  <1>3. ASSUME NEW t \in Threads, NEW o, NEW i, RequestPut(t, o, i) PROVE ShapeInv'
    BY <1>3 DEF RequestPut, ShapeInv
  <1>4. CASE UNCHANGED vars
    BY <1>4 DEF vars, ShapeInv
  <1> QED
    BY <1>1, <1>2, <1>3, <1>4, GraphAssumption DEF Next

------------------------------------------------------------------------------
(* One thread: what was pulled is fresh *)

\* v is newer than the clock value when, unless o has no inlets: invoke calls
\* such an operation once and then returns what its outlet holds.
FreshFrom(o, v, when) == Inlets[o] # <<>> => v > when
FrameFresh(f) ==
  /\ f.pc = "decide" => DOMAIN f.pulled = {}
  /\ f.pc = "pulled" => f.i \notin DOMAIN f.pulled
  /\ f.pc \in {"collect", "pulled"} =>
       \A i \in DOMAIN f.pulled :
         i <= f.i /\ (i < f.i => FreshFrom(f.pulled[i], f.args[i], f.born))
  /\ f.pc = "invoked" => f.val = ErrorValue \/ FreshFrom(f.op, f.val, f.born)
\* b is the inlets' buffers, r what the last call returned.
TopFresh(f, b, r) ==
  /\ f.pc = "collect" /\ f.i \in DOMAIN f.pulled =>
       f.k > Len(PullConnections(f.op, f.i)) /\ FreshFrom(f.pulled[f.i], b[f.op][f.i], f.born)
  /\ f.pc = "pulled" => r = ErrorValue \/ FreshFrom(UpOf(f), r, f.born)
Fresh(s, b, r) ==
  /\ \A n \in 1..Len(s) : FrameFresh(s[n])
  /\ s # <<>> => TopFresh(s[Len(s)], b, r)

LEMMA FreshReplaced ==
  ASSUME NEW s, NEW z, NEW g, NEW b, NEW r, NEW b2, NEW r2, Fresh(s, b, r), Replaced(s, z, g),
         FrameFresh(g), TopFresh(g, b2, r2)
  PROVE  Fresh(z, b2, r2)
  <1>1. \A n \in 1..Len(z) : n = Len(s) \/ (n \in 1..(Len(s) - 1) /\ n \in 1..Len(s))
    BY DEF Replaced
  <1> QED
    BY <1>1 DEF Fresh, Replaced, Below

LEMMA FreshPushed ==
  ASSUME NEW s, NEW z, NEW g, NEW h, NEW b, NEW r, NEW b2, NEW r2, Fresh(s, b, r),
         Pushed(s, z, g, h), FrameFresh(g), FrameFresh(h), TopFresh(h, b2, r2)
  PROVE  Fresh(z, b2, r2)
  <1>1. \A n \in 1..Len(z) : n = Len(s) + 1 \/ n = Len(s) \/ (n \in 1..(Len(s) - 1) /\ n \in 1..Len(s))
    BY DEF Pushed
  <1> QED
    BY <1>1 DEF Fresh, Pushed, Below

\* What a put changes (OperationInletBase::put).
LEMMA PutIs ==
  ASSUME IInv, NEW o \in Ops, NEW i \in InletIndexes(o), NEW v, PutInlet(o, i, v)
  PROVE  \A p \in Ops : \A j \in InletIndexes(p) :
           buffer'[p][j] = IF p = o /\ j = i /\ v # ErrorValue THEN v ELSE buffer[p][j]
  <1>1. CASE v = ErrorValue
    BY <1>1 DEF PutInlet, Accepted
  <1>2. CASE v # ErrorValue
    <2>1. buffer' = [buffer EXCEPT ![o] = [buffer[o] EXCEPT ![i] = v]]
      BY <1>2 DEF PutInlet, Accepted
    <2> DEFINE b == [buffer[o] EXCEPT ![i] = v]
    <2>2. \A j \in InletIndexes(o) : b[j] = IF j = i THEN v ELSE buffer[o][j]
      BY DEF IInv, Tables
    <2> HIDE DEF b
    <2>3. \A p \in Ops : buffer'[p] = IF p = o THEN b ELSE buffer[p]
      BY <2>1 DEF IInv, Tables, b
    <2> QED
      BY <1>2, <2>2, <2>3
  <1> QED
    BY <1>1, <1>2

LEMMA StepFresh ==
  ASSUME IInv, NEW t \in Threads, Shape(stack[t]), Step(t), Fresh(stack[t], buffer, ret[t])
  PROVE  Fresh(stack'[t], buffer', ret'[t])
  <1> DEFINE s == stack[t] z == stack'[t] f == s[Len(s)]
  <1>1. s # <<>>
    BY DEF Step, Decide, StartPull, EndPull, Collect, Call, ReturnInvoke, PutOutlet, Deliver,
           FinishConnection, ReturnExecute, At
  <1>2. Stood(s, clock, lastRun) /\ FrameOK(f, clock, lastRun) /\ FrameFresh(f)
        /\ TopFresh(f, buffer, ret[t]) /\ Len(s) \in Nat \ {0}
    <2>1. Stood(s, clock, lastRun)
      BY <1>1, Before
    <2>2. Len(s) \in Nat \ {0} /\ Len(s) \in 1..Len(s)
      BY <1>1, <2>1 DEF Stood
    <2> QED
      BY <1>1, <2>1, <2>2 DEF Stood, Fresh
  <1>3. /\ f.op \in Ops /\ f.i \in Nat /\ f.k \in Nat \ {0} /\ f.born \in 0..clock /\ clock \in Nat
        /\ DOMAIN f.pulled \subseteq InletIndexes(f.op) /\ \A i \in DOMAIN f.pulled : i \in Nat
    BY <1>2, Numbers DEF FrameOK, InletIndexes, IInv
  <1>4. CASE Decide(t)
    <2>1. PICK g : /\ Replaced(s, z, g) /\ Keeps(f, g) /\ g.pulled = f.pulled
                   /\ g.pc = "collect" \/ (g.pc = "invoked" /\ Inlets[f.op] = <<>>)
      BY <1>4, DecideIs
    <2>2. f.pc = "decide"
      BY <1>4, DecideIs
    <2>3. DOMAIN g.pulled = {}
      BY <1>2, <2>1, <2>2 DEF FrameFresh
    <2>4. FrameFresh(g) /\ TopFresh(g, buffer', ret'[t])
      BY <2>1, <2>3 DEF FrameFresh, TopFresh, FreshFrom, Keeps
    <2> QED
      BY <2>1, <2>4, FreshReplaced
  <1>5. CASE StartPull(t)
    <2>1. PICK g, h : /\ Pushed(s, z, g, h) /\ Keeps(f, g)
                      /\ g.pc = "pulled" /\ g.i = f.i /\ g.args = f.args /\ g.pulled = f.pulled
                      /\ FreshCall(h, PullConnections(f.op, f.i)[f.k].from, "invoke")
      BY <1>5, StartPullIs
    <2>2. f.pc = "collect" /\ f.k \in 1..Len(PullConnections(f.op, f.i)) /\ f.i \in InletIndexes(f.op)
      BY <1>5, StartPullIs
    <2>3. f.i \notin DOMAIN f.pulled
      <3>1. Len(PullConnections(f.op, f.i)) \in Nat
        BY <1>3, <2>2, PullsAre
      <3> QED
        BY <1>2, <2>2, <3>1 DEF TopFresh
    <2>4. FrameFresh(g)
      BY <1>2, <2>1, <2>2, <2>3 DEF FrameFresh, Keeps
    <2>5. FrameFresh(h) /\ TopFresh(h, buffer', ret'[t])
      BY <2>1 DEF FrameFresh, TopFresh, FreshCall
    <2> QED
      BY <2>1, <2>4, <2>5, FreshPushed
  <1>6. CASE EndPull(t)
    <2>1. PICK g : /\ Replaced(s, z, g) /\ Keeps(f, g)
                   /\ g.pc = "collect" /\ g.i = f.i /\ g.args = f.args
                   /\ ret[t] = ErrorValue => g.pulled = f.pulled
                   /\ ret[t] # ErrorValue => /\ g.pulled = PulledNow(f)
                                             /\ g.k = Len(PullConnections(f.op, f.i)) + 1
      BY <1>6, EndPullIs
    <2>2. f.pc = "pulled" /\ PutInlet(f.op, f.i, ret[t])
      BY <1>6, EndPullIs
    <2>3. f.i \in InletIndexes(f.op) /\ f.i \notin DOMAIN f.pulled
      BY <1>2, <2>2 DEF FrameOK, FrameFresh
    <2>4. CASE ret[t] = ErrorValue
      <3>1. FrameFresh(g) /\ TopFresh(g, buffer', ret'[t])
        BY <1>2, <2>1, <2>2, <2>3, <2>4 DEF FrameFresh, TopFresh, Keeps
      <3> QED
        BY <2>1, <3>1, FreshReplaced
    <2>5. CASE ret[t] # ErrorValue
      <3>1. buffer'[f.op][f.i] = ret[t]
        BY <1>3, <2>2, <2>3, <2>5, PutIs
      <3>2. /\ DOMAIN PulledNow(f) = DOMAIN f.pulled \cup {f.i}
            /\ PulledNow(f)[f.i] = UpOf(f)
            /\ \A i \in DOMAIN f.pulled : i # f.i /\ PulledNow(f)[i] = f.pulled[i]
        BY <2>3 DEF PulledNow, UpOf
      <3>3. Len(PullConnections(f.op, f.i)) \in Nat
        BY <1>3, <2>3, PullsAre
      <3>4. FrameFresh(g)
        <4>1. ASSUME NEW i \in DOMAIN g.pulled
              PROVE  i <= g.i /\ (i < g.i => FreshFrom(g.pulled[i], g.args[i], g.born))
          <5>1. CASE i = f.i
            BY <1>3, <2>1, <5>1
          <5>2. CASE i \in DOMAIN f.pulled
            BY <1>2, <2>1, <2>2, <2>5, <3>2, <5>2 DEF FrameFresh, Keeps
          <5> QED
            BY <2>1, <2>5, <3>2, <5>1, <5>2
        <4> QED
          BY <2>1, <4>1 DEF FrameFresh
      <3>5. FreshFrom(UpOf(f), ret[t], f.born)
        BY <1>2, <2>2, <2>5 DEF TopFresh
      <3>6. g.k > Len(PullConnections(g.op, g.i)) /\ g.pulled[g.i] = UpOf(f) /\ g.op = f.op /\ g.born = f.born
        BY <2>1, <2>5, <3>2, <3>3 DEF Keeps
      <3>7. TopFresh(g, buffer', ret'[t])
        BY <2>1, <3>1, <3>5, <3>6 DEF TopFresh
      <3> QED
        BY <2>1, <3>4, <3>7, FreshReplaced
    <2> QED
      BY <2>4, <2>5
  <1>7. CASE Collect(t)
    <2>1. PICK g : /\ Replaced(s, z, g) /\ Keeps(f, g)
                   /\ g.pc = "collect" /\ g.i = f.i + 1 /\ g.k = 1 /\ g.pulled = f.pulled
                   /\ g.args = [f.args EXCEPT ![f.i] = buffer[f.op][f.i]]
      BY <1>7, CollectIs
    <2>2. f.pc = "collect" /\ f.i \in InletIndexes(f.op)
      BY <1>7, CollectIs
    <2>3. \A i \in InletIndexes(f.op) :
            g.args[i] = IF i = f.i THEN buffer[f.op][f.i] ELSE f.args[i]
      BY <1>2, <2>1 DEF FrameOK
    <2>4. ASSUME NEW i \in DOMAIN g.pulled
          PROVE  i <= g.i /\ i # g.i /\ FreshFrom(g.pulled[i], g.args[i], g.born)
      <3>1. i \in Nat /\ i <= f.i /\ i \in InletIndexes(f.op) /\ g.born = f.born
        BY <1>2, <1>3, <2>1, <2>2, <2>4 DEF FrameFresh, Keeps
      <3>2. i <= g.i /\ i # g.i
        BY <1>3, <2>1, <3>1
      <3>3. CASE i = f.i
        <4>1. FreshFrom(f.pulled[f.i], buffer[f.op][f.i], f.born)
          BY <1>2, <2>1, <2>2, <2>4, <3>3 DEF TopFresh
        <4>2. g.pulled[i] = f.pulled[f.i] /\ g.args[i] = buffer[f.op][f.i]
          BY <2>1, <2>3, <3>1, <3>3
        <4> QED
          BY <3>1, <3>2, <4>1, <4>2
      <3>4. CASE i < f.i
        <4>1. FreshFrom(f.pulled[i], f.args[i], f.born)
          BY <1>2, <2>1, <2>2, <2>4, <3>4 DEF FrameFresh
        <4>2. g.pulled[i] = f.pulled[i] /\ g.args[i] = f.args[i]
          BY <1>3, <2>1, <2>3, <3>1, <3>4
        <4> QED
          BY <3>1, <3>2, <4>1, <4>2
      <3> QED
        BY <1>3, <3>1, <3>2, <3>3, <3>4
    <2>5. FrameFresh(g) /\ TopFresh(g, buffer', ret'[t])
      BY <2>1, <2>4 DEF FrameFresh, TopFresh
    <2> QED
      BY <2>1, <2>5, FreshReplaced
  <1>8. CASE Call(t)
    <2>1. PICK g : /\ Replaced(s, z, g) /\ Keeps(f, g)
                   /\ g.pc = "invoked" /\ g.val \in {clock + 1, ErrorValue}
      BY <1>8, CallIs
    <2>2. clock + 1 > g.born
      BY <1>3, <2>1 DEF Keeps
    <2>3. FrameFresh(g) /\ TopFresh(g, buffer', ret'[t])
      BY <2>1, <2>2 DEF FrameFresh, TopFresh, FreshFrom
    <2> QED
      BY <2>1, <2>3, FreshReplaced
  <1>9. CASE ReturnInvoke(t) \/ ReturnExecute(t)
    <2>1. /\ Popped(s, z) /\ ret'[t] = f.val
          /\ \/ f.pc = "invoked" /\ f.mode = "invoke"
             \/ f.pc = "deliver" /\ f.k > Len(OutConnections(f.op))
      BY <1>9, ReturnIs
    <2>2. \A n \in 1..Len(z) : n \in 1..Len(s) /\ z[n] = s[n]
      BY <2>1 DEF Popped, Below
    <2>3. \A n \in 1..Len(z) : FrameFresh(z[n])
      BY <2>2 DEF Fresh
    <2>4. ASSUME z # <<>> PROVE TopFresh(z[Len(z)], buffer', ret'[t])
      <3> DEFINE m == z[Len(z)]
      <3>1. Len(z) \in 1..Len(z) /\ Len(z) \in 1..(Len(s) - 1) /\ Len(z) + 1 = Len(s) /\ Len(z) \in 1..Len(s)
        BY <2>1, <2>4 DEF Popped
      <3>2. m = s[Len(z)] /\ FrameOK(m, clock, lastRun) /\ Waits(m, f, lastRun) /\ Link(m, f)
        BY <1>2, <2>2, <3>1 DEF Stood, Shape
      <3> HIDE DEF m
      <3>3. m.pc \in {"pulled", "deliver"} /\ m.born \in Nat
        <4>1. m.pc \in {"pulled", "deliver"}
          BY <3>2 DEF Waits
        <4>2. m.born \in Nat
          BY <3>2 DEF FrameOK
        <4> QED
          BY <4>1, <4>2
      <3>4. CASE m.pc = "pulled"
        <4>1. f.op = UpOf(m) /\ f.mode = "invoke" /\ f.born >= m.born
          BY <3>2, <3>4 DEF Link
        <4>2. f.pc = "invoked"
          BY <1>2, <2>1, <4>1, <3>1 DEF Shape, FrameShape
        <4>3. f.val = ErrorValue \/ FreshFrom(f.op, f.val, f.born)
          BY <1>2, <4>2 DEF FrameFresh
        <4>4. f.val = ErrorValue \/ FreshFrom(UpOf(m), f.val, m.born)
          <5>1. f.val \in Int /\ f.born \in Nat
            BY <1>2, <1>3 DEF FrameOK, Value, ErrorValue, EmptyValue
          <5> QED
            BY <3>3, <4>1, <4>3, <5>1 DEF FreshFrom
        <4> QED
          BY <2>1, <3>4, <4>4 DEF TopFresh, m
      <3>5. CASE m.pc = "deliver"
        BY <3>5 DEF TopFresh, m
      <3> QED
        BY <3>3, <3>4, <3>5
    <2> QED
      BY <2>3, <2>4 DEF Fresh
  <1>10. CASE PutOutlet(t) \/ Deliver(t)
    <2>1. PICK g : Replaced(s, z, g) /\ g.pc = "deliver"
      BY <1>10, PutOutletIs, DeliverIs
    <2>2. FrameFresh(g) /\ TopFresh(g, buffer', ret'[t])
      BY <2>1 DEF FrameFresh, TopFresh
    <2> QED
      BY <2>1, <2>2, FreshReplaced
  <1>11. CASE FinishConnection(t)
    <2>1. PICK g, h : /\ g.pc = "deliver"
                      /\ \/ /\ Pushed(s, z, g, h)
                            /\ FreshCall(h, OutConnections(f.op)[f.k].to, "execute")
                         \/ Replaced(s, z, g)
      BY <1>11, FinishConnectionIs
    <2>2. FrameFresh(g) /\ TopFresh(g, buffer', ret'[t])
      BY <2>1 DEF FrameFresh, TopFresh
    <2>3. FreshCall(h, OutConnections(f.op)[f.k].to, "execute") =>
            FrameFresh(h) /\ TopFresh(h, buffer', ret'[t])
      BY DEF FrameFresh, TopFresh, FreshCall
    <2> QED
      BY <2>1, <2>2, <2>3, FreshReplaced, FreshPushed
  <1> QED
    BY <1>4, <1>5, <1>6, <1>7, <1>8, <1>9, <1>10, <1>11 DEF Step

------------------------------------------------------------------------------
(* One thread: an EVENT connection's body run gets what was put *)

\* g is the call f waits for; b is the inlets' buffers, e the arguments of each
\* operation's last body run.
Given(f, g, b, e) ==
  f.pc = "deliver" /\ f.val # ErrorValue =>
    LET c == ConnectionOf(f, f.k - 1) IN
      \A i \in Reached(c, f.val) : ~HasPull(c.to, i) =>
        /\ g.pc \in {"decide", "collect", "pulled"} => b[c.to][i] = f.val
        /\ g.pc \in {"collect", "pulled"} /\ i < g.i => g.args[i] = f.val
        /\ g.pc = "invoked" => e[c.to][i] = f.val
PutSoFar(f, b) ==
  f.pc = "deliver" /\ f.val # ErrorValue /\ f.k <= Len(OutConnections(f.op)) =>
    LET c == ConnectionOf(f, f.k) IN
      \A m \in 1..Len(TargetInlets(c, f.val)) :
         m < f.i => b[c.to][TargetInlets(c, f.val)[m]] = f.val
Exact(s, b, e) ==
  /\ \A n \in 1..(Len(s) - 1) : Given(s[n], s[n + 1], b, e)
  /\ s # <<>> => PutSoFar(s[Len(s)], b)

\* b and d agree on the inlets that nothing is pulled into.
AgreeUnpulled(b, d) == \A o \in Ops : \A i \in InletIndexes(o) : ~HasPull(o, i) => d[o][i] = b[o][i]
NoPullBelow(s) == \A n \in 1..(Len(s) - 1) : s[n].pc # "pulled"

\* The connection a call delivers on.
LEMMA Delivering ==
  ASSUME NEW s, NEW c, NEW L, Stood(s, c, L), Shape(s), NEW n \in 1..(Len(s) - 1),
         s[n].pc = "deliver"
  PROVE  LET x == ConnectionOf(s[n], s[n].k - 1) IN
         /\ x \in Links /\ x.to \in Ops /\ x.to = s[n + 1].op /\ x.from = s[n].op
         /\ s[n].k - 1 \in 1..Len(OutConnections(s[n].op))
         /\ Reached(x, s[n].val) \subseteq InletIndexes(x.to)
  <1> DEFINE f == s[n] x == ConnectionOf(f, f.k - 1)
  <1>1. n \in 1..Len(s)
    BY DEF Stood
  <1>2. f.op \in Ops /\ f.k \in Nat /\ f.k >= 2 /\ f.k <= Len(OutConnections(f.op)) + 1
        /\ s[n + 1].op = x.to
    BY <1>1 DEF Stood, FrameOK, Shape, FrameShape, Link, Waits, ConnectionOf
  <1> HIDE DEF f
  <1>3. f.k - 1 \in 1..Len(OutConnections(f.op))
    <2>1. Len(OutConnections(f.op)) \in Nat
      BY <1>2, OutsAre
    <2> QED
      BY <1>2, <2>1
  <1>4. x \in Links /\ x.from = f.op
    BY <1>2, <1>3, OutsAre DEF ConnectionOf
  <1>5. x.to \in Ops
    BY <1>4, LinksAre
  <1>6. Reached(x, f.val) \subseteq InletIndexes(x.to)
    BY DEF Reached
  <1> QED
    BY <1>2, <1>3, <1>4, <1>5, <1>6 DEF f

LEMMA ExactReplaced ==
  ASSUME NEW s, NEW z, NEW g, NEW c, NEW L, NEW b, NEW e, NEW d, NEW y,
         Stood(s, c, L), Shape(s), Exact(s, b, e), Replaced(s, z, g),
         AgreeUnpulled(b, d) \/ NoPullBelow(s),
         Len(s) > 1 => Given(s[Len(s) - 1], g, d, y), PutSoFar(g, d)
  PROVE  Exact(z, d, y)
  <1>1. Len(s) \in Nat \ {0} /\ Len(z) = Len(s) /\ z[Len(s)] = g /\ z # <<>>
        /\ \A n \in 1..(Len(s) - 1) : z[n] = s[n]
    BY DEF Replaced, Below
  <1>2. ASSUME NEW n \in 1..(Len(z) - 1) PROVE Given(z[n], z[n + 1], d, y)
    <2>1. CASE n + 1 = Len(s)
      BY <1>1, <2>1
    <2>2. CASE n + 1 # Len(s)
      <3>1. n \in 1..(Len(s) - 1) /\ n + 1 \in 1..(Len(s) - 1) /\ n \in 1..Len(s) /\ n + 1 \in 1..Len(s)
        BY <1>1, <2>2
      <3>2. Given(s[n], s[n + 1], b, e) /\ z[n] = s[n] /\ z[n + 1] = s[n + 1]
        BY <1>1, <3>1 DEF Exact
      <3>3. s[n + 1].pc \in {"pulled", "deliver"}
        BY <3>1 DEF Stood, Waits
      <3>4. s[n + 1].pc = "pulled" => AgreeUnpulled(b, d)
        BY <3>1 DEF NoPullBelow
      <3>5. CASE s[n].pc = "deliver"
        <4> DEFINE x == ConnectionOf(s[n], s[n].k - 1)
        <4>1. x.to \in Ops /\ Reached(x, s[n].val) \subseteq InletIndexes(x.to)
          BY <3>1, <3>5, Delivering
        <4> HIDE DEF x
        <4>2. s[n + 1].pc = "pulled" =>
                \A i \in Reached(x, s[n].val) : ~HasPull(x.to, i) => d[x.to][i] = b[x.to][i]
          BY <3>4, <4>1 DEF AgreeUnpulled
        <4> QED
          BY <3>2, <3>3, <4>2 DEF Given, x
      <3> QED
        BY <3>2, <3>5 DEF Given
    <2> QED
      BY <2>1, <2>2
  <1> QED
    BY <1>1, <1>2 DEF Exact

LEMMA ExactPushed ==
  ASSUME NEW s, NEW z, NEW g, NEW h, NEW c, NEW L, NEW b, NEW e, NEW o, NEW mode,
         Stood(s, c, L), Shape(s), Exact(s, b, e), Pushed(s, z, g, h), FreshCall(h, o, mode),
         Len(s) > 1 => Given(s[Len(s) - 1], g, b, e), Given(g, h, b, e)
  PROVE  Exact(z, b, e)
  <1>1. Len(s) \in Nat \ {0} /\ Len(z) = Len(s) + 1 /\ z[Len(s)] = g /\ z[Len(s) + 1] = h
        /\ \A n \in 1..(Len(s) - 1) : z[n] = s[n]
    BY DEF Pushed, Below
  <1>2. ASSUME NEW n \in 1..(Len(z) - 1) PROVE Given(z[n], z[n + 1], b, e)
    <2>1. CASE n = Len(s)
      BY <1>1, <2>1
    <2>2. CASE n + 1 = Len(s)
      BY <1>1, <2>2
    <2>3. CASE n # Len(s) /\ n + 1 # Len(s)
      <3>1. n \in 1..(Len(s) - 1) /\ n + 1 \in 1..(Len(s) - 1)
        BY <1>1, <2>3
      <3> QED
        BY <1>1, <3>1 DEF Exact
    <2> QED
      BY <2>1, <2>2, <2>3
  <1>3. PutSoFar(z[Len(z)], b)
    BY <1>1 DEF PutSoFar, FreshCall
  <1> QED
    BY <1>2, <1>3 DEF Exact

LEMMA StepExact ==
  ASSUME IInv, NEW t \in Threads, Shape(stack[t]), Step(t), Exact(stack[t], buffer, seen)
  PROVE  Exact(stack'[t], buffer', seen')
  <1> DEFINE s == stack[t] z == stack'[t] f == s[Len(s)] e == s[Len(s) - 1]
  <1>1. s # <<>>
    BY DEF Step, Decide, StartPull, EndPull, Collect, Call, ReturnInvoke, PutOutlet, Deliver,
           FinishConnection, ReturnExecute, At
  <1>2. Stood(s, clock, lastRun) /\ FrameOK(f, clock, lastRun) /\ FrameShape(f)
        /\ PutSoFar(f, buffer) /\ Len(s) \in Nat \ {0}
    <2>1. Stood(s, clock, lastRun)
      BY <1>1, Before
    <2>2. Len(s) \in Nat \ {0} /\ Len(s) \in 1..Len(s)
      BY <1>1, <2>1 DEF Stood
    <2> QED
      BY <1>1, <2>1, <2>2 DEF Stood, Shape, Exact
  <1>3. f.op \in Ops /\ f.i \in Nat \ {0} /\ f.k \in Nat \ {0} /\ f.val \in Value
    BY <1>2 DEF FrameOK
  <1>4. Len(s) > 1 =>
          /\ Given(e, f, buffer, seen)
          /\ e.pc = "deliver" =>
               LET x == ConnectionOf(e, e.k - 1) IN
               x.to \in Ops /\ x.to = f.op /\ Reached(x, e.val) \subseteq InletIndexes(x.to)
    <2> SUFFICES ASSUME Len(s) > 1
                 PROVE  /\ Given(e, f, buffer, seen)
                        /\ e.pc = "deliver" =>
                             LET x == ConnectionOf(e, e.k - 1) IN
                             x.to \in Ops /\ x.to = f.op /\ Reached(x, e.val) \subseteq InletIndexes(x.to)
      OBVIOUS
    <2>1. Len(s) - 1 \in 1..(Len(s) - 1) /\ (Len(s) - 1) + 1 = Len(s)
      BY <1>2
    <2>2. Given(e, f, buffer, seen)
      BY <2>1 DEF Exact
    <2>3. e.pc = "deliver" => LET x == ConnectionOf(e, e.k - 1) IN
               x.to \in Ops /\ x.to = f.op /\ Reached(x, e.val) \subseteq InletIndexes(x.to)
      BY <1>2, <2>1, Delivering
    <2> QED
      BY <2>2, <2>3
  <1>5. AgreeUnpulled(buffer, buffer)
    BY DEF AgreeUnpulled
  <1> HIDE DEF e
  <1>6. CASE Decide(t)
    <2>1. PICK g : /\ Replaced(s, z, g) /\ Keeps(f, g) /\ g.i = f.i
                   /\ g.pc = "collect" \/ (g.pc = "invoked" /\ Inlets[f.op] = <<>>)
      BY <1>6, DecideIs
    <2>2. f.pc = "decide" /\ UNCHANGED <<buffer, seen>> /\ f.i = 1
      BY <1>2, <1>6, DecideIs DEF FrameShape
    <2>3. Inlets[f.op] = <<>> => InletIndexes(f.op) = {}
      BY DEF InletIndexes
    <2>4. \A i \in InletIndexes(f.op) : ~(i < 1)
      <3>1. Inlets[f.op] \in Seq(STRING)
        BY <1>3, GraphAssumption
      <3> QED
        BY <3>1 DEF InletIndexes
    <2>5. Len(s) > 1 => Given(e, g, buffer, seen)
      BY <1>4, <2>1, <2>2, <2>3, <2>4 DEF Given
    <2>6. PutSoFar(g, buffer)
      BY <2>1 DEF PutSoFar
    <2> QED
      BY <1>2, <1>5, <2>1, <2>2, <2>5, <2>6, ExactReplaced DEF e
  <1>7. CASE StartPull(t)
    <2>1. PICK g, h : /\ Pushed(s, z, g, h) /\ g.pc = "pulled" /\ g.i = f.i /\ g.args = f.args
                      /\ FreshCall(h, PullConnections(f.op, f.i)[f.k].from, "invoke")
      BY <1>7, StartPullIs
    <2>2. f.pc = "collect" /\ UNCHANGED <<buffer, seen>>
      BY <1>7, StartPullIs
    <2>3. Len(s) > 1 => Given(e, g, buffer, seen)
      BY <1>4, <2>1, <2>2 DEF Given
    <2>4. Given(g, h, buffer, seen)
      BY <2>1 DEF Given
    <2> QED
      BY <1>2, <2>1, <2>2, <2>3, <2>4, ExactPushed DEF e
  <1>8. CASE EndPull(t)
    <2>1. PICK g : Replaced(s, z, g) /\ g.pc = "collect" /\ g.i = f.i /\ g.args = f.args
      BY <1>8, EndPullIs
    <2>2. f.pc = "pulled" /\ UNCHANGED seen /\ PutInlet(f.op, f.i, ret[t])
      BY <1>8, EndPullIs
    <2>3. f.i \in InletIndexes(f.op) /\ HasPull(f.op, f.i)
      <3>1. f.i \in InletIndexes(f.op) /\ f.k <= Len(PullConnections(f.op, f.i))
        BY <1>2, <2>2 DEF FrameOK, FrameShape
      <3>2. f.k \in 1..Len(PullConnections(f.op, f.i))
        BY <1>3, <3>1, PullsAre
      <3> QED
        BY <1>3, <3>1, <3>2, PullsAre
    <2>4. AgreeUnpulled(buffer, buffer')
      BY <1>3, <2>2, <2>3, PutIs DEF AgreeUnpulled
    <2>5. Len(s) > 1 => Given(e, g, buffer', seen')
      BY <1>4, <2>1, <2>2, <2>4 DEF Given, AgreeUnpulled
    <2>6. PutSoFar(g, buffer')
      BY <2>1 DEF PutSoFar
    <2> QED
      BY <1>2, <2>1, <2>4, <2>5, <2>6, ExactReplaced DEF e
  <1>9. CASE Collect(t)
    <2>1. PICK g : /\ Replaced(s, z, g)
                   /\ g.pc = "collect" /\ g.i = f.i + 1
                   /\ g.args = [f.args EXCEPT ![f.i] = buffer[f.op][f.i]]
      BY <1>9, CollectIs
    <2>2. f.pc = "collect" /\ f.i \in InletIndexes(f.op) /\ UNCHANGED <<buffer, seen>>
      BY <1>9, CollectIs
    <2>3. \A i \in InletIndexes(f.op) :
            /\ g.args[i] = IF i = f.i THEN buffer[f.op][f.i] ELSE f.args[i]
            /\ i < g.i => i < f.i \/ i = f.i
      <3>1. Inlets[f.op] \in Seq(STRING)
        BY <1>3, GraphAssumption
      <3>2. \A i \in InletIndexes(f.op) : i < g.i => i < f.i \/ i = f.i
        BY <1>3, <2>1, <3>1 DEF InletIndexes
      <3>3. f.args \in [InletIndexes(f.op) -> Value \ {ErrorValue}]
        BY <1>2 DEF FrameOK
      <3> QED
        BY <2>1, <3>2, <3>3
    <2>4. Len(s) > 1 => Given(e, g, buffer, seen)
      <3> SUFFICES ASSUME Len(s) > 1, e.pc = "deliver", e.val # ErrorValue,
                          NEW i \in Reached(ConnectionOf(e, e.k - 1), e.val),
                          ~HasPull(ConnectionOf(e, e.k - 1).to, i)
                   PROVE  LET x == ConnectionOf(e, e.k - 1) IN
                          buffer[x.to][i] = e.val /\ (i < g.i => g.args[i] = e.val)
        BY <2>1 DEF Given
      <3>1. /\ buffer[f.op][i] = e.val /\ (i < f.i => f.args[i] = e.val)
            /\ i \in InletIndexes(f.op) /\ ConnectionOf(e, e.k - 1).to = f.op
        BY <1>4, <2>2 DEF Given
      <3> QED
        BY <2>3, <3>1
    <2>5. PutSoFar(g, buffer)
      BY <2>1 DEF PutSoFar
    <2> QED
      BY <1>2, <1>5, <2>1, <2>2, <2>4, <2>5, ExactReplaced DEF e
  <1>10. CASE Call(t)
    <2>1. PICK g : Replaced(s, z, g) /\ g.pc = "invoked"
      BY <1>10, CallIs
    <2>2. f.pc = "collect" /\ UNCHANGED buffer /\ f.i > Len(Inlets[f.op])
          /\ seen' = [seen EXCEPT ![f.op] = f.args]
      BY <1>10, CallIs
    <2>3. seen'[f.op] = f.args /\ \A i \in InletIndexes(f.op) : i < f.i
      <3>1. Inlets[f.op] \in Seq(STRING)
        BY <1>3, GraphAssumption
      <3> QED
        BY <1>3, <2>2, <3>1 DEF IInv, Tables, InletIndexes
    <2>4. Len(s) > 1 => Given(e, g, buffer', seen')
      BY <1>4, <2>1, <2>2, <2>3 DEF Given
    <2>5. PutSoFar(g, buffer')
      BY <2>1 DEF PutSoFar
    <2> QED
      BY <1>2, <1>5, <2>1, <2>2, <2>4, <2>5, ExactReplaced DEF e
  <1>11. CASE ReturnInvoke(t) \/ ReturnExecute(t)
    <2>1. Popped(s, z) /\ UNCHANGED <<buffer, seen>>
      BY <1>11, ReturnIs
    <2>2. Len(z) = Len(s) - 1 /\ \A n \in 1..(Len(s) - 1) : z[n] = s[n]
      BY <2>1 DEF Popped, Below
    <2>3. ASSUME NEW n \in 1..(Len(z) - 1) PROVE Given(z[n], z[n + 1], buffer, seen)
      <3>1. n \in 1..(Len(s) - 1) /\ n + 1 \in 1..(Len(s) - 1)
        BY <1>2, <2>2
      <3> QED
        BY <2>2, <3>1 DEF Exact
    <2>4. z # <<>> => PutSoFar(z[Len(z)], buffer)
      <3> SUFFICES ASSUME z # <<>> PROVE PutSoFar(z[Len(z)], buffer)
        OBVIOUS
      <3>1. Len(z) \in Nat \ {0} /\ Len(z) \in 1..(Len(s) - 1) /\ z[Len(z)] = s[Len(z)]
        BY <1>2, <2>1, <2>2 DEF Popped
      <3>2. Link(s[Len(z)], s[Len(z) + 1])
        BY <3>1 DEF Shape
      <3>3. z[Len(z)].pc = "deliver" => z[Len(z)].i = 1
        BY <3>1, <3>2 DEF Link
      <3>4. \A n \in Nat : \A m \in 1..n : ~(m < 1)
        OBVIOUS
      <3>5. z[Len(z)].pc = "deliver" =>
              LET m == z[Len(z)] IN
              m.op \in Ops /\ m.k \in Nat \ {0}
        BY <1>2, <3>1 DEF Stood, FrameOK
      <3> DEFINE m == z[Len(z)]
      <3> HIDE DEF m
      <3>6. ASSUME m.pc = "deliver", m.k <= Len(OutConnections(m.op))
            PROVE  Len(TargetInlets(ConnectionOf(m, m.k), m.val)) \in Nat
        <4>1. m.k \in 1..Len(OutConnections(m.op)) /\ m.op \in Ops
          BY <3>5, <3>6, OutsAre DEF m
        <4>2. ConnectionOf(m, m.k) \in Links
          BY <4>1, OutsAre DEF ConnectionOf
        <4> QED
          BY <4>2, TargetsAre
      <3>7. PutSoFar(m, buffer)
        BY <3>3, <3>4, <3>6 DEF PutSoFar, m
      <3> QED
        BY <3>7 DEF m
    <2> QED
      BY <2>1, <2>3, <2>4 DEF Exact
  <1>12. CASE PutOutlet(t)
    <2>1. PICK g : Replaced(s, z, g) /\ Keeps(f, g) /\ g.pc = "deliver" /\ g.i = 1 /\ g.k = 1
                   /\ g.val = f.val
      BY <1>12, PutOutletIs
    <2>2. UNCHANGED <<buffer, seen>>
      BY <1>12, PutOutletIs
    <2>3. Len(s) > 1 => Given(e, g, buffer, seen)
      BY <2>1 DEF Given
    <2>4. PutSoFar(g, buffer)
      <3>1. ASSUME 1 <= Len(OutConnections(f.op))
            PROVE  Len(TargetInlets(ConnectionOf(g, 1), g.val)) \in Nat
        <4>1. 1 \in 1..Len(OutConnections(f.op)) /\ g.op = f.op
          BY <1>3, <2>1, <3>1, OutsAre DEF Keeps
        <4>2. ConnectionOf(g, 1) \in Links
          BY <1>3, <4>1, OutsAre DEF ConnectionOf
        <4> QED
          BY <4>2, TargetsAre
      <3>2. \A n \in Nat : \A m \in 1..n : ~(m < 1)
        OBVIOUS
      <3> QED
        BY <2>1, <3>1, <3>2 DEF PutSoFar, Keeps
    <2> QED
      BY <1>2, <1>5, <2>1, <2>2, <2>3, <2>4, ExactReplaced DEF e
  <1>13. CASE Deliver(t)
    <2> DEFINE c == OutConnections(f.op)[f.k] T == TargetInlets(c, f.val)
    <2>1. PICK g : Replaced(s, z, g) /\ Keeps(f, g) /\ g.pc = "deliver" /\ g.i = f.i + 1 /\ g.k = f.k
                   /\ g.val = f.val
      BY <1>13, DeliverIs
    <2>2. /\ UNCHANGED seen /\ f.pc = "deliver" /\ f.k \in 1..Len(OutConnections(f.op))
          /\ f.i \in 1..Len(T) /\ PutInlet(c.to, T[f.i], f.val)
      BY <1>13, DeliverIs
    <2>3. c \in Links /\ c.to \in Ops
      <3>1. f.op \in Ops /\ f.k \in 1..Len(OutConnections(f.op))
        BY <1>3, <2>2
      <3>2. c \in Links
        BY <3>1, OutsAre
      <3> HIDE DEF c
      <3> QED
        BY <3>2, LinksAre
    <2>4. \A m \in 1..Len(T) : T[m] \in InletIndexes(c.to)
      BY <2>3, TargetsAre DEF Reached
    <2>5. NoPullBelow(s)
      <3>1. f.mode # "invoke"
        BY <1>2, <2>2 DEF FrameShape
      <3>2. \A n \in 1..(Len(s) - 1) : n \in 1..Len(s) /\ Len(s) \in 1..Len(s) /\ n < Len(s)
        BY <1>2
      <3> QED
        BY <3>1, <3>2 DEF NoPullBelow, Shape, PullsOnly
    <2>6. Len(s) > 1 => Given(e, g, buffer', seen')
      BY <2>1 DEF Given
    <2>7. PutSoFar(g, buffer')
      <3>0. ConnectionOf(g, g.k) = c /\ TargetInlets(c, g.val) = T
        BY <2>1 DEF Keeps, ConnectionOf
      <3>a. PutSoFar(f, buffer) =>
              (f.val # ErrorValue /\ f.k <= Len(OutConnections(f.op)) =>
                 \A m \in 1..Len(T) : m < f.i => buffer[c.to][T[m]] = f.val)
        BY <2>2 DEF PutSoFar, ConnectionOf
      <3> HIDE DEF c, T
      <3> SUFFICES ASSUME f.val # ErrorValue, NEW m \in 1..Len(T), m < f.i + 1
                   PROVE  buffer'[c.to][T[m]] = f.val
        BY <2>1, <3>0 DEF PutSoFar
      <3>b. f.val # ErrorValue
        OBVIOUS
      <3>1. buffer'[c.to][T[m]] = IF T[m] = T[f.i] THEN f.val ELSE buffer[c.to][T[m]]
        <4>1. T[f.i] \in InletIndexes(c.to) /\ T[m] \in InletIndexes(c.to)
          BY <2>2, <2>4
        <4> QED
          BY <2>2, <2>3, <3>b, <4>1, PutIs
      <3>2. CASE m = f.i
        BY <3>1, <3>2
      <3>3. CASE m < f.i
        <4>1. f.k <= Len(OutConnections(f.op))
          BY <1>3, <2>2, OutsAre
        <4>2. buffer[c.to][T[m]] = f.val
          BY <1>2, <3>a, <3>3, <4>1
        <4> QED
          BY <3>1, <4>2
      <3>4. m \in Nat
        OBVIOUS
      <3> QED
        BY <1>3, <3>2, <3>3, <3>4
    <2> QED
      BY <1>2, <2>1, <2>2, <2>5, <2>6, <2>7, ExactReplaced DEF e
  <1>14. CASE FinishConnection(t)
    <2> DEFINE c == OutConnections(f.op)[f.k] T == TargetInlets(c, f.val)
    <2>1. PICK g, h : /\ Keeps(f, g) /\ g.pc = "deliver" /\ g.i = 1 /\ g.k = f.k + 1
                      /\ g.val = f.val
                      /\ \/ /\ c.type = "EVENT" /\ Pushed(s, z, g, h)
                            /\ FreshCall(h, c.to, "execute")
                         \/ c.type # "EVENT" /\ Replaced(s, z, g)
      BY <1>14, FinishConnectionIs
    <2>2. /\ f.pc = "deliver" /\ UNCHANGED <<buffer, seen>> /\ f.k \in 1..Len(OutConnections(f.op))
          /\ f.i > Len(T)
      BY <1>14, FinishConnectionIs
    <2>3. c \in Links
      BY <1>3, <2>2, OutsAre
    <2>4. Len(s) > 1 => Given(e, g, buffer, seen)
      BY <2>1 DEF Given
    <2>5. CASE Pushed(s, z, g, h) /\ FreshCall(h, c.to, "execute")
      <3>1. Given(g, h, buffer, seen)
        <4>1. ConnectionOf(g, g.k - 1) = c
          BY <1>3, <2>1 DEF ConnectionOf, Keeps
        <4>2. ASSUME f.val # ErrorValue, NEW i \in Reached(c, f.val)
              PROVE  buffer[c.to][i] = f.val
          <5>1. PICK m \in 1..Len(T) : T[m] = i
            <6> HIDE DEF c
            <6> QED
              BY <2>3, <4>2, TargetsAre
          <5>2. m < f.i /\ f.k <= Len(OutConnections(f.op))
            BY <1>3, <2>2, <2>3, TargetsAre, OutsAre
          <5> QED
            BY <1>2, <2>2, <4>2, <5>1, <5>2 DEF PutSoFar, ConnectionOf
        <4>3. h.pc = "decide"
          BY <2>5 DEF FreshCall
        <4> QED
          BY <2>1, <4>1, <4>2, <4>3 DEF Given
      <3> QED
        BY <1>2, <2>2, <2>4, <2>5, <3>1, ExactPushed DEF e
    <2>6. CASE Replaced(s, z, g)
      <3>1. PutSoFar(g, buffer)
        <4>1. ASSUME g.k <= Len(OutConnections(g.op))
              PROVE  Len(TargetInlets(ConnectionOf(g, g.k), g.val)) \in Nat
          <5>1. g.op \in Ops /\ g.k \in Nat \ {0}
            BY <1>3, <2>1 DEF Keeps
          <5>2. ConnectionOf(g, g.k) \in Links
            BY <4>1, <5>1, OutsAre DEF ConnectionOf
          <5> QED
            BY <5>2, TargetsAre
        <4>2. \A n \in Nat : \A m \in 1..n : ~(m < 1)
          OBVIOUS
        <4> QED
          BY <2>1, <4>1, <4>2 DEF PutSoFar
      <3> QED
        BY <1>2, <1>5, <2>2, <2>4, <2>6, <3>1, ExactReplaced DEF e
    <2> QED
      BY <2>1, <2>5, <2>6
  <1> QED
    BY <1>6, <1>7, <1>8, <1>9, <1>10, <1>11, <1>12, <1>13, <1>14 DEF Step

------------------------------------------------------------------------------
(* One thread: what an operation put out has arrived downstream *)

\* Connection c alone, by its inlet's name, puts to its target's i-th inlet.
Fed(c, i) ==
  /\ c.type # "PULL" /\ Inlets[c.to][i] = c.inlet /\ c.inlet # ArgumentName /\ c.to \notin Settable
  /\ \A d \in Links : d.to = c.to /\ d.inlet \in {c.inlet, ArgumentName} => d = c
\* The delivering call f is past the put on c to that inlet.
PutBy(f, c, i) ==
  \E j \in 1..Len(OutConnections(f.op)) :
    /\ ConnectionOf(f, j) = c
    /\ \/ j < f.k
       \/ j = f.k /\ \E m \in 1..Len(TargetInlets(c, f.val)) :
                       m < f.i /\ TargetInlets(c, f.val)[m] = i
Delivers(s, n, o) == s[n].pc = "deliver" /\ s[n].op = o
Latest(s, n, o) == Delivers(s, n, o) /\ \A m \in 1..Len(s) : m > n => ~Delivers(s, m, o)
SyncedWith(v, c, i, b) == v = ErrorValue \/ b[c.to][i] = v
\* b is the inlets' buffers, out the outlets' values.  Once no call of the source
\* delivers any more the inlet holds the outlet's value; while one does, the last
\* of them put that value out, and the inlet holds it as soon as that call is past
\* the inlet's connection.
InSync(s, b, out) ==
  \A c \in Links : \A i \in InletIndexes(c.to) : Fed(c, i) =>
    /\ (\A n \in 1..Len(s) : ~Delivers(s, n, c.from)) =>
          out[c.from] = EmptyValue \/ SyncedWith(out[c.from], c, i, b)
    /\ \A n \in 1..Len(s) : Latest(s, n, c.from) =>
          out[c.from] = s[n].val /\ (PutBy(s[n], c, i) => SyncedWith(s[n].val, c, i, b))

\* A put on the connection that feeds an inlet, by the call that delivers on it,
\* is the only thing that may change the inlet.
FedBy(f, b, d) ==
  \A c \in Links : \A i \in InletIndexes(c.to) : Fed(c, i) =>
    \/ d[c.to][i] = b[c.to][i]
    \/ f.pc = "deliver" /\ f.op = c.from /\ d[c.to][i] = f.val
\* Call f, which becomes g, gets past a connection by putting its value.
PutFirst(f, g, d) ==
  \A c \in Links : \A i \in InletIndexes(c.to) :
    Fed(c, i) /\ f.pc = "deliver" /\ f.op = c.from /\ PutBy(g, c, i) =>
      PutBy(f, c, i) \/ SyncedWith(f.val, c, i, d)

\* A step that starts no delivery and ends none.
LEMMA SyncKept ==
  ASSUME NEW s, NEW z, NEW g, NEW b, NEW d, NEW out, InSync(s, b, out),
         Len(s) \in Nat \ {0}, Len(z) \in {Len(s), Len(s) + 1}, Below(s, z), z[Len(s)] = g,
         Len(z) > Len(s) => z[Len(s) + 1].pc # "deliver",
         g.op = s[Len(s)].op, g.pc = "deliver" <=> s[Len(s)].pc = "deliver",
         g.pc = "deliver" => g.val = s[Len(s)].val,
         FedBy(s[Len(s)], b, d), PutFirst(s[Len(s)], g, d)
  PROVE  InSync(z, d, out)
  <1> SUFFICES ASSUME NEW c \in Links, NEW i \in InletIndexes(c.to), Fed(c, i)
               PROVE  /\ (\A n \in 1..Len(z) : ~Delivers(z, n, c.from)) =>
                            out[c.from] = EmptyValue \/ SyncedWith(out[c.from], c, i, d)
                      /\ \A n \in 1..Len(z) : Latest(z, n, c.from) =>
                            out[c.from] = z[n].val /\ (PutBy(z[n], c, i) => SyncedWith(z[n].val, c, i, d))
    BY DEF InSync
  <1> DEFINE f == s[Len(s)] o == c.from
  <1>1. /\ \A n \in 1..Len(s) : n = Len(s) \/ n \in 1..(Len(s) - 1)
        /\ \A n \in 1..(Len(s) - 1) : n \in 1..Len(s) /\ n \in 1..Len(z) /\ z[n] = s[n]
        /\ Len(s) \in 1..Len(s) /\ Len(s) \in 1..Len(z)
        /\ \A n \in 1..Len(z) : n \in 1..Len(s) \/ (n = Len(s) + 1 /\ Len(z) > Len(s))
    BY DEF Below
  <1>2. \A n \in 1..Len(s) : n \in 1..Len(z) /\ (Delivers(z, n, o) <=> Delivers(s, n, o))
    BY <1>1 DEF Delivers
  <1>3. \A n \in 1..Len(z) : n \in 1..Len(s) \/ ~Delivers(z, n, o)
    BY <1>1 DEF Delivers
  <1>4. \/ d[c.to][i] = b[c.to][i]
        \/ Delivers(s, Len(s), o) /\ d[c.to][i] = f.val
    BY DEF FedBy, Delivers
  <1>5. /\ (\A n \in 1..Len(s) : ~Delivers(s, n, o)) =>
             out[o] = EmptyValue \/ SyncedWith(out[o], c, i, b)
        /\ \A n \in 1..Len(s) : Latest(s, n, o) =>
             out[o] = s[n].val /\ (PutBy(s[n], c, i) => SyncedWith(s[n].val, c, i, b))
    BY DEF InSync
  <1>6. ASSUME \A n \in 1..Len(z) : ~Delivers(z, n, o)
        PROVE  out[o] = EmptyValue \/ SyncedWith(out[o], c, i, d)
    <2>1. \A n \in 1..Len(s) : ~Delivers(s, n, o)
      BY <1>2, <1>6
    <2>2. d[c.to][i] = b[c.to][i]
      BY <1>1, <1>4, <2>1
    <2> QED
      BY <1>5, <2>1, <2>2 DEF SyncedWith
  <1>7. ASSUME NEW n \in 1..Len(z), Latest(z, n, o)
        PROVE  out[o] = z[n].val /\ (PutBy(z[n], c, i) => SyncedWith(z[n].val, c, i, d))
    <2>1. n \in 1..Len(s) /\ Latest(s, n, o)
      BY <1>2, <1>3, <1>7 DEF Latest
    <2>2. out[o] = s[n].val /\ (PutBy(s[n], c, i) => SyncedWith(s[n].val, c, i, b))
      BY <1>5, <2>1
    <2>3. CASE n = Len(s)
      <3>1. f.pc = "deliver" /\ f.op = o
        BY <2>1, <2>3 DEF Latest, Delivers
      <3>2. PutBy(g, c, i) => PutBy(f, c, i) \/ SyncedWith(f.val, c, i, d)
        BY <3>1 DEF PutFirst
      <3>3. z[n] = g /\ g.val = f.val
        BY <2>3, <3>1
      <3>4. SyncedWith(f.val, c, i, b) => SyncedWith(f.val, c, i, d)
        BY <1>4 DEF SyncedWith
      <3> QED
        BY <2>2, <2>3, <3>2, <3>3, <3>4
    <2>4. CASE n \in 1..(Len(s) - 1)
      <3>1. n < Len(s)
        BY <2>4
      <3>2. ~Delivers(s, Len(s), o)
        BY <1>1, <2>1, <3>1 DEF Latest
      <3>3. z[n] = s[n] /\ d[c.to][i] = b[c.to][i]
        BY <1>1, <1>4, <2>4, <3>2
      <3> QED
        BY <2>2, <3>3 DEF SyncedWith
    <2> QED
      BY <1>1, <2>1, <2>3, <2>4
  <1> QED
    BY <1>6, <1>7, Zenon

\* A put on another connection, or on the one that feeds the inlet by a call of
\* its source.
LEMMA FedByPut ==
  ASSUME IInv, NEW f, NEW d \in Links, NEW v, NEW i \in Reached(d, v), PutInlet(d.to, i, v),
         f.pc = "deliver", f.op = d.from, f.val = v
  PROVE  FedBy(f, buffer, buffer')
  <1>1. d.to \in Ops /\ i \in InletIndexes(d.to)
        /\ (Inlets[d.to][i] = d.inlet \/ d.inlet = ArgumentName)
    BY LinksAre DEF Reached
  <1>2. \A p \in Ops : \A j \in InletIndexes(p) :
          buffer'[p][j] = IF p = d.to /\ j = i /\ v # ErrorValue THEN v ELSE buffer[p][j]
    BY <1>1, PutIs
  <1>3. \A c \in Links : c.to \in Ops
    BY LinksAre
  <1>4. ASSUME NEW c \in Links, NEW j \in InletIndexes(c.to), Fed(c, j), c.to = d.to, j = i
        PROVE  c = d
    BY <1>1, <1>4 DEF Fed
  <1> QED
    BY <1>2, <1>3, <1>4 DEF FedBy

\* A call that ends: if it delivered, it is past every connection, and no other
\* call of its operation delivers.
LEMMA SyncPopped ==
  ASSUME NEW s, NEW z, NEW x, NEW L, NEW b, NEW out, Stood(s, x, L), Shape(s), InSync(s, b, out),
         Popped(s, z),
         \/ s[Len(s)].pc # "deliver"
         \/ s[Len(s)].k > Len(OutConnections(s[Len(s)].op))
  PROVE  InSync(z, b, out)
  <1> SUFFICES ASSUME NEW c \in Links, NEW i \in InletIndexes(c.to), Fed(c, i)
               PROVE  /\ (\A n \in 1..Len(z) : ~Delivers(z, n, c.from)) =>
                            out[c.from] = EmptyValue \/ SyncedWith(out[c.from], c, i, b)
                      /\ \A n \in 1..Len(z) : Latest(z, n, c.from) =>
                            out[c.from] = z[n].val /\ (PutBy(z[n], c, i) => SyncedWith(z[n].val, c, i, b))
    BY DEF InSync
  <1> DEFINE f == s[Len(s)] o == c.from
  <1>1. /\ Len(s) \in Nat \ {0} /\ Len(z) = Len(s) - 1 /\ Len(s) \in 1..Len(s) /\ s # <<>>
        /\ \A n \in 1..Len(s) : n = Len(s) \/ n \in 1..Len(z)
        /\ \A n \in 1..Len(z) : n \in 1..Len(s) /\ n \in 1..(Len(s) - 1) /\ n < Len(s) /\ z[n] = s[n]
    BY DEF Popped, Below, Stood
  <1>2. \A n \in 1..Len(z) : Delivers(z, n, o) <=> Delivers(s, n, o)
    BY <1>1 DEF Delivers
  <1>3. /\ (\A n \in 1..Len(s) : ~Delivers(s, n, o)) =>
             out[o] = EmptyValue \/ SyncedWith(out[o], c, i, b)
        /\ \A n \in 1..Len(s) : Latest(s, n, o) =>
             out[o] = s[n].val /\ (PutBy(s[n], c, i) => SyncedWith(s[n].val, c, i, b))
    BY DEF InSync
  <1>4. CASE ~Delivers(s, Len(s), o)
    <2>1. (\A n \in 1..Len(z) : ~Delivers(z, n, o)) => \A n \in 1..Len(s) : ~Delivers(s, n, o)
      BY <1>1, <1>2, <1>4
    <2>2. \A n \in 1..Len(z) : Latest(z, n, o) => Latest(s, n, o) /\ n \in 1..Len(s) /\ z[n] = s[n]
      BY <1>1, <1>2, <1>4 DEF Latest
    <2> QED
      BY <1>3, <2>1, <2>2
  <1>5. CASE Delivers(s, Len(s), o)
    <2>1. f.pc = "deliver" /\ f.op = o /\ f.k > Len(OutConnections(f.op)) /\ o \in Ops /\ f.k \in Nat
      BY <1>1, <1>5 DEF Delivers, Stood, FrameOK
    <2>2. \A n \in 1..Len(z) : ~Delivers(z, n, o)
      BY <1>1, <1>2, <2>1, DeliversOnce DEF Delivers
    <2>3. Latest(s, Len(s), o)
      BY <1>1, <1>5 DEF Latest
    <2>4. PutBy(f, c, i)
      <3>1. PICK j \in 1..Len(OutConnections(o)) : OutConnections(o)[j] = c
        BY <2>1, OutsAre
      <3>2. j < f.k /\ ConnectionOf(f, j) = c /\ j \in 1..Len(OutConnections(f.op))
        <4>1. Len(OutConnections(o)) \in Nat /\ f.k > Len(OutConnections(o))
          BY <2>1, OutsAre
        <4> QED
          BY <2>1, <3>1, <4>1 DEF ConnectionOf
      <3> QED
        BY <3>2 DEF PutBy
    <2>5. out[o] = f.val /\ SyncedWith(f.val, c, i, b)
      BY <1>1, <1>3, <2>3, <2>4
    <2>6. SyncedWith(out[o], c, i, b)
      BY <2>5
    <2>7. \A n \in 1..Len(z) : ~Latest(z, n, o)
      BY <2>2 DEF Latest
    <2> QED
      BY <2>6, <2>7
  <1> QED
    BY <1>4, <1>5

\* A call that starts to deliver puts its value out first.
LEMMA SyncPutOut ==
  ASSUME NEW s, NEW z, NEW g, NEW b, NEW out, NEW put, InSync(s, b, out),
         Replaced(s, z, g), s[Len(s)].pc # "deliver", g.pc = "deliver", g.i = 1, g.k = 1,
         g.op = s[Len(s)].op, \A o \in Ops : o # g.op => put[o] = out[o], put[g.op] = g.val
  PROVE  InSync(z, b, put)
  <1> SUFFICES ASSUME NEW c \in Links, NEW i \in InletIndexes(c.to), Fed(c, i)
               PROVE  /\ (\A n \in 1..Len(z) : ~Delivers(z, n, c.from)) =>
                            put[c.from] = EmptyValue \/ SyncedWith(put[c.from], c, i, b)
                      /\ \A n \in 1..Len(z) : Latest(z, n, c.from) =>
                            put[c.from] = z[n].val /\ (PutBy(z[n], c, i) => SyncedWith(z[n].val, c, i, b))
    BY DEF InSync
  <1> DEFINE f == s[Len(s)] o == c.from
  <1>1. /\ Len(s) \in Nat \ {0} /\ Len(z) = Len(s) /\ Len(s) \in 1..Len(s) /\ z[Len(s)] = g
        /\ \A n \in 1..Len(s) : n = Len(s) \/ n \in 1..(Len(s) - 1)
        /\ \A n \in 1..(Len(s) - 1) : n \in 1..Len(s) /\ n < Len(s) /\ z[n] = s[n]
    BY DEF Replaced, Below
  <1>2. \A n \in 1..(Len(s) - 1) : Delivers(z, n, o) <=> Delivers(s, n, o)
    BY <1>1 DEF Delivers
  <1>3. ~Delivers(s, Len(s), o)
    BY DEF Delivers
  <1>4. /\ (\A n \in 1..Len(s) : ~Delivers(s, n, o)) =>
             out[o] = EmptyValue \/ SyncedWith(out[o], c, i, b)
        /\ \A n \in 1..Len(s) : Latest(s, n, o) =>
             out[o] = s[n].val /\ (PutBy(s[n], c, i) => SyncedWith(s[n].val, c, i, b))
    BY DEF InSync
  <1>5. CASE g.op # o
    <2>1. \A n \in 1..Len(s) : Delivers(z, n, o) <=> Delivers(s, n, o)
      BY <1>1, <1>2, <1>3, <1>5 DEF Delivers
    <2>2. \A n \in 1..Len(z) : Latest(z, n, o) => Latest(s, n, o) /\ n \in 1..Len(s) /\ z[n] = s[n]
      BY <1>1, <1>3, <2>1 DEF Latest
    <2>3. put[o] = out[o]
      BY <1>5, LinksAre
    <2> QED
      BY <1>1, <1>4, <2>1, <2>2, <2>3
  <1>6. CASE g.op = o
    <2>1. Delivers(z, Len(z), o) /\ Len(z) \in 1..Len(z)
      BY <1>1, <1>6 DEF Delivers
    <2>2. \A n \in 1..Len(z) : Latest(z, n, o) => z[n] = g
      BY <1>1, <2>1 DEF Latest
    <2>3. ~PutBy(g, c, i)
      <3>1. \A j, m \in Nat : j > 0 /\ m > 0 => ~(j < g.k) /\ ~(m < g.i)
        OBVIOUS
      <3>2. \A n : \A j \in 1..n : j \in Nat /\ j > 0
        OBVIOUS
      <3> QED
        BY <3>1, <3>2 DEF PutBy
    <2> QED
      BY <1>6, <2>1, <2>2, <2>3
  <1> QED
    BY <1>5, <1>6

LEMMA StepSync ==
  ASSUME IInv, NEW t \in Threads, Shape(stack[t]), Step(t), InSync(stack[t], buffer, outlet)
  PROVE  InSync(stack'[t], buffer', outlet')
  <1> DEFINE s == stack[t] z == stack'[t] f == s[Len(s)]
  <1>1. s # <<>>
    BY DEF Step, Decide, StartPull, EndPull, Collect, Call, ReturnInvoke, PutOutlet, Deliver,
           FinishConnection, ReturnExecute, At
  <1>2. Stood(s, clock, lastRun) /\ FrameOK(f, clock, lastRun) /\ Len(s) \in Nat \ {0}
        /\ FrameShape(f)
    <2>1. Stood(s, clock, lastRun)
      BY <1>1, Before
    <2>2. Len(s) \in Nat \ {0} /\ Len(s) \in 1..Len(s)
      BY <1>1, <2>1 DEF Stood
    <2> QED
      BY <2>1, <2>2 DEF Stood, Shape
  <1>3. f.op \in Ops /\ f.i \in Nat \ {0} /\ f.k \in Nat \ {0} /\ f.val \in Value
    BY <1>2 DEF FrameOK
  <1>4. \A g, d : f.pc # "deliver" => PutFirst(f, g, d)
    BY DEF PutFirst
  <1>5. \A b : FedBy(f, b, b)
    BY DEF FedBy
  <1>6. ASSUME NEW g, Replaced(s, z, g), UNCHANGED outlet, g.op = f.op, FedBy(f, buffer, buffer'),
               g.pc = "deliver" <=> f.pc = "deliver", g.pc = "deliver" => g.val = f.val,
               PutFirst(f, g, buffer')
        PROVE  InSync(z, buffer', outlet')
    <2>1. /\ Len(s) \in Nat \ {0} /\ Len(z) \in {Len(s), Len(s) + 1} /\ Below(s, z) /\ z[Len(s)] = g
          /\ ~(Len(z) > Len(s))
      BY <1>6 DEF Replaced
    <2>2. InSync(z, buffer', outlet)
      BY <1>6, <2>1, SyncKept
    <2> QED
      BY <1>6, <2>2
  <1>7. ASSUME NEW g, NEW h, Pushed(s, z, g, h), UNCHANGED <<buffer, outlet>>, g.op = f.op,
               h.pc # "deliver",
               g.pc = "deliver" <=> f.pc = "deliver", g.pc = "deliver" => g.val = f.val,
               PutFirst(f, g, buffer)
        PROVE  InSync(z, buffer', outlet')
    <2>1. /\ Len(s) \in Nat \ {0} /\ Len(z) \in {Len(s), Len(s) + 1} /\ Below(s, z) /\ z[Len(s)] = g
          /\ z[Len(s) + 1].pc # "deliver"
      BY <1>7 DEF Pushed
    <2>2. InSync(z, buffer, outlet)
      BY <1>5, <1>7, <2>1, SyncKept
    <2> QED
      BY <1>7, <2>2
  <1>8. CASE Decide(t)
    <2>1. PICK g : Replaced(s, z, g) /\ Keeps(f, g) /\ g.pc # "deliver"
      BY <1>8, DecideIs
    <2>2. f.pc # "deliver" /\ UNCHANGED <<buffer, outlet>>
      BY <1>8, DecideIs
    <2> QED
      BY <1>4, <1>5, <1>6, <2>1, <2>2 DEF Keeps
  <1>9. CASE StartPull(t)
    <2>1. PICK g, h : Pushed(s, z, g, h) /\ Keeps(f, g) /\ g.pc # "deliver" /\ h.pc # "deliver"
      BY <1>9, StartPullIs DEF FreshCall
    <2>2. f.pc # "deliver" /\ UNCHANGED <<buffer, outlet>>
      BY <1>9, StartPullIs
    <2> QED
      BY <1>4, <1>7, <2>1, <2>2 DEF Keeps
  <1>10. CASE EndPull(t)
    <2>1. PICK g : Replaced(s, z, g) /\ Keeps(f, g) /\ g.pc # "deliver"
      BY <1>10, EndPullIs
    <2>2. f.pc = "pulled" /\ UNCHANGED outlet /\ PutInlet(f.op, f.i, ret[t])
      BY <1>10, EndPullIs
    <2>3. FedBy(f, buffer, buffer')
      <3>1. /\ f.i \in InletIndexes(f.op)
            /\ \E p \in Links : p.to = f.op /\ p.inlet = Inlets[f.op][f.i] /\ p.type = "PULL"
        <4>1. f.i \in InletIndexes(f.op) /\ f.k <= Len(PullConnections(f.op, f.i))
          BY <1>2, <2>2 DEF FrameOK, FrameShape
        <4>2. f.k \in 1..Len(PullConnections(f.op, f.i))
          BY <1>3, <4>1, PullsAre
        <4> QED
          BY <1>3, <4>1, <4>2, PullsAre
      <3>2. ~ \E c \in Links : f.i \in InletIndexes(c.to) /\ c.to = f.op /\ Fed(c, f.i)
        <4> SUFFICES ASSUME NEW c \in Links, c.to = f.op, Fed(c, f.i) PROVE FALSE
          OBVIOUS
        <4>1. PICK p \in Links : p.to = f.op /\ p.inlet = Inlets[f.op][f.i] /\ p.type = "PULL"
          BY <3>1
        <4> QED
          BY <4>1 DEF Fed
      <3>3. \A p \in Ops : \A j \in InletIndexes(p) :
              ~(p = f.op /\ j = f.i) => buffer'[p][j] = buffer[p][j]
        BY <1>3, <2>2, <3>1, PutIs
      <3>4. \A c \in Links : c.to \in Ops
        BY LinksAre
      <3> QED
        BY <3>2, <3>3, <3>4 DEF FedBy
    <2> QED
      BY <1>4, <1>6, <2>1, <2>2, <2>3 DEF Keeps
  <1>11. CASE Collect(t)
    <2>1. PICK g : Replaced(s, z, g) /\ Keeps(f, g) /\ g.pc # "deliver"
      BY <1>11, CollectIs
    <2>2. f.pc # "deliver" /\ UNCHANGED <<buffer, outlet>>
      BY <1>11, CollectIs
    <2> QED
      BY <1>4, <1>5, <1>6, <2>1, <2>2 DEF Keeps
  <1>12. CASE Call(t)
    <2>1. PICK g : Replaced(s, z, g) /\ Keeps(f, g) /\ g.pc # "deliver"
      BY <1>12, CallIs
    <2>2. f.pc # "deliver" /\ UNCHANGED <<buffer, outlet>>
      BY <1>12, CallIs
    <2> QED
      BY <1>4, <1>5, <1>6, <2>1, <2>2 DEF Keeps
  <1>13. CASE ReturnInvoke(t) \/ ReturnExecute(t)
    <2>1. Popped(s, z) /\ UNCHANGED <<buffer, outlet>>
          /\ (f.pc # "deliver" \/ f.k > Len(OutConnections(f.op)))
      BY <1>13, ReturnIs
    <2>2. InSync(z, buffer, outlet)
      BY <1>2, <2>1, SyncPopped
    <2> QED
      BY <2>1, <2>2
  <1>14. CASE PutOutlet(t)
    <2>1. PICK g : Replaced(s, z, g) /\ Keeps(f, g) /\ g.pc = "deliver" /\ g.i = 1 /\ g.k = 1
                   /\ g.val = f.val
      BY <1>14, PutOutletIs
    <2>2. f.pc # "deliver" /\ UNCHANGED buffer /\ outlet' = [outlet EXCEPT ![f.op] = f.val]
      BY <1>14, PutOutletIs
    <2>3. (\A o \in Ops : o # g.op => outlet'[o] = outlet[o]) /\ outlet'[g.op] = g.val /\ g.op = f.op
      BY <1>3, <2>1, <2>2 DEF Keeps, IInv, Tables
    <2>4. InSync(z, buffer, outlet')
      <3> DEFINE put == outlet'
      <3>1. (\A o \in Ops : o # g.op => put[o] = outlet[o]) /\ put[g.op] = g.val
        BY <2>3
      <3>2. s[Len(s)].pc # "deliver" /\ g.op = s[Len(s)].op /\ InSync(s, buffer, outlet)
        BY <2>2, <2>3
      <3> HIDE DEF put, f, s, z
      <3>3. InSync(z, buffer, put)
        BY <2>1, <3>1, <3>2, SyncPutOut
      <3> QED
        BY <3>3 DEF put
    <2> QED
      BY <2>2, <2>4
  <1>15. CASE Deliver(t)
    <2> DEFINE c == OutConnections(f.op)[f.k] T == TargetInlets(c, f.val)
    <2>1. PICK g : Replaced(s, z, g) /\ Keeps(f, g) /\ g.pc = "deliver" /\ g.i = f.i + 1 /\ g.k = f.k
                   /\ g.val = f.val
      BY <1>15, DeliverIs
    <2>2. /\ f.pc = "deliver" /\ UNCHANGED outlet /\ f.k \in 1..Len(OutConnections(f.op))
          /\ f.i \in 1..Len(T) /\ PutInlet(c.to, T[f.i], f.val)
      BY <1>15, DeliverIs
    <2>3. c \in Links /\ c.from = f.op
      <3>1. f.op \in Ops /\ f.k \in 1..Len(OutConnections(f.op))
        BY <1>3, <2>2
      <3> QED
        BY <3>1, OutsAre
    <2>4. ConnectionOf(f, f.k) = c
      BY DEF ConnectionOf
    <2> HIDE DEF c
    <2>5. T[f.i] \in Reached(c, f.val)
      BY <2>2, <2>3, TargetsAre
    <2>6. FedBy(f, buffer, buffer')
      BY <2>2, <2>3, <2>5, FedByPut
    <2>7. PutFirst(f, g, buffer')
      <3> SUFFICES ASSUME NEW x \in Links, NEW i \in InletIndexes(x.to), Fed(x, i), PutBy(g, x, i)
                   PROVE  PutBy(f, x, i) \/ SyncedWith(f.val, x, i, buffer')
        BY DEF PutFirst
      <3>1. PICK j \in 1..Len(OutConnections(f.op)) :
              /\ ConnectionOf(f, j) = x
              /\ \/ j < f.k
                 \/ /\ j = f.k
                    /\ \E m \in 1..Len(TargetInlets(x, f.val)) :
                         m < f.i + 1 /\ TargetInlets(x, f.val)[m] = i
        BY <2>1 DEF PutBy, ConnectionOf, Keeps
      <3>2. CASE j < f.k
        BY <3>1, <3>2 DEF PutBy
      <3>3. CASE ~(j < f.k)
        <4>1. j = f.k /\ x = c
          BY <2>4, <3>1, <3>3
        <4>2. PICK m \in 1..Len(TargetInlets(x, f.val)) :
                m < f.i + 1 /\ TargetInlets(x, f.val)[m] = i
          BY <3>1, <3>3
        <4>3. CASE m < f.i
          BY <3>1, <4>1, <4>2, <4>3 DEF PutBy
        <4>4. CASE m = f.i
          <5>1. i = T[f.i]
            BY <4>1, <4>2, <4>4
          <5>2. x.to \in Ops /\ PutInlet(x.to, i, f.val)
            BY <2>2, <4>1, <5>1, LinksAre
          <5>3. f.val # ErrorValue => buffer'[x.to][i] = f.val
            BY <5>2, PutIs
          <5> QED
            BY <5>3 DEF SyncedWith
        <4>5. m \in Nat
          OBVIOUS
        <4> QED
          BY <1>3, <4>2, <4>3, <4>4, <4>5
      <3> QED
        BY <3>2, <3>3
    <2> QED
      BY <1>6, <2>1, <2>2, <2>6, <2>7 DEF Keeps
  <1>16. CASE FinishConnection(t)
    <2> DEFINE c == OutConnections(f.op)[f.k] T == TargetInlets(c, f.val)
    <2>1. PICK g, h : /\ Keeps(f, g) /\ g.pc = "deliver" /\ g.i = 1 /\ g.k = f.k + 1
                      /\ g.val = f.val
                      /\ \/ Pushed(s, z, g, h) /\ h.pc # "deliver"
                         \/ Replaced(s, z, g)
      BY <1>16, FinishConnectionIs DEF FreshCall
    <2>2. /\ f.pc = "deliver" /\ UNCHANGED <<buffer, outlet>>
          /\ f.k \in 1..Len(OutConnections(f.op)) /\ f.i > Len(T)
      BY <1>16, FinishConnectionIs
    <2>3. c \in Links
      <3>1. f.op \in Ops /\ f.k \in 1..Len(OutConnections(f.op))
        BY <1>3, <2>2
      <3> QED
        BY <3>1, OutsAre
    <2>4. ConnectionOf(f, f.k) = c
      BY DEF ConnectionOf
    <2> HIDE DEF c
    <2>5. PutFirst(f, g, buffer)
      <3> SUFFICES ASSUME NEW x \in Links, NEW i \in InletIndexes(x.to), Fed(x, i), PutBy(g, x, i)
                   PROVE  PutBy(f, x, i)
        BY DEF PutFirst
      <3>1. PICK j \in 1..Len(OutConnections(f.op)) :
              ConnectionOf(f, j) = x /\ (j < f.k + 1 \/ \E m \in 1..Len(TargetInlets(x, f.val)) : m < 1)
        BY <2>1 DEF PutBy, ConnectionOf, Keeps
      <3>2. \A n : \A m \in 1..n : m \in Nat /\ ~(m < 1)
        OBVIOUS
      <3>3. j < f.k + 1 /\ j \in Nat
        BY <3>1, <3>2
      <3>4. CASE j < f.k
        BY <3>1, <3>4 DEF PutBy
      <3>5. CASE j = f.k
        <4>1. x = c
          BY <2>4, <3>1, <3>5
        <4>2. i \in Reached(c, f.val)
          BY <4>1 DEF Fed, Reached
        <4>3. PICK m \in 1..Len(T) : T[m] = i
          BY <2>3, <4>2, TargetsAre
        <4>4. Len(T) \in Nat
          BY <2>3, TargetsAre
        <4>5. m < f.i
          BY <1>3, <2>2, <4>3, <4>4
        <4> QED
          BY <3>1, <3>5, <4>1, <4>3, <4>5 DEF PutBy
      <3> QED
        BY <1>3, <3>3, <3>4, <3>5
    <2>6. CASE Pushed(s, z, g, h) /\ h.pc # "deliver"
      BY <1>7, <2>1, <2>2, <2>5, <2>6 DEF Keeps
    <2>7. CASE Replaced(s, z, g)
      BY <1>5, <1>6, <2>1, <2>2, <2>5, <2>7 DEF Keeps
    <2> QED
      BY <2>1, <2>6, <2>7
  <1> QED
    BY <1>8, <1>9, <1>10, <1>11, <1>12, <1>13, <1>14, <1>15, <1>16 DEF Step
------------------------------------------------------------------------------
(* With one thread *)

OneThread == \E t : Threads = {t}
Flow(t) == /\ Fresh(stack[t], buffer, ret[t])
           /\ Exact(stack[t], buffer, seen)
           /\ InSync(stack[t], buffer, outlet)
FlowInv == OneThread => \A t \in Threads : Flow(t)

LEMMA FlowInit == Init => FlowInv
  <1> SUFFICES ASSUME Init, NEW t \in Threads PROVE Flow(t)
    BY DEF FlowInv
  <1>1. stack[t] = <<>> /\ \A c \in Links : outlet[c.from] = EmptyValue
    BY LinksAre DEF Init
  <1> QED
    BY <1>1 DEF Flow, Fresh, Exact, InSync

LEMMA FlowNext == IInv /\ ShapeInv /\ FlowInv /\ [Next]_vars => FlowInv'
  <1> SUFFICES ASSUME IInv, ShapeInv, FlowInv, [Next]_vars, OneThread, NEW t \in Threads PROVE Flow(t)'
    BY DEF FlowInv, OneThread
  <1>1. Flow(t) /\ Shape(stack[t]) /\ \A u \in Threads : u = t
    BY DEF FlowInv, ShapeInv, OneThread
  <1>2. CASE Step(t)
    BY <1>1, <1>2, StepFresh, StepExact, StepSync DEF Flow
  <1>3. ASSUME NEW o \in Ops, NEW mode, RequestCall(t, o, mode)
        PROVE  Flow(t)'
    <2> DEFINE z == stack'[t] h == z[1]
    <2>1. /\ stack[t] = <<>> /\ UNCHANGED <<buffer, seen, outlet, ret, clock>>
          /\ Len(z) = 1 /\ z # <<>> /\ FreshCall(h, o, mode)
      BY <1>3, RequestCallIs
    <2>2. h.pc = "decide" /\ DOMAIN h.pulled = {}
      BY <2>1 DEF FreshCall
    <2> HIDE DEF z
    <2>3. Fresh(z, buffer, ret[t])
      BY <2>1, <2>2 DEF Fresh, FrameFresh, TopFresh
    <2>4. Exact(z, buffer, seen)
      BY <2>1, <2>2 DEF Exact, PutSoFar
    <2>5. InSync(z, buffer, outlet)
      <3>1. \A n \in 1..Len(z) : \A x : ~Delivers(z, n, x)
        BY <2>1, <2>2 DEF Delivers
      <3>2. \A n \in 1..Len(stack[t]) : \A x : ~Delivers(stack[t], n, x)
        BY <2>1
      <3> QED
        BY <1>1, <3>1, <3>2 DEF InSync, Latest, Flow
    <2> QED
      BY <2>1, <2>3, <2>4, <2>5 DEF Flow, z
  <1>4. ASSUME NEW o \in Settable, NEW i \in InletIndexes(o), RequestPut(t, o, i)
        PROVE  Flow(t)'
    <2>1. /\ stack[t] = <<>> /\ UNCHANGED <<outlet, stack, ret, seen>>
          /\ PutInlet(o, i, clock + 1) /\ o \in Ops
      BY <1>4, GraphAssumption DEF RequestPut, Request
    <2>2. \A c \in Links : \A j \in InletIndexes(c.to) : Fed(c, j) => buffer'[c.to][j] = buffer[c.to][j]
      <3> SUFFICES ASSUME NEW c \in Links, NEW j \in InletIndexes(c.to), Fed(c, j)
                   PROVE  buffer'[c.to][j] = buffer[c.to][j]
        OBVIOUS
      <3>1. c.to \in Ops /\ c.to # o
        BY LinksAre DEF Fed
      <3> QED
        BY <2>1, <3>1, PutIs
    <2>3. InSync(stack[t], buffer', outlet)
      <3>1. \A n \in 1..Len(stack[t]) : FALSE
        BY <2>1
      <3> QED
        BY <1>1, <2>2, <3>1 DEF InSync, SyncedWith, Flow
    <2>4. Fresh(stack[t], buffer', ret[t]) /\ Exact(stack[t], buffer', seen)
      BY <2>1 DEF Fresh, Exact
    <2> QED
      BY <2>1, <2>3, <2>4 DEF Flow
  <1>5. CASE UNCHANGED vars
    BY <1>1, <1>5 DEF vars, graphVars, history, Flow
  <1> QED
    BY <1>1, <1>2, <1>3, <1>4, <1>5, GraphAssumption DEF Next

\* For any number of threads: an invoke made to pull never delivers, and a call
\* that delivers does not return while an earlier one of the same operation
\* delivers (OperationBase::execute calls itself through EVENT connections).
THEOREM ShapeHolds == Spec => []ShapeInv
  BY Invariance, ShapeInit, ShapeNext, PTL DEF Spec

\* With one thread, what the calls on its stack know of each other, of the inlets
\* and of the outlets.
THEOREM FlowHolds == Spec => []FlowInv
  BY Invariance, ShapeHolds, FlowInit, FlowNext, PTL DEF Spec

\* For any number of threads: no body ever computes with an error, whatever
\* fails upstream (OperationInletBase::put, collectValues).
THEOREM NeverComputesWithError ==
  Spec => [](\A o \in Ops : \A i \in InletIndexes(o) : seen[o][i] # ErrorValue)
  <1>1. IInv => \A o \in Ops : \A i \in InletIndexes(o) : seen[o][i] # ErrorValue
    BY DEF IInv, Tables
  <1> QED
    BY <1>1, Invariance, PTL

\* With one thread, an argument that was pulled was computed for this call and
\* not left over from an earlier one, for any graph (collectValues).
THEOREM PullsAreFresh == Spec => [](OneThread => PullIsFresh)
  <1>1. IInv /\ FlowInv => (OneThread => PullIsFresh)
    <2> SUFFICES ASSUME IInv, FlowInv, OneThread PROVE PullIsFresh
      OBVIOUS
    <2> SUFFICES ASSUME NEW t \in Threads, NEW n \in DOMAIN stack[t],
                        stack[t][n].pc \in {"collect", "pulled"},
                        NEW i \in DOMAIN stack[t][n].pulled,
                        i < stack[t][n].i, Inlets[stack[t][n].pulled[i]] # <<>>
                 PROVE  stack[t][n].args[i] > stack[t][n].born
      BY DEF PullIsFresh
    <2>1. n \in 1..Len(stack[t])
      BY DEF IInv, StackOK
    <2>2. FrameFresh(stack[t][n])
      BY <2>1 DEF FlowInv, Flow, Fresh
    <2> QED
      BY <2>2 DEF FrameFresh, FreshFrom
  <1> QED
    BY <1>1, Invariance, FlowHolds, PTL

\* With one thread, the body that an EVENT connection makes run gets exactly the
\* value put, in every inlet the connection reaches and nothing pulls into, for
\* any graph (Connection::put, OperationInletBase::put).
THEOREM EventsDeliver == Spec => [](OneThread => EventDeliversValue)
  <1>1. IInv /\ ShapeInv /\ FlowInv => (OneThread => EventDeliversValue)
    <2> SUFFICES ASSUME IInv, ShapeInv, FlowInv, OneThread PROVE EventDeliversValue
      OBVIOUS
    <2>1. \A o \in Ops : \A i \in InletIndexes(o) : seen[o][i] # ErrorValue
      BY DEF IInv, Tables
    <2>2. ASSUME NEW t \in Threads, NEW n \in 1..(Len(stack[t]) - 1),
                 stack[t][n].pc = "deliver", stack[t][n + 1].pc = "invoked",
                 stack[t][n].val # ErrorValue
          PROVE  LET f == stack[t][n]
                     c == OutConnections(f.op)[f.k - 1]
                 IN \A i \in ToSet(TargetInlets(c, f.val)) : ~HasPull(c.to, i) => seen[c.to][i] = f.val
      <3> DEFINE f == stack[t][n] g == stack[t][n + 1] c == OutConnections(f.op)[f.k - 1]
      <3>1. Stood(stack[t], clock, lastRun) /\ Shape(stack[t])
        BY Stands DEF IInv, ShapeInv
      <3>2. ConnectionOf(f, f.k - 1) = c
        BY DEF ConnectionOf
      <3>3. c \in Links
        BY <2>2, <3>1, <3>2, Delivering
      <3>4. Given(f, g, buffer, seen)
        BY DEF FlowInv, Flow, Exact
      <3> HIDE DEF c
      <3>5. \A i \in Reached(c, f.val) : ~HasPull(c.to, i) => seen[c.to][i] = f.val
        BY <2>2, <3>2, <3>4 DEF Given
      <3>6. ToSet(TargetInlets(c, f.val)) \subseteq Reached(c, f.val)
        BY <3>3, TargetsAre
      <3>7. \A i \in ToSet(TargetInlets(c, f.val)) : ~HasPull(c.to, i) => seen[c.to][i] = f.val
        BY <3>5, <3>6
      <3> QED
        BY <3>7 DEF c
    <2> QED
      BY <2>1, <2>2 DEF EventDeliversValue
  <1> QED
    BY <1>1, Invariance, ShapeHolds, FlowHolds, PTL

\* With one thread, whenever it is outside the graph an inlet that a single PUSH
\* or EVENT connection feeds by its name holds what its source last put out,
\* unless that was an error, for any graph (OperationOutletBase::put).
THEOREM DownstreamIsInSync == Spec => [](OneThread => DownstreamInSync)
  <1>1. FlowInv => (OneThread => DownstreamInSync)
    <2> SUFFICES ASSUME FlowInv, OneThread PROVE DownstreamInSync
      OBVIOUS
    <2> SUFFICES ASSUME \A t \in Threads : stack[t] = <<>>,
                        NEW k \in DOMAIN Connections, NEW i \in InletIndexes(Connections[k].to),
                        Connections[k].type # "PULL",
                        Inlets[Connections[k].to][i] = Connections[k].inlet,
                        Connections[k].inlet # ArgumentName,
                        {j \in DOMAIN Connections : Connections[j].to = Connections[k].to
                           /\ Connections[j].inlet \in {Connections[k].inlet, ArgumentName}} = {k},
                        Connections[k].to \notin Settable
                 PROVE  \/ outlet[Connections[k].from] \in {EmptyValue, ErrorValue}
                        \/ buffer[Connections[k].to][i] = outlet[Connections[k].from]
      BY DEF DownstreamInSync
    <2> DEFINE c == Connections[k]
    <2>1. c \in Links /\ \A d \in Links : \E j \in DOMAIN Connections : Connections[j] = d
      <3>1. Connections \in Seq(Links)
        BY LinksAre
      <3>2. DOMAIN Connections = 1..Len(Connections)
        BY <3>1
      <3>3. c \in Links
        BY <3>1, <3>2
      <3> QED
        BY <3>2, <3>3, LinksAre
    <2>2. \A d \in Links : d.to = c.to /\ d.inlet \in {c.inlet, ArgumentName} => d = c
      BY <2>1
    <2>3. Fed(c, i)
      BY <2>2 DEF Fed
    <2>4. PICK t \in Threads : InSync(stack[t], buffer, outlet) /\ stack[t] = <<>>
      BY DEF FlowInv, Flow, OneThread
    <2> HIDE DEF c
    <2>5. \A n \in 1..Len(stack[t]) : ~Delivers(stack[t], n, c.from)
      BY <2>4
    <2>6. outlet[c.from] = EmptyValue \/ SyncedWith(outlet[c.from], c, i, buffer)
      BY <2>1, <2>3, <2>4, <2>5 DEF InSync, c
    <2> QED
      BY <2>6 DEF SyncedWith, c
  <1> QED
    BY <1>1, FlowHolds, PTL
==============================================================================
