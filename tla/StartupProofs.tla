----------------------------- MODULE StartupProofs -----------------------------
(***************************************************************************)
(* Theorems about Startup, for every configuration and whatever the search *)
(* paths have.  IInv: the tasks that are left are in the order of their    *)
(* kinds, the launch among them until it is passed, and the code of every  *)
(* factory of the process is loaded.  BuildInv: what a configuration       *)
(* promises is still a task, or its object is there and its connection     *)
(* whole, whatever was refused before it; no broker runs before the launch *)
(* is passed, and no operation but an anchor's is called before the        *)
(* connections are.                                                        *)
(***************************************************************************)
EXTENDS Startup, SequenceTheorems, FiniteSetTheorems, WellFoundedInduction, TLAPS

(***************************************************************************)
(* Sequences and their elements.                                           *)
(***************************************************************************)
\* An element added at the end is one of the elements.
LEMMA Appended ==
  ASSUME NEW s, IsList(s), NEW o
  PROVE  /\ IsList(Append(s, o))
         /\ Elements(Append(s, o)) = Elements(s) \cup {o}
         /\ Len(s) \in Nat /\ Len(Append(s, o)) = Len(s) + 1
         /\ \A i \in 1..Len(s) : Append(s, o)[i] = s[i]
         /\ Append(s, o)[Len(s) + 1] = o
  <1> DEFINE S == Elements(s) \cup {o}
  <1>1. s \in Seq(S) /\ o \in S
    BY LenProperties DEF IsList
  <1>2. /\ Append(s, o) \in Seq(S) /\ DOMAIN Append(s, o) = 1..(Len(s) + 1) /\ DOMAIN s = 1..Len(s)
        /\ Len(s) \in Nat /\ Len(Append(s, o)) = Len(s) + 1
        /\ \A i \in 1..Len(s) : Append(s, o)[i] = s[i]
        /\ Append(s, o)[Len(s) + 1] = o
    BY <1>1, AppendProperties, LenProperties
  <1>3. Elements(Append(s, o)) = S
    BY <1>2 DEF Elements
  <1> QED
    BY <1>2, <1>3 DEF IsList

\* The elements of two sequences one after the other are those of both.
LEMMA Joining ==
  ASSUME NEW s, IsList(s), NEW t, IsList(t)
  PROVE  /\ IsList(s \o t)
         /\ Elements(s \o t) = Elements(s) \cup Elements(t)
         /\ Len(s) \in Nat /\ Len(t) \in Nat /\ Len(s \o t) = Len(s) + Len(t)
         /\ \A i \in 1..(Len(s) + Len(t)) : (s \o t)[i] = IF i <= Len(s) THEN s[i] ELSE t[i - Len(s)]
  <1> DEFINE S == Elements(s) \cup Elements(t)
  <1>1. s \in Seq(S) /\ t \in Seq(S)
    BY LenProperties DEF IsList
  <1>2. /\ s \o t \in Seq(S) /\ Len(s) \in Nat /\ Len(t) \in Nat
        /\ DOMAIN s = 1..Len(s) /\ DOMAIN t = 1..Len(t)
        /\ DOMAIN (s \o t) = 1..(Len(s) + Len(t)) /\ Len(s \o t) = Len(s) + Len(t)
        /\ \A i \in 1..(Len(s) + Len(t)) : (s \o t)[i] = IF i <= Len(s) THEN s[i] ELSE t[i - Len(s)]
    BY <1>1, ConcatProperties, LenProperties
  <1>3. ASSUME NEW x \in Elements(s \o t) PROVE x \in S
    BY <1>2 DEF Elements
  <1>4. ASSUME NEW i \in DOMAIN s PROVE s[i] \in Elements(s \o t)
    <2>1. i \in 1..(Len(s) + Len(t)) /\ i <= Len(s)
      BY <1>2
    <2> QED
      BY <1>2, <2>1 DEF Elements
  <1>5. ASSUME NEW i \in DOMAIN t PROVE t[i] \in Elements(s \o t)
    <2>1. /\ Len(s) + i \in 1..(Len(s) + Len(t)) /\ ~(Len(s) + i <= Len(s))
          /\ (Len(s) + i) - Len(s) = i
      BY <1>2
    <2>2. (s \o t)[Len(s) + i] = t[i]
      BY <1>2, <2>1
    <2> QED
      BY <1>2, <2>1, <2>2 DEF Elements
  <1>6. Elements(s \o t) = S
    BY <1>3, <1>4, <1>5 DEF Elements
  <1> QED
    BY <1>2, <1>6 DEF IsList

\* A value for every index of a sequence makes a sequence.
LEMMA Mapped ==
  ASSUME NEW s, IsList(s), NEW S, NEW g \in [DOMAIN s -> S]
  PROVE  IsList(g) /\ Len(g) = Len(s) /\ Elements(g) \subseteq S
  <1>1. Len(s) \in Nat /\ DOMAIN s = 1..Len(s)
    BY LenProperties DEF IsList
  <1>2. g \in Seq(S)
    BY <1>1, IsASeq
  <1>3. Len(g) \in Nat /\ DOMAIN g = 1..Len(g) /\ DOMAIN g = 1..Len(s) /\ g \in [1..Len(g) -> S]
    BY <1>1, <1>2, LenProperties
  <1>4. Len(g) = Len(s)
    <2>1. Len(g) \in 1..Len(g) \/ Len(g) = 0
      BY <1>3
    <2>2. Len(s) \in 1..Len(s) \/ Len(s) = 0
      BY <1>1
    <2> QED
      BY <1>1, <1>3, <2>1, <2>2
  <1>5. g \in Seq(Elements(g))
    <2>1. g \in [1..Len(g) -> Elements(g)]
      BY <1>3 DEF Elements
    <2> QED
      BY <1>3, <2>1, IsASeq
  <1> QED
    BY <1>1, <1>3, <1>4, <1>5 DEF IsList, Elements

\* The elements are at the indexes from 1 to the length.
LEMMA Indexes ==
  ASSUME NEW s, IsList(s)
  PROVE  Len(s) \in Nat /\ DOMAIN s = 1..Len(s) /\ Elements(s) = {s[i] : i \in 1..Len(s)}
  BY LenProperties DEF IsList, Elements

\* A sequence of members of a set is one of its own elements, and of any wider set.
LEMMA SeqIsList ==
  ASSUME NEW S, NEW s \in Seq(S)
  PROVE  IsList(s) /\ Elements(s) \subseteq S
  BY LenProperties DEF IsList, Elements

\* A sequence over a set is one over a wider set.
LEMMA WiderSeq ==
  ASSUME NEW S, NEW T, S \subseteq T, NEW s \in Seq(S)
  PROVE  s \in Seq(T)
  BY LenProperties

\* The order of the naturals, as a set.
R == {ss \in Nat \X Nat : ss[1] < ss[2]}
\* What holds of 0, and of a natural whenever of the one before, holds of all:
\* there is no least counterexample.
LEMMA NoLeast ==
  ASSUME NEW A, A \subseteq Nat \ {0}, \A n \in A : n - 1 \in A
  PROVE  A = {}
  <1> SUFFICES ASSUME A # {} PROVE FALSE
    OBVIOUS
  <1>1. IsWellFoundedOn(R, Nat)
    BY NatLessThanWellFounded, Zenon DEF OpToRel, R
  <1>2. PICK m \in A : \A n \in A : ~(<<n, m>> \in R)
    BY <1>1, WFMin
  <1>3. m - 1 \in A /\ m \in Nat /\ m - 1 \in Nat /\ m - 1 < m
    BY <1>2
  <1> QED
    BY <1>2, <1>3 DEF R

\* F is what FlattenSeq computes of the first n sequences.
FlatRec(g, n, F) == F = [i \in 1..n |-> IF i = 1 THEN g[i] ELSE F[i - 1] \o g[i]]
\* There is such an F.
LEMMA FlatExists ==
  ASSUME NEW g
  PROVE  \A n \in Nat : \E F : FlatRec(g, n, F)
  <1> DEFINE A == {n \in Nat : ~ \E F : FlatRec(g, n, F)}
  <1>1. A \subseteq Nat \ {0}
    <2>1. FlatRec(g, 0, [i \in 1..0 |-> g[i]])
      BY DEF FlatRec
    <2> QED
      BY <2>1
  <1>2. ASSUME NEW n \in A PROVE n - 1 \in A
    <2>1. n \in Nat /\ n # 0 /\ n - 1 \in Nat
      BY <1>1
    <2>2. SUFFICES ASSUME NEW G, FlatRec(g, n - 1, G) PROVE \E F : FlatRec(g, n, F)
      BY <2>1
    <2> DEFINE Tip == IF n = 1 THEN g[n] ELSE G[n - 1] \o g[n]
    <2> HIDE DEF Tip
    <2> DEFINE H == [i \in 1..n |-> IF i < n THEN G[i] ELSE Tip]
               K == [i \in 1..n |-> IF i = 1 THEN g[i] ELSE H[i - 1] \o g[i]]
    <2>3. \A i \in 1..n : H[i] = IF i < n THEN G[i] ELSE Tip
      OBVIOUS
    <2>4. \A i \in 1..(n - 1) : G[i] = IF i = 1 THEN g[i] ELSE G[i - 1] \o g[i]
      BY <2>2 DEF FlatRec
    <2>5. ASSUME NEW i \in 1..n PROVE H[i] = K[i]
      <3>1. K[i] = IF i = 1 THEN g[i] ELSE H[i - 1] \o g[i]
        OBVIOUS
      <3> HIDE DEF H, K
      <3>2. i # 1 => i - 1 \in 1..n /\ i - 1 < n
        BY <2>1
      <3>3. i # 1 => H[i - 1] = G[i - 1]
        BY <2>3, <3>2
      <3>4. CASE i < n
        <4>1. H[i] = G[i] /\ i \in 1..(n - 1)
          BY <2>1, <2>3, <3>4
        <4> QED
          BY <2>4, <3>1, <3>3, <4>1
      <3>5. CASE i = n
        <4>1. H[i] = Tip
          BY <2>1, <2>3, <3>5
        <4> QED
          BY <3>1, <3>3, <3>5, <4>1 DEF Tip
      <3> QED
        BY <2>1, <3>4, <3>5
    <2>6. H = K
      BY <2>5
    <2> QED
      BY <2>6 DEF FlatRec
  <1> HIDE DEF A
  <1>3. A = {}
    BY <1>1, <1>2, NoLeast
  <1> QED
    BY <1>3 DEF A

\* Sequences one after the other have the elements they have each.
LEMMA Flat ==
  ASSUME NEW g, IsList(g), NEW X,
         \A s \in X : IsList(s), <<>> \in X, \A s, t \in X : s \o t \in X,
         \A i \in 1..Len(g) : g[i] \in X
  PROVE  /\ FlattenSeq(g) \in X
         /\ Elements(FlattenSeq(g)) = UNION {Elements(g[i]) : i \in 1..Len(g)}
  <1>1. Len(g) \in Nat
    BY LenProperties DEF IsList
  <1>2. CASE Len(g) = 0
    <2>1. g = <<>>
      BY <1>2, EmptySeq DEF IsList
    <2>2. FlattenSeq(g) = <<>> /\ 1..Len(g) = {}
      BY <1>1, <1>2, <2>1 DEF FlattenSeq
    <2>3. Elements(<<>>) = {}
      BY DEF Elements
    <2> QED
      BY <2>2, <2>3
  <1>3. CASE Len(g) # 0
    <2>1. PICK F : FlatRec(g, Len(g), F) /\ FlattenSeq(g) = F[Len(g)]
      <3>1. \E F : FlatRec(g, Len(g), F)
        BY <1>1, FlatExists
      <3> QED
        BY <1>3, <3>1 DEF FlatRec, FlattenSeq
    <2>2. \A i \in 1..Len(g) : F[i] = IF i = 1 THEN g[i] ELSE F[i - 1] \o g[i]
      BY <2>1 DEF FlatRec
    <2> DEFINE Right(n) == F[n] \in X /\ Elements(F[n]) = UNION {Elements(g[i]) : i \in 1..n}
               A == {n \in 1..Len(g) : ~Right(n)}
    <2>3. A \subseteq Nat \ {0}
      BY <1>1
    <2>4. ASSUME NEW n \in A PROVE n - 1 \in A
      <3>1. n \in 1..Len(g) /\ ~Right(n)
        OBVIOUS
      <3>2. n # 1
        <4>1. SUFFICES ASSUME n = 1 PROVE Right(1)
          BY <3>1
        <4>2. F[1] = g[1] /\ g[1] \in X
          BY <1>1, <1>3, <2>2
        <4>3. 1..1 = {1}
          OBVIOUS
        <4> QED
          BY <4>2, <4>3
      <3>3. n - 1 \in 1..Len(g) /\ F[n] = F[n - 1] \o g[n] /\ g[n] \in X
        <4>1. n - 1 \in 1..Len(g)
          BY <1>1, <3>1, <3>2
        <4>2. F[n] = IF n = 1 THEN g[n] ELSE F[n - 1] \o g[n]
          BY <2>2, <3>1
        <4> QED
          BY <3>1, <3>2, <4>1, <4>2
      <3>4. Right(n - 1) => Right(n)
        <4>1. SUFFICES ASSUME Right(n - 1) PROVE Right(n)
          OBVIOUS
        <4>2. F[n] \in X /\ Elements(F[n]) = Elements(F[n - 1]) \cup Elements(g[n])
          <5>1. F[n - 1] \in X /\ IsList(F[n - 1]) /\ IsList(g[n])
            BY <3>3, <4>1
          <5> HIDE DEF Right, A
          <5>2. F[n - 1] \o g[n] \in X
            BY <3>3, <5>1
          <5>3. Elements(F[n - 1] \o g[n]) = Elements(F[n - 1]) \cup Elements(g[n])
            BY <5>1, Joining
          <5> QED
            BY <3>3, <5>2, <5>3
        <4>3. 1..n = 1..(n - 1) \cup {n}
          BY <1>1, <3>1
        <4> QED
          BY <4>1, <4>2, <4>3
      <3> HIDE DEF Right
      <3> QED
        BY <3>1, <3>3, <3>4
    <2>5. A = {}
      <3> HIDE DEF A
      <3> QED
        BY <2>3, <2>4, NoLeast
    <2>6. Len(g) \in 1..Len(g)
      BY <1>1, <1>3
    <2>7. Right(Len(g))
      BY <2>5, <2>6
    <2> QED
      BY <2>1, <2>7
  <1> QED
    BY <1>1, <1>2, <1>3

(***************************************************************************)
(* The order of the tasks.  Each kind has a rank, and the tasks of a       *)
(* configuration are in the order of their ranks.                          *)
(***************************************************************************)
LoadRank(kind) ==
  CASE kind = "operation" -> 1
    [] kind \in {"container", "containerOperation"} -> 4
    [] kind = "ec" -> 8
    [] kind = "broker" -> 12
Rank(t) ==
  CASE t.do = "load" -> LoadRank(t.arg.kind)
    [] t.do = "operation" -> 2
    [] t.do = "transformers" -> 3
    [] t.do \in {"container", "member"} -> 5
    [] t.do = "transformation" -> 6
    [] t.do = "fsm" -> 7
    [] t.do = "ec" -> 9
    [] t.do = "bindEC" -> 10
    [] t.do = "anchor" -> 11
    [] t.do = "broker" -> 13
    [] t.do = "bindState" -> 14
    [] t.do = "bindFSM" -> 15
    [] t.do = "launch" -> 16
    [] t.do = "await" -> 17
    [] t.do = "connect" -> 18
    [] t.do = "topic" -> 19
    [] t.do = "call" -> 20
Phase(r) ==
  IF r <= 17 THEN "build" ELSE IF r = 18 THEN "connections" ELSE IF r = 19 THEN "topics" ELSE "callbacks"
Known(t) == Rank(t) \in 1..20 /\ t.phase = Phase(Rank(t))
Sorted(s) == \A i, j \in 1..Len(s) : i <= j => Rank(s[i]) <= Rank(s[j])
Ranked(s, a, b) ==
  IsList(s) /\ Sorted(s) /\ \A t \in Elements(s) : Known(t) /\ Rank(t) \in a..b
ToDo(phase, do, arg) == [phase |-> phase, do |-> do, arg |-> arg]
LoadTask(kind, type) == ToDo("build", "load", [kind |-> kind, type |-> type])

\* The rank of a task is that of what it does, and tells what it does.
LEMMA RankOf ==
  ASSUME NEW t
  PROVE  /\ t.do = "operation" => Rank(t) = 2
         /\ t.do = "transformers" => Rank(t) = 3
         /\ t.do \in {"container", "member"} => Rank(t) = 5
         /\ t.do = "transformation" => Rank(t) = 6
         /\ t.do = "fsm" => Rank(t) = 7
         /\ t.do = "ec" => Rank(t) = 9
         /\ t.do = "bindEC" => Rank(t) = 10
         /\ t.do = "anchor" => Rank(t) = 11
         /\ t.do = "broker" => Rank(t) = 13
         /\ t.do = "bindState" => Rank(t) = 14
         /\ t.do = "bindFSM" => Rank(t) = 15
         /\ t.do = "launch" => Rank(t) = 16
         /\ t.do = "await" => Rank(t) = 17
         /\ t.do = "connect" => Rank(t) = 18
         /\ t.do = "topic" => Rank(t) = 19
         /\ t.do = "call" => Rank(t) = 20
  BY DEF Rank

\* The rank of a task that loads a factory is that of its kind.
LEMMA LoadRankOf ==
  ASSUME NEW t, t.do = "load"
  PROVE  /\ t.arg.kind = "operation" => Rank(t) = 1
         /\ t.arg.kind \in {"container", "containerOperation"} => Rank(t) = 4
         /\ t.arg.kind = "ec" => Rank(t) = 8
         /\ t.arg.kind = "broker" => Rank(t) = 12
  BY DEF Rank, LoadRank

\* Tasks of one rank are in order.
LEMMA OneRank ==
  ASSUME NEW s, IsList(s), NEW r \in 1..20,
         \A t \in Elements(s) : Rank(t) = r /\ t.phase = Phase(r)
  PROVE  Ranked(s, r, r)
  <1>1. \A i \in 1..Len(s) : s[i] \in Elements(s)
    BY Indexes
  <1> QED
    BY <1>1, SMTT(20) DEF Ranked, Sorted, Known

\* Tasks in order, and then tasks of later ranks, are in order.
LEMMA InRow ==
  ASSUME NEW a \in Nat, NEW b \in Nat, NEW c \in Nat, NEW d \in Nat, b <= c, a <= c, b <= d,
         NEW s, Ranked(s, a, b), NEW t, Ranked(t, c, d)
  PROVE  Ranked(s \o t, a, d) /\ Elements(s \o t) = Elements(s) \cup Elements(t)
  <1>1. IsList(s) /\ IsList(t)
    BY DEF Ranked
  <1>2. /\ IsList(s \o t) /\ Elements(s \o t) = Elements(s) \cup Elements(t)
        /\ Len(s) \in Nat /\ Len(t) \in Nat /\ Len(s \o t) = Len(s) + Len(t)
        /\ \A i \in 1..(Len(s) + Len(t)) : (s \o t)[i] = IF i <= Len(s) THEN s[i] ELSE t[i - Len(s)]
    BY <1>1, Joining
  <1>3. ASSUME NEW i \in 1..(Len(s) + Len(t)), NEW j \in 1..(Len(s) + Len(t)), i <= j
        PROVE  Rank((s \o t)[i]) <= Rank((s \o t)[j])
    <2>1. CASE j <= Len(s)
      <3>1. (s \o t)[i] = s[i] /\ (s \o t)[j] = s[j] /\ i \in 1..Len(s) /\ j \in 1..Len(s)
        BY <1>2, <1>3, <2>1
      <3> QED
        BY <1>3, <3>1 DEF Ranked, Sorted
    <2>2. CASE i > Len(s)
      <3>1. /\ (s \o t)[i] = t[i - Len(s)] /\ (s \o t)[j] = t[j - Len(s)]
            /\ i - Len(s) \in 1..Len(t) /\ j - Len(s) \in 1..Len(t) /\ i - Len(s) <= j - Len(s)
        BY <1>2, <1>3, <2>2
      <3> QED
        BY <3>1 DEF Ranked, Sorted
    <2>3. CASE i <= Len(s) /\ j > Len(s)
      <3>1. /\ (s \o t)[i] = s[i] /\ (s \o t)[j] = t[j - Len(s)]
            /\ i \in 1..Len(s) /\ j - Len(s) \in 1..Len(t)
        BY <1>2, <1>3, <2>3
      <3>2. s[i] \in Elements(s) /\ t[j - Len(s)] \in Elements(t)
        BY <1>1, <3>1, Indexes
      <3>3. Rank(s[i]) \in a..b /\ Rank(t[j - Len(s)]) \in c..d
        BY <3>2 DEF Ranked
      <3> QED
        BY <3>1, <3>3
    <2> QED
      BY <1>2, <2>1, <2>2, <2>3
  <1>4. \A x \in Elements(s \o t) : Known(x) /\ Rank(x) \in a..d
    BY <1>2 DEF Ranked
  <1> QED
    BY <1>2, <1>3, <1>4 DEF Ranked, Sorted

\* The tasks that are in a queue.
LEMMA Queued ==
  ASSUME NEW args, IsList(args), NEW phase, NEW do
  PROVE  /\ IsList(Queue(phase, do, args))
         /\ \A t : t \in Elements(Queue(phase, do, args)) <=> \E x \in Elements(args) : t = ToDo(phase, do, x)
  <1> DEFINE S == {ToDo(phase, do, x) : x \in Elements(args)}
             g == Queue(phase, do, args)
  <1>1. DOMAIN args = 1..Len(args) /\ \A x : x \in Elements(args) <=> \E i \in 1..Len(args) : x = args[i]
    BY Indexes
  <1>2. g = [i \in 1..Len(args) |-> ToDo(phase, do, args[i])]
    BY <1>1 DEF Queue, ToDo
  <1>3. g \in [DOMAIN args -> S]
    BY <1>1, <1>2
  <1> HIDE DEF g
  <1>4. IsList(g) /\ Len(g) = Len(args)
    <2> HIDE DEF S
    <2> QED
      BY <1>3, Mapped
  <1>5. \A t : t \in Elements(g) <=> \E i \in 1..Len(args) : t = g[i]
    BY <1>4, Indexes
  <1>6. \A i \in 1..Len(args) : g[i] = ToDo(phase, do, args[i])
    BY <1>2
  <1>7. \A t : t \in Elements(g) <=> \E x \in Elements(args) : t = ToDo(phase, do, x)
    BY <1>1, <1>5, <1>6
  <1> QED
    BY <1>4, <1>7 DEF g

\* One value.
LEMMA Single ==
  ASSUME NEW x
  PROVE  IsList(<<x>>) /\ Elements(<<x>>) = {x}
  <1>1. <<x>> \in Seq({x}) /\ Elements(<<x>>) = {x}
    BY DEF Elements
  <1> QED
    BY <1>1 DEF IsList

\* A task alone is a list of itself.
LEMMA OneTask ==
  ASSUME NEW phase, NEW do, NEW arg
  PROVE  /\ IsList(Task(phase, do, arg))
         /\ \A t : t \in Elements(Task(phase, do, arg)) <=> t = ToDo(phase, do, arg)
  <1>1. IsList(<<arg>>) /\ \A x : x \in Elements(<<arg>>) <=> x = arg
    BY Single
  <1>2. /\ IsList(Queue(phase, do, <<arg>>))
        /\ \A t : t \in Elements(Queue(phase, do, <<arg>>)) <=> \E x \in Elements(<<arg>>) : t = ToDo(phase, do, x)
    BY <1>1, Queued
  <1> QED
    BY <1>1, <1>2 DEF Task

\* The factories of a kind to load.
LEMMA LoadsAre ==
  ASSUME NEW kind, NEW types, IsList(types)
  PROVE  /\ IsList(Loads(kind, types))
         /\ \A t : t \in Elements(Loads(kind, types)) <=> \E x \in Elements(types) : t = LoadTask(kind, x)
  <1> DEFINE Named(x) == [kind |-> kind, type |-> x]
             args == [i \in DOMAIN types |-> Named(types[i])]
             S == {Named(x) : x \in Elements(types)}
  <1>1. DOMAIN types = 1..Len(types) /\ \A x : x \in Elements(types) <=> \E i \in 1..Len(types) : x = types[i]
    BY Indexes
  <1>2. args \in [DOMAIN types -> S]
    BY <1>1
  <1>3. \A i \in 1..Len(types) : args[i] = Named(types[i])
    BY <1>1
  <1>4. Loads(kind, types) = Queue("build", "load", args)
    BY DEF Loads
  <1> HIDE DEF args
  <1>5. IsList(args) /\ Len(args) = Len(types)
    <2> HIDE DEF S
    <2> QED
      BY <1>2, Mapped
  <1>6. \A x : x \in Elements(args) <=> \E i \in 1..Len(types) : x = args[i]
    BY <1>5, Indexes
  <1>7. \A x : x \in Elements(args) <=> \E y \in Elements(types) : x = Named(y)
    <2> HIDE DEF Named
    <2> QED
      BY <1>1, <1>3, <1>6
  <1>8. /\ IsList(Queue("build", "load", args))
        /\ \A t : t \in Elements(Queue("build", "load", args)) <=> \E x \in Elements(args) : t = ToDo("build", "load", x)
    BY <1>5, Queued
  <1> QED
    BY <1>4, <1>7, <1>8 DEF LoadTask

\* Some tasks for each item of a list.
LEMMA EachSome ==
  ASSUME NEW s, IsList(s), NEW g, DOMAIN g = DOMAIN s, g = [i \in DOMAIN s |-> g[i]],
         \A i \in 1..Len(s) : IsList(g[i])
  PROVE  /\ IsList(FlattenSeq(g))
         /\ \A t : t \in Elements(FlattenSeq(g)) <=> \E i \in 1..Len(s) : t \in Elements(g[i])
  <1> DEFINE S == UNION {Elements(g[i]) : i \in 1..Len(s)}
  <1>1. DOMAIN s = 1..Len(s) /\ Len(s) \in Nat
    BY Indexes
  <1>2. IsList(g) /\ Len(g) = Len(s)
    <2>1. g \in [DOMAIN s -> {g[j] : j \in DOMAIN s}]
      OBVIOUS
    <2> QED
      BY <2>1, Mapped
  <1>3. \A i \in 1..Len(g) : g[i] \in Seq(S)
    <2> TAKE i \in 1..Len(g)
    <2>1. g[i] \in Seq(Elements(g[i])) /\ Elements(g[i]) \subseteq S
      BY <1>2 DEF IsList
    <2> HIDE DEF S
    <2> QED
      BY <2>1, WiderSeq
  <1> HIDE DEF S
  <1>4. /\ \A u \in Seq(S) : IsList(u)
        /\ <<>> \in Seq(S) /\ \A u, v \in Seq(S) : u \o v \in Seq(S)
    BY SeqIsList, ConcatProperties
  <1>5. FlattenSeq(g) \in Seq(S) /\ Elements(FlattenSeq(g)) = UNION {Elements(g[i]) : i \in 1..Len(g)}
    BY <1>2, <1>3, <1>4, Flat
  <1> QED
    BY <1>2, <1>4, <1>5

\* What the tasks of a configuration are about.
LoadKinds == {"operation", "container", "containerOperation", "ec", "broker"}
Loading(t) == t.do = "load" /\ t.arg.kind \in LoadKinds
ShapeOf(c, t) ==
  /\ t.do = "load" => Loading(t)
  /\ t.do = "container" => \E k \in Elements(c.containers.precreate) : t.arg = k.info
  /\ t.do = "fsm" => t.arg \in Elements(c.fsms.precreate)
  /\ t.do = "ec" => t.arg \in Elements(c.ecs.precreate)
  /\ t.do = "bindEC" => t.arg \in Elements(c.ecs.bind)
  /\ t.do = "anchor" => t.arg \in Elements(c.anchors)
  /\ t.do = "bindFSM" => t.arg \in Elements(c.fsms.bind)
  /\ t.do = "connect" => t.arg \in Elements(c.connections)
  /\ t.do = "topic" => t \in Elements(TopicTasks(c))

\* The tasks of a queue have the rank of what they do.
LEMMA QueueRanked ==
  ASSUME NEW args, IsList(args), NEW phase, NEW do, NEW r \in 1..20, phase = Phase(r),
         \A x : Rank(ToDo(phase, do, x)) = r
  PROVE  Ranked(Queue(phase, do, args), r, r)
  <1>1. \A x : ToDo(phase, do, x).phase = phase
    BY DEF ToDo
  <1> QED
    BY <1>1, Queued, OneRank

\* A task alone has the rank of what it does.
LEMMA TaskRanked ==
  ASSUME NEW arg, NEW phase, NEW do, NEW r \in 1..20, phase = Phase(r),
         Rank(ToDo(phase, do, arg)) = r
  PROVE  Ranked(Task(phase, do, arg), r, r)
  <1>1. ToDo(phase, do, arg).phase = phase
    BY DEF ToDo
  <1> QED
    BY <1>1, OneTask, OneRank

\* Factories of a kind are loaded at the rank of the kind.
LEMMA LoadsRanked ==
  ASSUME NEW types, IsList(types)
  PROVE  /\ Ranked(Loads("operation", types), 1, 1)
         /\ Ranked(Loads("container", types), 4, 4)
         /\ Ranked(Loads("containerOperation", types), 4, 4)
         /\ Ranked(Loads("ec", types), 8, 8)
         /\ Ranked(Loads("broker", types), 12, 12)
  <1>1. \A kind, x : /\ LoadTask(kind, x).phase = "build" /\ LoadTask(kind, x).do = "load"
                     /\ LoadTask(kind, x).arg.kind = kind
    BY DEF LoadTask, ToDo
  <1>2. \A x : /\ Rank(LoadTask("operation", x)) = 1
               /\ Rank(LoadTask("container", x)) = 4
               /\ Rank(LoadTask("containerOperation", x)) = 4
               /\ Rank(LoadTask("ec", x)) = 8
               /\ Rank(LoadTask("broker", x)) = 12
    BY <1>1, LoadRankOf
  <1>3. \A r \in {1, 4, 8, 12} : Phase(r) = "build"
    BY DEF Phase
  <1>4. /\ \A t \in Elements(Loads("operation", types)) : Rank(t) = 1 /\ t.phase = Phase(1)
        /\ \A t \in Elements(Loads("container", types)) : Rank(t) = 4 /\ t.phase = Phase(4)
        /\ \A t \in Elements(Loads("containerOperation", types)) : Rank(t) = 4 /\ t.phase = Phase(4)
        /\ \A t \in Elements(Loads("ec", types)) : Rank(t) = 8 /\ t.phase = Phase(8)
        /\ \A t \in Elements(Loads("broker", types)) : Rank(t) = 12 /\ t.phase = Phase(12)
    BY <1>1, <1>2, <1>3, LoadsAre
  <1> QED
    BY <1>4, LoadsAre, OneRank

\* The fields of a task.
LEMMA Fields ==
  /\ \A phase, do, arg : /\ ToDo(phase, do, arg).phase = phase
                         /\ ToDo(phase, do, arg).do = do /\ ToDo(phase, do, arg).arg = arg
  /\ \A kind, x : LoadTask(kind, x).do = "load"
  BY DEF ToDo, LoadTask

\* A task of a queue of factories loads one.
LEMMA LoadsLoad ==
  ASSUME NEW kind \in LoadKinds, NEW types, IsList(types)
  PROVE  \A t \in Elements(Loads(kind, types)) : Loading(t) /\ t.do = "load"
  <1>1. \A x : LoadTask(kind, x).do = "load" /\ LoadTask(kind, x).arg.kind = kind
    BY DEF LoadTask, ToDo
  <1> QED
    BY <1>1, LoadsAre DEF Loading

\* The tasks for operations.
LEMMA OperationTasksAre ==
  ASSUME NEW c \in Configs
  PROVE  /\ Ranked(OperationTasks(c), 1, 3)
         /\ \A t \in Elements(OperationTasks(c)) : ShapeOf(c, t)
         /\ \A x \in Elements(c.operations.preload) : LoadTask("operation", x) \in Elements(OperationTasks(c))
         /\ \A o \in Elements(c.operations.precreate) :
              ToDo("build", "operation", o.info) \in Elements(OperationTasks(c))
  <1> DEFINE items == c.operations.precreate
             infos == [i \in DOMAIN items |-> items[i].info]
             A == Loads("operation", c.operations.preload)
             B == Queue("build", "operation", infos)
             C == Task("build", "transformers", NoOwner)
  <1>1. OperationTasks(c) = A \o B \o C
    BY DEF OperationTasks
  <1>2. IsList(items) /\ IsList(c.operations.preload)
    BY ConfigAssumption
  <1>3. IsList(infos) /\ \A o \in Elements(items) : o.info \in Elements(infos)
    <2>1. infos \in [DOMAIN items -> Elements(infos)]
      BY DEF Elements
    <2>2. \A o \in Elements(items) : o.info \in Elements(infos)
      BY DEF Elements
    <2> HIDE DEF infos
    <2> QED
      BY <1>2, <2>1, <2>2, Mapped
  <1> HIDE DEF infos
  <1>4. Ranked(A, 1, 1)
    BY <1>2, LoadsRanked
  <1>5. Ranked(B, 2, 2)
    <2>1. \A x : Rank(ToDo("build", "operation", x)) = 2
      BY Fields, RankOf
    <2>2. Phase(2) = "build"
      BY DEF Phase
    <2> QED
      BY <1>3, <2>1, <2>2, QueueRanked
  <1>6. Ranked(C, 3, 3)
    <2>1. Rank(ToDo("build", "transformers", NoOwner)) = 3
      BY Fields, RankOf
    <2>2. Phase(3) = "build"
      BY DEF Phase
    <2> QED
      BY <2>1, <2>2, TaskRanked
  <1>7. \A t \in Elements(A) : Loading(t) /\ t.do = "load"
    BY <1>2, LoadsLoad DEF LoadKinds
  <1>8. \A x \in Elements(c.operations.preload) : LoadTask("operation", x) \in Elements(A)
    BY <1>2, LoadsAre
  <1>9. \A t : t \in Elements(B) <=> \E x \in Elements(infos) : t = ToDo("build", "operation", x)
    BY <1>3, Queued
  <1>10. \A t \in Elements(C) : t = ToDo("build", "transformers", NoOwner)
    BY OneTask
  <1> HIDE DEF A, B, C
  <1>11. Ranked(A \o B, 1, 2) /\ Elements(A \o B) = Elements(A) \cup Elements(B)
    BY <1>4, <1>5, InRow
  <1>12. Ranked(A \o B \o C, 1, 3) /\ Elements(A \o B \o C) = Elements(A) \cup Elements(B) \cup Elements(C)
    BY <1>6, <1>11, InRow
  <1>13. \A t \in Elements(A) \cup Elements(B) \cup Elements(C) :
           (Loading(t) /\ t.do = "load") \/ t.do \in {"operation", "transformers"}
    BY <1>7, <1>9, <1>10, Fields
  <1> QED
    BY <1>1, <1>3, <1>8, <1>9, <1>12, <1>13 DEF ShapeOf

\* The tasks for containers.
LEMMA ContainerTasksAre ==
  ASSUME NEW c \in Configs
  PROVE  /\ Ranked(ContainerTasks(c), 4, 6)
         /\ \A t \in Elements(ContainerTasks(c)) : ShapeOf(c, t)
         /\ \A k \in Elements(c.containers.preload) :
              LoadTask("container", k.type) \in Elements(ContainerTasks(c))
         /\ \A k \in Elements(c.containers.precreate) :
              ToDo("build", "container", k.info) \in Elements(ContainerTasks(c))
  <1> DEFINE p == c.containers.preload
             q == c.containers.precreate
             inside(k) == [i \in DOMAIN k.operations |-> Joined(k.type, k.operations[i])]
             LoadOne(k) == Loads("container", <<k.type>>) \o Loads("containerOperation", inside(k))
             members(k) == [i \in DOMAIN k.operations |->
                              [type |-> k.info.typeName, info |-> k.operations[i].info]]
             CreateOne(k) == Task("build", "container", k.info) \o Queue("build", "member", members(k))
             g == [i \in DOMAIN p |-> LoadOne(p[i])]
             h == [i \in DOMAIN q |-> CreateOne(q[i])]
             A == FlattenSeq(g)
             B == FlattenSeq(h)
             C == Queue("build", "transformation", c.containers.transformation)
  <1>1. ContainerTasks(c) = A \o B \o C
    BY DEF ContainerTasks, Each
  <1>2. /\ IsList(p) /\ IsList(q) /\ IsList(c.containers.transformation)
        /\ \A k \in Elements(p) : IsList(k.operations)
        /\ \A k \in Elements(q) : IsList(k.operations)
    BY ConfigAssumption
  <1>3. /\ DOMAIN p = 1..Len(p) /\ \A k : k \in Elements(p) <=> \E i \in 1..Len(p) : k = p[i]
        /\ DOMAIN q = 1..Len(q) /\ \A k : k \in Elements(q) <=> \E i \in 1..Len(q) : k = q[i]
    BY <1>2, Indexes
  <1>4. /\ DOMAIN g = DOMAIN p /\ g = [i \in DOMAIN p |-> g[i]] /\ \A i \in 1..Len(p) : g[i] = LoadOne(p[i])
        /\ DOMAIN h = DOMAIN q /\ h = [i \in DOMAIN q |-> h[i]] /\ \A i \in 1..Len(q) : h[i] = CreateOne(q[i])
    BY <1>3
  <1> HIDE DEF g, h, p, q
  <1>5. ASSUME NEW k \in Elements(p)
        PROVE  /\ Ranked(LoadOne(k), 4, 4)
               /\ \A t \in Elements(LoadOne(k)) : Loading(t)
               /\ LoadTask("container", k.type) \in Elements(LoadOne(k))
    <2>1. IsList(inside(k))
      <3>1. inside(k) \in [DOMAIN k.operations -> Elements(inside(k))]
        BY DEF Elements
      <3> HIDE DEF inside
      <3> QED
        BY <1>2, <3>1, Mapped
    <2> HIDE DEF inside
    <2>2. IsList(<<k.type>>) /\ \A x : x \in Elements(<<k.type>>) <=> x = k.type
      BY Single
    <2> DEFINE U == Loads("container", <<k.type>>)
               V == Loads("containerOperation", inside(k))
    <2>3. Ranked(U, 4, 4) /\ Ranked(V, 4, 4)
      BY <2>1, <2>2, LoadsRanked
    <2>4. LoadTask("container", k.type) \in Elements(U) /\ \A t \in Elements(U) : Loading(t)
      BY <2>2, LoadsAre, LoadsLoad DEF LoadKinds
    <2>5. \A t \in Elements(V) : Loading(t)
      BY <2>1, LoadsLoad DEF LoadKinds
    <2> HIDE DEF U, V
    <2>6. Ranked(U \o V, 4, 4) /\ Elements(U \o V) = Elements(U) \cup Elements(V)
      BY <2>3, InRow
    <2> QED
      BY <2>4, <2>5, <2>6 DEF U, V
  <1>6. ASSUME NEW k \in Elements(q)
        PROVE  /\ Ranked(CreateOne(k), 5, 5)
               /\ \A t \in Elements(CreateOne(k)) : t.do = "member" \/ t = ToDo("build", "container", k.info)
               /\ ToDo("build", "container", k.info) \in Elements(CreateOne(k))
    <2>1. IsList(members(k))
      <3>1. members(k) \in [DOMAIN k.operations -> Elements(members(k))]
        BY DEF Elements
      <3> HIDE DEF members
      <3> QED
        BY <1>2, <3>1, Mapped
    <2> HIDE DEF members
    <2> DEFINE U == Task("build", "container", k.info)
               V == Queue("build", "member", members(k))
    <2>2. Phase(5) = "build"
      BY DEF Phase
    <2>3. \A x : Rank(ToDo("build", "container", x)) = 5 /\ Rank(ToDo("build", "member", x)) = 5
      BY Fields, RankOf
    <2>4. Ranked(U, 5, 5)
      BY <2>2, <2>3, TaskRanked
    <2>5. Ranked(V, 5, 5)
      BY <2>1, <2>2, <2>3, QueueRanked
    <2>6. \A t : t \in Elements(U) <=> t = ToDo("build", "container", k.info)
      BY OneTask
    <2>7. \A t \in Elements(V) : t.do = "member"
      BY <2>1, Queued, Fields
    <2> HIDE DEF U, V
    <2>8. Ranked(U \o V, 5, 5) /\ Elements(U \o V) = Elements(U) \cup Elements(V)
      BY <2>4, <2>5, InRow
    <2> QED
      BY <2>6, <2>7, <2>8 DEF U, V
  <1> HIDE DEF LoadOne, CreateOne
  <1>7. IsList(A) /\ \A t : t \in Elements(A) <=> \E i \in 1..Len(p) : t \in Elements(g[i])
    <2>1. \A i \in 1..Len(p) : IsList(g[i])
      BY <1>3, <1>4, <1>5 DEF Ranked
    <2> QED
      BY <1>2, <1>4, <2>1, EachSome
  <1>8. IsList(B) /\ \A t : t \in Elements(B) <=> \E i \in 1..Len(q) : t \in Elements(h[i])
    <2>1. \A i \in 1..Len(q) : IsList(h[i])
      BY <1>3, <1>4, <1>6 DEF Ranked
    <2> QED
      BY <1>2, <1>4, <2>1, EachSome
  <1> HIDE DEF A, B
  <1>9. Ranked(A, 4, 4) /\ \A t \in Elements(A) : Loading(t)
    <2>1. \A t \in Elements(A) : Rank(t) \in 4..4 /\ Loading(t) /\ t.phase = Phase(Rank(t))
      BY <1>3, <1>4, <1>5, <1>7 DEF Ranked, Known
    <2>2. \A t \in Elements(A) : Rank(t) = 4 /\ t.phase = Phase(4)
      BY <2>1
    <2> QED
      BY <1>7, <2>1, <2>2, OneRank
  <1>10. Ranked(B, 5, 5)
    <2>1. \A t \in Elements(B) : Rank(t) \in 5..5 /\ t.phase = Phase(Rank(t))
      BY <1>3, <1>4, <1>6, <1>8 DEF Ranked, Known
    <2>2. \A t \in Elements(B) : Rank(t) = 5 /\ t.phase = Phase(5)
      BY <2>1
    <2> QED
      BY <1>8, <2>2, OneRank
  <1>11. /\ \A t \in Elements(B) : t.do = "member" \/ \E k \in Elements(q) : t = ToDo("build", "container", k.info)
         /\ \A k \in Elements(q) : ToDo("build", "container", k.info) \in Elements(B)
         /\ \A k \in Elements(p) : LoadTask("container", k.type) \in Elements(A)
    BY <1>3, <1>4, <1>5, <1>6, <1>7, <1>8
  <1>12. Ranked(C, 6, 6) /\ \A t \in Elements(C) : t.do = "transformation"
    <2>1. \A x : Rank(ToDo("build", "transformation", x)) = 6
      BY Fields, RankOf
    <2>2. Phase(6) = "build"
      BY DEF Phase
    <2> QED
      BY <1>2, <2>1, <2>2, QueueRanked, Queued, Fields
  <1> HIDE DEF C
  <1>13. Ranked(A \o B, 4, 5) /\ Elements(A \o B) = Elements(A) \cup Elements(B)
    BY <1>9, <1>10, InRow
  <1>14. Ranked(A \o B \o C, 4, 6) /\ Elements(A \o B \o C) = Elements(A) \cup Elements(B) \cup Elements(C)
    BY <1>12, <1>13, InRow
  <1>15. \A t \in Elements(A) \cup Elements(B) \cup Elements(C) :
           \/ Loading(t) /\ t.do = "load"
           \/ t.do \in {"member", "transformation"}
           \/ t.do = "container" /\ \E k \in Elements(q) : t.arg = k.info
    BY <1>9, <1>11, <1>12, Fields DEF Loading
  <1> QED
    BY <1>1, <1>11, <1>14, <1>15 DEF ShapeOf, p, q

\* The ranks of what is in queues, and their phases.
LEMMA Ranks ==
  /\ \A x : /\ Rank(ToDo("build", "fsm", x)) = 7 /\ Rank(ToDo("build", "ec", x)) = 9
            /\ Rank(ToDo("build", "bindEC", x)) = 10 /\ Rank(ToDo("build", "anchor", x)) = 11
            /\ Rank(ToDo("build", "broker", x)) = 13 /\ Rank(ToDo("build", "bindState", x)) = 14
            /\ Rank(ToDo("build", "bindFSM", x)) = 15 /\ Rank(ToDo("build", "launch", x)) = 16
            /\ Rank(ToDo("build", "await", x)) = 17 /\ Rank(ToDo("connections", "connect", x)) = 18
            /\ Rank(ToDo("topics", "topic", x)) = 19 /\ Rank(ToDo("callbacks", "call", x)) = 20
  /\ \A r \in 1..17 : Phase(r) = "build"
  /\ Phase(18) = "connections" /\ Phase(19) = "topics" /\ Phase(20) = "callbacks"
  <1>1. \A x : /\ Rank(ToDo("build", "fsm", x)) = 7 /\ Rank(ToDo("build", "ec", x)) = 9
               /\ Rank(ToDo("build", "bindEC", x)) = 10 /\ Rank(ToDo("build", "anchor", x)) = 11
               /\ Rank(ToDo("build", "broker", x)) = 13 /\ Rank(ToDo("build", "bindState", x)) = 14
               /\ Rank(ToDo("build", "bindFSM", x)) = 15 /\ Rank(ToDo("build", "launch", x)) = 16
               /\ Rank(ToDo("build", "await", x)) = 17 /\ Rank(ToDo("connections", "connect", x)) = 18
               /\ Rank(ToDo("topics", "topic", x)) = 19 /\ Rank(ToDo("callbacks", "call", x)) = 20
    BY Fields, RankOf
  <1>2. (\A r \in 1..17 : Phase(r) = "build")
        /\ Phase(18) = "connections" /\ Phase(19) = "topics" /\ Phase(20) = "callbacks"
    BY DEF Phase
  <1> QED
    BY <1>1, <1>2

\* The tasks for FSMs: one creates each, in a row.
LEMMA FSMTasksAre ==
  ASSUME NEW c \in Configs
  PROVE  /\ Ranked(FSMTasks(c), 7, 7)
         /\ \A t \in Elements(FSMTasks(c)) : ShapeOf(c, t)
         /\ \A f \in Elements(c.fsms.precreate) : ToDo("build", "fsm", f) \in Elements(FSMTasks(c))
  <1>1. IsList(c.fsms.precreate)
    BY ConfigAssumption
  <1>2. Ranked(FSMTasks(c), 7, 7)
    BY <1>1, Ranks, QueueRanked DEF FSMTasks
  <1>3. \A t : t \in Elements(FSMTasks(c)) <=> \E x \in Elements(c.fsms.precreate) : t = ToDo("build", "fsm", x)
    BY <1>1, Queued DEF FSMTasks
  <1> QED
    BY <1>2, <1>3, Fields DEF ShapeOf

\* The tasks for ECs: their factories, the ECs and their binds.
LEMMA ECTasksAre ==
  ASSUME NEW c \in Configs
  PROVE  /\ Ranked(ECTasks(c), 8, 10)
         /\ \A t \in Elements(ECTasks(c)) : ShapeOf(c, t)
         /\ \A e \in Elements(c.ecs.precreate) : ToDo("build", "ec", e) \in Elements(ECTasks(c))
  <1> DEFINE A == Loads("ec", c.ecs.preload)
             B == Queue("build", "ec", c.ecs.precreate)
             C == Queue("build", "bindEC", c.ecs.bind)
  <1>1. IsList(c.ecs.preload) /\ IsList(c.ecs.precreate) /\ IsList(c.ecs.bind)
    BY ConfigAssumption
  <1>2. Ranked(A, 8, 8) /\ Ranked(B, 9, 9) /\ Ranked(C, 10, 10)
    BY <1>1, Ranks, LoadsRanked, QueueRanked
  <1>3. /\ \A t \in Elements(A) : Loading(t) /\ t.do = "load"
        /\ \A t : t \in Elements(B) <=> \E x \in Elements(c.ecs.precreate) : t = ToDo("build", "ec", x)
        /\ \A t : t \in Elements(C) <=> \E x \in Elements(c.ecs.bind) : t = ToDo("build", "bindEC", x)
    BY <1>1, LoadsLoad, Queued, Fields DEF LoadKinds
  <1>4. ECTasks(c) = A \o B \o C
    BY DEF ECTasks
  <1> HIDE DEF A, B, C
  <1>5. Ranked(A \o B, 8, 9) /\ Elements(A \o B) = Elements(A) \cup Elements(B)
    BY <1>2, InRow
  <1>6. Ranked(A \o B \o C, 8, 10) /\ Elements(A \o B \o C) = Elements(A) \cup Elements(B) \cup Elements(C)
    BY <1>2, <1>5, InRow, SMTT(20)
  <1> QED
    BY <1>3, <1>4, <1>6, Fields DEF ShapeOf

\* The tasks for anchors, which are created in one row.
LEMMA AnchorTasksAre ==
  ASSUME NEW c \in Configs
  PROVE  /\ Ranked(AnchorTasks(c), 11, 11)
         /\ \A t \in Elements(AnchorTasks(c)) : ShapeOf(c, t)
  <1>1. IsList(c.anchors)
    BY ConfigAssumption
  <1>2. Ranked(AnchorTasks(c), 11, 11)
    BY <1>1, Ranks, QueueRanked DEF AnchorTasks
  <1>3. \A t \in Elements(AnchorTasks(c)) : \E x \in Elements(c.anchors) : t = ToDo("build", "anchor", x)
    BY <1>1, Queued DEF AnchorTasks
  <1> QED
    BY <1>2, <1>3, Fields DEF ShapeOf

\* The tasks for brokers: their factories and the brokers.
LEMMA BrokerTasksAre ==
  ASSUME NEW c \in Configs
  PROVE  /\ Ranked(BrokerTasks(c), 12, 13)
         /\ \A t \in Elements(BrokerTasks(c)) : ShapeOf(c, t)
  <1> DEFINE A == Loads("broker", c.brokers.preload)
             B == Queue("build", "broker", c.brokers.precreate)
  <1>1. IsList(c.brokers.preload) /\ IsList(c.brokers.precreate)
    BY ConfigAssumption
  <1>2. Ranked(A, 12, 12) /\ Ranked(B, 13, 13)
    BY <1>1, Ranks, LoadsRanked, QueueRanked
  <1>3. \A t \in Elements(A) \cup Elements(B) : (Loading(t) /\ t.do = "load") \/ t.do = "broker"
    BY <1>1, LoadsLoad, Queued, Fields DEF LoadKinds
  <1>4. BrokerTasks(c) = A \o B
    BY DEF BrokerTasks
  <1> HIDE DEF A, B
  <1>5. Ranked(A \o B, 12, 13) /\ Elements(A \o B) = Elements(A) \cup Elements(B)
    BY <1>2, InRow
  <1> QED
    BY <1>3, <1>4, <1>5 DEF ShapeOf

\* The tasks that bind the states of FSMs.
StateTask(f, s, b) == ToDo("build", "bindState", [fsm |-> f.name, state |-> s.name, target |-> b])

\* The tasks that bind states: one for each target of a state with a name, and
\* those of the list of binds.
LEMMA FSMBindTasksAre ==
  ASSUME NEW c \in Configs
  PROVE  /\ Ranked(FSMBindTasks(c), 14, 15)
         /\ \A t \in Elements(FSMBindTasks(c)) : ShapeOf(c, t)
         /\ \A f \in Elements(c.fsms.precreate) : \A s \in Elements(f.states) : \A b \in Elements(s.bind) :
              s.name # NotText => StateTask(f, s, b) \in Elements(FSMBindTasks(c))
  <1> DEFINE p == c.fsms.precreate
             nameless(f) == Task("build", "bindState", [fsm |-> f.name, state |-> NotText, target |-> NotText])
             targets(f, s) == [i \in DOMAIN s.bind |-> [fsm |-> f.name, state |-> s.name, target |-> s.bind[i]]]
             OfState(f, s) == IF s.name = NotText THEN nameless(f) ELSE Queue("build", "bindState", targets(f, s))
             G(f) == [i \in DOMAIN f.states |-> OfState(f, f.states[i])]
             h == [i \in DOMAIN p |-> FlattenSeq(G(p[i]))]
             A == FlattenSeq(h)
             B == Queue("build", "bindFSM", c.fsms.bind)
  <1>1. FSMBindTasks(c) = A \o B
    BY DEF FSMBindTasks, Each
  <1>2. /\ IsList(p) /\ IsList(c.fsms.bind)
        /\ \A f \in Elements(p) : IsList(f.states) /\ \A s \in Elements(f.states) : IsList(s.bind)
    BY ConfigAssumption
  <1>3. DOMAIN p = 1..Len(p) /\ \A f : f \in Elements(p) <=> \E i \in 1..Len(p) : f = p[i]
    BY <1>2, Indexes
  <1>4. DOMAIN h = DOMAIN p /\ h = [i \in DOMAIN p |-> h[i]] /\ \A i \in 1..Len(p) : h[i] = FlattenSeq(G(p[i]))
    BY <1>3
  <1> HIDE DEF h, p
  <1>5. ASSUME NEW f \in Elements(p), NEW s \in Elements(f.states)
        PROVE  /\ Ranked(OfState(f, s), 14, 14) /\ \A t \in Elements(OfState(f, s)) : t.do = "bindState"
               /\ s.name # NotText => \A b \in Elements(s.bind) : StateTask(f, s, b) \in Elements(OfState(f, s))
    <2>1. IsList(targets(f, s)) /\ \A b \in Elements(s.bind) :
                                     [fsm |-> f.name, state |-> s.name, target |-> b] \in Elements(targets(f, s))
      <3>1. targets(f, s) \in [DOMAIN s.bind -> Elements(targets(f, s))]
        BY DEF Elements
      <3>2. \A b \in Elements(s.bind) : [fsm |-> f.name, state |-> s.name, target |-> b] \in Elements(targets(f, s))
        BY DEF Elements
      <3> HIDE DEF targets
      <3> QED
        BY <1>2, <3>1, <3>2, Mapped
    <2> HIDE DEF targets
    <2>2. Ranked(nameless(f), 14, 14) /\ \A t \in Elements(nameless(f)) : t.do = "bindState"
      BY Ranks, TaskRanked, OneTask, Fields
    <2> DEFINE Q == Queue("build", "bindState", targets(f, s))
    <2>3. Ranked(Q, 14, 14) /\ \A t \in Elements(Q) : t.do = "bindState"
      BY <2>1, Ranks, QueueRanked, Queued, Fields
    <2>4. \A b \in Elements(s.bind) : StateTask(f, s, b) \in Elements(Q)
      BY <2>1, Queued DEF StateTask
    <2> HIDE DEF nameless
    <2> QED
      BY <2>2, <2>3, <2>4
  <1> HIDE DEF OfState
  <1>6. ASSUME NEW f \in Elements(p)
        PROVE  /\ IsList(FlattenSeq(G(f)))
               /\ \A t : t \in Elements(FlattenSeq(G(f))) <=> \E s \in Elements(f.states) : t \in Elements(OfState(f, s))
    <2>1. /\ IsList(f.states) /\ DOMAIN f.states = 1..Len(f.states)
          /\ \A s : s \in Elements(f.states) <=> \E i \in 1..Len(f.states) : s = f.states[i]
      BY <1>2, Indexes
    <2> DEFINE g == G(f)
    <2>2. /\ DOMAIN g = DOMAIN f.states /\ g = [i \in DOMAIN f.states |-> g[i]]
          /\ \A i \in 1..Len(f.states) : g[i] = OfState(f, f.states[i])
      BY <2>1
    <2>3. \A i \in 1..Len(f.states) : IsList(g[i])
      BY <1>5, <2>1, <2>2 DEF Ranked
    <2> HIDE DEF g
    <2>4. /\ IsList(FlattenSeq(g))
          /\ \A t : t \in Elements(FlattenSeq(g)) <=> \E i \in 1..Len(f.states) : t \in Elements(g[i])
      BY <2>1, <2>2, <2>3, EachSome
    <2>5. /\ IsList(FlattenSeq(g))
          /\ \A t : t \in Elements(FlattenSeq(g)) <=> \E s \in Elements(f.states) : t \in Elements(OfState(f, s))
      <3>1. ASSUME NEW t, NEW i \in 1..Len(f.states), t \in Elements(g[i])
            PROVE  \E s \in Elements(f.states) : t \in Elements(OfState(f, s))
        <4>1. g[i] = OfState(f, f.states[i]) /\ f.states[i] \in Elements(f.states)
          BY <2>1, <2>2
        <4> QED
          BY <3>1, <4>1
      <3>2. ASSUME NEW t, NEW s \in Elements(f.states), t \in Elements(OfState(f, s))
            PROVE  \E i \in 1..Len(f.states) : t \in Elements(g[i])
        <4>1. PICK i \in 1..Len(f.states) : s = f.states[i]
          BY <2>1
        <4>2. g[i] = OfState(f, s)
          BY <2>2, <4>1
        <4> QED
          BY <3>2, <4>2
      <3> QED
        BY <2>4, <3>1, <3>2
    <2> QED
      BY <2>5 DEF g
  <1> HIDE DEF G
  <1>7. IsList(A) /\ \A t : t \in Elements(A) <=> \E i \in 1..Len(p) : t \in Elements(h[i])
    <2>1. \A i \in 1..Len(p) : IsList(h[i])
      BY <1>3, <1>4, <1>6
    <2> QED
      BY <1>2, <1>4, <2>1, EachSome
  <1> HIDE DEF A
  <1>8. \A t : t \in Elements(A) <=> \E f \in Elements(p) : \E s \in Elements(f.states) : t \in Elements(OfState(f, s))
    BY <1>3, <1>4, <1>6, <1>7
  <1>9. Ranked(A, 14, 14)
    <2>1. \A t \in Elements(A) : Rank(t) \in 14..14 /\ t.phase = Phase(Rank(t))
      BY <1>5, <1>8 DEF Ranked, Known
    <2>2. \A t \in Elements(A) : Rank(t) = 14 /\ t.phase = Phase(14)
      BY <2>1
    <2> QED
      BY <1>7, <2>2, OneRank
  <1>10. Ranked(B, 15, 15) /\ \A t \in Elements(B) : \E b \in Elements(c.fsms.bind) : t = ToDo("build", "bindFSM", b)
    BY <1>2, Ranks, QueueRanked, Queued
  <1> HIDE DEF B
  <1>11. Ranked(A \o B, 14, 15) /\ Elements(A \o B) = Elements(A) \cup Elements(B)
    BY <1>9, <1>10, InRow
  <1>12. \A t \in Elements(A) : t.do = "bindState"
    BY <1>5, <1>8
  <1>13. \A f \in Elements(p) : \A s \in Elements(f.states) : \A b \in Elements(s.bind) :
           s.name # NotText => StateTask(f, s, b) \in Elements(A)
    BY <1>5, <1>8
  <1> QED
    BY <1>1, <1>10, <1>11, <1>12, <1>13, Fields DEF ShapeOf, p

\* The tasks of the last phases, each of which is one rank.
LEMMA ConnectionTasksAre ==
  ASSUME NEW c \in Configs
  PROVE  /\ Ranked(ConnectionTasks(c), 18, 18)
         /\ \A t \in Elements(ConnectionTasks(c)) : ShapeOf(c, t)
         /\ \A t \in Elements(ConnectionTasks(c)) : t.do = "connect"
         /\ \A w \in Elements(c.connections) : ToDo("connections", "connect", w) \in Elements(ConnectionTasks(c))
  <1>1. IsList(c.connections)
    BY ConfigAssumption
  <1>2. Ranked(ConnectionTasks(c), 18, 18)
    BY <1>1, Ranks, QueueRanked DEF ConnectionTasks
  <1>3. \A t : t \in Elements(ConnectionTasks(c)) <=> \E x \in Elements(c.connections) : t = ToDo("connections", "connect", x)
    BY <1>1, Queued DEF ConnectionTasks
  <1> QED
    BY <1>2, <1>3, Fields DEF ShapeOf
IsTopic(a) == \E full, x : a = Published(full, x) \/ a = Subscribed(full, x)
ForTopic(t) == t.do = "topic" /\ (t.arg = NotText \/ IsTopic(t.arg))

\* The topic tasks of an operation: of those it publishes and those it subscribes.
LEMMA TopicsOfAre ==
  ASSUME NEW full, NEW o, IsList(o.publish), IsList(o.subscribe)
  PROVE  Ranked(TopicsOf(full, o), 19, 19) /\ \A t \in Elements(TopicsOf(full, o)) : ForTopic(t)
  <1> DEFINE out == [i \in DOMAIN o.publish |-> Published(full, o.publish[i])]
             in == [i \in DOMAIN o.subscribe |-> Subscribed(full, o.subscribe[i])]
             A == Queue("topics", "topic", out)
             B == Queue("topics", "topic", in)
  <1>1. TopicsOf(full, o) = A \o B
    BY DEF TopicsOf
  <1>2. IsList(out) /\ IsList(in) /\ \A x \in Elements(out) \cup Elements(in) : IsTopic(x)
    <2>2. \A x \in Elements(out) : IsTopic(x)
      BY DEF Elements, IsTopic
    <2>3. \A x \in Elements(in) : IsTopic(x)
      BY DEF Elements, IsTopic
    <2>1. out \in [DOMAIN o.publish -> Elements(out)] /\ in \in [DOMAIN o.subscribe -> Elements(in)]
      BY DEF Elements
    <2> HIDE DEF out, in
    <2> QED
      BY <2>1, <2>2, <2>3, Mapped
  <1> HIDE DEF out, in
  <1>3. Ranked(A, 19, 19) /\ Ranked(B, 19, 19)
    BY <1>2, Ranks, QueueRanked
  <1>4. \A t \in Elements(A) \cup Elements(B) : ForTopic(t)
    BY <1>2, Queued, Fields DEF ForTopic
  <1> HIDE DEF A, B
  <1>5. Ranked(A \o B, 19, 19) /\ Elements(A \o B) = Elements(A) \cup Elements(B)
    BY <1>3, InRow
  <1> QED
    BY <1>1, <1>4, <1>5

\* The topic tasks of a configuration: each is for a topic, or throws.
LEMMA TopicTasksAre ==
  ASSUME NEW c \in Configs
  PROVE  /\ Ranked(TopicTasks(c), 19, 19)
         /\ \A t \in Elements(TopicTasks(c)) : ForTopic(t)
  <1> DEFINE p == c.operations.precreate
             q == c.containers.precreate
             Full(info) == IF "fullName" \in DOMAIN info THEN info.fullName ELSE Unnamed
             name(k) == CASE "fullName" \in DOMAIN k.info -> k.info.fullName
                          [] "instanceName" \in DOMAIN k.info /\ "fullName" \notin DOMAIN k.info
                               -> k.info.instanceName
                          [] OTHER -> NotText
             member(m) == IF "instanceName" \in DOMAIN m.info THEN m.info.instanceName ELSE NotText
             OfOperation(o) == TopicsOf(Full(o.info), o)
             OfMember(k, m) == IF NotText \in {name(k), member(m)} THEN Task("topics", "topic", NotText)
                               ELSE TopicsOf(<<name(k), member(m)>>, m)
             G(k) == [i \in DOMAIN k.operations |-> OfMember(k, k.operations[i])]
             g == [i \in DOMAIN p |-> OfOperation(p[i])]
             h == [i \in DOMAIN q |-> FlattenSeq(G(q[i]))]
             A == FlattenSeq(g)
             B == FlattenSeq(h)
  <1>1. TopicTasks(c) = A \o B
    BY DEF TopicTasks, Each
  <1>2. /\ IsList(p) /\ IsList(q)
        /\ \A o \in Elements(p) : IsList(o.publish) /\ IsList(o.subscribe)
        /\ \A k \in Elements(q) : IsList(k.operations)
                                  /\ \A m \in Elements(k.operations) : IsList(m.publish) /\ IsList(m.subscribe)
    BY ConfigAssumption
  <1>3. /\ DOMAIN p = 1..Len(p) /\ \A k : k \in Elements(p) <=> \E i \in 1..Len(p) : k = p[i]
        /\ DOMAIN q = 1..Len(q) /\ \A k : k \in Elements(q) <=> \E i \in 1..Len(q) : k = q[i]
    BY <1>2, Indexes
  <1>4. /\ DOMAIN g = DOMAIN p /\ g = [i \in DOMAIN p |-> g[i]] /\ \A i \in 1..Len(p) : g[i] = OfOperation(p[i])
        /\ DOMAIN h = DOMAIN q /\ h = [i \in DOMAIN q |-> h[i]] /\ \A i \in 1..Len(q) : h[i] = FlattenSeq(G(q[i]))
    BY <1>3
  <1> HIDE DEF g, h, p, q
  <1> DEFINE Topics(s) == IsList(s) /\ \A t \in Elements(s) : Rank(t) = 19 /\ t.phase = Phase(19) /\ ForTopic(t)
  <1>5. ASSUME NEW s, Ranked(s, 19, 19), \A t \in Elements(s) : ForTopic(t) PROVE Topics(s)
    <2>1. \A t \in Elements(s) : Rank(t) \in 19..19 /\ t.phase = Phase(Rank(t))
      BY <1>5 DEF Ranked, Known
    <2>2. \A t \in Elements(s) : Rank(t) = 19 /\ t.phase = Phase(19)
      BY <2>1
    <2> QED
      BY <1>5, <2>2 DEF Ranked
  <1>6. \A o \in Elements(p) : Topics(OfOperation(o))
    <2> TAKE o \in Elements(p)
    <2>1. Ranked(OfOperation(o), 19, 19) /\ \A t \in Elements(OfOperation(o)) : ForTopic(t)
      BY <1>2, TopicsOfAre
    <2> HIDE DEF Topics, OfOperation
    <2> QED
      BY <1>5, <2>1
  <1>7. \A k \in Elements(q) : \A m \in Elements(k.operations) : Topics(OfMember(k, m))
    <2> TAKE k \in Elements(q)
    <2> TAKE m \in Elements(k.operations)
    <2>1. /\ Ranked(TopicsOf(<<name(k), member(m)>>, m), 19, 19)
          /\ \A t \in Elements(TopicsOf(<<name(k), member(m)>>, m)) : ForTopic(t)
      BY <1>2, TopicsOfAre
    <2>2. /\ Ranked(Task("topics", "topic", NotText), 19, 19)
          /\ \A t \in Elements(Task("topics", "topic", NotText)) : ForTopic(t)
      BY Ranks, TaskRanked, OneTask, Fields DEF ForTopic
    <2> HIDE DEF name, member
    <2>3. Ranked(OfMember(k, m), 19, 19) /\ \A t \in Elements(OfMember(k, m)) : ForTopic(t)
      BY <2>1, <2>2
    <2> HIDE DEF Topics, OfMember
    <2> QED
      BY <1>5, <2>3
  <1> HIDE DEF OfOperation, OfMember
  <1>8. \A k \in Elements(q) : Topics(FlattenSeq(G(k)))
    <2> TAKE k \in Elements(q)
    <2>1. /\ IsList(k.operations) /\ DOMAIN k.operations = 1..Len(k.operations)
          /\ \A s : s \in Elements(k.operations) <=> \E i \in 1..Len(k.operations) : s = k.operations[i]
      BY <1>2, Indexes
    <2> DEFINE r == G(k)
    <2>2. /\ DOMAIN r = DOMAIN k.operations /\ r = [i \in DOMAIN k.operations |-> r[i]]
          /\ \A i \in 1..Len(k.operations) : r[i] = OfMember(k, k.operations[i])
      BY <2>1
    <2> HIDE DEF r
    <2>3. \A i \in 1..Len(k.operations) : Topics(r[i])
      BY <1>7, <2>1, <2>2, SMTT(20)
    <2>4. \A i \in 1..Len(k.operations) : IsList(r[i])
      BY <2>3
    <2>5. /\ IsList(FlattenSeq(r))
          /\ \A t : t \in Elements(FlattenSeq(r)) <=> \E i \in 1..Len(k.operations) : t \in Elements(r[i])
      BY <2>1, <2>2, <2>4, EachSome
    <2>6. Topics(FlattenSeq(r))
      BY <2>3, <2>5
    <2> QED
      BY <2>6 DEF r
  <1> HIDE DEF G
  <1>9. \A i \in 1..Len(p) : Topics(g[i])
    BY <1>3, <1>4, <1>6
  <1>10. \A i \in 1..Len(q) : Topics(h[i])
    BY <1>3, <1>4, <1>8
  <1>11. IsList(A) /\ \A t : t \in Elements(A) <=> \E i \in 1..Len(p) : t \in Elements(g[i])
    BY <1>2, <1>4, <1>9, EachSome
  <1>12. IsList(B) /\ \A t : t \in Elements(B) <=> \E i \in 1..Len(q) : t \in Elements(h[i])
    BY <1>2, <1>4, <1>10, EachSome
  <1> HIDE DEF A, B
  <1>13. Topics(A)
    BY <1>9, <1>11
  <1>14. Topics(B)
    BY <1>10, <1>12
  <1>15. Ranked(A, 19, 19) /\ Ranked(B, 19, 19)
    BY <1>13, <1>14, OneRank
  <1>16. Ranked(A \o B, 19, 19) /\ Elements(A \o B) = Elements(A) \cup Elements(B)
    BY <1>15, InRow
  <1> QED
    BY <1>1, <1>13, <1>14, <1>16

\* The calls, which come last.
LEMMA CallbackTasksAre ==
  ASSUME NEW c \in Configs
  PROVE  /\ Ranked(CallbackTasks(c), 20, 20)
         /\ \A t \in Elements(CallbackTasks(c)) : ShapeOf(c, t)
  <1> DEFINE p == c.callbacks
             Callback(b) == IF b.name = "on_started" THEN Queue("callbacks", "call", b.target) ELSE <<>>
             g == [i \in DOMAIN p |-> Callback(p[i])]
             A == FlattenSeq(g)
  <1>1. CallbackTasks(c) = A
    BY DEF CallbackTasks, Each
  <1>2. IsList(p) /\ \A b \in Elements(p) : IsList(b.target)
    BY ConfigAssumption
  <1>3. DOMAIN p = 1..Len(p) /\ \A k : k \in Elements(p) <=> \E i \in 1..Len(p) : k = p[i]
    BY <1>2, Indexes
  <1>4. DOMAIN g = DOMAIN p /\ g = [i \in DOMAIN p |-> g[i]] /\ \A i \in 1..Len(p) : g[i] = Callback(p[i])
    BY <1>3
  <1> HIDE DEF g, p
  <1>5. \A b \in Elements(p) : IsList(Callback(b)) /\ \A t \in Elements(Callback(b)) : \E x : t = ToDo("callbacks", "call", x)
    <2> TAKE b \in Elements(p)
    <2>1. IsList(<<>>) /\ Elements(<<>>) = {}
      BY DEF IsList, Elements
    <2>2. /\ IsList(Queue("callbacks", "call", b.target))
          /\ \A t \in Elements(Queue("callbacks", "call", b.target)) : \E x : t = ToDo("callbacks", "call", x)
      BY <1>2, Queued
    <2> QED
      BY <2>1, <2>2
  <1> HIDE DEF Callback
  <1>6. \A i \in 1..Len(p) : IsList(g[i])
    BY <1>3, <1>4, <1>5
  <1>7. IsList(A) /\ \A t : t \in Elements(A) <=> \E i \in 1..Len(p) : t \in Elements(g[i])
    BY <1>2, <1>4, <1>6, EachSome
  <1> HIDE DEF A
  <1>8. \A t \in Elements(A) : \E x : t = ToDo("callbacks", "call", x)
    BY <1>3, <1>4, <1>5, <1>7
  <1>9. \A t \in Elements(A) : Rank(t) = 20 /\ t.phase = Phase(20) /\ t.do = "call"
    BY <1>8, Ranks, Fields
  <1> QED
    BY <1>1, <1>7, <1>9, OneRank DEF ShapeOf

\* What a configuration asks for is among the tasks.
Everything(c, S) ==
  /\ \A x \in Elements(c.operations.preload) : LoadTask("operation", x) \in S
  /\ \A o \in Elements(c.operations.precreate) : ToDo("build", "operation", o.info) \in S
  /\ \A k \in Elements(c.containers.preload) : LoadTask("container", k.type) \in S
  /\ \A k \in Elements(c.containers.precreate) : ToDo("build", "container", k.info) \in S
  /\ \A f \in Elements(c.fsms.precreate) : ToDo("build", "fsm", f) \in S
  /\ \A e \in Elements(c.ecs.precreate) : ToDo("build", "ec", e) \in S
  /\ \A f \in Elements(c.fsms.precreate) : \A s \in Elements(f.states) : \A b \in Elements(s.bind) :
       s.name # NotText => StateTask(f, s, b) \in S
  /\ ToDo("build", "launch", NoOwner) \in S
  /\ \A w \in Elements(c.connections) : ToDo("connections", "connect", w) \in S
  /\ \A t \in Elements(TopicTasks(c)) : t \in S

\* The tasks of the last ranks are of one kind each.
LateKinds(c, t) ==
  /\ Rank(t) = 16 => t = ToDo("build", "launch", NoOwner)
  /\ Rank(t) = 17 => t.do = "await"
  /\ Rank(t) = 18 => t.do = "connect"
  /\ Rank(t) = 19 => t \in Elements(TopicTasks(c))

\* The tasks of a configuration: in the order of their kinds, of the shapes their
\* kinds have, and all that it asks for.
LEMMA TasksAre ==
  ASSUME NEW c \in Configs
  PROVE  /\ Ranked(Tasks(c), 1, 20)
         /\ \A t \in Elements(Tasks(c)) : ShapeOf(c, t)
         /\ \A t \in Elements(Tasks(c)) : LateKinds(c, t)
         /\ Everything(c, Elements(Tasks(c)))
  <1> DEFINE launch == Task("build", "launch", NoOwner)
             await == Task("build", "await", NoOwner)
             S2 == OperationTasks(c) \o ContainerTasks(c)
             S3 == S2 \o FSMTasks(c)
             S4 == S3 \o ECTasks(c)
             S5 == S4 \o AnchorTasks(c)
             S6 == S5 \o BrokerTasks(c)
             S7 == S6 \o FSMBindTasks(c)
             S8 == S7 \o launch
             S9 == S8 \o await
             S10 == S9 \o ConnectionTasks(c)
             S11 == S10 \o TopicTasks(c)
             S12 == S11 \o CallbackTasks(c)
  <1>1. Tasks(c) = S12
    BY DEF Tasks
  <1>2. /\ Ranked(launch, 16, 16) /\ Ranked(await, 17, 17)
        /\ ToDo("build", "launch", NoOwner) \in Elements(launch)
        /\ \A t \in Elements(launch) \cup Elements(await) : t.do \in {"launch", "await"}
        /\ \A t \in Elements(launch) : t = ToDo("build", "launch", NoOwner)
        /\ \A t \in Elements(await) : t.do = "await"
    BY Ranks, TaskRanked, OneTask, Fields
  <1> HIDE DEF launch, await
  <1>3. Ranked(S2, 1, 6) /\ Elements(S2) = Elements(OperationTasks(c)) \cup Elements(ContainerTasks(c))
    BY OperationTasksAre, ContainerTasksAre, InRow
  <1> HIDE DEF S2
  <1>4. Ranked(S3, 1, 7) /\ Elements(S3) = Elements(S2) \cup Elements(FSMTasks(c))
    BY <1>3, FSMTasksAre, InRow
  <1> HIDE DEF S3
  <1>5. Ranked(S4, 1, 10) /\ Elements(S4) = Elements(S3) \cup Elements(ECTasks(c))
    BY <1>4, ECTasksAre, InRow
  <1> HIDE DEF S4
  <1>6. Ranked(S5, 1, 11) /\ Elements(S5) = Elements(S4) \cup Elements(AnchorTasks(c))
    BY <1>5, AnchorTasksAre, InRow
  <1> HIDE DEF S5
  <1>7. Ranked(S6, 1, 13) /\ Elements(S6) = Elements(S5) \cup Elements(BrokerTasks(c))
    BY <1>6, BrokerTasksAre, InRow
  <1> HIDE DEF S6
  <1>8. Ranked(S7, 1, 15) /\ Elements(S7) = Elements(S6) \cup Elements(FSMBindTasks(c))
    BY <1>7, FSMBindTasksAre, InRow
  <1> HIDE DEF S7
  <1>9. Ranked(S8, 1, 16) /\ Elements(S8) = Elements(S7) \cup Elements(launch)
    BY <1>2, <1>8, InRow
  <1> HIDE DEF S8
  <1>10. Ranked(S9, 1, 17) /\ Elements(S9) = Elements(S8) \cup Elements(await)
    BY <1>2, <1>9, InRow
  <1> HIDE DEF S9
  <1>11. Ranked(S10, 1, 18) /\ Elements(S10) = Elements(S9) \cup Elements(ConnectionTasks(c))
    BY <1>10, ConnectionTasksAre, InRow
  <1> HIDE DEF S10
  <1>12. Ranked(S11, 1, 19) /\ Elements(S11) = Elements(S10) \cup Elements(TopicTasks(c))
    BY <1>11, TopicTasksAre, InRow
  <1> HIDE DEF S11
  <1>13. Ranked(S12, 1, 20) /\ Elements(S12) = Elements(S11) \cup Elements(CallbackTasks(c))
    BY <1>12, CallbackTasksAre, InRow
  <1> HIDE DEF S12
  <1> DEFINE All == Elements(Tasks(c))
  <1>14. /\ Elements(OperationTasks(c)) \subseteq All /\ Elements(ContainerTasks(c)) \subseteq All
         /\ Elements(FSMTasks(c)) \subseteq All /\ Elements(ECTasks(c)) \subseteq All
         /\ Elements(FSMBindTasks(c)) \subseteq All /\ Elements(launch) \subseteq All
         /\ Elements(ConnectionTasks(c)) \subseteq All /\ Elements(TopicTasks(c)) \subseteq All
    BY <1>1, <1>3, <1>4, <1>5, <1>6, <1>7, <1>8, <1>9, <1>10, <1>11, <1>12, <1>13
  <1>15. \A t \in All : \/ t \in Elements(OperationTasks(c)) \/ t \in Elements(ContainerTasks(c))
                        \/ t \in Elements(FSMTasks(c)) \/ t \in Elements(ECTasks(c))
                        \/ t \in Elements(AnchorTasks(c)) \/ t \in Elements(BrokerTasks(c))
                        \/ t \in Elements(FSMBindTasks(c)) \/ t \in Elements(launch) \/ t \in Elements(await)
                        \/ t \in Elements(ConnectionTasks(c)) \/ t \in Elements(TopicTasks(c))
                        \/ t \in Elements(CallbackTasks(c))
    BY <1>1, <1>3, <1>4, <1>5, <1>6, <1>7, <1>8, <1>9, <1>10, <1>11, <1>12, <1>13
  <1> HIDE DEF All
  <1>16. \A t : t.do \in {"launch", "await"} \/ (t.do = "topic" /\ t \in Elements(TopicTasks(c))) => ShapeOf(c, t)
    BY DEF ShapeOf
  <1>17. \A t \in All : ShapeOf(c, t)
    BY <1>2, <1>15, <1>16, OperationTasksAre, ContainerTasksAre, FSMTasksAre, ECTasksAre, AnchorTasksAre,
       BrokerTasksAre, FSMBindTasksAre, ConnectionTasksAre, TopicTasksAre, CallbackTasksAre DEF ForTopic
  <1>18. Everything(c, All)
    BY <1>2, <1>14, OperationTasksAre, ContainerTasksAre, FSMTasksAre, ECTasksAre, FSMBindTasksAre,
       ConnectionTasksAre DEF Everything
  <1>19. ASSUME NEW t \in All
         PROVE  LateKinds(c, t)
    <2>1. /\ \A x \in Elements(S7) : Rank(x) \in 1..15
          /\ \A x \in Elements(launch) : Rank(x) \in 16..16
          /\ \A x \in Elements(await) : Rank(x) \in 17..17
          /\ \A x \in Elements(ConnectionTasks(c)) : Rank(x) \in 18..18
          /\ \A x \in Elements(TopicTasks(c)) : Rank(x) \in 19..19
          /\ \A x \in Elements(CallbackTasks(c)) : Rank(x) \in 20..20
      BY <1>2, <1>8, ConnectionTasksAre, TopicTasksAre, CallbackTasksAre DEF Ranked
    <2>2. \/ t \in Elements(S7) \/ t \in Elements(launch) \/ t \in Elements(await)
          \/ t \in Elements(ConnectionTasks(c)) \/ t \in Elements(TopicTasks(c))
          \/ t \in Elements(CallbackTasks(c))
      BY <1>1, <1>9, <1>10, <1>11, <1>12, <1>13, <1>19 DEF All
    <2>3. \A x \in Elements(ConnectionTasks(c)) : x.do = "connect"
      BY ConnectionTasksAre
    <2> QED
      BY <1>2, <2>1, <2>2, <2>3 DEF LateKinds
  <1> QED
    BY <1>1, <1>13, <1>17, <1>18, <1>19 DEF All

(***************************************************************************)
(* The store grows: what it has stays where it is.                         *)
(***************************************************************************)
Grown(s, t) == IsList(s) /\ IsList(t) /\ Len(s) <= Len(t) /\ \A i \in 1..Len(s) : t[i] = s[i]
HasPlain(s, n) ==
  \E i \in 1..Len(s) : s[i].cls = "operation" /\ s[i].name = n /\ s[i].owner = NoOwner
FSMMade(s, f) ==
  /\ Has(s, "container", f.name)
  /\ \A st \in Elements(f.states) : st.name # NotText /\ HasOp(s, Member(f.name, st.name))
ECMade(s, n) == Has(s, "container", n) /\ HasOp(s, Member(n, "started"))

\* A store that grows twice has grown; one that does not change has grown.
LEMMA GrownOn ==
  /\ \A s, t, u : Grown(s, t) /\ Grown(t, u) => Grown(s, u)
  /\ \A s : IsList(s) => Grown(s, s)
  <1>1. ASSUME NEW s, NEW t, NEW u, Grown(s, t), Grown(t, u) PROVE Grown(s, u)
    <2>1. Len(s) \in Nat /\ Len(t) \in Nat /\ Len(u) \in Nat
      BY <1>1, Indexes DEF Grown
    <2>2. \A i \in 1..Len(s) : i \in 1..Len(t)
      BY <1>1, <2>1 DEF Grown
    <2> QED
      BY <1>1, <2>1, <2>2 DEF Grown
  <1>2. ASSUME NEW s, IsList(s) PROVE Grown(s, s)
    BY <1>2, Indexes DEF Grown
  <1> QED
    BY <1>1, <1>2

\* What a store has, the store that has grown from it has.
LEMMA GrownHas ==
  ASSUME NEW s, NEW t, Grown(s, t)
  PROVE  /\ \A cls, n : Has(s, cls, n) => Has(t, cls, n)
         /\ \A n : HasPlain(s, n) => HasPlain(t, n)
         /\ \A c, n : Taken(s, c, n) => Taken(t, c, n)
         /\ \A f : FSMMade(s, f) => FSMMade(t, f)
         /\ \A n : ECMade(s, n) => ECMade(t, n)
         /\ Elements(s) \subseteq Elements(t)
         /\ \A n : HasPlain(s, n) => HasOp(s, n)
  <1>1. Len(s) \in Nat /\ Len(t) \in Nat /\ \A i \in 1..Len(s) : i \in 1..Len(t) /\ t[i] = s[i]
    BY Indexes DEF Grown
  <1>2. \A o : Listed(s, o) => Listed(t, o)
    BY <1>1 DEF Listed
  <1>3. \A cls, n : Has(s, cls, n) => Has(t, cls, n)
    BY <1>1, <1>2 DEF Has
  <1>4. \A n : HasPlain(s, n) => HasPlain(t, n)
    BY <1>1 DEF HasPlain
  <1>5. Elements(s) \subseteq Elements(t)
    <2>1. Elements(s) = {s[i] : i \in 1..Len(s)} /\ Elements(t) = {t[i] : i \in 1..Len(t)}
      BY Indexes DEF Grown
    <2> QED
      BY <1>1, <2>1
  <1>6. \A c, n : Taken(s, c, n) => Taken(t, c, n)
    BY <1>5 DEF Taken
  <1>7. \A n : HasPlain(s, n) => HasOp(s, n)
    BY DEF HasPlain, HasOp, Has, Listed
  <1> QED
    BY <1>3, <1>4, <1>5, <1>6, <1>7 DEF FSMMade, ECMade, HasOp

\* An object that is pushed, and one that is added if it may be.
LEMMA PushGrown ==
  ASSUME NEW s, IsList(s), NEW o
  PROVE  /\ Grown(s, Pushed(s, o)) /\ Grown(s, Added(s, o))
         /\ Elements(Pushed(s, o)) = Elements(s) \cup {o}
         /\ Elements(Added(s, o)) \subseteq Elements(s) \cup {o}
         /\ IsList(Pushed(s, o)) /\ IsList(Added(s, o))
         /\ o.owner = NoOwner /\ o.cls # "null" => Has(Added(s, o), o.cls, o.name)
  <1>1. /\ IsList(Append(s, o)) /\ Elements(Append(s, o)) = Elements(s) \cup {o}
        /\ Len(s) \in Nat /\ Len(Append(s, o)) = Len(s) + 1
        /\ \A i \in 1..Len(s) : Append(s, o)[i] = s[i]
        /\ Append(s, o)[Len(s) + 1] = o
    BY Appended
  <1>2. Grown(s, Append(s, o))
    BY <1>1 DEF Grown
  <1>3. Grown(s, s)
    BY GrownOn
  <1>4. o.owner = NoOwner => Has(Append(s, o), o.cls, o.name)
    <2>1. Len(s) + 1 \in 1..Len(Append(s, o))
      BY <1>1
    <2> QED
      BY <1>1, <2>1 DEF Has, Listed
  <1>5. o.cls # "null" => o # NullObject
    BY DEF NullObject, Object
  <1> QED
    BY <1>1, <1>2, <1>3, <1>4, <1>5 DEF Pushed, Added, MayAdd

\* A set of naturals that is not empty has a least.
LEMMA LeastOf ==
  ASSUME NEW S, S \subseteq Nat, S # {}
  PROVE  \E i \in S : \A j \in S : i <= j
  <1>1. IsWellFoundedOn(R, Nat)
    BY NatLessThanWellFounded, Zenon DEF OpToRel, R
  <1>2. PICK i \in S : \A j \in S : ~(<<j, i>> \in R)
    BY <1>1, WFMin
  <1>3. \A j \in S : j \in Nat /\ i \in Nat /\ ~(j < i)
    BY <1>2 DEF R
  <1>4. \A j \in S : i <= j
    BY <1>3
  <1> QED
    BY <1>4

\* What get finds, by the places of those of the name and of the process's own.
Places(s, cls, n) == {i \in 1..Len(s) : s[i].cls = cls /\ s[i].name = n /\ Listed(s, s[i])}
PlainPlaces(s, cls, n) == {i \in Places(s, cls, n) : s[i].owner = NoOwner}
FirstPlace(S) == CHOOSE i \in S : \A j \in S : i <= j

\* Get answers with the first plain object of the name, or else with the first owned.
LEMMA GetIs ==
  ASSUME NEW s, NEW cls, NEW n
  PROVE  Get(s, cls, n) = IF Places(s, cls, n) = {} THEN NullObject
                          ELSE IF PlainPlaces(s, cls, n) # {} THEN s[FirstPlace(PlainPlaces(s, cls, n))]
                          ELSE s[FirstPlace(Places(s, cls, n))]
  <1> DEFINE found == Places(s, cls, n)
             plain == PlainPlaces(s, cls, n)
  <1>1. Get(s, cls, n) = CASE found = {} -> NullObject
                           [] plain # {} -> s[FirstPlace(plain)]
                           [] found # {} /\ plain = {} -> s[FirstPlace(found)]
    BY Zenon DEF Get, Places, PlainPlaces, FirstPlace
  <1>2. found = {} => plain = {}
    BY DEF PlainPlaces
  <1> QED
    BY <1>1, <1>2

\* The operation of a name that is the process's own stays the one that is found.
LEMMA PlainGet ==
  ASSUME NEW s, NEW t, Grown(s, t), NEW n, HasPlain(s, n)
  PROVE  Get(t, "operation", n) = Get(s, "operation", n)
  <1> DEFINE F(u) == Places(u, "operation", n)
             P(u) == PlainPlaces(u, "operation", n)
  <1>1. Len(s) \in Nat /\ Len(t) \in Nat /\ \A i \in 1..Len(s) : i \in 1..Len(t) /\ t[i] = s[i]
    BY Indexes DEF Grown
  <1>2. P(s) \subseteq P(t) /\ P(t) \cap 1..Len(s) \subseteq P(s) /\ P(s) # {}
    BY <1>1 DEF HasPlain, Listed, Places, PlainPlaces
  <1>3. Get(s, "operation", n) = s[FirstPlace(P(s))] /\ Get(t, "operation", n) = t[FirstPlace(P(t))]
    <2>1. F(s) # {} /\ F(t) # {} /\ P(t) # {}
      BY <1>2 DEF PlainPlaces
    <2> QED
      BY <1>2, <2>1, GetIs
  <1>4. P(s) \subseteq 1..Len(s) /\ P(t) \subseteq 1..Len(t)
    BY DEF Places, PlainPlaces
  <1> HIDE DEF P, F
  <1>5. PICK m \in P(s) : \A j \in P(s) : m <= j
    BY <1>1, <1>2, <1>4, LeastOf
  <1>6. m \in P(t) /\ \A j \in P(t) : m <= j
    <2> SUFFICES ASSUME NEW j \in P(t) PROVE m <= j
      BY <1>2
    <2>1. m \in 1..Len(s) /\ j \in 1..Len(t)
      BY <1>4
    <2> QED
      BY <1>1, <1>2, <1>5, <2>1
  <1>7. FirstPlace(P(s)) = m
    <2>1. \A i \in P(s) : (\A j \in P(s) : i <= j) => i = m
      BY <1>4, <1>5
    <2> QED
      BY <1>5, <2>1 DEF FirstPlace
  <1>8. FirstPlace(P(t)) = m
    <2>1. \A i \in P(t) : (\A j \in P(t) : i <= j) => i = m
      BY <1>4, <1>6
    <2> QED
      BY <1>6, <2>1 DEF FirstPlace
  <1> QED
    BY <1>1, <1>3, <1>4, <1>5, <1>7, <1>8

\* An operation of the process's own that is added leaves every name that is taken
\* with the operation that has it, and is itself found by its name when that was free.
LEMMA AddedGet ==
  ASSUME NEW s, IsList(s), NEW type, NEW n, NEW m,
         NEW t, t = Added(s, Object("operation", type, n, NoOwner))
  PROVE  /\ HasOp(s, m) => Get(t, "operation", m) = Get(s, "operation", m)
         /\ ~HasOp(s, m) => Get(s, "operation", m) = NullObject
         /\ ~HasOp(s, m) /\ HasOp(t, m) => m = n /\ Get(t, "operation", m) = Object("operation", type, n, NoOwner)
  <1> DEFINE o == Object("operation", type, n, NoOwner)
             F(u) == Places(u, "operation", m)
             P(u) == PlainPlaces(u, "operation", m)
  <1>1. ~HasOp(s, m) => Get(s, "operation", m) = NullObject
    <2> SUFFICES ASSUME ~HasOp(s, m) PROVE Get(s, "operation", m) = NullObject
      OBVIOUS
    <2>1. F(s) = {}
      BY DEF HasOp, Has, Places
    <2> QED
      BY <2>1, GetIs
  <1>2. CASE t = s
    BY <1>1, <1>2
  <1>3. CASE t # s
    <2>1. t = Append(s, o) /\ ~HasOp(s, n)
      <3>1. MayAdd(s, o) /\ t = Pushed(s, o)
        BY <1>3 DEF Added
      <3>2. ~Has(s, o.cls, o.name) /\ o.cls = "operation" /\ o.name = n
        BY <3>1 DEF MayAdd, Object
      <3> QED
        BY <3>1, <3>2 DEF Pushed, HasOp
    <2>2. /\ Len(s) \in Nat /\ Len(t) = Len(s) + 1 /\ \A i \in 1..Len(s) : t[i] = s[i]
          /\ t[Len(s) + 1] = o
      BY <2>1, Appended
    <2>3. 1..Len(t) = 1..Len(s) \cup {Len(s) + 1} /\ ~(Len(s) + 1 \in 1..Len(s))
      BY <2>2
    <2>4. o.cls = "operation" /\ o.name = n /\ o.owner = NoOwner
      BY DEF Object
    <2> HIDE DEF o
    <2>5. \A i \in 1..Len(s) : Listed(t, s[i]) <=> Listed(s, s[i])
      BY <2>2, <2>3, <2>4 DEF Listed
    <2>6. Listed(t, o)
      BY <2>4 DEF Listed
    <2>7. F(t) = F(s) \cup {i \in {Len(s) + 1} : m = n}
      BY <2>2, <2>3, <2>4, <2>5, <2>6 DEF Places
    <2>8. F(s) # {} <=> HasOp(s, m)
      BY DEF HasOp, Has, Places
    <2>9. F(t) # {} <=> HasOp(t, m)
      BY DEF HasOp, Has, Places
    <2>10. ASSUME HasOp(s, m) PROVE Get(t, "operation", m) = Get(s, "operation", m)
      <3>1. m # n
        BY <2>1, <2>10
      <3>2. F(t) = F(s) /\ F(s) # {} /\ F(s) \subseteq 1..Len(s)
        <4>1. F(s) \subseteq 1..Len(s)
          BY DEF Places
        <4> HIDE DEF F
        <4> QED
          BY <2>7, <2>8, <2>10, <3>1, <4>1
      <3>3. P(t) = P(s) /\ P(s) \subseteq F(s)
        <4>1. \A i \in F(s) : t[i] = s[i]
          BY <2>2, <3>2
        <4> QED
          BY <3>2, <4>1 DEF PlainPlaces
      <3> HIDE DEF F, P
      <3>4. /\ P(s) # {} => FirstPlace(P(s)) \in 1..Len(s)
            /\ FirstPlace(F(s)) \in 1..Len(s)
        <4>1. \A S : S \subseteq 1..Len(s) /\ S # {} => FirstPlace(S) \in S
          <5> SUFFICES ASSUME NEW S, S \subseteq 1..Len(s), S # {} PROVE FirstPlace(S) \in S
            OBVIOUS
          <5>1. S \subseteq Nat
            OBVIOUS
          <5>2. \E i \in S : \A j \in S : i <= j
            BY <5>1, LeastOf
          <5> QED
            BY <5>2 DEF FirstPlace
        <4>2. P(s) \subseteq 1..Len(s)
          BY <3>2, <3>3
        <4>3. P(s) # {} => FirstPlace(P(s)) \in P(s)
          BY <4>1, <4>2
        <4>4. FirstPlace(F(s)) \in F(s)
          BY <3>2, <4>1
        <4> QED
          BY <3>2, <4>2, <4>3, <4>4
      <3>5. /\ Get(s, "operation", m) = IF P(s) # {} THEN s[FirstPlace(P(s))] ELSE s[FirstPlace(F(s))]
            /\ Get(t, "operation", m) = IF P(t) # {} THEN t[FirstPlace(P(t))] ELSE t[FirstPlace(F(t))]
        BY <3>2, GetIs DEF F, P
      <3> QED
        BY <2>2, <3>2, <3>3, <3>4, <3>5
    <2>11. ASSUME ~HasOp(s, m), HasOp(t, m) PROVE m = n /\ Get(t, "operation", m) = o
      <3>1. m = n /\ F(t) = {Len(s) + 1}
        BY <2>7, <2>8, <2>9, <2>11
      <3>2. P(t) = {Len(s) + 1}
        BY <2>2, <2>4, <3>1 DEF PlainPlaces
      <3>3. FirstPlace(P(t)) = Len(s) + 1
        <4> HIDE DEF P
        <4>1. FirstPlace({Len(s) + 1}) = Len(s) + 1
          BY <2>2 DEF FirstPlace
        <4> QED
          BY <3>2, <4>1
      <3>4. Get(t, "operation", m) = t[FirstPlace(P(t))]
        BY <3>1, <3>2, GetIs
      <3> QED
        BY <2>2, <3>1, <3>3, <3>4
    <2> QED
      BY <1>1, <2>10, <2>11 DEF o
  <1> QED
    BY <1>2, <1>3

\* What a store has, by its elements.
LEMMA HasAmong ==
  ASSUME NEW s, IsList(s)
  PROVE  /\ \A o : Listed(s, o) <=> \/ o.owner = NoOwner
                                    \/ \E x \in Elements(s) : x.cls = "container" /\ x.name = o.owner
         /\ \A cls, n : Has(s, cls, n) <=> \E o \in Elements(s) : o.cls = cls /\ o.name = n /\ Listed(s, o)
         /\ \A n : HasPlain(s, n) <=> \E o \in Elements(s) : o.cls = "operation" /\ o.name = n /\ o.owner = NoOwner
  <1>1. Elements(s) = {s[i] : i \in 1..Len(s)}
    BY Indexes
  <1>2. \A o : Listed(s, o) <=> \/ o.owner = NoOwner
                                \/ \E x \in Elements(s) : x.cls = "container" /\ x.name = o.owner
    BY <1>1 DEF Listed
  <1>3. \A cls, n : Has(s, cls, n) <=> \E o \in Elements(s) : o.cls = cls /\ o.name = n /\ Listed(s, o)
    BY <1>1 DEF Has
  <1>4. \A n : HasPlain(s, n) <=> \E o \in Elements(s) : o.cls = "operation" /\ o.name = n /\ o.owner = NoOwner
    BY <1>1 DEF HasPlain
  <1> QED
    BY <1>2, <1>3, <1>4

\* A container is there when it has been added, with its operations when it was new.
LEMMA ContainerAdded ==
  ASSUME NEW s, IsList(s), NEW type, NEW name, NEW ops, IsList(ops),
         NEW t, t = AddContainer(s, type, name, ops)
  PROVE  /\ Grown(s, t) /\ Has(t, "container", name)
         /\ \A o \in Elements(t) : o \in Elements(s) \/ o = Object("container", type, name, NoOwner)
                                   \/ (o.cls = "operation" /\ o.owner = name)
         /\ ~Has(s, "container", name) =>
              /\ Object("container", type, name, NoOwner) \in Elements(t)
              /\ \A o \in Elements(ops) : HasOp(t, Member(name, o[2]))
  <1> DEFINE c == Object("container", type, name, NoOwner)
             OpOf(o) == Object("operation", o[1], Member(name, o[2]), name)
             poses == << <<"container_get_pose", "get_pose">>, <<"container_set_pose", "set_pose">> >>
             all == poses \o ops
             g == [i \in DOMAIN all |-> OpOf(all[i])]
             u == Append(s, c)
  <1>1. c.cls = "container" /\ c.name = name /\ c.owner = NoOwner /\ c # NullObject
    BY DEF Object, NullObject
  <1>2. \A o : OpOf(o).cls = "operation" /\ OpOf(o).name = Member(name, o[2]) /\ OpOf(o).owner = name
    BY DEF Object
  <1>3. t = IF ~Has(s, "container", name) THEN u \o g ELSE s
    BY <1>1 DEF AddContainer, MayAdd, Pushed
  <1>4. IsList(poses)
    BY DEF IsList, Elements
  <1>5. IsList(all) /\ Elements(ops) \subseteq Elements(all)
    <2> HIDE DEF poses
    <2> QED
      BY <1>4, Joining
  <1>6. IsList(g) /\ \A o : o \in Elements(g) <=> \E x \in Elements(all) : o = OpOf(x)
    <2> HIDE DEF all, OpOf
    <2>1. g \in [DOMAIN all -> Elements(g)]
      BY DEF Elements
    <2>2. \A o : o \in Elements(g) <=> \E x \in Elements(all) : o = OpOf(x)
      BY DEF Elements
    <2> HIDE DEF g
    <2> QED
      BY <1>5, <2>1, <2>2, Mapped
  <1> HIDE DEF g, all, poses, OpOf, c
  <1>7. /\ IsList(u) /\ Elements(u) = Elements(s) \cup {c}
        /\ Len(s) \in Nat /\ Len(u) = Len(s) + 1 /\ \A i \in 1..Len(s) : u[i] = s[i]
    BY Appended
  <1> HIDE DEF u
  <1>8. /\ IsList(u \o g) /\ Elements(u \o g) = Elements(s) \cup {c} \cup Elements(g)
        /\ Len(u \o g) = Len(u) + Len(g) /\ Len(g) \in Nat
        /\ \A i \in 1..(Len(u) + Len(g)) : (u \o g)[i] = IF i <= Len(u) THEN u[i] ELSE g[i - Len(u)]
    BY <1>6, <1>7, Joining
  <1>9. Grown(s, u \o g)
    <2>1. \A i \in 1..Len(s) : i \in 1..(Len(u) + Len(g)) /\ i <= Len(u)
      BY <1>7, <1>8
    <2>2. \A i \in 1..Len(s) : (u \o g)[i] = s[i]
      BY <1>7, <1>8, <2>1
    <2> QED
      BY <1>7, <1>8, <2>2 DEF Grown
  <1>10. Has(u \o g, "container", name)
    BY <1>1, <1>8, HasAmong
  <1>11. \A x \in Elements(ops) : HasOp(u \o g, Member(name, x[2]))
    <2> TAKE x \in Elements(ops)
    <2>1. OpOf(x) \in Elements(u \o g) /\ c \in Elements(u \o g)
      BY <1>5, <1>6, <1>8
    <2>2. Listed(u \o g, OpOf(x))
      BY <1>1, <1>2, <1>8, <2>1, HasAmong
    <2> QED
      BY <1>2, <1>8, <2>1, <2>2, HasAmong DEF HasOp
  <1>12. \A o \in Elements(u \o g) : o \in Elements(s) \/ o = c \/ (o.cls = "operation" /\ o.owner = name)
    BY <1>2, <1>6, <1>8
  <1>13. Grown(s, s)
    BY GrownOn
  <1> QED
    BY <1>3, <1>8, <1>9, <1>10, <1>11, <1>12, <1>13 DEF c

(***************************************************************************)
(* Connections, one after the other.                                       *)
(***************************************************************************)
\* F is what ConnectedAll has after the first n of the wires.
ConRec(s, cs, ws, n, F) == F = [i \in 0..n |-> IF i = 0 THEN cs ELSE Connected(s, F[i - 1], ws[i])]

\* The halves after each of the first n wires exist as a function.
LEMMA ConExists ==
  ASSUME NEW s, NEW cs, NEW ws
  PROVE  \A n \in Nat : \E F : ConRec(s, cs, ws, n, F)
  <1> DEFINE A == {n \in Nat : ~ \E F : ConRec(s, cs, ws, n, F)}
  <1>1. A \subseteq Nat \ {0}
    <2>1. ConRec(s, cs, ws, 0, [i \in 0..0 |-> cs])
      BY DEF ConRec
    <2> QED
      BY <2>1
  <1>2. ASSUME NEW n \in A PROVE n - 1 \in A
    <2>1. n \in Nat /\ n # 0 /\ n - 1 \in Nat
      BY <1>1
    <2>2. SUFFICES ASSUME NEW G, ConRec(s, cs, ws, n - 1, G) PROVE \E F : ConRec(s, cs, ws, n, F)
      BY <2>1
    <2> DEFINE Tip == Connected(s, G[n - 1], ws[n])
    <2> HIDE DEF Tip
    <2> DEFINE H == [i \in 0..n |-> IF i < n THEN G[i] ELSE Tip]
               K == [i \in 0..n |-> IF i = 0 THEN cs ELSE Connected(s, H[i - 1], ws[i])]
    <2>3. \A i \in 0..n : H[i] = IF i < n THEN G[i] ELSE Tip
      OBVIOUS
    <2>4. \A i \in 0..(n - 1) : G[i] = IF i = 0 THEN cs ELSE Connected(s, G[i - 1], ws[i])
      BY <2>2 DEF ConRec
    <2>5. ASSUME NEW i \in 0..n PROVE H[i] = K[i]
      <3>1. K[i] = IF i = 0 THEN cs ELSE Connected(s, H[i - 1], ws[i])
        OBVIOUS
      <3> HIDE DEF H, K
      <3>2. i # 0 => i - 1 \in 0..n /\ i - 1 < n
        BY <2>1
      <3>3. i # 0 => H[i - 1] = G[i - 1]
        BY <2>3, <3>2
      <3>4. CASE i < n
        <4>1. H[i] = G[i] /\ i \in 0..(n - 1)
          BY <2>1, <2>3, <3>4
        <4> QED
          BY <2>4, <3>1, <3>3, <4>1
      <3>5. CASE i = n
        <4>1. H[i] = Tip /\ i # 0
          BY <2>1, <2>3, <3>5
        <4> QED
          BY <3>1, <3>3, <3>5, <4>1 DEF Tip
      <3> QED
        BY <2>1, <3>4, <3>5
    <2>6. H = K
      BY <2>5
    <2> QED
      BY <2>6 DEF ConRec
  <1> HIDE DEF A
  <1>3. A = {}
    BY <1>1, <1>2, NoLeast
  <1> QED
    BY <1>3 DEF A

\* What every one of the connections keeps, all of them keep.
LEMMA AllConnected ==
  ASSUME NEW s, NEW cs, NEW ws, IsList(ws)
  PROVE  \E F : /\ ConnectedAll(s, cs, ws) = F[Len(ws)] /\ F[0] = cs
                /\ \A i \in 1..Len(ws) : F[i] = Connected(s, F[i - 1], ws[i])
  <1>1. Len(ws) \in Nat
    BY Indexes
  <1>2. PICK F : ConRec(s, cs, ws, Len(ws), F) /\ ConnectedAll(s, cs, ws) = F[Len(ws)]
    <2>1. \E F : ConRec(s, cs, ws, Len(ws), F)
      BY <1>1, ConExists
    <2> QED
      BY <2>1 DEF ConRec, ConnectedAll
  <1>3. \A i \in 0..Len(ws) : F[i] = IF i = 0 THEN cs ELSE Connected(s, F[i - 1], ws[i])
    BY <1>2 DEF ConRec
  <1>4. 0 \in 0..Len(ws) /\ \A i \in 1..Len(ws) : i \in 0..Len(ws) /\ i # 0
    BY <1>1
  <1>5. F[0] = cs /\ \A i \in 1..Len(ws) : F[i] = Connected(s, F[i - 1], ws[i])
    BY <1>3, <1>4
  <1> QED
    BY <1>2, <1>5

\* A set of halves that each wire keeps within has all the wires lead to, which
\* has what each of them led to.
LEMMA Reached ==
  ASSUME NEW s, NEW cs, NEW ws, IsList(ws), NEW X, cs \in X,
         \A d \in X : \A w \in Elements(ws) : Connected(s, d, w) \in X
  PROVE  /\ ConnectedAll(s, cs, ws) \in X
         /\ \A w \in Elements(ws) : \E d \in X : Connected(s, d, w) \subseteq ConnectedAll(s, cs, ws)
  <1>1. PICK F : /\ ConnectedAll(s, cs, ws) = F[Len(ws)] /\ F[0] = cs
                 /\ \A i \in 1..Len(ws) : F[i] = Connected(s, F[i - 1], ws[i])
    BY AllConnected
  <1>2. Len(ws) \in Nat /\ \A w : w \in Elements(ws) <=> \E i \in 1..Len(ws) : w = ws[i]
    BY Indexes
  <1> DEFINE A == {n \in 0..Len(ws) : F[n] \notin X}
  <1>3. A = {}
    <2>1. A \subseteq Nat \ {0}
      BY <1>1, <1>2
    <2>2. ASSUME NEW n \in A PROVE n - 1 \in A
      <3>1. n \in 1..Len(ws) /\ n - 1 \in 0..Len(ws) /\ F[n] \notin X
        BY <1>2, <2>1
      <3>2. F[n] = Connected(s, F[n - 1], ws[n]) /\ ws[n] \in Elements(ws)
        BY <1>1, <1>2, <3>1
      <3>3. F[n - 1] \notin X
        BY <3>1, <3>2
      <3> QED
        BY <3>1, <3>3
    <2> HIDE DEF A
    <2> QED
      BY <2>1, <2>2, NoLeast
  <1>4. \A n \in 0..Len(ws) : F[n] \in X
    BY <1>3
  <1>5. ConnectedAll(s, cs, ws) \in X
    BY <1>1, <1>2, <1>4
  <1>6. ASSUME NEW m \in 1..Len(ws) PROVE F[m] \subseteq F[Len(ws)]
    <2> DEFINE B == {n \in m..Len(ws) : ~(F[m] \subseteq F[n])}
    <2>1. B \subseteq Nat \ {0}
      BY <1>2
    <2>2. ASSUME NEW n \in B PROVE n - 1 \in B
      <3>1. n \in m..Len(ws) /\ ~(F[m] \subseteq F[n]) /\ n # m
        OBVIOUS
      <3>2. n - 1 \in m..Len(ws) /\ n \in 1..Len(ws)
        BY <1>2, <3>1
      <3>3. F[n - 1] \subseteq F[n]
        <4>1. F[n] = Connected(s, F[n - 1], ws[n])
          BY <1>1, <3>2
        <4> QED
          BY <4>1 DEF Connected
      <3> QED
        BY <3>1, <3>2, <3>3
    <2>3. B = {}
      <3> HIDE DEF B
      <3> QED
        BY <2>1, <2>2, NoLeast
    <2>4. Len(ws) \in m..Len(ws)
      BY <1>2
    <2> QED
      BY <2>3, <2>4
  <1>7. ASSUME NEW w \in Elements(ws) PROVE \E d \in X : Connected(s, d, w) \subseteq ConnectedAll(s, cs, ws)
    <2>1. PICK i \in 1..Len(ws) : w = ws[i]
      BY <1>2
    <2>2. i - 1 \in 0..Len(ws) /\ F[i] = Connected(s, F[i - 1], w) /\ F[i] \subseteq F[Len(ws)]
      BY <1>1, <1>2, <1>6, <2>1
    <2> QED
      BY <1>1, <1>4, <2>2
  <1> QED
    BY <1>5, <1>7

(***************************************************************************)
(* What connecting keeps.  A half that is whole has its other half, and    *)
(* that of an outlet is whole when there is an inlet of an operation that  *)
(* the configuration promises.                                             *)
(***************************************************************************)
HalvesOf(w) == {Half(w, "outlet", TRUE), Half(w, "outlet", FALSE), Half(w, "inlet", TRUE)}
SameLabel(h, w) == h.name = w.name /\ SameEnds(h, w)
Paired(cs) ==
  /\ \A h \in cs : h.side = "inlet" => h.whole
  /\ \A h \in cs : h.whole => Whole(cs, h)
WholeWhereThere(c, s, cs) ==
  \A h \in cs : h.side = "outlet" /\ h.op \in PromisedOps(c) /\ InletThere(s, h) => h.whole
Net(c, s, cs) == Paired(cs) /\ WholeWhereThere(c, s, cs)
\* Nothing at the ends of a connection has its name but a connection of these ends.
Clear(cs, w) ==
  \A h \in OfOutlet(cs, w) \cup OfInlet(cs, w) :
    h.name = w.name => SameEnds(h, w) /\ (h.side = "outlet" => h.whole)

\* Ends that are the same are whole, and there, together.
LEMMA EndsAlike ==
  /\ \A cs, h, w : SameEnds(h, w) => (Whole(cs, h) <=> Whole(cs, w))
  /\ \A s, h, w : SameEnds(h, w) => (InletThere(s, h) <=> InletThere(s, w))
  /\ \A cs, d, w : cs \subseteq d /\ Whole(cs, w) => Whole(d, w)
  <1>1. \A cs, h, w : SameEnds(h, w) => (Whole(cs, h) <=> Whole(cs, w))
    BY DEF Whole, SameEnds
  <1>2. \A s, h, w : SameEnds(h, w) => (InletThere(s, h) <=> InletThere(s, w))
    BY DEF InletThere, SameEnds
  <1>3. \A cs, d, w : cs \subseteq d /\ Whole(cs, w) => Whole(d, w)
    BY DEF Whole
  <1> QED
    BY <1>1, <1>2, <1>3

\* One connection.
LEMMA OneConnected ==
  ASSUME NEW c, NEW s, NEW cs, NEW w, Net(c, s, cs)
  PROVE  /\ Net(c, s, Connected(s, cs, w)) /\ cs \subseteq Connected(s, cs, w)
         /\ \A h \in Connected(s, cs, w) : h \in cs \/ (SameLabel(h, w) /\ (h.whole <=> InletThere(s, w)))
         /\ \A h \in Connected(s, cs, w) : h \in cs \/ h \in HalvesOf(w)
         /\ HasOp(s, w.out) /\ InletThere(s, w) /\ Clear(cs, w) => Whole(Connected(s, cs, w), w)
  <1> DEFINE d == Connected(s, cs, w)
             there == InletThere(s, w)
             route == there /\ \E h \in OfOutlet(cs, w) : h.whole /\ h.op = w.op /\ h.inlet = w.inlet
             name == \E h \in OfOutlet(cs, w) \cup (IF there THEN OfInlet(cs, w) ELSE {}) : h.name = w.name
             out == Half(w, "outlet", TRUE)
             alone == Half(w, "outlet", FALSE)
             in == Half(w, "inlet", TRUE)
             new == {Half(w, "outlet", there)} \cup (IF there THEN {in} ELSE {})
  <1>0. there \in BOOLEAN
    BY DEF InletThere
  <1>1. d = IF ~HasOp(s, w.out) \/ route \/ name THEN cs ELSE cs \cup new
    BY DEF Connected
  <1> HIDE DEF d
  <1>2. cs \subseteq d
    BY <1>1
  <1>3. /\ \A h \in {out, alone, in} : SameLabel(h, w)
        /\ out.side = "outlet" /\ alone.side = "outlet" /\ in.side = "inlet"
        /\ out.whole /\ in.whole /\ ~alone.whole
    BY DEF Half, SameLabel, SameEnds
  <1>4. new = IF there THEN {out, in} ELSE {alone}
    <2>1. CASE there
      <3>1. there = TRUE
        BY <1>0, <2>1
      <3> QED
        BY <2>1, <3>1
    <2>2. CASE ~there
      <3>1. there = FALSE
        BY <1>0, <2>2
      <3> QED
        BY <2>2, <3>1
    <2> QED
      BY <2>1, <2>2
  <1>12. HalvesOf(w) = {out, alone, in}
    BY DEF HalvesOf
  <1> HIDE DEF out, alone, in
  <1>5. \A h \in d : h \in cs \/ (there /\ (h = out \/ h = in)) \/ (~there /\ h = alone)
    <2> HIDE DEF there, route, name, new
    <2> QED
      BY <1>1, <1>4
  <1>6. ASSUME NEW h \in d PROVE h \in cs \/ (SameLabel(h, w) /\ (h.whole <=> there))
    <2> HIDE DEF there
    <2> QED
      BY <1>3, <1>5
  <1>7. ASSUME NEW h \in d, h \notin cs, there PROVE Whole(d, w)
    <2>1. out \in d /\ in \in d
      BY <1>1, <1>4, <1>7
    <2> QED
      BY <1>3, <2>1 DEF Whole, SameLabel
  <1> HIDE DEF there
  <1>8. Paired(d)
    <2>1. ASSUME NEW h \in d, h.side = "inlet" PROVE h.whole
      <3>1. CASE h \in cs
        BY <2>1, <3>1 DEF Net, Paired
      <3>2. CASE h \notin cs
        BY <1>3, <1>5, <2>1, <3>2
      <3> QED
        BY <3>1, <3>2
    <2>2. ASSUME NEW h \in d, h.whole PROVE Whole(d, h)
      <3>1. CASE h \in cs
        BY <1>2, <2>2, <3>1, EndsAlike DEF Net, Paired
      <3>2. CASE h \notin cs
        <4>1. SameEnds(h, w) /\ there
          BY <1>6, <2>2, <3>2 DEF SameLabel
        <4> QED
          BY <1>7, <3>2, <4>1, EndsAlike
      <3> QED
        BY <3>1, <3>2
    <2> QED
      BY <2>1, <2>2 DEF Paired
  <1>9. WholeWhereThere(c, s, d)
    <2> SUFFICES ASSUME NEW h \in d, h.side = "outlet", h.op \in PromisedOps(c), InletThere(s, h) PROVE h.whole
      BY DEF WholeWhereThere
    <2>1. CASE h \in cs
      BY <2>1 DEF Net, WholeWhereThere
    <2>2. CASE h \notin cs
      <3>1. SameEnds(h, w) /\ (h.whole <=> there)
        BY <1>6, <2>2 DEF SameLabel
      <3>2. there
        BY <3>1, EndsAlike DEF there
      <3> QED
        BY <3>1, <3>2
    <2> QED
      BY <2>1, <2>2
  <1>10. ASSUME HasOp(s, w.out), there, Clear(cs, w) PROVE Whole(d, w)
    <2>1. CASE route
      <3>1. PICK h \in OfOutlet(cs, w) : h.whole /\ h.op = w.op /\ h.inlet = w.inlet
        BY <2>1
      <3>2. h \in cs /\ SameEnds(h, w)
        BY <3>1 DEF OfOutlet, SameEnds
      <3>3. Whole(cs, h)
        BY <3>1, <3>2 DEF Net, Paired
      <3> QED
        BY <1>2, <3>2, <3>3, EndsAlike
    <2>2. CASE name
      <3>1. PICK h \in OfOutlet(cs, w) \cup OfInlet(cs, w) : h.name = w.name
        BY <2>2
      <3>2. h \in cs /\ SameEnds(h, w) /\ (h.side = "outlet" => h.whole) /\ h.side \in {"outlet", "inlet"}
        BY <1>10, <3>1 DEF Clear, OfOutlet, OfInlet
      <3>3. h.whole
        BY <3>2 DEF Net, Paired
      <3>4. Whole(cs, h)
        BY <3>2, <3>3 DEF Net, Paired
      <3> QED
        BY <1>2, <3>2, <3>4, EndsAlike
    <2>3. CASE ~route /\ ~name
      <3>1. out \in d /\ in \in d
        <4> HIDE DEF route, name, new
        <4> QED
          BY <1>1, <1>4, <1>10, <2>3
      <3> QED
        BY <1>3, <3>1 DEF Whole, SameLabel
    <2> QED
      BY <2>1, <2>2, <2>3
  <1>11. \A h \in d : h \in cs \/ h \in HalvesOf(w)
    BY <1>5, <1>12
  <1> QED
    BY <1>2, <1>6, <1>8, <1>9, <1>10, <1>11 DEF Net, there, d

\* One connection after the other: a connection between promised operations is whole
\* in the end when no other has its name.
LEMMA SomeConnected ==
  ASSUME NEW c, NEW s, NEW cs, Net(c, s, cs), NEW ws, IsList(ws), NEW e, e = ConnectedAll(s, cs, ws)
  PROVE  /\ Net(c, s, e) /\ cs \subseteq e
         /\ \A h \in e : h \in cs \/ \E w \in Elements(ws) : SameLabel(h, w)
         /\ \A w \in Elements(ws) :
              /\ HasOp(s, w.out) /\ InletThere(s, w) /\ w.op \in PromisedOps(c)
              /\ \A h \in e : h.name = w.name => SameEnds(h, w)
              => Whole(e, w)
  <1> DEFINE W == Elements(ws)
             Y == cs \cup UNION {HalvesOf(w) : w \in W}
             Fine(d) == /\ cs \subseteq d /\ Net(c, s, d)
                        /\ \A h \in d : h \in cs \/ \E w \in W : SameLabel(h, w)
             X == {d \in SUBSET Y : Fine(d)}
  <1>1. cs \in X
    OBVIOUS
  <1>2. ASSUME NEW d \in X, NEW w \in W PROVE Connected(s, d, w) \in X
    <2> DEFINE f == Connected(s, d, w)
    <2> HIDE DEF f
    <2>1. Net(c, s, d) /\ cs \subseteq d /\ d \subseteq Y /\ \A h \in d : h \in cs \/ \E x \in W : SameLabel(h, x)
      OBVIOUS
    <2>2. /\ Net(c, s, f) /\ d \subseteq f
          /\ \A h \in f : h \in d \/ SameLabel(h, w)
          /\ \A h \in f : h \in d \/ h \in HalvesOf(w)
      BY <2>1, OneConnected DEF f
    <2>3. HalvesOf(w) \subseteq Y
      OBVIOUS
    <2> HIDE DEF Y
    <2>4. f \in SUBSET Y
      BY <2>1, <2>2, <2>3
    <2>5. Fine(f)
      BY <2>1, <2>2
    <2> QED
      BY <2>4, <2>5 DEF f
  <1> HIDE DEF X
  <1>3. e \in X /\ \A w \in W : \E d \in X : Connected(s, d, w) \subseteq e
    BY <1>1, <1>2, Reached
  <1>4. \A d \in X : Fine(d)
    BY DEF X
  <1>5. ASSUME NEW w \in W, HasOp(s, w.out), InletThere(s, w), w.op \in PromisedOps(c),
               \A h \in e : h.name = w.name => SameEnds(h, w)
        PROVE  Whole(e, w)
    <2>1. PICK d \in X : Connected(s, d, w) \subseteq e
      BY <1>3
    <2> DEFINE f == Connected(s, d, w)
    <2> HIDE DEF f
    <2>2. Net(c, s, d)
      BY <1>4
    <2>3. d \subseteq f /\ (Clear(d, w) => Whole(f, w))
      BY <1>5, <2>2, OneConnected DEF f
    <2>4. Clear(d, w)
      <3> SUFFICES ASSUME NEW h \in OfOutlet(d, w) \cup OfInlet(d, w), h.name = w.name
                   PROVE  SameEnds(h, w) /\ (h.side = "outlet" => h.whole)
        BY DEF Clear
      <3>1. h \in d /\ h \in e
        BY <2>1, <2>3 DEF OfOutlet, OfInlet, f
      <3>2. SameEnds(h, w)
        BY <1>5, <3>1
      <3>3. InletThere(s, h) /\ h.op \in PromisedOps(c)
        BY <1>5, <3>2, EndsAlike DEF SameEnds
      <3> QED
        BY <2>2, <3>1, <3>2, <3>3 DEF Net, WholeWhereThere
    <2> QED
      BY <2>1, <2>3, <2>4, EndsAlike DEF f
  <1>6. Fine(e)
    BY <1>3, <1>4
  <1> QED
    BY <1>5, <1>6

\* A store that grows leaves the net as it was, when the operations promised are there
\* before anything is connected.
OpsThere(c, s) == \A n \in PromisedOps(c) : HasPlain(s, n)

\* A store that grows leaves the halves as they are to be: what is promised was
\* there before any of them.
LEMMA NetKept ==
  ASSUME NEW c, NEW s, NEW t, NEW cs, Net(c, s, cs), Grown(s, t), cs # {} => OpsThere(c, s)
  PROVE  Net(c, t, cs)
  <1> SUFFICES ASSUME NEW h \in cs, h.side = "outlet", h.op \in PromisedOps(c), InletThere(t, h) PROVE h.whole
    BY DEF Net, WholeWhereThere
  <1>1. HasPlain(s, h.op)
    BY DEF OpsThere
  <1>2. InletThere(s, h)
    BY <1>1, PlainGet, GrownHas DEF InletThere
  <1> QED
    BY <1>2 DEF Net, WholeWhereThere

(***************************************************************************)
(* The invariant of a configuration c, the tasks T that are left, a store  *)
(* s and the halves cs: each thing promised is still to be done or it is   *)
(* there.                                                                  *)
(***************************************************************************)
PassedIn(T, r) == \A t \in T : Rank(t) > r
FactoriesMade(c, T, s) ==
  /\ \A x \in Elements(c.operations.preload) :
       Found("operation", x) # {} => LoadTask("operation", x) \in T \/ Has(s, "operationFactory", x)
  /\ \A k \in Elements(c.containers.preload) :
       Found("container", k.type) # {} => LoadTask("container", k.type) \in T \/ Has(s, "containerFactory", k.type)
OwnedLater(T, s) == PassedIn(T, 2) \/ \A o \in Elements(s) : o.cls = "operation" => o.owner = NoOwner
PromisedOp(c, o) ==
  /\ o \in Elements(c.operations.precreate) /\ Explicit(o.info)
  /\ o.info.typeName \in Elements(c.operations.preload) /\ Found("operation", o.info.typeName) # {}
OpsMade(c, T, s) ==
  \A o : PromisedOp(c, o) => ToDo("build", "operation", o.info) \in T \/ HasPlain(s, NameRead(o.info))
PromisedContainer(c, k) ==
  /\ k \in Elements(c.containers.precreate) /\ Explicit(k.info)
  /\ k.info.typeName \in {l.type : l \in Elements(c.containers.preload)}
  /\ Found("container", k.info.typeName) # {}
ContainersMade(c, T, s) ==
  \A k : PromisedContainer(c, k) =>
    ToDo("build", "container", k.info) \in T \/ Has(s, "container", NameRead(k.info))
\* Whose name a container has: one of the items', an FSM's, or an EC's or an anchor's.
OriginOf(c, T, s, n) ==
  \/ Taken(s, c, n)
  \/ \E f \in Elements(c.fsms.precreate) : f.name = n /\ Makes(f) /\ FSMMade(s, f)
  \/ PassedIn(T, 7) /\ (ECMade(s, n) \/ PassedIn(T, 9))
Origins(c, T, s) == \A o \in Elements(s) : o.cls = "container" => OriginOf(c, T, s, o.name)
FSMsMade(c, T, s) ==
  \A f \in PromisedFSMs(s, c) : ToDo("build", "fsm", f) \in T \/ FSMMade(s, f)
ECsMade(c, T, s) ==
  \A e \in PromisedECs(s, c) : ToDo("build", "ec", e) \in T \/ ECMade(s, e.name)

ECEnds(e, o) == Ends(Member(e.name, "started"), o, "__event__")
StateEnds(f, st, n) == Ends(Member(f.name, st.name), n, "__argument__")
BindOK(w) == \A a, o : w.name = <<"bind", a, o>> => SameEnds(w, Ends(Member(a, "started"), o, "__event__"))
BindNames(T, cs) == PassedIn(T, 9) \/ \A h \in cs : BindOK(h)
StateOK(c, w) ==
  \A x : \A n \in PromisedOps(c) : w.name = <<"state", x, n>> => SameEnds(w, Ends(x, n, "__argument__"))
StateNames(c, T, cs) == PassedIn(T, 14) \/ \A h \in cs : StateOK(c, h)
ECBindsMade(c, T, s, cs) ==
  \A e \in PromisedECs(s, c) : \A o \in Elements(e.bind) \cap PromisedOps(c) :
    ToDo("build", "ec", e) \in T \/ Whole(cs, ECEnds(e, o))
StateBindsMade(c, T, s, cs) ==
  \A f \in PromisedFSMs(s, c) : \A st \in Elements(f.states) : \A b \in Elements(st.bind) :
    b.name \in PromisedOps(c) /\ st.name # NotText =>
      StateTask(f, st, b) \in T \/ Whole(cs, StateEnds(f, st, b.name))
ConnectionMade(c, s, cs, w) ==
  {w.out, w.op} \subseteq PromisedOps(c) /\ InletThere(s, w) /\ NameFree(cs, w) => Whole(cs, w)
ConnectionsMade(c, T, s, cs) ==
  \A w \in Elements(c.connections) :
    ToDo("connections", "connect", w) \in T \/ (PassedIn(T, 17) /\ ConnectionMade(c, s, cs, w))

BadTopics(c) == \E y \in Elements(TopicTasks(c)) : Throws(y)
TopicLabel(c, T, s, x, h) ==
  /\ PassedIn(T, 18) /\ HasOp(s, x.topic) /\ SameEnds(h, x)
  /\ h.side = "outlet" /\ TopicWanted(s, c, x) => h.whole
TopicNames(c, T, s, cs) ==
  \A y \in Elements(TopicTasks(c)) :
    ~Throws(y) /\ (\A w \in Elements(c.connections) : w.name # y.arg.name) =>
      \A h \in cs : h.name = y.arg.name => TopicLabel(c, T, s, y.arg, h)
TopicMade(c, T, s, cs, x) ==
  PassedIn(T, 18) /\ HasOp(s, x.topic) /\ (TopicWanted(s, c, x) => Whole(cs, x))
TopicsMade(c, T, s, cs) ==
  BadTopics(c) \/ \A y \in Elements(TopicTasks(c)) : y \in T \/ TopicMade(c, T, s, cs, y.arg)

ObjectsMade(c, T, s) ==
  /\ FactoriesMade(c, T, s) /\ OwnedLater(T, s) /\ OpsMade(c, T, s) /\ ContainersMade(c, T, s)
  /\ Origins(c, T, s) /\ FSMsMade(c, T, s) /\ ECsMade(c, T, s)
NetMade(c, T, s, cs) ==
  /\ Net(c, s, cs) /\ (cs # {} => PassedIn(T, 3))
  /\ BindNames(T, cs) /\ StateNames(c, T, cs)
  /\ ECBindsMade(c, T, s, cs) /\ StateBindsMade(c, T, s, cs)
  /\ ConnectionsMade(c, T, s, cs) /\ TopicNames(c, T, s, cs) /\ TopicsMade(c, T, s, cs)
Built(c, T, s, cs) == ObjectsMade(c, T, s) /\ NetMade(c, T, s, cs)

\* The operations promised are those of the items promised.
LEMMA OpsPromised ==
  ASSUME NEW c
  PROVE  \A n : n \in PromisedOps(c) <=> \E o : PromisedOp(c, o) /\ n = NameRead(o.info)
  BY DEF PromisedOps, PromisedOp

\* Once they are passed, the operations promised are there.
LEMMA OpsAreThere ==
  ASSUME NEW c, NEW T, NEW s, OpsMade(c, T, s), PassedIn(T, 2)
  PROVE  OpsThere(c, s)
  <1>1. \A x : ToDo("build", "operation", x) \notin T
    <2>1. \A x : Rank(ToDo("build", "operation", x)) = 2
      BY Fields, RankOf
    <2> QED
      BY <2>1 DEF PassedIn
  <1> QED
    BY <1>1, OpsPromised DEF OpsMade, OpsThere

\* A rank that is passed stays so, and those before it are.
LEMMA PassedOn ==
  ASSUME NEW T, \A t \in T : Rank(t) \in Int
  PROVE  /\ \A U, r : U \subseteq T /\ PassedIn(T, r) => PassedIn(U, r)
         /\ \A a, b \in Int : a <= b /\ PassedIn(T, b) => PassedIn(T, a)
  BY DEF PassedIn

(***************************************************************************)
(* One task h of the tasks T is done, and U is left.                       *)
(***************************************************************************)
DoingOne(c, T, U, h) ==
  /\ c \in Configs /\ T \subseteq Elements(Tasks(c)) /\ h \in T
  /\ U \subseteq T /\ T \subseteq U \cup {h} /\ \A x \in T : Rank(h) <= Rank(x)

\* The tasks of a configuration have their ranks and phases.
LEMMA TasksKnown ==
  ASSUME NEW c \in Configs, NEW T, T \subseteq Elements(Tasks(c))
  PROVE  \A t \in T : Rank(t) \in 1..20 /\ Rank(t) \in Int /\ t.phase = Phase(Rank(t)) /\ ShapeOf(c, t)
  BY TasksAre DEF Ranked, Known

\* The tasks of the last ranks are of one kind each.
LEMMA LateTasks ==
  ASSUME NEW c \in Configs, NEW T, T \subseteq Elements(Tasks(c)), NEW t \in T
  PROVE  LateKinds(c, t)
  BY TasksAre

\* The ranks before that of the task that is next are passed.
LEMMA DoingRanks ==
  ASSUME NEW c, NEW T, NEW U, NEW h, DoingOne(c, T, U, h)
  PROVE  /\ Rank(h) \in 1..20 /\ ShapeOf(c, h) /\ c \in Configs
         /\ \A x \in T : Rank(x) \in Int
         /\ \A r \in Int : r < Rank(h) => PassedIn(T, r)
         /\ \A r \in Int : PassedIn(T, r) => r < Rank(h) /\ PassedIn(U, r)
  <1>1. c \in Configs /\ T \subseteq Elements(Tasks(c)) /\ h \in T /\ U \subseteq T /\ \A x \in T : Rank(h) <= Rank(x)
    BY DEF DoingOne
  <1>2. Rank(h) \in 1..20 /\ ShapeOf(c, h) /\ \A x \in T : Rank(x) \in Int
    BY <1>1, TasksKnown
  <1>3. ASSUME NEW r \in Int, r < Rank(h) PROVE PassedIn(T, r)
    <2>1. \A x \in T : Rank(x) > r
      BY <1>1, <1>2, <1>3
    <2> QED
      BY <2>1 DEF PassedIn
  <1>4. ASSUME NEW r \in Int, PassedIn(T, r) PROVE r < Rank(h) /\ PassedIn(U, r)
    BY <1>1, <1>2, <1>4 DEF PassedIn
  <1> QED
    BY <1>1, <1>2, <1>3, <1>4

(***************************************************************************)
(* The store grows.                                                        *)
(***************************************************************************)
Stable(s, t) ==
  \A m : /\ HasOp(s, m) => Get(t, "operation", m) = Get(s, "operation", m)
         /\ ~HasOp(s, m) /\ HasOp(t, m) => Foreign(t, m)

\* What a topic's connection needs is not what was added since.
LEMMA WantedStays ==
  ASSUME NEW c, NEW s, NEW t, NEW x, Stable(s, t), HasOp(s, x.topic), TopicWanted(t, c, x)
  PROVE  TopicWanted(s, c, x)
  <1>1. HasOp(t, x.out) /\ InletThere(t, x) /\ \A w \in Elements(c.connections) : w.name # x.name
    BY DEF TopicWanted
  <1>2. HasOp(t, x.op)
    BY <1>1 DEF InletThere
  <1>3. \A n \in {x.out, x.op} : n # x.topic => ~Foreign(t, n)
    BY DEF TopicWanted
  <1>4. HasOp(s, x.out) /\ HasOp(s, x.op)
    BY <1>1, <1>2, <1>3 DEF Stable
  <1>5. \A n \in {x.out, x.op} : Get(t, "operation", n) = Get(s, "operation", n)
    BY <1>4 DEF Stable
  <1>6. InletThere(s, x)
    BY <1>1, <1>4, <1>5 DEF InletThere
  <1>7. ~(\E n \in {x.out, x.op} \ {x.topic} : Foreign(s, n))
    BY <1>3, <1>5 DEF Foreign
  <1> QED
    BY <1>1, <1>4, <1>6, <1>7 DEF TopicWanted

\* What a client or a topic adds is foreign.
LEMMA AddedStable ==
  ASSUME NEW s, IsList(s), NEW type \in {"client", "Topic"}, NEW n
  PROVE  Stable(s, Added(s, Object("operation", type, n, NoOwner))) /\ Stable(s, s)
  <1>1. Object("operation", type, n, NoOwner).type = type
    BY DEF Object
  <1>2. \A m : /\ HasOp(s, m) => Get(Added(s, Object("operation", type, n, NoOwner)), "operation", m) = Get(s, "operation", m)
               /\ ~HasOp(s, m) /\ HasOp(Added(s, Object("operation", type, n, NoOwner)), m)
                    => Get(Added(s, Object("operation", type, n, NoOwner)), "operation", m) = Object("operation", type, n, NoOwner)
    BY AddedGet
  <1> QED
    BY <1>1, <1>2 DEF Stable, Foreign

\* A store that grows by what its configuration, or a client, may add.
LEMMA StoreGrows ==
  ASSUME NEW c, NEW T, \A x \in T : Rank(x) \in Int,
         NEW s, NEW t, NEW cs, Built(c, T, s, cs), Grown(s, t),
         PassedIn(T, 18) => Stable(s, t),
         PassedIn(T, 2) \/ \A o \in Elements(t) : o \in Elements(s) \/ (o.cls = "operation" => o.owner = NoOwner),
         \A o \in Elements(t) : o \in Elements(s) \/ (o.cls = "container" => OriginOf(c, T, t, o.name))
  PROVE  Built(c, T, t, cs)
  <1>1. /\ \A cls, n : Has(s, cls, n) => Has(t, cls, n)
        /\ \A n : HasPlain(s, n) => HasPlain(t, n)
        /\ \A n : Taken(s, c, n) => Taken(t, c, n)
        /\ \A f : FSMMade(s, f) => FSMMade(t, f)
        /\ \A n : ECMade(s, n) => ECMade(t, n)
        /\ \A n : HasPlain(s, n) => HasOp(s, n)
    BY GrownHas
  <1>2. PromisedFSMs(t, c) \subseteq PromisedFSMs(s, c) /\ PromisedECs(t, c) \subseteq PromisedECs(s, c)
    BY <1>1 DEF PromisedFSMs, PromisedECs
  <1>3. /\ FactoriesMade(c, T, s) /\ OwnedLater(T, s) /\ OpsMade(c, T, s) /\ ContainersMade(c, T, s)
        /\ Origins(c, T, s) /\ FSMsMade(c, T, s) /\ ECsMade(c, T, s)
        /\ Net(c, s, cs) /\ (cs # {} => PassedIn(T, 3))
        /\ BindNames(T, cs) /\ StateNames(c, T, cs)
        /\ ECBindsMade(c, T, s, cs) /\ StateBindsMade(c, T, s, cs)
        /\ ConnectionsMade(c, T, s, cs) /\ TopicNames(c, T, s, cs) /\ TopicsMade(c, T, s, cs)
    BY DEF Built, ObjectsMade, NetMade
  <1>4. FactoriesMade(c, T, t) /\ OpsMade(c, T, t) /\ ContainersMade(c, T, t) /\ OwnedLater(T, t)
    BY <1>1, <1>3 DEF FactoriesMade, OpsMade, ContainersMade, OwnedLater
  <1>5. Origins(c, T, t)
    <2>1. \A n : OriginOf(c, T, s, n) => OriginOf(c, T, t, n)
      BY <1>1 DEF OriginOf
    <2> QED
      BY <1>3, <2>1 DEF Origins
  <1>6. FSMsMade(c, T, t) /\ ECsMade(c, T, t)
    BY <1>1, <1>2, <1>3 DEF FSMsMade, ECsMade
  <1>7. /\ PassedIn(T, 3) => PassedIn(T, 2)
        /\ PassedIn(T, 17) => PassedIn(T, 2)
    BY PassedOn
  <1>8. PassedIn(T, 2) => OpsThere(c, s)
    BY <1>3, OpsAreThere
  <1>9. Net(c, t, cs)
    BY <1>3, <1>7, <1>8, NetKept
  <1>10. ECBindsMade(c, T, t, cs) /\ StateBindsMade(c, T, t, cs)
    BY <1>2, <1>3 DEF ECBindsMade, StateBindsMade
  <1>11. ConnectionsMade(c, T, t, cs)
    <2> SUFFICES ASSUME NEW w \in Elements(c.connections), ToDo("connections", "connect", w) \notin T
                 PROVE  PassedIn(T, 17) /\ ConnectionMade(c, t, cs, w)
      BY DEF ConnectionsMade
    <2>1. PassedIn(T, 17) /\ ConnectionMade(c, s, cs, w)
      BY <1>3 DEF ConnectionsMade
    <2>2. ASSUME {w.out, w.op} \subseteq PromisedOps(c), InletThere(t, w) PROVE InletThere(s, w)
      <3>1. HasPlain(s, w.op)
        BY <1>7, <1>8, <2>1, <2>2 DEF OpsThere
      <3>2. HasOp(s, w.op) /\ Get(t, "operation", w.op) = Get(s, "operation", w.op)
        BY <1>1, <3>1, PlainGet
      <3> QED
        BY <2>2, <3>2 DEF InletThere
    <2> QED
      BY <2>1, <2>2 DEF ConnectionMade
  <1>12. ASSUME NEW x, PassedIn(T, 18), HasOp(s, x.topic)
         PROVE  HasOp(t, x.topic) /\ (TopicWanted(t, c, x) => TopicWanted(s, c, x))
    BY <1>1, <1>12, WantedStays DEF HasOp
  <1>13. TopicNames(c, T, t, cs)
    BY <1>3, <1>12 DEF TopicNames, TopicLabel
  <1>14. TopicsMade(c, T, t, cs)
    BY <1>3, <1>12 DEF TopicsMade, TopicMade
  <1> QED
    BY <1>3, <1>4, <1>5, <1>6, <1>9, <1>10, <1>11, <1>13, <1>14 DEF Built, ObjectsMade, NetMade

(***************************************************************************)
(* Connections are made.                                                   *)
(***************************************************************************)
\* A half of a name that stands for its ends, where a name has to.
TopicFit(c, T, s, h) ==
  \A y \in Elements(TopicTasks(c)) :
    ~Throws(y) /\ (\A w \in Elements(c.connections) : w.name # y.arg.name) /\ h.name = y.arg.name =>
      TopicLabel(c, T, s, y.arg, h)
Fit(c, T, s, h) ==
  (PassedIn(T, 9) \/ BindOK(h)) /\ (PassedIn(T, 14) \/ StateOK(c, h)) /\ TopicFit(c, T, s, h)

\* More halves, each fit for its name, leave what is built built.
LEMMA ConsGrow ==
  ASSUME NEW c, NEW T, NEW s, NEW cs, Built(c, T, s, cs), PassedIn(T, 3),
         NEW es, cs \subseteq es, Net(c, s, es), \A h \in es : h \in cs \/ Fit(c, T, s, h)
  PROVE  Built(c, T, s, es)
  <1>1. /\ ObjectsMade(c, T, s)
        /\ BindNames(T, cs) /\ StateNames(c, T, cs)
        /\ ECBindsMade(c, T, s, cs) /\ StateBindsMade(c, T, s, cs)
        /\ ConnectionsMade(c, T, s, cs) /\ TopicNames(c, T, s, cs) /\ TopicsMade(c, T, s, cs)
    BY DEF Built, NetMade
  <1>2. \A w : Whole(cs, w) => Whole(es, w)
    BY EndsAlike
  <1>3. BindNames(T, es) /\ StateNames(c, T, es)
    BY <1>1 DEF BindNames, StateNames, Fit
  <1>4. ECBindsMade(c, T, s, es) /\ StateBindsMade(c, T, s, es)
    BY <1>1, <1>2 DEF ECBindsMade, StateBindsMade
  <1>5. ConnectionsMade(c, T, s, es)
    <2>1. \A w : NameFree(es, w) => NameFree(cs, w)
      BY DEF NameFree, OfOutlet, OfInlet
    <2> QED
      BY <1>1, <1>2, <2>1 DEF ConnectionsMade, ConnectionMade
  <1>6. TopicNames(c, T, s, es)
    BY <1>1 DEF TopicNames, Fit, TopicFit
  <1>7. TopicsMade(c, T, s, es)
    BY <1>1, <1>2 DEF TopicsMade, TopicMade
  <1> QED
    BY <1>1, <1>3, <1>4, <1>5, <1>6, <1>7 DEF Built, NetMade

(***************************************************************************)
(* A task is done: what it was for is there.                               *)
(***************************************************************************)
DoneLoad(s, h) ==
  /\ \A x : h = LoadTask("operation", x) /\ Found("operation", x) # {} => Has(s, "operationFactory", x)
  /\ \A x : h = LoadTask("container", x) /\ Found("container", x) # {} => Has(s, "containerFactory", x)
DoneItem(c, s, h) ==
  /\ \A o : PromisedOp(c, o) /\ h = ToDo("build", "operation", o.info) => HasPlain(s, NameRead(o.info))
  /\ \A k : PromisedContainer(c, k) /\ h = ToDo("build", "container", k.info) => Has(s, "container", NameRead(k.info))
  /\ \A f \in PromisedFSMs(s, c) : h = ToDo("build", "fsm", f) => FSMMade(s, f)
DoneBind(c, s, cs, h) ==
  /\ \A e \in PromisedECs(s, c) : h = ToDo("build", "ec", e) =>
       ECMade(s, e.name) /\ \A o \in Elements(e.bind) \cap PromisedOps(c) : Whole(cs, ECEnds(e, o))
  /\ \A f \in PromisedFSMs(s, c) : \A st \in Elements(f.states) : \A b \in Elements(st.bind) :
       b.name \in PromisedOps(c) /\ st.name # NotText /\ h = StateTask(f, st, b) => Whole(cs, StateEnds(f, st, b.name))
DoneJoin(c, U, s, cs, h) ==
  /\ \A w : h = ToDo("connections", "connect", w) => PassedIn(U, 17) /\ ConnectionMade(c, s, cs, w)
  /\ h \in Elements(TopicTasks(c)) => BadTopics(c) \/ TopicMade(c, U, s, cs, h.arg)
Done(c, U, s, cs, h) ==
  DoneLoad(s, h) /\ DoneItem(c, s, h) /\ DoneBind(c, s, cs, h) /\ DoneJoin(c, U, s, cs, h)

\* A task whose object and whose connection are there may go.
LEMMA TaskGone ==
  ASSUME NEW c, NEW T, NEW U, NEW h, DoingOne(c, T, U, h),
         NEW s, NEW cs, Built(c, T, s, cs), Done(c, U, s, cs, h)
  PROVE  Built(c, U, s, cs)
  <1>1. /\ FactoriesMade(c, T, s) /\ OwnedLater(T, s) /\ OpsMade(c, T, s) /\ ContainersMade(c, T, s)
        /\ Origins(c, T, s) /\ FSMsMade(c, T, s) /\ ECsMade(c, T, s)
        /\ Net(c, s, cs) /\ (cs # {} => PassedIn(T, 3))
        /\ BindNames(T, cs) /\ StateNames(c, T, cs)
        /\ ECBindsMade(c, T, s, cs) /\ StateBindsMade(c, T, s, cs)
        /\ ConnectionsMade(c, T, s, cs) /\ TopicNames(c, T, s, cs) /\ TopicsMade(c, T, s, cs)
    BY DEF Built, ObjectsMade, NetMade
  <1>2. DoneLoad(s, h) /\ DoneItem(c, s, h) /\ DoneBind(c, s, cs, h) /\ DoneJoin(c, U, s, cs, h)
    BY DEF Done
  <1>3. \A x \in T : x \in U \/ x = h
    BY DEF DoingOne
  <1>4. \A r : PassedIn(T, r) => PassedIn(U, r)
    BY DEF DoingOne, PassedIn
  <1>5. FactoriesMade(c, U, s)
    BY <1>1, <1>2, <1>3 DEF FactoriesMade, DoneLoad
  <1>6. OpsMade(c, U, s) /\ ContainersMade(c, U, s) /\ FSMsMade(c, U, s)
    BY <1>1, <1>2, <1>3 DEF OpsMade, ContainersMade, FSMsMade, DoneItem
  <1>7. ECsMade(c, U, s) /\ ECBindsMade(c, U, s, cs)
    BY <1>1, <1>2, <1>3 DEF ECsMade, ECBindsMade, DoneBind
  <1>8. StateBindsMade(c, U, s, cs)
    BY <1>1, <1>2, <1>3 DEF StateBindsMade, DoneBind
  <1>9. OwnedLater(U, s) /\ BindNames(U, cs) /\ StateNames(c, U, cs)
    BY <1>1, <1>4 DEF OwnedLater, BindNames, StateNames
  <1>10. Origins(c, U, s)
    <2>1. \A n : OriginOf(c, T, s, n) => OriginOf(c, U, s, n)
      BY <1>4 DEF OriginOf
    <2> QED
      BY <1>1, <2>1 DEF Origins
  <1>11. ConnectionsMade(c, U, s, cs)
    BY <1>1, <1>2, <1>3, <1>4 DEF ConnectionsMade, DoneJoin
  <1>12. TopicNames(c, U, s, cs)
    BY <1>1, <1>4 DEF TopicNames, TopicLabel
  <1>13. TopicsMade(c, U, s, cs)
    BY <1>1, <1>2, <1>3, <1>4 DEF TopicsMade, TopicMade, DoneJoin
  <1> QED
    BY <1>1, <1>4, <1>5, <1>6, <1>7, <1>8, <1>9, <1>10, <1>11, <1>12, <1>13 DEF Built, ObjectsMade, NetMade

(***************************************************************************)
(* The tasks one by one, each as it is done.                               *)
(***************************************************************************)
\* What a task of another kind leaves to be done is nothing.
LEMMA DoneFree ==
  ASSUME NEW c \in Configs, NEW U, NEW s, NEW cs, NEW h
  PROVE  /\ h.do # "load" => DoneLoad(s, h)
         /\ h.do \notin {"operation", "container", "fsm"} => DoneItem(c, s, h)
         /\ h.do \notin {"ec", "bindState"} => DoneBind(c, s, cs, h)
         /\ h.do \notin {"connect", "topic"} => DoneJoin(c, U, s, cs, h)
  <1>1. \A x, k : LoadTask(k, x).do = "load"
    BY Fields
  <1>2. \A x, p, d : ToDo(p, d, x).do = d
    BY Fields
  <1>3. \A f, st, b : StateTask(f, st, b).do = "bindState"
    BY Fields DEF StateTask
  <1>4. \A t \in Elements(TopicTasks(c)) : t.do = "topic"
    BY TopicTasksAre DEF ForTopic
  <1>5. h.do # "load" => DoneLoad(s, h)
    BY <1>1 DEF DoneLoad
  <1>6. h.do \notin {"operation", "container", "fsm"} => DoneItem(c, s, h)
    BY <1>2 DEF DoneItem
  <1>7. h.do \notin {"ec", "bindState"} => DoneBind(c, s, cs, h)
    BY <1>2, <1>3 DEF DoneBind
  <1>8. h.do \notin {"connect", "topic"} => DoneJoin(c, U, s, cs, h)
    BY <1>2, <1>4 DEF DoneJoin
  <1> QED
    BY <1>5, <1>6, <1>7, <1>8

\* A task that makes nothing of what is promised.
LEMMA PlainTask ==
  ASSUME NEW c, NEW T, NEW U, NEW h, DoingOne(c, T, U, h), NEW s, NEW cs, Built(c, T, s, cs),
         h.do \notin {"load", "operation", "container", "fsm", "ec", "bindState", "connect", "topic"}
  PROVE  Built(c, U, s, cs)
  <1>1. c \in Configs
    BY DEF DoingOne
  <1>2. Done(c, U, s, cs, h)
    BY <1>1, DoneFree DEF Done
  <1> QED
    BY <1>2, TaskGone

\* An object that is not an operation or a container is no more than added.
LEMMA OthersAdded ==
  ASSUME NEW c, NEW T, \A x \in T : Rank(x) \in Int, ~PassedIn(T, 18),
         NEW s, IsList(s), NEW cs, Built(c, T, s, cs), NEW o, o.cls \notin {"operation", "container"}
  PROVE  Built(c, T, Added(s, o), cs) /\ IsList(Added(s, o))
  <1>1. Grown(s, Added(s, o)) /\ IsList(Added(s, o)) /\ Elements(Added(s, o)) \subseteq Elements(s) \cup {o}
    BY PushGrown
  <1> QED
    BY <1>1, StoreGrows

\* Factories.
LEMMA LoadBuilt ==
  ASSUME NEW c, NEW T, NEW U, NEW h, DoingOne(c, T, U, h), NEW s, IsList(s), NEW cs, Built(c, T, s, cs),
         h.do = "load",
         NEW t, t = IF Found(h.arg.kind, h.arg.type) = {} THEN s
                    ELSE Added(s, Object(FactoryClass(h.arg.kind), h.arg.type, h.arg.type, NoOwner))
  PROVE  Built(c, U, t, cs)
  <1> DEFINE kind == h.arg.kind
             type == h.arg.type
             o == Object(FactoryClass(kind), type, type, NoOwner)
  <1>1. kind \in LoadKinds /\ c \in Configs
    BY DoingRanks DEF ShapeOf, Loading
  <1>2. Rank(h) <= 12
    BY <1>1, LoadRankOf DEF LoadKinds
  <1>3. (\A x \in T : Rank(x) \in Int) /\ ~PassedIn(T, 18)
    BY <1>2, DoingRanks
  <1>4. FactoryClass(kind) \in LoadedClasses
    BY <1>1 DEF FactoryClass, LoadedClasses, LoadKinds
  <1>5. o.cls = FactoryClass(kind) /\ o.name = type /\ o.owner = NoOwner
    BY DEF Object
  <1>6. o.cls \notin {"operation", "container", "null"}
    BY <1>4, <1>5 DEF LoadedClasses
  <1>7. t = IF Found(kind, type) = {} THEN s ELSE Added(s, o)
    OBVIOUS
  <1> HIDE DEF o
  <1>8. Built(c, T, t, cs)
    BY <1>3, <1>6, <1>7, OthersAdded
  <1>9. Found(kind, type) # {} => Has(t, FactoryClass(kind), type)
    BY <1>5, <1>6, <1>7, PushGrown
  <1>10. DoneLoad(t, h)
    <2>1. \A k, x : LoadTask(k, x).arg.kind = k /\ LoadTask(k, x).arg.type = x
      BY DEF LoadTask, ToDo
    <2>2. FactoryClass("operation") = "operationFactory" /\ FactoryClass("container") = "containerFactory"
      BY DEF FactoryClass
    <2> QED
      BY <1>9, <2>1, <2>2 DEF DoneLoad
  <1> QED
    BY <1>1, <1>8, <1>10, DoneFree, TaskGone DEF Done

\* The factories that are built in.
LEMMA TransformersBuilt ==
  ASSUME NEW c, NEW T, NEW U, NEW h, DoingOne(c, T, U, h), NEW s, IsList(s), NEW cs, Built(c, T, s, cs),
         h.do = "transformers", NEW a, NEW b,
         NEW t, t = Added(Added(s, Object("operationFactory", a, a, NoOwner)), Object("operationFactory", b, b, NoOwner))
  PROVE  Built(c, U, t, cs)
  <1>1. (\A x \in T : Rank(x) \in Int) /\ ~PassedIn(T, 18)
    BY DoingRanks, RankOf
  <1>2. \A x : Object("operationFactory", x, x, NoOwner).cls = "operationFactory"
    BY DEF Object
  <1>3. /\ Built(c, T, Added(s, Object("operationFactory", a, a, NoOwner)), cs)
        /\ IsList(Added(s, Object("operationFactory", a, a, NoOwner)))
    BY <1>1, <1>2, OthersAdded
  <1>4. Built(c, T, t, cs)
    BY <1>1, <1>2, <1>3, OthersAdded
  <1> QED
    BY <1>4, PlainTask

\* Brokers.
LEMMA BrokerBuilt ==
  ASSUME NEW c, NEW T, NEW U, NEW h, DoingOne(c, T, U, h), NEW s, IsList(s), NEW cs, Built(c, T, s, cs),
         h.do = "broker", NEW type, NEW name,
         NEW t, t = s \/ t = Added(s, Object("broker", type, name, NoOwner))
  PROVE  Built(c, U, t, cs)
  <1>1. (\A x \in T : Rank(x) \in Int) /\ ~PassedIn(T, 18)
    BY DoingRanks, RankOf
  <1>2. Object("broker", type, name, NoOwner).cls = "broker"
    BY DEF Object
  <1>3. Built(c, T, t, cs)
    BY <1>1, <1>2, OthersAdded
  <1> QED
    BY <1>3, PlainTask

\* The name of an item that has one.
LEMMA NamedFor ==
  ASSUME NEW info, Explicit(info), NEW objs
  PROVE  FullNameFor(objs, info) = NameRead(info)
  BY DEF Explicit, FullNameFor, NameRead

\* Operations.
LEMMA OperationBuilt ==
  ASSUME NEW c, NEW T, NEW U, NEW h, DoingOne(c, T, U, h), NEW s, IsList(s), NEW cs, Built(c, T, s, cs),
         h.do = "operation", NEW objs,
         NEW t, t = IF Has(s, "operationFactory", h.arg.typeName)
                    THEN Added(s, Object("operation", h.arg.typeName, FullNameFor(objs, h.arg), NoOwner)) ELSE s
  PROVE  Built(c, U, t, cs)
  <1> DEFINE name == FullNameFor(objs, h.arg)
             o == Object("operation", h.arg.typeName, name, NoOwner)
  <1>1. Rank(h) = 2 /\ c \in Configs /\ h \in T
    BY DoingRanks, RankOf DEF DoingOne
  <1>2. (\A x \in T : Rank(x) \in Int) /\ ~PassedIn(T, 18) /\ ~PassedIn(T, 2) /\ PassedIn(T, 1)
    BY <1>1, DoingRanks
  <1>3. o.cls = "operation" /\ o.name = name /\ o.owner = NoOwner
    BY DEF Object
  <1>4. t = IF Has(s, "operationFactory", h.arg.typeName) THEN Added(s, o) ELSE s
    OBVIOUS
  <1> HIDE DEF o, name
  <1>5. /\ Grown(s, Added(s, o)) /\ Elements(Added(s, o)) \subseteq Elements(s) \cup {o}
        /\ Grown(s, s) /\ Has(Added(s, o), "operation", name) /\ IsList(Added(s, o))
    BY <1>3, PushGrown, GrownOn, SMTT(20)
  <1>6. Built(c, T, t, cs)
    BY <1>2, <1>3, <1>4, <1>5, StoreGrows
  <1>7. FactoriesMade(c, T, s) /\ OwnedLater(T, t)
    BY <1>6 DEF Built, ObjectsMade
  <1>8. ASSUME NEW p, PromisedOp(c, p), h = ToDo("build", "operation", p.info)
        PROVE  HasPlain(t, NameRead(p.info))
    <2>1. h.arg = p.info /\ name = NameRead(p.info)
      BY <1>8, Fields, NamedFor DEF PromisedOp, name
    <2>2. LoadTask("operation", p.info.typeName) \notin T
      <3>1. Rank(LoadTask("operation", p.info.typeName)) = 1
        BY LoadRankOf DEF LoadTask, ToDo
      <3> QED
        BY <1>2, <3>1 DEF PassedIn
    <2>3. Has(s, "operationFactory", p.info.typeName)
      BY <1>7, <1>8, <2>2 DEF FactoriesMade, PromisedOp
    <2>4. t = Added(s, o) /\ IsList(t) /\ Has(t, "operation", name)
      BY <1>4, <1>5, <2>1, <2>3
    <2>5. PICK q \in Elements(t) : q.cls = "operation" /\ q.name = name
      BY <2>4, HasAmong
    <2>6. q.owner = NoOwner
      BY <1>2, <1>7, <2>5 DEF OwnedLater
    <2> QED
      BY <2>1, <2>4, <2>5, <2>6, HasAmong
  <1>9. DoneItem(c, t, h)
    <2>1. h.do # "container" /\ h.do # "fsm" /\ \A x : ToDo("build", "container", x).do = "container" /\ ToDo("build", "fsm", x).do = "fsm"
      BY Fields
    <2> QED
      BY <1>8, <2>1 DEF DoneItem
  <1> QED
    BY <1>1, <1>6, <1>9, DoneFree, TaskGone DEF Done

\* Containers.
LEMMA ContainerBuilt ==
  ASSUME NEW c, NEW T, NEW U, NEW h, DoingOne(c, T, U, h), NEW s, IsList(s), NEW cs, Built(c, T, s, cs),
         h.do = "container", NEW objs,
         NEW t, t = IF Has(s, "containerFactory", h.arg.typeName)
                    THEN AddContainer(s, h.arg.typeName, FullNameFor(objs, h.arg), <<>>) ELSE s
  PROVE  Built(c, U, t, cs)
  <1> DEFINE name == FullNameFor(objs, h.arg)
             o == Object("container", h.arg.typeName, name, NoOwner)
             u == AddContainer(s, h.arg.typeName, name, <<>>)
  <1>1. Rank(h) = 5 /\ c \in Configs /\ h \in T /\ \E k \in Elements(c.containers.precreate) : h.arg = k.info
    BY DoingRanks, RankOf DEF DoingOne, ShapeOf
  <1>2. (\A x \in T : Rank(x) \in Int) /\ ~PassedIn(T, 18) /\ PassedIn(T, 2) /\ PassedIn(T, 4)
    BY <1>1, DoingRanks
  <1>3. o.cls = "container" /\ o.name = name /\ o.type = h.arg.typeName
    BY DEF Object
  <1>4. t = IF Has(s, "containerFactory", h.arg.typeName) THEN u ELSE s
    OBVIOUS
  <1>5. /\ Grown(s, u) /\ Has(u, "container", name)
        /\ \A x \in Elements(u) : x \in Elements(s) \/ x = o \/ (x.cls = "operation" /\ x.owner = name)
    <2>1. IsList(<<>>)
      BY DEF IsList, Elements
    <2> QED
      BY <2>1, ContainerAdded
  <1>6. Grown(s, s)
    BY GrownOn
  <1> HIDE DEF o, u, name
  <1>7. \A x \in Elements(t) : x \in Elements(s) \/ (x.cls = "container" => OriginOf(c, T, t, x.name))
    <2> SUFFICES ASSUME NEW x \in Elements(t), x \notin Elements(s), x.cls = "container"
                 PROVE  Taken(t, c, x.name)
      BY DEF OriginOf
    <2>1. x = o
      BY <1>4, <1>5
    <2> QED
      BY <1>1, <1>3, <2>1 DEF Taken
  <1>8. Built(c, T, t, cs)
    BY <1>2, <1>4, <1>5, <1>6, <1>7, StoreGrows
  <1>9. ASSUME NEW k, PromisedContainer(c, k), h = ToDo("build", "container", k.info)
        PROVE  Has(t, "container", NameRead(k.info))
    <2>1. h.arg = k.info /\ name = NameRead(k.info)
      BY <1>9, Fields, NamedFor DEF PromisedContainer, name
    <2>2. PICK l \in Elements(c.containers.preload) : l.type = k.info.typeName
      BY <1>9 DEF PromisedContainer
    <2>3. LoadTask("container", l.type) \notin T
      <3>1. Rank(LoadTask("container", l.type)) = 4
        BY LoadRankOf DEF LoadTask, ToDo
      <3> QED
        BY <1>2, <3>1 DEF PassedIn
    <2>4. Found("container", l.type) # {}
      BY <1>9, <2>2 DEF PromisedContainer
    <2>5. Has(s, "containerFactory", l.type)
      BY <2>3, <2>4 DEF Built, ObjectsMade, FactoriesMade
    <2> QED
      BY <1>4, <1>5, <2>1, <2>2, <2>5
  <1>10. DoneItem(c, t, h)
    <2>1. h.do # "operation" /\ h.do # "fsm" /\ \A x : ToDo("build", "operation", x).do = "operation" /\ ToDo("build", "fsm", x).do = "fsm"
      BY Fields
    <2> QED
      BY <1>9, <2>1 DEF DoneItem
  <1> QED
    BY <1>1, <1>8, <1>10, DoneFree, TaskGone DEF Done

\* Operations of containers.
LEMMA MemberBuilt ==
  ASSUME NEW c, NEW T, NEW U, NEW h, DoingOne(c, T, U, h), NEW s, IsList(s), NEW cs, Built(c, T, s, cs),
         h.do = "member", NEW type, NEW name, NEW owner,
         NEW t, t = s \/ t = Pushed(s, Object("operation", type, name, owner))
  PROVE  Built(c, U, t, cs)
  <1> DEFINE o == Object("operation", type, name, owner)
  <1>1. (\A x \in T : Rank(x) \in Int) /\ ~PassedIn(T, 18) /\ PassedIn(T, 2)
    BY DoingRanks, RankOf
  <1>2. o.cls = "operation"
    BY DEF Object
  <1> HIDE DEF o
  <1>3. Grown(s, Pushed(s, o)) /\ Elements(Pushed(s, o)) = Elements(s) \cup {o} /\ Grown(s, s)
    BY PushGrown, GrownOn
  <1>4. Built(c, T, t, cs)
    BY <1>1, <1>2, <1>3, StoreGrows DEF o
  <1> QED
    BY <1>4, PlainTask

\* A topic's connection has a name of its own kind, and for one topic and one end.
LEMMA TopicNamed ==
  /\ \A a : IsTopic(a) => a.name[1] = "topic"
  /\ \A a, b : IsTopic(a) /\ IsTopic(b) /\ a.name = b.name => SameEnds(a, b) /\ a.topic = b.topic
  <1>1. \A full, x : /\ Published(full, x).name = <<"topic", x, full>>
                     /\ Published(full, x).topic = x /\ Published(full, x).out = full
                     /\ Published(full, x).op = x /\ Published(full, x).inlet = "data"
    BY DEF Published
  <1>2. \A full, x : /\ Subscribed(full, x).name = <<"topic", full, x[1], x[2]>>
                     /\ Subscribed(full, x).topic = x[2] /\ Subscribed(full, x).out = x[2]
                     /\ Subscribed(full, x).op = full /\ Subscribed(full, x).inlet = x[1]
    BY DEF Subscribed
  <1>3. \A a, b, x, y, z : <<"topic", a, b>> # <<"topic", x, y, z>>
    <2> SUFFICES ASSUME NEW a, NEW b, NEW x, NEW y, NEW z, <<"topic", a, b>> = <<"topic", x, y, z>> PROVE FALSE
      OBVIOUS
    <2>1. Len(<<"topic", a, b>>) = 3 /\ Len(<<"topic", x, y, z>>) = 4
      OBVIOUS
    <2> QED
      BY <2>1
  <1>4. \A a : IsTopic(a) => a.name[1] = "topic"
    BY <1>1, <1>2 DEF IsTopic
  <1>5. ASSUME NEW a, NEW b, IsTopic(a), IsTopic(b), a.name = b.name
        PROVE  SameEnds(a, b) /\ a.topic = b.topic
    <2>1. PICK f, x : a = Published(f, x) \/ a = Subscribed(f, x)
      BY <1>5 DEF IsTopic
    <2>2. PICK g, y : b = Published(g, y) \/ b = Subscribed(g, y)
      BY <1>5 DEF IsTopic
    <2>3. CASE a = Published(f, x) /\ b = Published(g, y)
      <3>1. <<"topic", x, f>> = <<"topic", y, g>>
        BY <1>1, <1>5, <2>3
      <3> QED
        BY <1>1, <2>3, <3>1 DEF SameEnds
    <2>4. CASE a = Subscribed(f, x) /\ b = Subscribed(g, y)
      <3>1. <<"topic", f, x[1], x[2]>> = <<"topic", g, y[1], y[2]>>
        BY <1>2, <1>5, <2>4
      <3>2. f = g /\ x[1] = y[1] /\ x[2] = y[2]
        BY <3>1
      <3> QED
        BY <1>2, <2>4, <3>2 DEF SameEnds
    <2>5. CASE (a = Published(f, x) /\ b = Subscribed(g, y)) \/ (a = Subscribed(f, x) /\ b = Published(g, y))
      BY <1>1, <1>2, <1>3, <1>5, <2>5
    <2> QED
      BY <2>1, <2>2, <2>3, <2>4, <2>5
  <1> QED
    BY <1>4, <1>5

\* The task of a topic that does not throw is that of a connection to one.
LEMMA TopicTask ==
  ASSUME NEW c \in Configs, NEW y \in Elements(TopicTasks(c)), ~Throws(y)
  PROVE  IsTopic(y.arg) /\ y.do = "topic"
  <1>1. y.do = "topic" /\ (y.arg = NotText \/ IsTopic(y.arg))
    BY TopicTasksAre DEF ForTopic
  <1>2. y.arg = NotText => NotText \in Texts(y)
    BY <1>1 DEF Texts
  <1> QED
    BY <1>1, <1>2 DEF Throws

\* A name of another kind is no topic's.
LEMMA NoTopic ==
  ASSUME NEW c \in Configs, NEW T, NEW s, NEW h, h.name[1] # "topic"
  PROVE  TopicFit(c, T, s, h)
  BY TopicTask, TopicNamed DEF TopicFit

\* Names of other kinds.
LEMMA KindApart ==
  ASSUME NEW c, NEW h
  PROVE  /\ h.name[1] # "bind" => BindOK(h)
         /\ h.name[1] # "state" => StateOK(c, h)
  <1>1. \A a, o : <<"bind", a, o>>[1] = "bind" /\ <<"state", a, o>>[1] = "state"
    OBVIOUS
  <1> QED
    BY <1>1 DEF BindOK, StateOK

\* The ends of a wire.
LEMMA WireIs ==
  \A name, out, op, inlet : /\ Wire(name, out, op, inlet).name = name
                            /\ SameEnds(Wire(name, out, op, inlet), Ends(out, op, inlet))
                            /\ Wire(name, out, op, inlet).out = out
                            /\ Wire(name, out, op, inlet).op = op
                            /\ Wire(name, out, op, inlet).inlet = inlet
  BY DEF Wire, SameEnds, Ends

\* One or two things in a row.
LEMMA OneOrTwo ==
  ASSUME NEW a, NEW b
  PROVE  /\ IsList(<<>>) /\ IsList(<<a>>) /\ IsList(<<a, b>>)
         /\ \A x : x \in Elements(<<a>>) <=> x = a
         /\ \A x : x \in Elements(<<a, b>>) <=> x = a \/ x = b
         /\ \A x : x \notin Elements(<<>>)
  <1>1. IsList(<<>>) /\ \A x : x \notin Elements(<<>>)
    BY DEF IsList, Elements
  <1>2. IsList(<<a>>) /\ \A x : x \in Elements(<<a>>) <=> x = a
    BY Single
  <1>3. <<a, b>> \in Seq({a, b}) /\ DOMAIN <<a, b>> = 1..2 /\ <<a, b>>[1] = a /\ <<a, b>>[2] = b
    OBVIOUS
  <1>4. Elements(<<a, b>>) = {a, b}
    <2>1. 1 \in 1..2 /\ 2 \in 1..2 /\ \A i \in 1..2 : i = 1 \/ i = 2
      OBVIOUS
    <2> QED
      BY <1>3, <2>1 DEF Elements
  <1>5. IsList(<<a, b>>) /\ \A x : x \in Elements(<<a, b>>) <=> x = a \/ x = b
    BY <1>3, <1>4 DEF IsList
  <1>6. \A x : x \notin Elements(<<>>)
    BY <1>1
  <1> QED
    BY <1>1, <1>2, <1>5, <1>6

\* Connections whose names are of a kind that stands for nothing yet.
LEMMA TaggedConnected ==
  ASSUME NEW c \in Configs, NEW T, PassedIn(T, 3), NEW s, NEW cs, Built(c, T, s, cs),
         NEW ws, IsList(ws),
         \A w \in Elements(ws) : /\ w.name[1] # "topic"
                                 /\ PassedIn(T, 9) \/ w.name[1] # "bind"
                                 /\ PassedIn(T, 14) \/ w.name[1] # "state"
  PROVE  Built(c, T, s, ConnectedAll(s, cs, ws))
  <1> DEFINE e == ConnectedAll(s, cs, ws)
  <1>1. Net(c, s, cs)
    BY DEF Built, NetMade
  <1>2. /\ Net(c, s, e) /\ cs \subseteq e
        /\ \A h \in e : h \in cs \/ \E w \in Elements(ws) : SameLabel(h, w)
    BY <1>1, SomeConnected
  <1> HIDE DEF e
  <1>3. ASSUME NEW h \in e, h \notin cs PROVE Fit(c, T, s, h)
    <2>1. PICK w \in Elements(ws) : h.name = w.name
      BY <1>2, <1>3 DEF SameLabel
    <2>2. TopicFit(c, T, s, h)
      BY <2>1, NoTopic
    <2> QED
      BY <2>1, <2>2, KindApart DEF Fit
  <1> QED
    BY <1>2, <1>3, ConsGrow DEF e

\* Transformations.
LEMMA TransformBuilt ==
  ASSUME NEW c, NEW T, NEW U, NEW h, DoingOne(c, T, U, h), NEW s, IsList(s), NEW cs, Built(c, T, s, cs),
         h.do = "transformation", NEW type, NEW op,
         NEW t, t = s \/ t = Added(s, Object("operation", type, op, NoOwner)),
         NEW w1, NEW w2, NEW w3, NEW e,
         w1.name[1] = "tfcon", w2.name[1] = "tfcon", w3.name[1] = "dyncon",
         e = ConnectedAll(t, cs, <<w1, w2>> \o <<>>) \/ e = ConnectedAll(t, cs, <<w1, w2>> \o <<w3>>)
  PROVE  Built(c, U, t, e)
  <1> DEFINE o == Object("operation", type, op, NoOwner)
  <1>1. (\A x \in T : Rank(x) \in Int) /\ ~PassedIn(T, 18) /\ PassedIn(T, 2) /\ PassedIn(T, 3) /\ c \in Configs
    BY DoingRanks, RankOf
  <1>2. o.cls = "operation"
    BY DEF Object
  <1> HIDE DEF o
  <1>3. Grown(s, Added(s, o)) /\ Elements(Added(s, o)) \subseteq Elements(s) \cup {o} /\ Grown(s, s)
    BY PushGrown, GrownOn
  <1>4. Built(c, T, t, cs)
    BY <1>1, <1>2, <1>3, StoreGrows DEF o
  <1>5. /\ IsList(<<w1, w2>>) /\ \A x : x \in Elements(<<w1, w2>>) <=> x = w1 \/ x = w2
        /\ IsList(<<>>) /\ IsList(<<w3>>) /\ \A x : x \in Elements(<<w3>>) <=> x = w3
        /\ \A x : x \notin Elements(<<>>)
    BY OneOrTwo
  <1>6. /\ IsList(<<w1, w2>> \o <<>>) /\ \A x \in Elements(<<w1, w2>> \o <<>>) : x = w1 \/ x = w2
        /\ IsList(<<w1, w2>> \o <<w3>>) /\ \A x \in Elements(<<w1, w2>> \o <<w3>>) : x = w1 \/ x = w2 \/ x = w3
    <2>1. \A a : IsList(a) => IsList(<<w1, w2>> \o a) /\ Elements(<<w1, w2>> \o a) = Elements(<<w1, w2>>) \cup Elements(a)
      BY <1>5, Joining
    <2>2. Elements(<<w1, w2>> \o <<>>) = Elements(<<w1, w2>>) \cup Elements(<<>>)
      BY <1>5, <2>1
    <2>3. Elements(<<w1, w2>> \o <<w3>>) = Elements(<<w1, w2>>) \cup Elements(<<w3>>)
      BY <1>5, <2>1
    <2> QED
      BY <1>5, <2>1, <2>2, <2>3
  <1>7. Built(c, T, t, e)
    <2>1. \A w : w = w1 \/ w = w2 \/ w = w3 => w.name[1] \notin {"topic", "bind", "state"}
      OBVIOUS
    <2> DEFINE a == <<w1, w2>> \o <<>>
               b == <<w1, w2>> \o <<w3>>
    <2> HIDE DEF a, b
    <2>2. e = ConnectedAll(t, cs, a) \/ e = ConnectedAll(t, cs, b)
      BY DEF a, b
    <2>3. /\ IsList(a) /\ \A x \in Elements(a) : x = w1 \/ x = w2
          /\ IsList(b) /\ \A x \in Elements(b) : x = w1 \/ x = w2 \/ x = w3
      BY <1>6 DEF a, b
    <2> QED
      BY <1>1, <1>4, <2>1, <2>2, <2>3, TaggedConnected
  <1> QED
    BY <1>7, PlainTask

\* A container whose name is taken is not added.
LEMMA ContainerRefused ==
  ASSUME NEW s, NEW type, NEW name, NEW ops, Has(s, "container", name)
  PROVE  AddContainer(s, type, name, ops) = s
  BY DEF AddContainer, MayAdd, Object

\* FSMs.
LEMMA FSMBuilt ==
  ASSUME NEW c, NEW T, NEW U, NEW h, DoingOne(c, T, U, h), NEW s, IsList(s), NEW cs, Built(c, T, s, cs),
         h.do = "fsm", ~Throws(h),
         NEW t, t = IF Makes(h.arg)
                    THEN AddContainer(s, "FSM", h.arg.name,
                           [i \in DOMAIN h.arg.states |-> <<"activate_state", h.arg.states[i].name>>]
                           \o << <<"get_state", "get_state">> >>)
                    ELSE s
  PROVE  Built(c, U, t, cs)
  <1> DEFINE f == h.arg
             name == f.name
             acts == [i \in DOMAIN f.states |-> <<"activate_state", f.states[i].name>>]
             get == << <<"get_state", "get_state">> >>
             u == AddContainer(s, "FSM", name, acts \o get)
             o == Object("container", "FSM", name, NoOwner)
  <1>1. Rank(h) = 7 /\ c \in Configs /\ h \in T /\ f \in Elements(c.fsms.precreate)
    BY DoingRanks, RankOf DEF DoingOne, ShapeOf
  <1>2. (\A x \in T : Rank(x) \in Int) /\ ~PassedIn(T, 18) /\ ~PassedIn(T, 7) /\ PassedIn(T, 2)
    BY <1>1, DoingRanks
  <1>3. IsList(f.states)
    BY <1>1, ConfigAssumption
  <1>4. IsList(acts) /\ \A st \in Elements(f.states) : <<"activate_state", st.name>> \in Elements(acts)
    <2>1. acts \in [DOMAIN f.states -> Elements(acts)]
      BY DEF Elements
    <2>2. \A st \in Elements(f.states) : <<"activate_state", st.name>> \in Elements(acts)
      BY DEF Elements
    <2> HIDE DEF acts, f
    <2> QED
      BY <1>3, <2>1, <2>2, Mapped
  <1>5. IsList(get)
    BY OneOrTwo
  <1>6. t = IF Makes(f) THEN u ELSE s
    OBVIOUS
  <1> HIDE DEF acts, get
  <1>7. IsList(acts \o get) /\ Elements(acts) \subseteq Elements(acts \o get)
    BY <1>4, <1>5, Joining
  <1>8. /\ Grown(s, u) /\ Has(u, "container", name)
        /\ \A x \in Elements(u) : x \in Elements(s) \/ x = o \/ (x.cls = "operation" /\ x.owner = name)
        /\ ~Has(s, "container", name) => \A x \in Elements(acts \o get) : HasOp(u, Member(name, x[2]))
    BY <1>7, ContainerAdded
  <1>9. Has(s, "container", name) => u = s
    BY ContainerRefused
  <1>10. o.cls = "container" /\ o.name = name
    BY DEF Object
  <1>11. Grown(s, s)
    BY GrownOn
  <1>12. Makes(f) => \A st \in Elements(f.states) : st.name # NotText
    <2>1. Makes(f) => f.default
      BY DEF Makes
    <2> SUFFICES ASSUME Makes(f), NEW st \in Elements(f.states) PROVE st.name # NotText
      OBVIOUS
    <2>2. h.do = "fsm" /\ h.arg.default /\ st \in {x \in Elements(h.arg.states) : x.complete}
      BY <2>1 DEF Makes
    <2>3. st.name \in UNION {{x.name, x.transit} : x \in {y \in Elements(h.arg.states) : y.complete}}
      BY <2>2
    <2>4. st.name \in Texts(h)
      BY <2>2, <2>3 DEF Texts
    <2> QED
      BY <2>4 DEF Throws
  <1> HIDE DEF u, o, name
  <1>13. Makes(f) /\ ~Has(s, "container", name) => FSMMade(t, f)
    <2> SUFFICES ASSUME Makes(f), ~Has(s, "container", name) PROVE FSMMade(t, f)
      OBVIOUS
    <2>1. \A st \in Elements(f.states) : HasOp(u, Member(name, st.name))
      BY <1>4, <1>7, <1>8
    <2> QED
      BY <1>6, <1>8, <1>12, <2>1 DEF FSMMade, name
  <1>14. \A x \in Elements(t) : x \in Elements(s) \/ (x.cls = "container" => OriginOf(c, T, t, x.name))
    <2> SUFFICES ASSUME NEW x \in Elements(t), x \notin Elements(s), x.cls = "container"
                 PROVE  OriginOf(c, T, t, x.name)
      OBVIOUS
    <2>1. Makes(f) /\ t = u /\ ~Has(s, "container", name)
      BY <1>6, <1>9
    <2>2. x.name = name
      BY <1>8, <1>10, <2>1
    <2> QED
      BY <1>1, <1>13, <2>1, <2>2 DEF OriginOf, name
  <1>15. Built(c, T, t, cs)
    BY <1>2, <1>6, <1>8, <1>11, <1>14, StoreGrows
  <1>16. ASSUME NEW g \in PromisedFSMs(t, c), h = ToDo("build", "fsm", g) PROVE FSMMade(t, g)
    <2>1. /\ g = f /\ Makes(f) /\ ~Taken(t, c, name)
          /\ \A k \in Elements(c.fsms.precreate) : Makes(k) /\ k.name = name => k = f
      BY <1>16, Fields DEF PromisedFSMs, name
    <2>2. CASE ~Has(s, "container", name)
      BY <1>13, <2>1, <2>2
    <2>3. CASE Has(s, "container", name)
      <3>1. t = s
        BY <1>6, <1>9, <2>3
      <3>2. PICK x \in Elements(s) : x.cls = "container" /\ x.name = name
        BY <2>3, HasAmong
      <3>3. OriginOf(c, T, s, name)
        BY <3>2 DEF Built, ObjectsMade, Origins
      <3> QED
        BY <1>2, <2>1, <3>1, <3>3 DEF OriginOf
    <2> QED
      BY <2>2, <2>3
  <1>17. DoneItem(c, t, h)
    <2>1. h.do # "operation" /\ h.do # "container"
          /\ \A x : ToDo("build", "operation", x).do = "operation" /\ ToDo("build", "container", x).do = "container"
      BY Fields
    <2> QED
      BY <1>16, <2>1 DEF DoneItem
  <1> QED
    BY <1>1, <1>15, <1>17, DoneFree, TaskGone DEF Done

\* An EC or an anchor that is added has its operations.
LEMMA StarterAdded ==
  ASSUME NEW s, IsList(s), NEW type, NEW name, NEW t, t = AddContainer(s, type, name, StateOps)
  PROVE  /\ Grown(s, t) /\ Has(t, "container", name)
         /\ ~Has(s, "container", name) => ECMade(t, name)
         /\ \A o \in Elements(t) : o \in Elements(s) \/ (o.cls = "container" => o.name = name)
         /\ Has(s, "container", name) => t = s
  <1> DEFINE o == Object("container", type, name, NoOwner)
  <1>1. IsList(StateOps)
    BY DEF StateOps, IsList, Elements
  <1>2. <<"activate_state", "started">> \in Elements(StateOps)
    <2>1. 1 \in DOMAIN StateOps /\ StateOps[1] = <<"activate_state", "started">>
      BY DEF StateOps
    <2> QED
      BY <2>1 DEF Elements
  <1>3. <<"activate_state", "started">>[2] = "started"
    OBVIOUS
  <1>4. o.name = name /\ o.cls = "container"
    BY DEF Object
  <1> HIDE DEF o
  <1>5. /\ Grown(s, t) /\ Has(t, "container", name)
        /\ \A x \in Elements(t) : x \in Elements(s) \/ x = o \/ (x.cls = "operation" /\ x.owner = name)
        /\ ~Has(s, "container", name) => \A x \in Elements(StateOps) : HasOp(t, Member(name, x[2]))
    BY <1>1, ContainerAdded DEF o
  <1> QED
    BY <1>2, <1>3, <1>4, <1>5, ContainerRefused DEF ECMade

\* Each of a list led to a wire.
LEMMA WiresAre ==
  ASSUME NEW s, IsList(s), NEW g, DOMAIN g = DOMAIN s, g = [i \in DOMAIN s |-> g[i]]
  PROVE  /\ IsList(g)
         /\ \A w : w \in Elements(g) <=> \E i \in 1..Len(s) : w = g[i]
         /\ \A x : x \in Elements(s) <=> \E i \in 1..Len(s) : x = s[i]
  <1>1. g \in [DOMAIN s -> Elements(g)]
    BY DEF Elements
  <1>2. IsList(g) /\ Len(g) = Len(s)
    BY <1>1, Mapped
  <1> QED
    BY <1>2, Indexes

\* ECs, with the operations they are bound to.
BoundWire(name, o) == Wire(<<"bind", name, o>>, Member(name, "started"), o, "__event__")

\* The wires of an item that is bound: one for each of its operations.
LEMMA BoundWires ==
  ASSUME NEW name, NEW s, IsList(s)
  PROVE  /\ IsList([i \in DOMAIN s |-> BoundWire(name, s[i])])
         /\ \A w : w \in Elements([i \in DOMAIN s |-> BoundWire(name, s[i])])
                    <=> \E o \in Elements(s) : w = BoundWire(name, o)
  <1> DEFINE g == [i \in DOMAIN s |-> BoundWire(name, s[i])]
  <1>1. /\ DOMAIN g = DOMAIN s /\ g = [i \in DOMAIN s |-> g[i]]
        /\ \A i \in DOMAIN s : g[i] = BoundWire(name, s[i])
    OBVIOUS
  <1> HIDE DEF g
  <1>2. /\ IsList(g) /\ DOMAIN s = 1..Len(s)
        /\ \A w : w \in Elements(g) <=> \E i \in 1..Len(s) : w = g[i]
        /\ \A x : x \in Elements(s) <=> \E i \in 1..Len(s) : x = s[i]
    BY <1>1, WiresAre, Indexes
  <1>3. ASSUME NEW w \in Elements(g) PROVE \E o \in Elements(s) : w = BoundWire(name, o)
    BY <1>1, <1>2
  <1>4. ASSUME NEW o \in Elements(s) PROVE BoundWire(name, o) \in Elements(g)
    BY <1>1, <1>2
  <1> QED
    BY <1>2, <1>3, <1>4 DEF g

\* An EC is created and its operations bound.
LEMMA ECBuilt ==
  ASSUME NEW c, NEW T, NEW U, NEW h, DoingOne(c, T, U, h), NEW s, IsList(s), NEW cs, Built(c, T, s, cs),
         h.do = "ec", NEW t, t = AddContainer(s, h.arg.type, h.arg.name, StateOps),
         NEW e, e = ConnectedAll(t, cs, [i \in DOMAIN h.arg.bind |-> BoundWire(h.arg.name, h.arg.bind[i])])
  PROVE  Built(c, U, t, e)
  <1> DEFINE a == h.arg
             name == a.name
             ws == [i \in DOMAIN a.bind |-> BoundWire(name, a.bind[i])]
  <1>1. Rank(h) = 9 /\ c \in Configs /\ h \in T /\ a \in Elements(c.ecs.precreate)
    BY DoingRanks, RankOf DEF DoingOne, ShapeOf
  <1>2. /\ \A x \in T : Rank(x) \in Int
        /\ ~PassedIn(T, 18) /\ ~PassedIn(T, 9) /\ PassedIn(T, 2) /\ PassedIn(T, 3) /\ PassedIn(T, 7)
    BY <1>1, DoingRanks
  <1>3. /\ Grown(s, t) /\ Has(t, "container", name)
        /\ ~Has(s, "container", name) => ECMade(t, name)
        /\ \A x \in Elements(t) : x \in Elements(s) \/ (x.cls = "container" => x.name = name)
        /\ Has(s, "container", name) => t = s
    BY StarterAdded
  <1>4. /\ IsList(ws)
        /\ \A w : w \in Elements(ws) <=> \E o \in Elements(a.bind) : w = BoundWire(name, o)
    <2>1. IsList(a.bind)
      BY <1>1, ConfigAssumption
    <2> QED
      BY <2>1, BoundWires
  <1>5. e = ConnectedAll(t, cs, ws)
    OBVIOUS
  <1> HIDE DEF ws, name
  <1>6. \A x \in Elements(t) : x \in Elements(s) \/ (x.cls = "container" => OriginOf(c, T, t, x.name))
    <2> SUFFICES ASSUME NEW x \in Elements(t), x \notin Elements(s), x.cls = "container"
                 PROVE  OriginOf(c, T, t, x.name)
      OBVIOUS
    <2>1. ~Has(s, "container", name) /\ x.name = name
      BY <1>3
    <2> QED
      BY <1>2, <1>3, <2>1 DEF OriginOf
  <1>7. Built(c, T, t, cs)
    BY <1>2, <1>3, <1>6, StoreGrows
  <1>8. Net(c, t, cs) /\ BindNames(T, cs) /\ Origins(c, T, t) /\ OpsMade(c, T, t)
    BY <1>7 DEF Built, NetMade, ObjectsMade
  <1>9. /\ Net(c, t, e) /\ cs \subseteq e
        /\ \A x \in e : x \in cs \/ \E w \in Elements(ws) : SameLabel(x, w)
        /\ \A w \in Elements(ws) :
             /\ HasOp(t, w.out) /\ InletThere(t, w) /\ w.op \in PromisedOps(c)
             /\ \A x \in e : x.name = w.name => SameEnds(x, w)
             => Whole(e, w)
    BY <1>4, <1>5, <1>8, SomeConnected, SMTT(20)
  <1>10. \A o : /\ BoundWire(name, o).name = <<"bind", name, o>>
                /\ SameEnds(BoundWire(name, o), Ends(Member(name, "started"), o, "__event__"))
                /\ BoundWire(name, o).out = Member(name, "started")
                /\ BoundWire(name, o).op = o /\ BoundWire(name, o).inlet = "__event__"
    BY WireIs DEF BoundWire
  <1>11. ASSUME NEW x \in e PROVE BindOK(x)
    <2>1. CASE x \in cs
      BY <1>2, <1>8, <2>1 DEF BindNames
    <2>2. CASE x \notin cs
      <3>1. PICK o : SameLabel(x, BoundWire(name, o))
        BY <1>4, <1>9, <2>2
      <3>2. x.name = <<"bind", name, o>> /\ SameEnds(x, Ends(Member(name, "started"), o, "__event__"))
        BY <1>10, <3>1 DEF SameLabel, SameEnds
      <3>3. ASSUME NEW b, NEW p, x.name = <<"bind", b, p>>
            PROVE  SameEnds(x, Ends(Member(b, "started"), p, "__event__"))
        <4>1. <<"bind", b, p>> = <<"bind", name, o>>
          BY <3>2, <3>3
        <4>2. b = name /\ p = o
          BY <4>1
        <4> QED
          BY <3>2, <4>2
      <3> QED
        BY <3>3 DEF BindOK
    <2> QED
      BY <2>1, <2>2
  <1>12. ASSUME NEW x \in e, x \notin cs PROVE Fit(c, T, t, x)
    <2>1. PICK o : x.name = <<"bind", name, o>>
      BY <1>4, <1>9, <1>10, <1>12 DEF SameLabel
    <2>2. x.name[1] = "bind"
      BY <2>1
    <2> QED
      BY <1>1, <1>11, <2>2, NoTopic, KindApart DEF Fit
  <1>13. Built(c, T, t, e)
    BY <1>2, <1>7, <1>9, <1>12, ConsGrow
  <1>14. ASSUME NEW g \in PromisedECs(t, c), h = ToDo("build", "ec", g)
         PROVE  ECMade(t, g.name) /\ \A o \in Elements(g.bind) \cap PromisedOps(c) : Whole(e, ECEnds(g, o))
    <2>1. g = a /\ g.name = name
      BY <1>14, Fields DEF name
    <2>2. /\ ~Taken(t, c, name) /\ \A f \in Elements(c.fsms.precreate) : Makes(f) => f.name # name
      BY <2>1 DEF PromisedECs
    <2>3. ECMade(t, name)
      <3>1. CASE ~Has(s, "container", name)
        BY <1>3, <3>1
      <3>2. CASE Has(s, "container", name)
        <4>1. PICK x \in Elements(t) : x.cls = "container" /\ x.name = name
          <5>1. t = s /\ IsList(s)
            BY <1>3, <3>2
          <5> QED
            BY <3>2, <5>1, HasAmong
        <4>2. OriginOf(c, T, t, name)
          BY <1>8, <4>1 DEF Origins
        <4> QED
          BY <1>2, <2>2, <4>2 DEF OriginOf
      <3> QED
        BY <3>1, <3>2
    <2>4. ASSUME NEW o \in Elements(g.bind), o \in PromisedOps(c) PROVE Whole(e, ECEnds(g, o))
      <3> DEFINE w == BoundWire(name, o)
      <3>1. w \in Elements(ws)
        BY <1>4, <2>1
      <3>2. HasOp(t, w.out)
        BY <1>10, <2>3 DEF ECMade
      <3>3. InletThere(t, w)
        <4>1. HasPlain(t, o)
          BY <1>2, <1>8, <2>4, OpsAreThere DEF OpsThere
        <4>2. HasOp(t, o)
          BY <1>3, <4>1, GrownHas, GrownOn DEF Grown
        <4> QED
          BY <1>10, <4>2 DEF InletThere
      <3>4. \A x \in e : x.name = w.name => SameEnds(x, w)
        BY <1>10, <1>11 DEF BindOK, SameEnds
      <3>5. w.op \in PromisedOps(c)
        BY <1>10, <2>4
      <3>6. Whole(e, w)
        <4> HIDE DEF w
        <4> QED
          BY <1>9, <3>1, <3>2, <3>3, <3>4, <3>5
      <3>7. SameEnds(w, ECEnds(g, o))
        BY <1>10, <2>1 DEF ECEnds
      <3> QED
        BY <3>6, <3>7, EndsAlike
    <2> QED
      BY <2>1, <2>3, <2>4
  <1>15. DoneBind(c, t, e, h)
    <2>1. h.do # "bindState" /\ \A f, st, b : StateTask(f, st, b).do = "bindState"
      BY Fields DEF StateTask
    <2> QED
      BY <1>14, <2>1 DEF DoneBind
  <1> QED
    BY <1>1, <1>13, <1>15, DoneFree, TaskGone DEF Done

\* The binds of ECs.
LEMMA BindECBuilt ==
  ASSUME NEW c, NEW T, NEW U, NEW h, DoingOne(c, T, U, h), NEW s, IsList(s), NEW cs, Built(c, T, s, cs),
         h.do = "bindEC",
         NEW e, e = cs \/ e = ConnectedAll(s, cs, [i \in DOMAIN h.arg.operations |-> BoundWire(h.arg.name, h.arg.operations[i])])
  PROVE  Built(c, U, s, e)
  <1> DEFINE ws == [i \in DOMAIN h.arg.operations |-> BoundWire(h.arg.name, h.arg.operations[i])]
  <1>1. /\ Rank(h) = 10 /\ c \in Configs /\ h.arg \in Elements(c.ecs.bind)
        /\ PassedIn(T, 3) /\ PassedIn(T, 9) /\ (\A x \in T : Rank(x) \in Int)
    BY DoingRanks, RankOf DEF ShapeOf
  <1>2. IsList(h.arg.operations)
    BY <1>1, ConfigAssumption
  <1>3. IsList(ws) /\ \A w \in Elements(ws) : \E o : w = BoundWire(h.arg.name, o)
    BY <1>2, BoundWires
  <1>4. \A a, o : BoundWire(a, o).name[1] = "bind"
    BY WireIs DEF BoundWire
  <1>5. e = cs \/ e = ConnectedAll(s, cs, ws)
    OBVIOUS
  <1> HIDE DEF ws
  <1>6. Built(c, T, s, e)
    BY <1>1, <1>3, <1>4, <1>5, TaggedConnected
  <1> QED
    BY <1>6, PlainTask

\* Anchors.
LEMMA AnchorBuilt ==
  ASSUME NEW c, NEW T, NEW U, NEW h, DoingOne(c, T, U, h), NEW s, IsList(s), NEW cs, Built(c, T, s, cs),
         h.do = "anchor", NEW type, NEW name,
         NEW t, t = s \/ t = AddContainer(s, type, name, StateOps),
         NEW w1, NEW w2, w1.name[1] = "bind", w2.name[1] = "bind",
         NEW e, e = cs \/ e = ConnectedAll(t, cs, <<w1, w2>>) \/ e = ConnectedAll(t, cs, <<w2>>)
  PROVE  Built(c, U, t, e)
  <1>1. /\ Rank(h) = 11 /\ c \in Configs /\ \A x \in T : Rank(x) \in Int
        /\ ~PassedIn(T, 18) /\ PassedIn(T, 2) /\ PassedIn(T, 3) /\ PassedIn(T, 7) /\ PassedIn(T, 9)
    BY DoingRanks, RankOf
  <1>2. Grown(s, t)
    BY StarterAdded, GrownOn
  <1>3. \A n : OriginOf(c, T, t, n)
    BY <1>1 DEF OriginOf
  <1>4. Built(c, T, t, cs)
    BY <1>1, <1>2, <1>3, StoreGrows
  <1>5. /\ IsList(<<w1, w2>>) /\ \A x : x \in Elements(<<w1, w2>>) <=> x = w1 \/ x = w2
        /\ IsList(<<w2>>) /\ \A x : x \in Elements(<<w2>>) <=> x = w2
    BY OneOrTwo
  <1>6. Built(c, T, t, e)
    <2> DEFINE a == <<w1, w2>>
               b == <<w2>>
    <2>1. /\ e = cs \/ e = ConnectedAll(t, cs, a) \/ e = ConnectedAll(t, cs, b)
          /\ IsList(a) /\ \A x : x \in Elements(a) <=> x = w1 \/ x = w2
          /\ IsList(b) /\ \A x : x \in Elements(b) <=> x = w2
      BY <1>5
    <2> HIDE DEF a, b
    <2> QED
      BY <1>1, <1>4, <2>1, TaggedConnected
  <1> QED
    BY <1>6, PlainTask

\* The states of FSMs.
LEMMA StateBuilt ==
  ASSUME NEW c, NEW T, NEW U, NEW h, DoingOne(c, T, U, h), NEW s, IsList(s), NEW cs, Built(c, T, s, cs),
         h.do = "bindState", NEW from, from = Member(h.arg.fsm, h.arg.state),
         NEW n, n = h.arg.target.name, NEW state,
         NEW e,
         HasOp(s, n) => e = Connected(s, cs, StateWire(from, n, n, "__argument__")),
         ~HasOp(s, n) => e = cs \/ e = Connected(s, cs, StateWire(from, n, state, "__event__"))
  PROVE  Built(c, U, s, e)
  <1> DEFINE a == StateWire(from, n, n, "__argument__")
             b == StateWire(from, n, state, "__event__")
  <1>1. /\ Rank(h) = 14 /\ c \in Configs /\ h \in T /\ \A x \in T : Rank(x) \in Int
        /\ PassedIn(T, 2) /\ PassedIn(T, 3) /\ PassedIn(T, 9) /\ PassedIn(T, 7) /\ ~PassedIn(T, 14)
    BY DoingRanks, RankOf DEF DoingOne
  <1>2. /\ Net(c, s, cs) /\ StateNames(c, T, cs) /\ FSMsMade(c, T, s) /\ OpsMade(c, T, s)
    BY DEF Built, NetMade, ObjectsMade
  <1>3. ASSUME NEW m \in PromisedOps(c) PROVE HasOp(s, m)
    <2>1. HasPlain(s, m)
      BY <1>1, <1>2, OpsAreThere DEF OpsThere
    <2> QED
      BY <2>1, GrownHas, GrownOn
  <1>4. /\ a.name = <<"state", from, n>> /\ SameEnds(a, Ends(from, n, "__argument__"))
        /\ a.out = from /\ a.op = n /\ a.inlet = "__argument__"
        /\ b.name = <<"state", from, n>>
    BY WireIs DEF StateWire
  <1>5. HasOp(s, n) => e = Connected(s, cs, a)
    OBVIOUS
  <1>6. ~HasOp(s, n) => e = cs \/ e = Connected(s, cs, b)
    OBVIOUS
  <1> HIDE DEF a, b
  <1>7. /\ Net(c, s, e) /\ cs \subseteq e
        /\ \A x \in e : x \in cs \/ (HasOp(s, n) /\ SameLabel(x, a)) \/ (~HasOp(s, n) /\ SameLabel(x, b))
    <2>1. CASE HasOp(s, n)
      <3>1. e = Connected(s, cs, a)
        BY <1>5, <2>1
      <3> QED
        BY <1>2, <2>1, <3>1, OneConnected
    <2>2. CASE ~HasOp(s, n) /\ e = Connected(s, cs, b)
      BY <1>2, <2>2, OneConnected
    <2>3. CASE e = cs
      BY <1>2, <2>3
    <2> QED
      BY <1>6, <2>1, <2>2, <2>3
  <1>8. ASSUME NEW x \in e, x \notin cs PROVE Fit(c, T, s, x)
    <2>1. x.name = <<"state", from, n>>
      BY <1>4, <1>7, <1>8 DEF SameLabel
    <2>2. x.name[1] = "state"
      BY <2>1
    <2>3. ASSUME NEW y, NEW m \in PromisedOps(c), x.name = <<"state", y, m>>
          PROVE  SameEnds(x, Ends(y, m, "__argument__"))
      <3>1. <<"state", y, m>> = <<"state", from, n>>
        BY <2>1, <2>3
      <3>2. y = from /\ m = n
        BY <3>1
      <3>3. SameLabel(x, a)
        BY <1>3, <1>7, <1>8, <3>2
      <3> QED
        BY <1>4, <3>2, <3>3 DEF SameLabel, SameEnds
    <2>4. StateOK(c, x)
      BY <2>3 DEF StateOK
    <2> QED
      BY <1>1, <2>2, <2>4, NoTopic DEF Fit
  <1>9. Built(c, T, s, e)
    BY <1>1, <1>7, <1>8, ConsGrow
  <1>10. ASSUME NEW f \in PromisedFSMs(s, c), NEW st \in Elements(f.states), NEW t \in Elements(st.bind),
                t.name \in PromisedOps(c), st.name # NotText, h = StateTask(f, st, t)
         PROVE  Whole(e, StateEnds(f, st, t.name))
    <2>1. h.arg = [fsm |-> f.name, state |-> st.name, target |-> t]
      BY <1>10, Fields DEF StateTask
    <2>2. from = Member(f.name, st.name) /\ n = t.name
      BY <2>1
    <2>3. FSMMade(s, f)
      <3>1. Rank(ToDo("build", "fsm", f)) = 7
        BY Ranks
      <3>2. ToDo("build", "fsm", f) \notin T
        BY <1>1, <3>1 DEF PassedIn
      <3> QED
        BY <1>2, <3>2 DEF FSMsMade
    <2>4. HasOp(s, from) /\ HasOp(s, n)
      BY <1>3, <1>10, <2>2, <2>3 DEF FSMMade
    <2>5. InletThere(s, a)
      BY <1>4, <2>4 DEF InletThere
    <2>6. Clear(cs, a)
      <3> SUFFICES ASSUME NEW x \in OfOutlet(cs, a) \cup OfInlet(cs, a), x.name = a.name
                   PROVE  SameEnds(x, a) /\ (x.side = "outlet" => x.whole)
        BY DEF Clear
      <3>1. x \in cs /\ StateOK(c, x)
        BY <1>1, <1>2 DEF OfOutlet, OfInlet, StateNames
      <3>2. SameEnds(x, Ends(from, n, "__argument__"))
        BY <1>4, <1>10, <2>2, <3>1 DEF StateOK
      <3>3. SameEnds(x, a)
        BY <1>4, <3>2 DEF SameEnds
      <3>4. InletThere(s, x) /\ x.op \in PromisedOps(c)
        BY <1>4, <1>10, <2>2, <2>5, <3>3, EndsAlike DEF SameEnds
      <3> QED
        BY <1>2, <3>1, <3>3, <3>4 DEF Net, WholeWhereThere
    <2>7. Whole(e, a)
      BY <1>2, <1>4, <1>5, <2>4, <2>5, <2>6, OneConnected
    <2>8. SameEnds(a, StateEnds(f, st, t.name))
      BY <1>4, <2>2 DEF StateEnds
    <2> QED
      BY <2>7, <2>8, EndsAlike
  <1>11. DoneBind(c, s, e, h)
    <2>1. h.do # "ec" /\ \A x : ToDo("build", "ec", x).do = "ec"
      BY Fields
    <2> QED
      BY <1>10, <2>1 DEF DoneBind
  <1> QED
    BY <1>1, <1>9, <1>11, DoneFree, TaskGone DEF Done

\* The binds of FSMs.
LEMMA BindFSMBuilt ==
  ASSUME NEW c, NEW T, NEW U, NEW h, DoingOne(c, T, U, h), NEW s, IsList(s), NEW cs, Built(c, T, s, cs),
         h.do = "bindFSM", NEW v, NEW w, IsList(v), IsList(w),
         \A x \in Elements(v) \cup Elements(w) : x.name[1] = "state"
  PROVE  Built(c, U, s, ConnectedAll(s, cs, v \o w))
  <1>1. /\ Rank(h) = 15 /\ c \in Configs
        /\ PassedIn(T, 3) /\ PassedIn(T, 9) /\ PassedIn(T, 14)
    BY DoingRanks, RankOf
  <1>2. IsList(v \o w) /\ Elements(v \o w) = Elements(v) \cup Elements(w)
    BY Joining
  <1>3. Built(c, T, s, ConnectedAll(s, cs, v \o w))
    BY <1>1, <1>2, TaggedConnected
  <1> QED
    BY <1>3, PlainTask

\* Connections.
LEMMA ConnectBuilt ==
  ASSUME NEW c, NEW T, NEW U, NEW h, DoingOne(c, T, U, h), NEW s, IsList(s), NEW cs, Built(c, T, s, cs),
         h.do = "connect", NEW e, e = Connected(s, cs, h.arg)
  PROVE  Built(c, U, s, e)
  <1> DEFINE w == h.arg
  <1>1. /\ Rank(h) = 18 /\ c \in Configs /\ w \in Elements(c.connections)
        /\ PassedIn(T, 2) /\ PassedIn(T, 3) /\ PassedIn(T, 9) /\ PassedIn(T, 14) /\ PassedIn(U, 17)
    BY DoingRanks, RankOf DEF ShapeOf
  <1>2. /\ Net(c, s, cs) /\ OpsMade(c, T, s)
    BY DEF Built, NetMade, ObjectsMade
  <1>3. ASSUME NEW m \in PromisedOps(c) PROVE HasOp(s, m)
    <2>1. HasPlain(s, m)
      BY <1>1, <1>2, OpsAreThere DEF OpsThere
    <2> QED
      BY <2>1, GrownHas, GrownOn
  <1> HIDE DEF w
  <1>4. /\ Net(c, s, e) /\ cs \subseteq e
        /\ \A x \in e : x \in cs \/ SameLabel(x, w)
        /\ HasOp(s, w.out) /\ InletThere(s, w) /\ Clear(cs, w) => Whole(e, w)
    BY <1>2, OneConnected DEF w
  <1>5. ASSUME NEW x \in e, x \notin cs PROVE Fit(c, T, s, x)
    <2>1. x.name = w.name
      BY <1>4, <1>5 DEF SameLabel
    <2>2. TopicFit(c, T, s, x)
      BY <1>1, <2>1 DEF TopicFit
    <2> QED
      BY <1>1, <2>2 DEF Fit
  <1>6. Built(c, T, s, e)
    BY <1>1, <1>4, <1>5, ConsGrow
  <1>7. ConnectionMade(c, s, e, w)
    <2> SUFFICES ASSUME {w.out, w.op} \subseteq PromisedOps(c), InletThere(s, w), NameFree(e, w)
                 PROVE  Whole(e, w)
      BY DEF ConnectionMade
    <2>1. Clear(cs, w)
      <3> SUFFICES ASSUME NEW x \in OfOutlet(cs, w) \cup OfInlet(cs, w), x.name = w.name
                   PROVE  SameEnds(x, w) /\ (x.side = "outlet" => x.whole)
        BY DEF Clear
      <3>1. x \in cs /\ x \in OfOutlet(e, w) \cup OfInlet(e, w)
        BY <1>4 DEF OfOutlet, OfInlet
      <3>2. SameEnds(x, w)
        BY <3>1 DEF NameFree
      <3>3. InletThere(s, x) /\ x.op \in PromisedOps(c)
        BY <3>2, EndsAlike DEF SameEnds
      <3> QED
        BY <1>2, <3>1, <3>2, <3>3 DEF Net, WholeWhereThere
    <2> QED
      BY <1>3, <1>4, <2>1
  <1>8. DoneJoin(c, U, s, e, h)
    <2>1. h \notin Elements(TopicTasks(c))
      BY <1>1, TopicTasksAre DEF ForTopic
    <2>2. \A x : h = ToDo("connections", "connect", x) => x = w
      BY Fields DEF w
    <2> QED
      BY <1>1, <1>7, <2>1, <2>2 DEF DoneJoin
  <1> QED
    BY <1>1, <1>6, <1>8, DoneFree, TaskGone DEF Done

\* Topics.
LEMMA TopicBuilt ==
  ASSUME NEW c, NEW T, NEW U, NEW h, DoingOne(c, T, U, h), NEW s, IsList(s), NEW cs, Built(c, T, s, cs),
         h.do = "topic", ~Throws(h),
         NEW t, t = Added(s, Object("operation", "Topic", h.arg.topic, NoOwner)),
         NEW e, e = Connected(t, cs, h.arg)
  PROVE  Built(c, U, t, e)
  <1> DEFINE a == h.arg
             o == Object("operation", "Topic", a.topic, NoOwner)
  <1>1. /\ Rank(h) = 19 /\ c \in Configs /\ h \in Elements(TopicTasks(c)) /\ \A x \in T : Rank(x) \in Int
        /\ PassedIn(T, 2) /\ PassedIn(T, 3) /\ PassedIn(T, 9) /\ PassedIn(T, 14) /\ PassedIn(T, 18) /\ PassedIn(U, 18)
    BY DoingRanks, RankOf DEF ShapeOf
  <1>2. IsTopic(a)
    BY <1>1, TopicTask
  <1>3. o.cls = "operation" /\ o.name = a.topic /\ o.owner = NoOwner
    BY DEF Object
  <1>4. t = Added(s, o)
    OBVIOUS
  <1>5. Stable(s, t)
    BY AddedStable
  <1> HIDE DEF o
  <1>6. /\ Grown(s, t) /\ Elements(t) \subseteq Elements(s) \cup {o} /\ IsList(t)
        /\ HasOp(t, a.topic)
    BY <1>3, <1>4, PushGrown, SMTT(20) DEF HasOp
  <1>7. Built(c, T, t, cs)
    BY <1>1, <1>3, <1>5, <1>6, StoreGrows
  <1>8. Net(c, t, cs) /\ TopicNames(c, T, t, cs)
    BY <1>7 DEF Built, NetMade
  <1> HIDE DEF a
  <1>9. /\ Net(c, t, e) /\ cs \subseteq e
        /\ \A x \in e : x \in cs \/ (SameLabel(x, a) /\ (x.whole <=> InletThere(t, a)))
        /\ HasOp(t, a.out) /\ InletThere(t, a) /\ Clear(cs, a) => Whole(e, a)
    BY <1>8, OneConnected DEF a
  <1>10. ASSUME NEW x \in e, x \notin cs PROVE Fit(c, T, t, x)
    <2>1. SameLabel(x, a) /\ (x.whole <=> InletThere(t, a))
      BY <1>9, <1>10
    <2>2. ASSUME NEW y \in Elements(TopicTasks(c)), ~Throws(y), x.name = y.arg.name
          PROVE  TopicLabel(c, T, t, y.arg, x)
      <3>1. IsTopic(y.arg)
        BY <1>1, <2>2, TopicTask
      <3>2. y.arg.name = a.name
        BY <2>1, <2>2 DEF SameLabel
      <3>3. SameEnds(y.arg, a) /\ y.arg.topic = a.topic
        BY <1>2, <3>1, <3>2, TopicNamed
      <3>4. SameEnds(x, y.arg)
        BY <2>1, <3>3 DEF SameLabel, SameEnds
      <3>5. TopicWanted(t, c, y.arg) => x.whole
        <4>1. TopicWanted(t, c, y.arg) => InletThere(t, y.arg)
          BY DEF TopicWanted
        <4> QED
          BY <2>1, <3>3, <4>1, EndsAlike
      <3> QED
        BY <1>1, <1>6, <3>3, <3>4, <3>5 DEF TopicLabel
    <2>3. TopicFit(c, T, t, x)
      BY <2>2 DEF TopicFit
    <2> QED
      BY <1>1, <2>3 DEF Fit
  <1>11. Built(c, T, t, e)
    BY <1>1, <1>7, <1>9, <1>10, ConsGrow
  <1>12. TopicMade(c, U, t, e, a)
    <2>1. ASSUME TopicWanted(t, c, a) PROVE Whole(e, a)
      <3>1. HasOp(t, a.out) /\ InletThere(t, a) /\ \A w \in Elements(c.connections) : w.name # a.name
        BY <2>1 DEF TopicWanted
      <3>2. Clear(cs, a)
        <4> SUFFICES ASSUME NEW x \in OfOutlet(cs, a) \cup OfInlet(cs, a), x.name = a.name
                     PROVE  SameEnds(x, a) /\ (x.side = "outlet" => x.whole)
          BY DEF Clear
        <4>1. x \in cs
          BY DEF OfOutlet, OfInlet
        <4>2. TopicLabel(c, T, t, a, x)
          BY <1>1, <1>8, <3>1, <4>1 DEF TopicNames, a
        <4> QED
          BY <2>1, <4>2 DEF TopicLabel
      <3> QED
        BY <1>9, <3>1, <3>2
    <2> QED
      BY <1>1, <1>6, <2>1 DEF TopicMade
  <1>13. DoneJoin(c, U, t, e, h)
    <2>1. \A x : ToDo("connections", "connect", x).do = "connect"
      BY Fields
    <2> QED
      BY <1>12, <2>1 DEF DoneJoin, a
  <1> QED
    BY <1>1, <1>11, <1>13, DoneFree, TaskGone DEF Done

\* A client's operation.
LEMMA ClientBuilt ==
  ASSUME NEW c \in Configs, NEW T, T \subseteq Elements(Tasks(c)), NEW s, IsList(s), NEW cs, Built(c, T, s, cs),
         NEW n, NEW t, t = Added(s, Object("operation", "client", n, NoOwner))
  PROVE  Built(c, T, t, cs)
  <1> DEFINE o == Object("operation", "client", n, NoOwner)
  <1>1. o.cls = "operation" /\ o.owner = NoOwner
    BY DEF Object
  <1>2. Stable(s, t)
    BY AddedStable
  <1>3. t = Added(s, o)
    OBVIOUS
  <1> HIDE DEF o
  <1>4. Grown(s, t) /\ Elements(t) \subseteq Elements(s) \cup {o}
    BY <1>3, PushGrown
  <1> QED
    BY <1>1, <1>2, <1>4, TasksKnown, StoreGrows

\* The tasks of topics or of callbacks that are passed over when one of them throws.
LEMMA PassedOver ==
  ASSUME NEW c \in Configs, NEW T, NEW U, NEW h, T \subseteq Elements(Tasks(c)), h \in T, U \subseteq T,
         \A x \in T : Rank(h) <= Rank(x), Throws(h), h.phase \in {"topics", "callbacks"},
         NEW s, NEW cs, Built(c, T, s, cs)
  PROVE  Built(c, U, s, cs)
  <1>1. \A x \in T : Rank(x) \in 1..20 /\ ShapeOf(c, x) /\ x.phase = Phase(Rank(x))
    BY TasksKnown
  <1>2. Rank(h) = 19 \/ Rank(h) = 20
    BY <1>1 DEF Phase
  <1>3. \A x \in T : Rank(x) = 19 \/ Rank(x) = 20
    BY <1>1, <1>2
  <1>4. /\ FactoriesMade(c, T, s) /\ OwnedLater(T, s) /\ OpsMade(c, T, s) /\ ContainersMade(c, T, s)
        /\ Origins(c, T, s) /\ FSMsMade(c, T, s) /\ ECsMade(c, T, s)
        /\ Net(c, s, cs) /\ (cs # {} => PassedIn(T, 3))
        /\ BindNames(T, cs) /\ StateNames(c, T, cs)
        /\ ECBindsMade(c, T, s, cs) /\ StateBindsMade(c, T, s, cs)
        /\ ConnectionsMade(c, T, s, cs) /\ TopicNames(c, T, s, cs) /\ TopicsMade(c, T, s, cs)
    BY DEF Built, ObjectsMade, NetMade
  <1>5. \A r : PassedIn(T, r) => PassedIn(U, r)
    BY DEF PassedIn
  <1>6. \A x : /\ LoadTask("operation", x) \notin T /\ LoadTask("container", x) \notin T
               /\ ToDo("build", "operation", x) \notin T /\ ToDo("build", "container", x) \notin T
               /\ ToDo("build", "fsm", x) \notin T /\ ToDo("build", "ec", x) \notin T
               /\ ToDo("connections", "connect", x) \notin T
    <2>1. \A x : /\ LoadTask("operation", x).do = "load" /\ LoadTask("operation", x).arg.kind = "operation"
                 /\ LoadTask("container", x).do = "load" /\ LoadTask("container", x).arg.kind = "container"
      BY DEF LoadTask, ToDo
    <2>2. \A x : Rank(LoadTask("operation", x)) = 1 /\ Rank(LoadTask("container", x)) = 4
      BY <2>1, LoadRankOf
    <2>3. \A x : Rank(ToDo("build", "operation", x)) = 2 /\ Rank(ToDo("build", "container", x)) = 5
      BY Fields, RankOf
    <2> QED
      BY <1>3, <2>2, <2>3, Ranks
  <1>7. \A f, st, b : StateTask(f, st, b) \notin T
    BY <1>3, Ranks DEF StateTask
  <1>8. FactoriesMade(c, U, s) /\ OpsMade(c, U, s) /\ ContainersMade(c, U, s) /\ FSMsMade(c, U, s) /\ ECsMade(c, U, s)
    BY <1>4, <1>6 DEF FactoriesMade, OpsMade, ContainersMade, FSMsMade, ECsMade
  <1>9. ECBindsMade(c, U, s, cs) /\ StateBindsMade(c, U, s, cs)
    BY <1>4, <1>6, <1>7 DEF ECBindsMade, StateBindsMade
  <1>10. OwnedLater(U, s) /\ BindNames(U, cs) /\ StateNames(c, U, cs)
    BY <1>4, <1>5 DEF OwnedLater, BindNames, StateNames
  <1>11. Origins(c, U, s)
    <2>1. \A n : OriginOf(c, T, s, n) => OriginOf(c, U, s, n)
      BY <1>5 DEF OriginOf
    <2> QED
      BY <1>4, <2>1 DEF Origins
  <1>12. ConnectionsMade(c, U, s, cs)
    BY <1>4, <1>5, <1>6 DEF ConnectionsMade
  <1>13. TopicNames(c, U, s, cs)
    BY <1>4, <1>5 DEF TopicNames, TopicLabel
  <1>14. TopicsMade(c, U, s, cs)
    <2>1. CASE Rank(h) = 19
      <3>1. h \in Elements(TopicTasks(c))
        BY <2>1, LateTasks DEF LateKinds
      <3> QED
        BY <3>1 DEF TopicsMade, BadTopics
    <2>2. CASE Rank(h) = 20
      <3>1. \A y \in Elements(TopicTasks(c)) : Rank(y) = 19
        <4>1. \A y \in Elements(TopicTasks(c)) : Rank(y) \in 19..19
          BY TopicTasksAre DEF Ranked
        <4> QED
          BY <4>1
      <3>2. \A y \in Elements(TopicTasks(c)) : y \notin T
        <4>1. \A x \in T : Rank(x) >= 20
          BY <1>1, <2>2
        <4> QED
          BY <3>1, <4>1
      <3> QED
        BY <1>4, <1>5, <3>2 DEF TopicsMade, TopicMade
    <2> QED
      BY <1>2, <2>1, <2>2
  <1> QED
    BY <1>4, <1>5, <1>8, <1>9, <1>10, <1>11, <1>12, <1>13, <1>14 DEF Built, ObjectsMade, NetMade

(***************************************************************************)
(* The tasks that are left, and the code of the factories there are.       *)
(***************************************************************************)
LaunchTask == ToDo("build", "launch", NoOwner)
InOrder(c, td) ==
  /\ c \in Configs /\ IsList(td) /\ Elements(td) \subseteq Elements(Tasks(c)) /\ Sorted(td)
  /\ PassedIn(Elements(td), 16) \/ LaunchTask \in Elements(td)
CodeThere(o, d) ==
  o.cls \in LoadedClasses /\ o.type \in DOMAIN Files =>
    \E i \in DOMAIN Files[o.type] : Files[o.type][i] = "good" /\ <<o.type, i>> \in d
CodeLoaded(s, d) == IsList(s) /\ \A o \in Elements(s) : CodeThere(o, d)
IInv == InOrder(config, todo) /\ CodeLoaded(store, dlls)

\* The first task, when the tasks are in order, and those after it.
LEMMA HeadIs ==
  ASSUME NEW c, NEW td, InOrder(c, td), td # <<>>
  PROVE  /\ DoingOne(c, Elements(td), Elements(Tail(td)), Head(td))
         /\ InOrder(c, Tail(td))
  <1>1. td \in Seq(Elements(td)) /\ Len(td) \in Nat /\ DOMAIN td = 1..Len(td) /\ Elements(td) = {td[i] : i \in 1..Len(td)}
    BY Indexes DEF InOrder, IsList
  <1>2. Len(td) # 0
    BY <1>1, EmptySeq
  <1>3. /\ Tail(td) \in Seq(Elements(td)) /\ Head(td) = td[1] /\ Len(Tail(td)) = Len(td) - 1
        /\ \A i \in 1..(Len(td) - 1) : Tail(td)[i] = td[i + 1]
    BY <1>1, HeadTailProperties
  <1>4. IsList(Tail(td)) /\ Elements(Tail(td)) \subseteq Elements(td) /\ Elements(Tail(td)) = {Tail(td)[i] : i \in 1..Len(Tail(td))}
    BY <1>3, SeqIsList, Indexes
  <1>5. 1 \in 1..Len(td) /\ Head(td) \in Elements(td) /\ \A x \in Elements(td) : Rank(Head(td)) <= Rank(x)
    <2>1. 1 \in 1..Len(td) /\ \A i \in 1..Len(td) : 1 <= i
      BY <1>1, <1>2
    <2> QED
      BY <1>1, <1>3, <2>1 DEF InOrder, Sorted
  <1>6. \A x \in Elements(td) : x \in Elements(Tail(td)) \/ x = Head(td)
    <2> SUFFICES ASSUME NEW i \in 1..Len(td), i # 1 PROVE td[i] \in Elements(Tail(td))
      BY <1>1, <1>3
    <2>1. i - 1 \in 1..(Len(td) - 1) /\ (i - 1) + 1 = i
      BY <1>1
    <2> QED
      BY <1>3, <1>4, <2>1
  <1>7. Sorted(Tail(td))
    <2> SUFFICES ASSUME NEW i \in 1..Len(Tail(td)), NEW j \in 1..Len(Tail(td)), i <= j
                 PROVE  Rank(Tail(td)[i]) <= Rank(Tail(td)[j])
      BY DEF Sorted
    <2>1. i + 1 \in 1..Len(td) /\ j + 1 \in 1..Len(td) /\ i + 1 <= j + 1
      BY <1>1, <1>3
    <2> QED
      BY <1>1, <1>3, <2>1 DEF InOrder, Sorted
  <1>8. PassedIn(Elements(Tail(td)), 16) \/ LaunchTask \in Elements(Tail(td))
    <2>1. CASE PassedIn(Elements(td), 16)
      BY <1>4, <2>1 DEF PassedIn
    <2>2. CASE LaunchTask = Head(td) /\ LaunchTask \notin Elements(Tail(td))
      <3>1. Rank(LaunchTask) = 16
        BY Ranks DEF LaunchTask
      <3>2. \A x \in Elements(td) : Rank(x) \in Int /\ (Rank(x) = 16 => x = LaunchTask)
        BY TasksKnown, LateTasks DEF LateKinds, InOrder, LaunchTask
      <3>3. \A x \in Elements(Tail(td)) : Rank(x) > 16
        BY <1>4, <1>5, <2>2, <3>1, <3>2
      <3> QED
        BY <3>3 DEF PassedIn
    <2> QED
      BY <1>6, <2>1, <2>2 DEF InOrder
  <1> QED
    BY <1>4, <1>5, <1>6, <1>7, <1>8 DEF DoingOne, InOrder

\* No tasks at all are in order.
LEMMA NoneIs ==
  ASSUME NEW c \in Configs
  PROVE  InOrder(c, <<>>) /\ Elements(<<>>) = {}
  <1>1. IsList(<<>>) /\ Elements(<<>>) = {} /\ Len(<<>>) = 0
    BY DEF IsList, Elements
  <1> QED
    BY <1>1 DEF InOrder, Sorted, PassedIn

\* Tasks that are passed over after the launch leave the others in order.
LEMMA TailsAre ==
  ASSUME NEW c, NEW td, InOrder(c, td), NEW m \in 1..(Len(td) + 1), PassedIn(Elements(td), 16)
  PROVE  InOrder(c, SubSeq(td, m, Len(td))) /\ Elements(SubSeq(td, m, Len(td))) \subseteq Elements(td)
  <1> DEFINE u == SubSeq(td, m, Len(td))
  <1>1. td \in Seq(Elements(td)) /\ Len(td) \in Nat /\ Elements(td) = {td[i] : i \in 1..Len(td)}
    BY Indexes DEF InOrder, IsList
  <1>2. \A i \in m..Len(td) : td[i] \in Elements(td)
    BY <1>1
  <1>3. /\ u \in Seq(Elements(td))
        /\ Len(u) = IF m <= Len(td) THEN Len(td) - m + 1 ELSE 0
        /\ \A i \in 1..(Len(td) - m + 1) : u[i] = td[m + i - 1]
    BY <1>1, <1>2, SubSeqProperties
  <1> HIDE DEF u
  <1>4. IsList(u) /\ Elements(u) \subseteq Elements(td)
    BY <1>3, SeqIsList
  <1>5. Sorted(u)
    <2> SUFFICES ASSUME NEW i \in 1..Len(u), NEW j \in 1..Len(u), i <= j
                 PROVE  Rank(u[i]) <= Rank(u[j])
      BY DEF Sorted
    <2>1. Len(u) = Len(td) - m + 1
      BY <1>1, <1>3
    <2>2. /\ m + i - 1 \in 1..Len(td) /\ m + j - 1 \in 1..Len(td) /\ m + i - 1 <= m + j - 1
          /\ i \in 1..(Len(td) - m + 1) /\ j \in 1..(Len(td) - m + 1)
      BY <1>1, <2>1
    <2> QED
      BY <1>3, <2>2 DEF InOrder, Sorted
  <1>6. PassedIn(Elements(u), 16)
    BY <1>4 DEF PassedIn
  <1> QED
    BY <1>4, <1>5, <1>6 DEF InOrder, u

\* The task that is done is the first, and the others are left.
LEMMA TaskDone ==
  ASSUME IInv, NEW do, Doing(do)
  PROVE  /\ DoingOne(config, Elements(todo), Elements(todo'), Head(todo))
         /\ InOrder(config, todo') /\ todo # <<>> /\ Head(todo).do = do /\ ~Throws(Head(todo))
         /\ config \in Configs /\ ShapeOf(config, Head(todo))
  <1>1. InOrder(config, todo) /\ todo # <<>> /\ todo' = Tail(todo) /\ Head(todo).do = do /\ ~Throws(Head(todo))
    BY DEF IInv, Doing
  <1>2. DoingOne(config, Elements(todo), Elements(Tail(todo)), Head(todo)) /\ InOrder(config, Tail(todo))
    BY <1>1, HeadIs
  <1>3. config \in Configs /\ ShapeOf(config, Head(todo))
    BY <1>2, DoingRanks
  <1> QED
    BY <1>1, <1>2, <1>3

\* Tasks that are passed over, when one throws.
LEMMA TasksSkipped ==
  ASSUME IInv, todo # <<>>, Throws(Head(todo)), Head(todo).phase \in {"topics", "callbacks"}
  PROVE  /\ InOrder(config, Later(Head(todo).phase))
         /\ Elements(Later(Head(todo).phase)) \subseteq Elements(todo)
  <1> DEFINE phase == Head(todo).phase
             after == {i \in DOMAIN todo : \A j \in i..Len(todo) : todo[j].phase # phase}
  <1>1. InOrder(config, todo) /\ Len(todo) \in Nat /\ DOMAIN todo = 1..Len(todo)
    BY Indexes DEF IInv, InOrder
  <1>2. IsFiniteSet(1..Len(todo)) /\ Cardinality(1..Len(todo)) = Len(todo)
    BY <1>1, FS_Interval
  <1>3. Cardinality(after) \in Nat /\ Cardinality(after) <= Len(todo)
    BY <1>1, <1>2, FS_Subset, FS_CardinalityType
  <1>4. PassedIn(Elements(todo), 16)
    <2>1. DoingOne(config, Elements(todo), Elements(Tail(todo)), Head(todo))
      BY <1>1, HeadIs
    <2>2. config \in Configs /\ Elements(todo) \subseteq Elements(Tasks(config)) /\ Head(todo) \in Elements(todo)
      BY <2>1 DEF DoingOne
    <2>3. Rank(Head(todo)) \in 1..20 /\ Head(todo).phase = Phase(Rank(Head(todo)))
      BY <2>2, TasksKnown
    <2>4. Rank(Head(todo)) > 18
      BY <2>3 DEF Phase
    <2> QED
      BY <2>1, <2>3, <2>4, DoingRanks
  <1> DEFINE m == Len(todo) - Cardinality(after) + 1
  <1>5. m \in 1..(Len(todo) + 1)
    <2> HIDE DEF after
    <2> QED
      BY <1>1, <1>3
  <1>6. Later(phase) = SubSeq(todo, m, Len(todo))
    BY DEF Later
  <1> HIDE DEF m
  <1> QED
    BY <1>1, <1>4, <1>5, <1>6, TailsAre

(***************************************************************************)
(* The store.                                                              *)
(***************************************************************************)
\* What is pushed needs its code only when it is a factory that is loaded.
LEMMA PushedKeeps ==
  ASSUME NEW s, NEW d, CodeLoaded(s, d), NEW o, CodeThere(o, d)
  PROVE  CodeLoaded(Pushed(s, o), d) /\ CodeLoaded(Added(s, o), d)
  <1>1. CodeLoaded(Append(s, o), d)
    BY Appended DEF CodeLoaded
  <1> QED
    BY <1>1 DEF Pushed, Added

\* Nothing but a factory that is loaded needs code.
LEMMA NeedsNoCode ==
  ASSUME NEW cls, cls \notin LoadedClasses, NEW type, NEW name, NEW owner, NEW d
  PROVE  CodeThere(Object(cls, type, name, owner), d)
  BY DEF CodeThere, Object

\* A container is neither a factory nor has one among its operations.
LEMMA ContainerKeeps ==
  ASSUME NEW s, NEW d, CodeLoaded(s, d), NEW type, NEW name, NEW ops, IsList(ops)
  PROVE  CodeLoaded(AddContainer(s, type, name, ops), d)
  <1> DEFINE c == Object("container", type, name, NoOwner)
             OpOf(o) == Object("operation", o[1], Member(name, o[2]), name)
             poses == << <<"container_get_pose", "get_pose">>, <<"container_set_pose", "set_pose">> >>
             all == poses \o ops
             g == [i \in DOMAIN all |-> OpOf(all[i])]
  <1>1. "container" \notin LoadedClasses /\ "operation" \notin LoadedClasses
    BY DEF LoadedClasses
  <1>2. CodeLoaded(Pushed(s, c), d)
    BY <1>1, NeedsNoCode, PushedKeeps
  <1>3. IsList(poses)
    BY DEF IsList, Elements
  <1>4. IsList(all)
    BY <1>3, Joining
  <1>5. IsList(g)
    <2>1. \A i \in DOMAIN g : g[i] \in Elements(g)
      BY DEF Elements
    <2>2. Len(all) \in Nat /\ DOMAIN all = 1..Len(all)
      BY <1>4, LenProperties DEF IsList
    <2> HIDE DEF all
    <2>3. g \in [1..Len(all) -> Elements(g)]
      BY <2>1, <2>2
    <2> QED
      BY <2>2, <2>3 DEF IsList
  <1>6. \A o \in Elements(g) : CodeThere(o, d)
    <2> SUFFICES ASSUME NEW i \in DOMAIN all PROVE CodeThere(OpOf(all[i]), d)
      BY DEF Elements
    <2> QED
      BY <1>1, NeedsNoCode
  <1>7. CodeLoaded(Pushed(s, c) \o g, d)
    <2> HIDE DEF g, c
    <2> QED
      BY <1>2, <1>5, <1>6, Joining DEF CodeLoaded
  <1>8. AddContainer(s, type, name, ops) = IF MayAdd(s, c) THEN Pushed(s, c) \o g ELSE s
    BY DEF AddContainer
  <1> QED
    BY <1>7, <1>8

\* The operations of an EC or an anchor are a sequence, and so are those, none,
\* of a container.
LEMMA OwnOperations == IsList(StateOps) /\ IsList(<<>>)
  BY DEF StateOps, IsList, Elements

(***************************************************************************)
(* Loading.                                                                *)
(***************************************************************************)
\* What is found has the symbol, and its DLL is kept, whatever its kind.
LEMMA FoundKept ==
  ASSUME NEW kind, NEW type, type \in DOMAIN Files, Found(kind, type) # {}
  PROVE  \E i \in DOMAIN Files[type] : Files[type][i] = "good" /\ <<type, i>> \in Kept(kind, type)
  <1>1. DOMAIN Files[type] \subseteq Nat
    BY FilesAssumption, LenProperties
  <1>2. PICK i \in Found(kind, type) : TRUE
    OBVIOUS
  <1>3. i \in DOMAIN Files[type] /\ Files[type][i] = "good" /\ i \in There(type)
    BY <1>2 DEF Found, FirstOf, Good, There
  <1>4. CASE Sought(kind)
    <2>1. Found(kind, type) = FirstOf(Good(type))
      BY <1>4 DEF Found
    <2>2. \A k \in Found(kind, type) : i <= k
      BY <1>2, <2>1 DEF FirstOf
    <2>3. <<type, i>> \in Kept(kind, type)
      BY <1>2, <1>3, <1>4, <2>2 DEF Kept
    <2> QED
      BY <1>3, <2>3
  <1>5. CASE ~Sought(kind)
    <2>1. i \in FirstOf(There(type)) /\ kind # "broker"
      BY <1>2, <1>5 DEF Found, Sought
    <2>2. <<type, i>> \in Kept(kind, type)
      BY <1>5, <2>1 DEF Kept
    <2> QED
      BY <1>3, <2>2
  <1> QED
    BY <1>4, <1>5

\* More DLLs leave what is loaded loaded.
LEMMA MoreCode ==
  ASSUME NEW s, NEW d, CodeLoaded(s, d), NEW e, d \subseteq e
  PROVE  CodeLoaded(s, e)
  BY DEF CodeLoaded, CodeThere

(***************************************************************************)
(* The steps of startAsync.                                                *)
(***************************************************************************)
\* A step that loads nothing keeps the invariant when what it makes of the store
\* needs no code.
LEMMA StoreKept ==
  ASSUME IInv, InOrder(config, todo'), config' = config, dlls' = dlls, CodeLoaded(store', dlls)
  PROVE  IInv'
  <1>1. InOrder(config, todo)'
    OBVIOUS
  <1>2. CodeLoaded(store, dlls)'
    OBVIOUS
  <1> QED
    BY <1>1, <1>2 DEF IInv

\* An exception adds nothing.
LEMMA ThrowStep == IInv /\ Throw => IInv'
  <1> SUFFICES ASSUME IInv, Throw PROVE IInv'
    OBVIOUS
  <1>1. UNCHANGED <<config, store, dlls>>
    BY DEF Throw, graph
  <1>2. \/ todo' = <<>>
        \/ /\ todo # <<>> /\ Throws(Head(todo)) /\ Head(todo).phase \in {"topics", "callbacks"}
           /\ todo' = Later(Head(todo).phase)
    BY DEF Throw
  <1>3. InOrder(config, todo')
    BY <1>2, TasksSkipped, NoneIs DEF IInv, InOrder
  <1> QED
    BY <1>1, <1>3, StoreKept DEF IInv

\* A factory is added when the symbol was found, and its DLL kept before.
LEMMA LoadStep == IInv /\ Load => IInv'
  <1> SUFFICES ASSUME IInv, Load PROVE IInv'
    OBVIOUS
  <1> DEFINE kind == Arg.kind
             type == Arg.type
             o == Object(FactoryClass(kind), type, type, NoOwner)
  <1>1. InOrder(config, todo)'
    <2>1. InOrder(config, todo') /\ config' = config
      BY TaskDone DEF Load
    <2> QED
      BY <2>1
  <1>2. dlls' = dlls \cup Kept(kind, type)
    BY DEF Load
  <1>3. CodeLoaded(store, dlls')
    BY <1>2, MoreCode DEF IInv
  <1>4. Found(kind, type) # {} => CodeThere(o, dlls')
    <2> SUFFICES ASSUME Found(kind, type) # {}, type \in DOMAIN Files
                 PROVE  \E i \in DOMAIN Files[type] :
                          Files[type][i] = "good" /\ <<type, i>> \in dlls'
      BY DEF CodeThere, Object
    <2> QED
      BY <1>2, FoundKept
  <1>5. store' = store \/ (Found(kind, type) # {} /\ store' = Added(store, o))
    BY DEF Load
  <1>6. CodeLoaded(store', dlls')
    <2> HIDE DEF kind, type, o
    <2> QED
      BY <1>3, <1>4, <1>5, PushedKeeps
  <1> QED
    BY <1>1, <1>6 DEF IInv

\* The factories that are built in need no DLL.
LEMMA AddTransformersStep == IInv /\ AddTransformers => IInv'
  <1> SUFFICES ASSUME IInv, AddTransformers PROVE IInv'
    OBVIOUS
  <1> DEFINE Factory(i) == Object("operationFactory", TransformerTypes[i], TransformerTypes[i], NoOwner)
  <1>1. InOrder(config, todo)'
    <2>1. InOrder(config, todo') /\ config' = config
      BY TaskDone DEF AddTransformers
    <2> QED
      BY <2>1
  <1>2. \A i \in {1, 2} : CodeThere(Factory(i), dlls)
    BY FilesAssumption DEF CodeThere, Object
  <1>3. store' = Added(Added(store, Factory(1)), Factory(2)) /\ dlls' = dlls
    BY DEF AddTransformers
  <1>4. CodeLoaded(store', dlls')
    <2> HIDE DEF Factory
    <2> QED
      BY <1>2, <1>3, PushedKeeps DEF IInv
  <1> QED
    BY <1>1, <1>4 DEF IInv

\* An operation or a broker added to a store needs no code.
LEMMA OneAdded ==
  ASSUME NEW s, NEW d, CodeLoaded(s, d), NEW cls \in {"operation", "broker"},
         NEW type, NEW name, NEW owner
  PROVE  /\ CodeLoaded(Added(s, Object(cls, type, name, owner)), d)
         /\ CodeLoaded(Pushed(s, Object(cls, type, name, owner)), d)
  <1>1. cls \notin LoadedClasses
    BY DEF LoadedClasses
  <1> QED
    BY <1>1, NeedsNoCode, PushedKeeps

\* Operations, brokers, topics, transformations and members are added one at a
\* time.
LEMMA ObjectSteps ==
  IInv /\ (CreateOperation \/ CreateBroker \/ CreateMember \/ Transform \/ ConnectTopic) => IInv'
  <1> USE DEF IInv
  <1>1. ASSUME IInv, CreateOperation PROVE IInv'
    <2> DEFINE name == FullNameFor(ObjectsOf(store, "operation"), Arg)
    <2>1. InOrder(config, todo') /\ dlls' = dlls /\ config' = config
      BY <1>1, TaskDone DEF CreateOperation
    <2>2. store' \in {store, Added(store, Object("operation", Arg.typeName, name, NoOwner))}
      BY <1>1 DEF CreateOperation
    <2> QED
      BY <1>1, <2>1, <2>2, OneAdded, StoreKept
  <1>2. ASSUME IInv, CreateBroker PROVE IInv'
    <2> DEFINE name == FullNameFor(ObjectsOf(store, "broker"), Arg)
    <2>1. InOrder(config, todo') /\ dlls' = dlls /\ config' = config
      BY <1>2, TaskDone DEF CreateBroker
    <2>2. store' \in {store, Added(store, Object("broker", Arg.typeName, name, NoOwner))}
      BY <1>2 DEF CreateBroker
    <2> QED
      BY <1>2, <2>1, <2>2, OneAdded, StoreKept
  <1>3. ASSUME IInv, CreateMember PROVE IInv'
    <2> DEFINE op == FullNameFor(ObjectsOf(store, "operation"), Arg.info)
               type == Joined(Arg.type, Arg.info.typeName)
    <2>1. InOrder(config, todo') /\ dlls' = dlls /\ config' = config
      BY <1>3, TaskDone DEF CreateMember
    <2>2. store' \in {store, Pushed(store, Object("operation", type, Member(made, op), made))}
      BY <1>3 DEF CreateMember
    <2> QED
      BY <1>3, <2>1, <2>2, OneAdded, StoreKept
  <1>4. ASSUME IInv, Transform PROVE IInv'
    <2>1. InOrder(config, todo') /\ dlls' = dlls /\ config' = config
      <3>1. todo # <<>> /\ (todo' = <<>> \/ todo' = Tail(todo)) /\ dlls' = dlls /\ config' = config
        BY <1>4 DEF Transform
      <3>2. InOrder(config, todo')
        BY <1>4, <3>1, HeadIs, NoneIs DEF IInv, InOrder
      <3> QED
        BY <3>1, <3>2
    <2>2. PICK type, op : store' \in {store, Added(store, Object("operation", type, op, NoOwner))}
      BY <1>4 DEF Transform
    <2> QED
      BY <1>4, <2>1, <2>2, OneAdded, StoreKept
  <1>5. ASSUME IInv, ConnectTopic PROVE IInv'
    <2>1. InOrder(config, todo') /\ dlls' = dlls /\ config' = config
      BY <1>5, TaskDone DEF ConnectTopic
    <2>2. store' = Added(store, Object("operation", "Topic", Arg.topic, NoOwner))
      BY <1>5 DEF ConnectTopic
    <2> QED
      BY <1>5, <2>1, <2>2, OneAdded, StoreKept
  <1> QED
    BY <1>1, <1>2, <1>3, <1>4, <1>5

\* A container comes with its operations, which an FSM has one of for a state.
LEMMA ContainerSteps ==
  IInv /\ (CreateContainer \/ CreateFSM \/ CreateEC \/ CreateAnchor) => IInv'
  <1>1. ASSUME IInv, CreateContainer PROVE IInv'
    <2> DEFINE name == FullNameFor(ObjectsOf(store, "container"), Arg)
    <2>1. InOrder(config, todo') /\ dlls' = dlls /\ config' = config
      BY <1>1, TaskDone DEF CreateContainer
    <2>2. store' \in {store, AddContainer(store, Arg.typeName, name, <<>>)}
      BY <1>1 DEF CreateContainer
    <2> QED
      BY <1>1, <2>1, <2>2, ContainerKeeps, OwnOperations, StoreKept DEF IInv
  <1>2. ASSUME IInv, CreateFSM PROVE IInv'
    <2> DEFINE Op(i) == <<"activate_state", Arg.states[i].name>>
               g == [i \in DOMAIN Arg.states |-> Op(i)]
               ops == g \o << <<"get_state", "get_state">> >>
    <2>1. /\ InOrder(config, todo') /\ dlls' = dlls /\ config' = config
          /\ config \in Configs /\ Arg \in Elements(config.fsms.precreate)
      BY <1>2, TaskDone DEF CreateFSM, ShapeOf, Arg
    <2>2. IsList(Arg.states)
      BY <2>1, ConfigAssumption
    <2>3. IsList(g)
      <3>1. g \in [DOMAIN Arg.states -> Elements(g)]
        BY DEF Elements
      <3> HIDE DEF g
      <3> QED
        BY <2>2, <3>1, Mapped
    <2>4. IsList(<< <<"get_state", "get_state">> >>)
      BY DEF IsList, Elements
    <2>5. IsList(ops)
      <3> HIDE DEF g
      <3> QED
        BY <2>3, <2>4, Joining
    <2>6. store' \in {store, AddContainer(store, "FSM", Arg.name, ops)}
      BY <1>2 DEF CreateFSM
    <2> HIDE DEF ops
    <2> QED
      BY <1>2, <2>1, <2>5, <2>6, ContainerKeeps, StoreKept DEF IInv
  <1>3. ASSUME IInv, CreateEC PROVE IInv'
    <2>1. InOrder(config, todo') /\ dlls' = dlls /\ config' = config
      BY <1>3, TaskDone DEF CreateEC
    <2>2. store' = AddContainer(store, Arg.type, Arg.name, StateOps)
      BY <1>3 DEF CreateEC
    <2> QED
      BY <1>3, <2>1, <2>2, ContainerKeeps, OwnOperations, StoreKept DEF IInv
  <1>4. ASSUME IInv, CreateAnchor PROVE IInv'
    <2>1. todo # <<>> /\ (todo' = <<>> \/ todo' = Tail(todo)) /\ dlls' = dlls /\ config' = config
      BY <1>4 DEF CreateAnchor
    <2>2. InOrder(config, todo')
      BY <1>4, <2>1, HeadIs, NoneIs DEF IInv, InOrder
    <2>3. store' \in {store, AddContainer(store, Arg.type, Arg.name, StateOps)}
      BY <1>4 DEF CreateAnchor
    <2> QED
      BY <1>4, <2>1, <2>2, <2>3, ContainerKeeps, OwnOperations, StoreKept DEF IInv
  <1> QED
    BY <1>1, <1>2, <1>3, <1>4

\* Connections, calls and the start of the brokers leave the store alone.
LEMMA OtherSteps ==
  IInv /\ (BindEC \/ BindState \/ BindFSM \/ Launch \/ Await \/ Connect \/ Call) => IInv'
  <1> SUFFICES ASSUME IInv, BindEC \/ BindState \/ BindFSM
                            \/ Launch \/ Await \/ Connect \/ Call
               PROVE  IInv'
    OBVIOUS
  <1>1. store' = store /\ dlls' = dlls /\ config' = config
    BY DEF BindEC, BindState, BindFSM, Launch, Await, Connect, Call, graph
  <1>2. InOrder(config, todo')
    BY TaskDone DEF BindEC, BindState, BindFSM, Launch, Await, Connect, Call
  <1> QED
    BY <1>1, <1>2, StoreKept DEF IInv


\* A process starts with the factory of topics alone, which is built in.
LEMMA Initially == Init => IInv
  <1> SUFFICES ASSUME Init PROVE IInv
    OBVIOUS
  <1> DEFINE o == Object("topicFactory", "Topic", "Topic", NoOwner)
  <1>1. config \in Configs /\ todo = Tasks(config) /\ store = <<o>>
    BY DEF Init
  <1>2. InOrder(config, todo)
    BY <1>1, TasksAre DEF InOrder, Ranked, Everything, LaunchTask
  <1>3. CodeThere(o, dlls)
    BY NeedsNoCode DEF LoadedClasses
  <1>4. IsList(store) /\ \A x \in Elements(store) : x = o
    <2> HIDE DEF o
    <2> QED
      BY <1>1, OneOrTwo
  <1> QED
    BY <1>2, <1>3, <1>4 DEF IInv, CodeLoaded

\* Every task of startAsync, and every client it is served to meanwhile, keeps the
\* invariant.
LEMMA TasksAndCode == IInv /\ [Next]_vars => IInv'
  <1> SUFFICES ASSUME IInv, [Next]_vars PROVE IInv'
    OBVIOUS
  <1>1. CASE StartAsync
    BY <1>1, ThrowStep, LoadStep, AddTransformersStep, ObjectSteps, ContainerSteps, OtherSteps
    DEF StartAsync
  <1>2. ASSUME NEW b \in Brokers, BrokerRuns(b) PROVE IInv'
    <2>1. UNCHANGED <<config, todo, store, dlls>>
      BY <1>2 DEF BrokerRuns, graph
    <2> QED
      BY <2>1, StoreKept DEF IInv
  <1>3. ASSUME NEW n \in ClientNames, ClientCreates(n) PROVE IInv'
    <2>1. UNCHANGED <<config, todo, dlls>> /\ store' = Added(store, Object("operation", "client", n, NoOwner))
      BY <1>3 DEF ClientCreates
    <2> QED
      BY <2>1, OneAdded, StoreKept DEF IInv
  <1>4. CASE UNCHANGED vars
    <2>1. UNCHANGED <<config, todo, store, dlls>>
      BY <1>4 DEF vars
    <2> QED
      BY <2>1, StoreKept DEF IInv
  <1> QED
    BY <1>1, <1>2, <1>3, <1>4 DEF Next

(***************************************************************************)
(* What is built.  Until an exception ends startAsync each thing promised  *)
(* is still to be done or there; the brokers run only when the launch is   *)
(* passed, and operations are called when the connections are.             *)
(***************************************************************************)
Stays(td, threw, run, up) ==
  /\ threw => td = <<>> /\ run = {} /\ ~up
  /\ run # {} \/ up => PassedIn(Elements(td), 16)
Calls(c, td, threw, names) ==
  /\ IsList(names)
  /\ Elements(names) \subseteq AnchorStarts(c) \/ (PassedIn(Elements(td), 18) /\ ~threw)
BuildInv ==
  /\ Stays(todo, thrown, running, started) /\ Calls(config, todo, thrown, called)
  /\ thrown \/ Built(config, Elements(todo), store, cons)

\* Where a task is done.
LEMMA Ready ==
  ASSUME IInv, BuildInv, NEW do, Doing(do)
  PROVE  /\ DoingOne(config, Elements(todo), Elements(todo'), Head(todo))
         /\ todo # <<>> /\ Head(todo).do = do /\ ~Throws(Head(todo))
         /\ IsList(store) /\ Built(config, Elements(todo), store, cons) /\ ~thrown
         /\ config \in Configs /\ ShapeOf(config, Head(todo))
  <1>1. ~thrown
    BY DEF BuildInv, Stays, Doing
  <1> QED
    BY <1>1, TaskDone DEF IInv, CodeLoaded, BuildInv

\* A task that is done leaves the rest as it was.
LEMMA DoneKeeps ==
  ASSUME IInv, BuildInv, NEW do, Doing(do), UNCHANGED <<config, called, fate>>,
         Built(config, Elements(todo'), store', cons')
  PROVE  BuildInv'
  <1>1. /\ DoingOne(config, Elements(todo), Elements(todo'), Head(todo)) /\ ~thrown
    BY Ready
  <1>2. \A r : PassedIn(Elements(todo), r) => PassedIn(Elements(todo'), r)
    BY <1>1 DEF DoingOne, PassedIn
  <1>3. UNCHANGED <<config, called, running, started, thrown>>
    BY DEF fate
  <1>4. Stays(todo', thrown', running', started')
    BY <1>1, <1>2, <1>3 DEF BuildInv, Stays
  <1>5. Calls(config', todo', thrown', called')
    BY <1>1, <1>2, <1>3 DEF BuildInv, Calls
  <1>6. Built(config', Elements(todo'), store', cons')
    BY <1>3
  <1> QED
    BY <1>4, <1>5, <1>6 DEF BuildInv

(***************************************************************************)
(* The steps of startAsync keep what is built.                             *)
(***************************************************************************)
\* Factories are loaded, or built in, and brokers made.
LEMMA FactorySteps ==
  IInv /\ BuildInv /\ (Load \/ AddTransformers \/ CreateBroker) => BuildInv'
  <1>1. ASSUME IInv, BuildInv, Load PROVE BuildInv'
    <2>1. Doing("load") /\ UNCHANGED <<config, called, fate>> /\ cons' = cons
      BY <1>1 DEF Load
    <2>2. store' = IF Found(Head(todo).arg.kind, Head(todo).arg.type) = {} THEN store
                   ELSE Added(store, Object(FactoryClass(Head(todo).arg.kind), Head(todo).arg.type,
                                            Head(todo).arg.type, NoOwner))
      BY <1>1 DEF Load, Arg
    <2>3. Built(config, Elements(todo'), store', cons)
      <3>1. PICK h, t, U : h = Head(todo) /\ t = store' /\ U = Elements(todo')
        OBVIOUS
      <3>2. t = IF Found(h.arg.kind, h.arg.type) = {} THEN store
                ELSE Added(store, Object(FactoryClass(h.arg.kind), h.arg.type, h.arg.type, NoOwner))
        BY <2>2, <3>1
      <3>3. /\ DoingOne(config, Elements(todo), U, h) /\ h.do = "load"
            /\ IsList(store) /\ Built(config, Elements(todo), store, cons)
        BY <1>1, <2>1, <3>1, Ready
      <3>4. Built(config, U, t, cons)
        BY <3>2, <3>3, LoadBuilt
      <3> QED
        BY <3>1, <3>4
    <2> QED
      BY <1>1, <2>1, <2>3, DoneKeeps
  <1>2. ASSUME IInv, BuildInv, AddTransformers PROVE BuildInv'
    <2>1. Doing("transformers") /\ UNCHANGED <<config, called, fate>> /\ cons' = cons
      BY <1>2 DEF AddTransformers
    <2>2. PICK a, b : store' = Added(Added(store, Object("operationFactory", a, a, NoOwner)),
                                     Object("operationFactory", b, b, NoOwner))
      BY <1>2 DEF AddTransformers
    <2>3. Built(config, Elements(todo'), store', cons)
      BY <1>2, <2>1, <2>2, Ready, TransformersBuilt
    <2> QED
      BY <1>2, <2>1, <2>3, DoneKeeps
  <1>3. ASSUME IInv, BuildInv, CreateBroker PROVE BuildInv'
    <2>1. Doing("broker") /\ UNCHANGED <<config, called, fate>> /\ cons' = cons
      BY <1>3 DEF CreateBroker
    <2>2. PICK type, name : store' = store \/ store' = Added(store, Object("broker", type, name, NoOwner))
      BY <1>3 DEF CreateBroker
    <2>3. Built(config, Elements(todo'), store', cons)
      BY <1>3, <2>1, <2>2, Ready, BrokerBuilt
    <2> QED
      BY <1>3, <2>1, <2>3, DoneKeeps
  <1> QED
    BY <1>1, <1>2, <1>3

\* Operations and containers are made.
LEMMA MakingSteps ==
  IInv /\ BuildInv /\ (CreateOperation \/ CreateContainer \/ CreateMember \/ CreateFSM) => BuildInv'
  <1>1. ASSUME IInv, BuildInv, CreateOperation PROVE BuildInv'
    <2>1. Doing("operation") /\ UNCHANGED <<config, called, fate>> /\ cons' = cons
      BY <1>1 DEF CreateOperation
    <2>2. PICK objs : store' = IF Has(store, "operationFactory", Head(todo).arg.typeName)
                               THEN Added(store, Object("operation", Head(todo).arg.typeName,
                                                        FullNameFor(objs, Head(todo).arg), NoOwner))
                               ELSE store
      BY <1>1 DEF CreateOperation, Arg
    <2>3. Built(config, Elements(todo'), store', cons)
      BY <1>1, <2>1, <2>2, Ready, OperationBuilt
    <2> QED
      BY <1>1, <2>1, <2>3, DoneKeeps
  <1>2. ASSUME IInv, BuildInv, CreateContainer PROVE BuildInv'
    <2>1. Doing("container") /\ UNCHANGED <<config, called, fate>> /\ cons' = cons
      BY <1>2 DEF CreateContainer
    <2>2. PICK objs : store' = IF Has(store, "containerFactory", Head(todo).arg.typeName)
                               THEN AddContainer(store, Head(todo).arg.typeName,
                                                 FullNameFor(objs, Head(todo).arg), <<>>)
                               ELSE store
      BY <1>2 DEF CreateContainer, Arg
    <2>3. Built(config, Elements(todo'), store', cons)
      BY <1>2, <2>1, <2>2, Ready, ContainerBuilt
    <2> QED
      BY <1>2, <2>1, <2>3, DoneKeeps
  <1>3. ASSUME IInv, BuildInv, CreateMember PROVE BuildInv'
    <2>1. Doing("member") /\ UNCHANGED <<config, called, fate>> /\ cons' = cons
      BY <1>3 DEF CreateMember
    <2>2. PICK type, name, owner : store' = store \/ store' = Pushed(store, Object("operation", type, name, owner))
      BY <1>3 DEF CreateMember
    <2>3. Built(config, Elements(todo'), store', cons)
      BY <1>3, <2>1, <2>2, Ready, MemberBuilt
    <2> QED
      BY <1>3, <2>1, <2>3, DoneKeeps
  <1>4. ASSUME IInv, BuildInv, CreateFSM PROVE BuildInv'
    <2>1. Doing("fsm") /\ UNCHANGED <<config, called, fate>> /\ cons' = cons
      BY <1>4 DEF CreateFSM
    <2>2. Makes(Arg) <=> Arg.default /\ \A i \in DOMAIN Arg.states : Arg.states[i].complete
      BY DEF Makes, Elements
    <2>3. store' = IF Makes(Head(todo).arg)
                   THEN AddContainer(store, "FSM", Head(todo).arg.name,
                          [i \in DOMAIN Head(todo).arg.states |-> <<"activate_state", Head(todo).arg.states[i].name>>]
                          \o << <<"get_state", "get_state">> >>)
                   ELSE store
      BY <1>4, <2>2 DEF CreateFSM, Arg
    <2>4. Built(config, Elements(todo'), store', cons)
      BY <1>4, <2>1, <2>3, Ready, FSMBuilt
    <2> QED
      BY <1>4, <2>1, <2>4, DoneKeeps
  <1> QED
    BY <1>1, <1>2, <1>3, <1>4

\* A transformation is connected, or its input misread, before there are any
\* brokers.
LEMMA TransformKeeps == IInv /\ BuildInv /\ Transform => BuildInv'
  <1> SUFFICES ASSUME IInv, BuildInv, Transform PROVE BuildInv'
    OBVIOUS
  <1>1. /\ todo # <<>> /\ Head(todo).do = "transformation" /\ UNCHANGED <<config, called, running, started>>
        /\ (thrown' /\ todo' = <<>>) \/ (~thrown' /\ todo' = Tail(todo))
    BY DEF Transform
  <1>2. InOrder(config, todo) /\ IsList(store) /\ ~thrown /\ Built(config, Elements(todo), store, cons)
    BY <1>1 DEF IInv, CodeLoaded, BuildInv, Stays
  <1>3. DoingOne(config, Elements(todo), Elements(Tail(todo)), Head(todo))
    BY <1>1, <1>2, HeadIs
  <1>4. Head(todo) \in Elements(todo) /\ Rank(Head(todo)) < 16
    BY <1>1, <1>3, DoingRanks, RankOf DEF DoingOne
  <1>5. ~PassedIn(Elements(todo), 16) /\ ~PassedIn(Elements(todo), 18)
    BY <1>3, <1>4, DoingRanks DEF PassedIn
  <1>6. running = {} /\ ~started /\ IsList(called) /\ Elements(called) \subseteq AnchorStarts(config)
    BY <1>5 DEF BuildInv, Stays, Calls
  <1>7. Stays(todo', thrown', running', started') /\ Calls(config', todo', thrown', called')
    BY <1>1, <1>6 DEF Stays, Calls
  <1>8. ASSUME ~thrown' PROVE Built(config, Elements(todo'), store', cons')
    <2>1. PICK type, op, w1, w2, w3 :
            /\ store' = store \/ store' = Added(store, Object("operation", type, op, NoOwner))
            /\ w1.name[1] = "tfcon" /\ w2.name[1] = "tfcon" /\ w3.name[1] = "dyncon"
            /\ \/ cons' = ConnectedAll(store', cons, <<w1, w2>> \o <<>>)
               \/ cons' = ConnectedAll(store', cons, <<w1, w2>> \o <<w3>>)
      <3> DEFINE from == FullNameOf(Arg.from)
                 to == FullNameOf(Arg.to)
                 op == CASE Arg.kind = "static" -> <<"offset", from, to>>
                         [] Arg.kind = "dynamic" -> <<"input", from, to>>
                         [] Arg.kind = "named" -> Arg.name
                 type == IF Arg.kind = "static" THEN TransformerTypes[1] ELSE TransformerTypes[2]
                 w1 == Wire(<<"tfcon", from, op>>, Member(from, "set_pose"), op, "pose")
                 w2 == Wire(<<"tfcon", op, to>>, op, Member(to, "set_pose"), "pose")
                 w3 == Wire(<<"dyncon", Arg.input, op>>, Arg.input, op, "input")
      <3>1. w1.name = <<"tfcon", from, op>> /\ w2.name = <<"tfcon", op, to>> /\ w3.name = <<"dyncon", Arg.input, op>>
        <4> HIDE DEF from, to, op
        <4> QED
          BY WireIs
      <3>2. w1.name[1] = "tfcon" /\ w2.name[1] = "tfcon" /\ w3.name[1] = "dyncon"
        <4> HIDE DEF from, to, op, w1, w2, w3
        <4> QED
          BY <3>1
      <3>3. store' = IF Arg.kind = "named" THEN store ELSE Added(store, Object("operation", type, op, NoOwner))
        BY DEF Transform
      <3>4. cons' = ConnectedAll(store', cons, <<w1, w2>> \o (IF Arg.kind = "dynamic" /\ Arg.input # NotText THEN <<w3>> ELSE <<>>))
        BY DEF Transform
      <3> HIDE DEF type, op, w1, w2, w3
      <3> QED
        BY <3>2, <3>3, <3>4
    <2> QED
      BY <1>1, <1>2, <1>3, <1>8, <2>1, TransformBuilt
  <1> QED
    BY <1>1, <1>7, <1>8 DEF BuildInv

\* Containers are led through a transformation, ECs and states are bound.
LEMMA BindingSteps ==
  IInv /\ BuildInv /\ (Transform \/ CreateEC \/ BindEC \/ BindState \/ BindFSM) => BuildInv'
  <1>1. ASSUME IInv, BuildInv, Transform PROVE BuildInv'
    BY <1>1, TransformKeeps
  <1>2. ASSUME IInv, BuildInv, CreateEC PROVE BuildInv'
    <2>1. Doing("ec") /\ UNCHANGED <<config, called, fate>>
      BY <1>2 DEF CreateEC
    <2>2. /\ store' = AddContainer(store, Head(todo).arg.type, Head(todo).arg.name, StateOps)
          /\ cons' = ConnectedAll(store', cons, [i \in DOMAIN Head(todo).arg.bind |->
                                                   BoundWire(Head(todo).arg.name, Head(todo).arg.bind[i])])
      BY <1>2 DEF CreateEC, Arg, BoundWire
    <2>3. Built(config, Elements(todo'), store', cons')
      BY <1>2, <2>1, <2>2, Ready, ECBuilt
    <2> QED
      BY <1>2, <2>1, <2>3, DoneKeeps
  <1>3. ASSUME IInv, BuildInv, BindEC PROVE BuildInv'
    <2>1. Doing("bindEC") /\ UNCHANGED <<config, called, fate>> /\ store' = store
      BY <1>3 DEF BindEC
    <2>2. \/ cons' = cons
          \/ cons' = ConnectedAll(store, cons, [i \in DOMAIN Head(todo).arg.operations |->
                                                   BoundWire(Head(todo).arg.name, Head(todo).arg.operations[i])])
      BY <1>3 DEF BindEC, Arg, BoundWire
    <2>3. Built(config, Elements(todo'), store, cons')
      BY <1>3, <2>1, <2>2, Ready, BindECBuilt
    <2> QED
      BY <1>3, <2>1, <2>3, DoneKeeps
  <1>4. ASSUME IInv, BuildInv, BindState PROVE BuildInv'
    <2>1. Doing("bindState") /\ UNCHANGED <<config, called, fate>> /\ store' = store
      BY <1>4 DEF BindState
    <2>2. PICK h, U, from, n, state :
            /\ h = Head(todo) /\ U = Elements(todo')
            /\ from = Member(h.arg.fsm, h.arg.state) /\ n = h.arg.target.name
            /\ HasOp(store, n) => cons' = Connected(store, cons, StateWire(from, n, n, "__argument__"))
            /\ ~HasOp(store, n) => cons' = cons \/ cons' = Connected(store, cons, StateWire(from, n, state, "__event__"))
      BY <1>4 DEF BindState, Arg
    <2>3. /\ DoingOne(config, Elements(todo), U, h) /\ h.do = "bindState"
          /\ IsList(store) /\ Built(config, Elements(todo), store, cons)
      BY <1>4, <2>1, <2>2, Ready
    <2>4. PICK e : e = cons'
      OBVIOUS
    <2>5. Built(config, U, store, e)
      BY <2>2, <2>3, <2>4, StateBuilt
    <2>6. Built(config, Elements(todo'), store, cons')
      BY <2>2, <2>4, <2>5
    <2> QED
      BY <1>4, <2>1, <2>6, DoneKeeps
  <1>5. ASSUME IInv, BuildInv, BindFSM PROVE BuildInv'
    <2>1. Doing("bindFSM") /\ UNCHANGED <<config, called, fate>> /\ store' = store
      BY <1>5 DEF BindFSM
    <2> DEFINE from == Member(Arg.fsm, Arg.state)
               ToOp(o) == StateWire(from, o, o, "__argument__")
               ToEC(e) == StateWire(from, Member(e.name, e.state), Member(e.name, e.state), "__event__")
               v == [i \in DOMAIN Arg.operations |-> ToOp(Arg.operations[i])]
               w == [i \in DOMAIN Arg.ecs |-> ToEC(Arg.ecs[i])]
    <2>2. cons' = ConnectedAll(store, cons, v \o w)
      BY <1>5 DEF BindFSM
    <2>3. IsList(Arg.operations) /\ IsList(Arg.ecs)
      <3>1. config \in Configs /\ Arg \in Elements(config.fsms.bind)
        BY <1>5, <2>1, Ready DEF ShapeOf, Arg
      <3> QED
        BY <3>1, ConfigAssumption
    <2>4. \A x, y, z, i : StateWire(x, y, z, i).name[1] = "state"
      <3>1. \A x, y, z, i : StateWire(x, y, z, i).name = <<"state", x, y>>
        BY WireIs DEF StateWire
      <3> QED
        BY <3>1
    <2>5. IsList(v) /\ \A x \in Elements(v) : x.name[1] = "state"
      <3>1. v \in [DOMAIN Arg.operations -> Elements(v)]
        BY DEF Elements
      <3>2. \A i \in DOMAIN Arg.operations : v[i].name[1] = "state"
        BY <2>4
      <3>3. \A x \in Elements(v) : \E i \in DOMAIN Arg.operations : x = v[i]
        BY DEF Elements
      <3> HIDE DEF v
      <3> QED
        BY <2>3, <3>1, <3>2, <3>3, Mapped
    <2>6. IsList(w) /\ \A x \in Elements(w) : x.name[1] = "state"
      <3>1. w \in [DOMAIN Arg.ecs -> Elements(w)]
        BY DEF Elements
      <3>2. \A i \in DOMAIN Arg.ecs : w[i].name[1] = "state"
        BY <2>4
      <3>3. \A x \in Elements(w) : \E i \in DOMAIN Arg.ecs : x = w[i]
        BY DEF Elements
      <3> HIDE DEF w
      <3> QED
        BY <2>3, <3>1, <3>2, <3>3, Mapped
    <2> HIDE DEF v, w
    <2>7. \A x \in Elements(v) \cup Elements(w) : x.name[1] = "state"
      BY <2>5, <2>6
    <2>8. Built(config, Elements(todo'), store, ConnectedAll(store, cons, v \o w))
      BY <1>5, <2>1, <2>5, <2>6, <2>7, Ready, BindFSMBuilt
    <2> QED
      BY <1>5, <2>1, <2>2, <2>8, DoneKeeps
  <1> QED
    BY <1>1, <1>2, <1>3, <1>4, <1>5

\* Connections and topics are made.
LEMMA JoiningSteps ==
  IInv /\ BuildInv /\ (Connect \/ ConnectTopic) => BuildInv'
  <1>1. ASSUME IInv, BuildInv, Connect PROVE BuildInv'
    <2>1. Doing("connect") /\ UNCHANGED <<config, called, fate>> /\ store' = store
      BY <1>1 DEF Connect
    <2>2. cons' = Connected(store, cons, Head(todo).arg)
      BY <1>1 DEF Connect, Arg
    <2>3. Built(config, Elements(todo'), store, cons')
      BY <1>1, <2>1, <2>2, Ready, ConnectBuilt
    <2> QED
      BY <1>1, <2>1, <2>3, DoneKeeps
  <1>2. ASSUME IInv, BuildInv, ConnectTopic PROVE BuildInv'
    <2>1. Doing("topic") /\ UNCHANGED <<config, called, fate>>
      BY <1>2 DEF ConnectTopic
    <2>2. /\ store' = Added(store, Object("operation", "Topic", Head(todo).arg.topic, NoOwner))
          /\ cons' = Connected(store', cons, Head(todo).arg)
      BY <1>2 DEF ConnectTopic, Arg
    <2>3. Built(config, Elements(todo'), store', cons')
      BY <1>2, <2>1, <2>2, Ready, TopicBuilt
    <2> QED
      BY <1>2, <2>1, <2>3, DoneKeeps
  <1> QED
    BY <1>1, <1>2

\* The launch, the wait for the brokers and the calls add nothing.
LEMMA LateSteps ==
  IInv /\ BuildInv /\ (Launch \/ Await \/ Call) => BuildInv'
  <1>1. ASSUME IInv, BuildInv, NEW do \in {"launch", "await", "call"}, Doing(do), cons' = cons, store' = store
        PROVE  Built(config, Elements(todo'), store', cons')
    BY <1>1, Ready, PlainTask
  <1>2. ASSUME IInv, BuildInv, Launch PROVE BuildInv'
    <2>1. Doing("launch") /\ UNCHANGED <<config, called, fate>> /\ cons' = cons /\ store' = store
      BY <1>2 DEF Launch, graph
    <2> QED
      BY <1>1, <1>2, <2>1, DoneKeeps
  <1>3. ASSUME IInv, BuildInv, NEW do \in {"await", "call"}, Doing(do), UNCHANGED <<config, graph, running, thrown>>,
               do # "await" => started' = started, do # "call" => called' = called,
               IsList(called')
        PROVE  BuildInv'
    <2>1. /\ DoingOne(config, Elements(todo), Elements(todo'), Head(todo)) /\ ~thrown
          /\ Head(todo).do \in {"await", "call"}
      BY <1>3, Ready
    <2>2. PICK h, T, U : h = Head(todo) /\ T = Elements(todo) /\ U = Elements(todo')
      OBVIOUS
    <2>3. (Rank(h) = 17 /\ do = "await") \/ (Rank(h) = 20 /\ do = "call")
      BY <1>3, <2>1, <2>2, Ready, RankOf
    <2>4. PassedIn(T, 16) /\ (do = "call" => PassedIn(T, 18)) /\ \A r : PassedIn(T, r) => PassedIn(U, r)
      <3>1. DoingOne(config, T, U, h)
        BY <2>1, <2>2
      <3>2. U \subseteq T
        BY <3>1 DEF DoingOne
      <3>3. \A r \in Int : r < Rank(h) => PassedIn(T, r)
        BY <3>1, DoingRanks
      <3> QED
        BY <2>3, <3>2, <3>3 DEF PassedIn
    <2>5. UNCHANGED <<config, running, thrown>> /\ cons' = cons /\ store' = store
      BY <1>3 DEF graph
    <2>6. Stays(todo', thrown', running', started')
      BY <2>1, <2>2, <2>4, <2>5 DEF Stays
    <2>7. Calls(config', todo', thrown', called')
      BY <1>3, <2>1, <2>2, <2>4, <2>5 DEF BuildInv, Calls
    <2>8. Built(config', Elements(todo'), store', cons')
      BY <1>1, <1>3, <2>5
    <2> QED
      BY <2>6, <2>7, <2>8 DEF BuildInv
  <1>4. ASSUME IInv, BuildInv, Await PROVE BuildInv'
    <2>1. Doing("await") /\ UNCHANGED <<config, graph, running, thrown>> /\ called' = called
      BY <1>4 DEF Await
    <2>2. IsList(called')
      BY <1>4, <2>1 DEF BuildInv, Calls
    <2> QED
      BY <1>3, <1>4, <2>1, <2>2
  <1>5. ASSUME IInv, BuildInv, Call PROVE BuildInv'
    <2>1. Doing("call") /\ UNCHANGED <<config, graph, running, thrown, started>>
      BY <1>5 DEF Call, fate
    <2>2. IsList(called')
      <3>1. called' = called \/ called' = Append(called, Arg)
        BY <1>5 DEF Call
      <3>2. IsList(called)
        BY <1>5 DEF BuildInv, Calls
      <3>3. IsList(Append(called, Arg))
        BY <3>2, Appended
      <3> QED
        BY <3>1, <3>2, <3>3
    <2> QED
      BY <1>3, <1>5, <2>1, <2>2
  <1> QED
    BY <1>2, <1>4, <1>5

\* No task of the last kinds throws before the topics, whose exceptions are caught.
LEMMA ThrowsEarly ==
  ASSUME NEW c \in Configs, NEW T, T \subseteq Elements(Tasks(c)), NEW h \in T,
         Throws(h), h.phase \notin {"topics", "callbacks"}
  PROVE  Rank(h) \in 1..15
  <1>1. Rank(h) \in 1..20 /\ h.phase = Phase(Rank(h)) /\ LateKinds(c, h)
    BY TasksKnown, LateTasks
  <1>2. Rank(h) # 19 /\ Rank(h) # 20
    BY <1>1, Ranks
  <1>3. h.do \notin {"launch", "await", "connect"}
    BY DEF Throws, Texts
  <1>4. Rank(h) # 16 /\ Rank(h) # 17 /\ Rank(h) # 18
    BY <1>1, <1>3, Fields DEF LateKinds
  <1> QED
    BY <1>1, <1>2, <1>4

\* An exception ends the topics or the callbacks, or all before any broker runs.
LEMMA ThrowKeeps == IInv /\ BuildInv /\ Throw => BuildInv'
  <1> SUFFICES ASSUME IInv, BuildInv, Throw PROVE BuildInv'
    OBVIOUS
  <1>1. todo # <<>> /\ Throws(Head(todo)) /\ UNCHANGED <<config, store, cons, called, running, started>>
    BY DEF Throw, graph
  <1>2. InOrder(config, todo) /\ ~thrown
    BY <1>1 DEF IInv, BuildInv, Stays
  <1>3. DoingOne(config, Elements(todo), Elements(Tail(todo)), Head(todo))
    BY <1>1, <1>2, HeadIs
  <1>4. /\ config \in Configs /\ Elements(todo) \subseteq Elements(Tasks(config)) /\ Head(todo) \in Elements(todo)
        /\ \A x \in Elements(todo) : Rank(Head(todo)) <= Rank(x)
    BY <1>3 DEF DoingOne
  <1>5. CASE Head(todo).phase \in {"topics", "callbacks"}
    <2>1. todo' = Later(Head(todo).phase) /\ thrown' = thrown
      BY <1>5 DEF Throw
    <2>2. Elements(todo') \subseteq Elements(todo)
      BY <1>1, <1>5, <2>1, TasksSkipped
    <2>3. Built(config, Elements(todo'), store, cons)
      BY <1>1, <1>2, <1>4, <1>5, <2>2, PassedOver DEF BuildInv
    <2>4. \A r : PassedIn(Elements(todo), r) => PassedIn(Elements(todo'), r)
      BY <2>2 DEF PassedIn
    <2>5. Stays(todo', thrown', running', started')
      BY <1>1, <1>2, <2>1, <2>4 DEF BuildInv, Stays
    <2>6. Calls(config', todo', thrown', called')
      BY <1>1, <1>2, <2>1, <2>4 DEF BuildInv, Calls
    <2>7. Built(config', Elements(todo'), store', cons')
      BY <1>1, <2>3
    <2> QED
      BY <2>5, <2>6, <2>7 DEF BuildInv
  <1>6. CASE Head(todo).phase \notin {"topics", "callbacks"}
    <2>1. todo' = <<>> /\ thrown' = TRUE
      BY <1>6 DEF Throw
    <2>2. Rank(Head(todo)) \in 1..15
      BY <1>1, <1>4, <1>6, ThrowsEarly
    <2>3. ~PassedIn(Elements(todo), 16) /\ ~PassedIn(Elements(todo), 18)
      BY <1>4, <2>2 DEF PassedIn
    <2>4. PassedIn(Elements(todo'), 16)
      BY <1>4, <2>1, NoneIs DEF PassedIn
    <2>5. Stays(todo', thrown', running', started')
      BY <1>1, <2>1, <2>3, <2>4 DEF BuildInv, Stays
    <2>6. Calls(config', todo', thrown', called')
      BY <1>1, <2>3 DEF BuildInv, Calls
    <2> QED
      BY <2>1, <2>5, <2>6 DEF BuildInv
  <1> QED
    BY <1>5, <1>6

\* An anchor is bound and may start itself, before there are any brokers.
LEMMA AnchorKeeps == IInv /\ BuildInv /\ CreateAnchor => BuildInv'
  <1> SUFFICES ASSUME IInv, BuildInv, CreateAnchor PROVE BuildInv'
    OBVIOUS
  <1>1. /\ todo # <<>> /\ Head(todo).do = "anchor" /\ UNCHANGED <<config, running, started>>
        /\ todo' = <<>> \/ (todo' = Tail(todo) /\ ~thrown')
    BY DEF CreateAnchor
  <1>2. InOrder(config, todo) /\ IsList(store) /\ ~thrown /\ Built(config, Elements(todo), store, cons)
    BY <1>1 DEF IInv, CodeLoaded, BuildInv, Stays
  <1>3. DoingOne(config, Elements(todo), Elements(Tail(todo)), Head(todo))
    BY <1>1, <1>2, HeadIs
  <1>4. config \in Configs /\ ShapeOf(config, Head(todo)) /\ Head(todo) \in Elements(todo) /\ Rank(Head(todo)) = 11
    BY <1>1, <1>3, DoingRanks, RankOf DEF DoingOne
  <1>5. ~PassedIn(Elements(todo), 16) /\ ~PassedIn(Elements(todo), 18)
    BY <1>4 DEF PassedIn
  <1>6. Elements(called') \subseteq AnchorStarts(config) /\ IsList(called')
    <2>1. IsList(called) /\ Elements(called) \subseteq AnchorStarts(config)
      BY <1>5 DEF BuildInv, Calls
    <2>2. Arg \in Elements(config.anchors)
      BY <1>1, <1>4 DEF ShapeOf, Arg
    <2>3. Member(Arg.name, "started") \in AnchorStarts(config)
      BY <2>2 DEF AnchorStarts
    <2>4. called' = called \/ called' = Append(called, Member(Arg.name, "started"))
      BY DEF CreateAnchor
    <2>5. LET more == Append(called, Member(Arg.name, "started"))
          IN  IsList(more) /\ Elements(more) = Elements(called) \cup {Member(Arg.name, "started")}
      BY <2>1, Appended
    <2> QED
      BY <2>1, <2>3, <2>4, <2>5
  <1>7. running = {} /\ ~started
    BY <1>5 DEF BuildInv, Stays
  <1>8. Stays(todo', thrown', running', started') /\ Calls(config', todo', thrown', called')
    <2>1. todo' = <<>> \/ ~thrown'
      BY <1>1
    <2> QED
      BY <1>1, <1>6, <1>7, <2>1 DEF Stays, Calls
  <1>9. thrown' \/ Built(config', Elements(todo'), store', cons')
    <2> SUFFICES ASSUME ~thrown' PROVE Built(config', Elements(todo'), store', cons')
      OBVIOUS
    <2>1. todo' = Tail(todo)
      BY DEF CreateAnchor
    <2>2. PICK type, name, w1, w2 :
            /\ store' = store \/ store' = AddContainer(store, type, name, StateOps)
            /\ w1.name[1] = "bind" /\ w2.name[1] = "bind"
            /\ \/ cons' = cons \/ cons' = ConnectedAll(store', cons, <<w1, w2>>)
               \/ cons' = ConnectedAll(store', cons, <<w2>>)
      <3> DEFINE start == Member(Arg.name, "started")
                 w1 == Wire(<<"bind", Arg.input, Arg.name>>, Arg.input, start, "input")
                 w2 == Wire(<<"bind", Arg.target, Arg.name>>, start, Member(Arg.target, "set_pose"), "pose")
      <3>1. w1.name = <<"bind", Arg.input, Arg.name>> /\ w2.name = <<"bind", Arg.target, Arg.name>>
        <4> HIDE DEF start
        <4> QED
          BY WireIs
      <3>2. w1.name[1] = "bind" /\ w2.name[1] = "bind"
        <4> HIDE DEF w1, w2
        <4> QED
          BY <3>1
      <3>3. store' = store \/ store' = AddContainer(store, Arg.type, Arg.name, StateOps)
        BY DEF CreateAnchor
      <3>4. \/ cons' = cons \/ cons' = ConnectedAll(store', cons, <<w1, w2>>)
            \/ cons' = ConnectedAll(store', cons, <<w2>>)
        BY DEF CreateAnchor
      <3> HIDE DEF w1, w2
      <3> QED
        BY <3>2, <3>3, <3>4
    <2>3. PICK t, e, U : t = store' /\ e = cons' /\ U = Elements(Tail(todo))
      OBVIOUS
    <2>4. Built(config, U, t, e)
      BY <1>1, <1>2, <1>3, <2>2, <2>3, AnchorBuilt
    <2> QED
      BY <1>1, <2>1, <2>3, <2>4
  <1> QED
    BY <1>8, <1>9 DEF BuildInv

\* The thread of a broker starts to serve when the launch is passed, and clients
\* make operations of their own then.
LEMMA ServingSteps ==
  ASSUME IInv, BuildInv, (\E b \in Brokers : BrokerRuns(b)) \/ (\E n \in ClientNames : ClientCreates(n))
  PROVE  BuildInv'
  <1>1. InOrder(config, todo) /\ IsList(store) /\ IsList(todo)
    BY DEF IInv, CodeLoaded, InOrder
  <1>2. ASSUME NEW b \in Brokers, BrokerRuns(b) PROVE BuildInv'
    <2>1. UNCHANGED <<config, todo, store, cons, called, started, thrown>> /\ Launched
      BY <1>2 DEF BrokerRuns, graph
    <2>2. LaunchTask \notin Elements(todo)
      BY <2>1, Fields DEF Launched, Elements, LaunchTask
    <2>3. PassedIn(Elements(todo), 16) /\ ~thrown
      BY <1>1, <2>1, <2>2 DEF InOrder, Launched
    <2>4. Stays(todo', thrown', running', started') /\ Calls(config', todo', thrown', called')
      BY <2>1, <2>3 DEF BuildInv, Stays, Calls
    <2>5. Built(config', Elements(todo'), store', cons')
      BY <2>1, <2>3 DEF BuildInv
    <2> QED
      BY <2>4, <2>5 DEF BuildInv
  <1>3. ASSUME NEW n \in ClientNames, ClientCreates(n) PROVE BuildInv'
    <2>1. /\ UNCHANGED <<config, todo, cons, called, running, started, thrown>> /\ running # {}
          /\ store' = Added(store, Object("operation", "client", n, NoOwner))
      BY <1>3 DEF ClientCreates, fate
    <2>2. ~thrown /\ Built(config, Elements(todo), store, cons)
      BY <2>1 DEF BuildInv, Stays
    <2>3. Built(config, Elements(todo), store', cons)
      BY <1>1, <2>1, <2>2, ClientBuilt DEF InOrder
    <2>4. Stays(todo', thrown', running', started') /\ Calls(config', todo', thrown', called')
      BY <2>1 DEF BuildInv, Stays, Calls
    <2>5. Built(config', Elements(todo'), store', cons')
      BY <2>1, <2>3
    <2> QED
      BY <2>4, <2>5 DEF BuildInv
  <1> QED
    BY <1>2, <1>3

(***************************************************************************)
(* The theorems.                                                           *)
(***************************************************************************)
\* A process starts with everything still to be done.
LEMMA AllToDo == Init => BuildInv
  <1> SUFFICES ASSUME Init PROVE BuildInv
    OBVIOUS
  <1> DEFINE o == Object("topicFactory", "Topic", "Topic", NoOwner)
  <1>1. /\ config \in Configs /\ todo = Tasks(config) /\ store = <<o>> /\ cons = {}
        /\ called = <<>> /\ running = {} /\ started = FALSE /\ thrown = FALSE
    BY DEF Init
  <1>2. o.cls = "topicFactory"
    BY DEF Object
  <1>3. \A x \in Elements(store) : x.cls = "topicFactory"
    <2> HIDE DEF o
    <2> QED
      BY <1>1, <1>2, OneOrTwo
  <1>4. Everything(config, Elements(todo))
    BY <1>1, TasksAre
  <1>5. IsList(called) /\ Elements(called) = {}
    BY <1>1, NoneIs DEF InOrder
  <1> HIDE DEF o
  <1>6. ObjectsMade(config, Elements(todo), store)
    <2>1. \A x : PromisedOp(config, x) => x \in Elements(config.operations.precreate)
      BY DEF PromisedOp
    <2>2. \A x : PromisedContainer(config, x) => x \in Elements(config.containers.precreate)
      BY DEF PromisedContainer
    <2>3. /\ PromisedFSMs(store, config) \subseteq Elements(config.fsms.precreate)
          /\ PromisedECs(store, config) \subseteq Elements(config.ecs.precreate)
      BY DEF PromisedFSMs, PromisedECs
    <2>4. FactoriesMade(config, Elements(todo), store) /\ OpsMade(config, Elements(todo), store)
      BY <1>4, <2>1 DEF Everything, FactoriesMade, OpsMade
    <2>5. ContainersMade(config, Elements(todo), store) /\ FSMsMade(config, Elements(todo), store)
      BY <1>4, <2>2, <2>3 DEF Everything, ContainersMade, FSMsMade
    <2>6. ECsMade(config, Elements(todo), store)
      BY <1>4, <2>3 DEF Everything, ECsMade
    <2>7. OwnedLater(Elements(todo), store) /\ Origins(config, Elements(todo), store)
      BY <1>3 DEF OwnedLater, Origins
    <2> QED
      BY <2>4, <2>5, <2>6, <2>7 DEF ObjectsMade
  <1>7. NetMade(config, Elements(todo), store, cons)
    <2>1. /\ PromisedFSMs(store, config) \subseteq Elements(config.fsms.precreate)
          /\ PromisedECs(store, config) \subseteq Elements(config.ecs.precreate)
      BY DEF PromisedFSMs, PromisedECs
    <2>2. Net(config, store, cons) /\ BindNames(Elements(todo), cons) /\ StateNames(config, Elements(todo), cons)
      BY <1>1 DEF Net, Paired, WholeWhereThere, BindNames, StateNames
    <2>3. ECBindsMade(config, Elements(todo), store, cons)
      BY <1>4, <2>1 DEF Everything, ECBindsMade
    <2>4. StateBindsMade(config, Elements(todo), store, cons)
      BY <1>4, <2>1 DEF Everything, StateBindsMade
    <2>5. ConnectionsMade(config, Elements(todo), store, cons)
      BY <1>4 DEF Everything, ConnectionsMade
    <2>6. TopicNames(config, Elements(todo), store, cons) /\ TopicsMade(config, Elements(todo), store, cons)
      BY <1>1, <1>4 DEF Everything, TopicNames, TopicsMade
    <2> QED
      BY <1>1, <2>2, <2>3, <2>4, <2>5, <2>6 DEF NetMade
  <1> QED
    BY <1>1, <1>5, <1>6, <1>7 DEF BuildInv, Built, Stays, Calls

\* The tasks that are left, and what is built when they are done, keep their
\* invariants in every step of startAsync, of a broker and of a client.
THEOREM Invariance == Spec => [](IInv /\ BuildInv)
  <1>1. IInv /\ BuildInv /\ [Next]_vars => (IInv /\ BuildInv)'
    <2> SUFFICES ASSUME IInv, BuildInv, [Next]_vars PROVE BuildInv'
      BY TasksAndCode
    <2>1. CASE StartAsync
      BY <2>1, ThrowKeeps, FactorySteps, MakingSteps, BindingSteps, AnchorKeeps, LateSteps, JoiningSteps
      DEF StartAsync
    <2>2. CASE (\E b \in Brokers : BrokerRuns(b)) \/ (\E n \in ClientNames : ClientCreates(n))
      BY <2>2, ServingSteps
    <2>3. CASE UNCHANGED vars
      <3>1. UNCHANGED <<config, todo, store, cons, called, running, started, thrown>>
        BY <2>3 DEF vars
      <3> QED
        BY <3>1 DEF BuildInv
    <2> QED
      BY <2>1, <2>2, <2>3 DEF Next
  <1>2. Init => IInv /\ BuildInv
    BY Initially, AllToDo
  <1> QED
    BY <1>1, <1>2, PTL DEF Spec

\* loadDLL keeps the DLL in which it found a factory's symbol, on whichever of the
\* search paths that was: the code that a create calls is loaded.
THEOREM FactoriesHaveCode == Spec => []FactoryCodeStays
  <1>1. IInv => FactoryCodeStays
    BY DEF IInv, CodeLoaded, CodeThere, FactoryCodeStays
  <1> QED
    BY <1>1, Invariance, PTL

\* startAsync throws, if it does, before it starts the thread of a broker, which
\* would be left running: the tasks that can throw uncaught all come before.
THEOREM ThrowsBeforeThreads == Spec => []NoThreadAfterException
  <1>1. BuildInv => NoThreadAfterException
    BY DEF BuildInv, Stays, NoThreadAfterException, Launched
  <1> QED
    BY <1>1, Invariance, PTL

\* Where a rank is passed, its tasks are gone.
LEMMA Gone ==
  ASSUME NEW T, PassedIn(T, 16)
  PROVE  /\ \A x : /\ ToDo("build", "operation", x) \notin T /\ ToDo("build", "container", x) \notin T
                   /\ ToDo("build", "fsm", x) \notin T /\ ToDo("build", "ec", x) \notin T
         /\ \A f, st, b : StateTask(f, st, b) \notin T
         /\ PassedIn(T, 18) => \A x : ToDo("connections", "connect", x) \notin T
  <1>1. \A x : /\ Rank(ToDo("build", "operation", x)) = 2 /\ Rank(ToDo("build", "container", x)) = 5
               /\ Rank(ToDo("build", "fsm", x)) = 7 /\ Rank(ToDo("build", "ec", x)) = 9
               /\ Rank(ToDo("build", "bindState", x)) = 14 /\ Rank(ToDo("connections", "connect", x)) = 18
    BY Fields, RankOf
  <1> QED
    BY <1>1 DEF PassedIn, StateTask

\* Clients are served when all is built, and operations called when all is
\* connected.
THEOREM OrderIsKept == Spec => []OrderKept
  <1>1. ASSUME IInv, BuildInv PROVE BuiltBeforeServing
    <2> SUFFICES ASSUME running # {}
                 PROVE  /\ \A p \in Promised(store, config) : Has(store, p[1], p[2])
                        /\ \A w \in PromisedBinds(store, config) : Whole(cons, w)
      BY DEF BuiltBeforeServing
    <2>1. PassedIn(Elements(todo), 16) /\ Built(config, Elements(todo), store, cons) /\ IsList(store)
      BY <1>1 DEF BuildInv, Stays, IInv, CodeLoaded
    <2>2. PICK c, T, s, cs : c = config /\ T = Elements(todo) /\ s = store /\ cs = cons
      OBVIOUS
    <2>3. /\ OpsMade(c, T, s) /\ ContainersMade(c, T, s) /\ FSMsMade(c, T, s) /\ ECsMade(c, T, s)
          /\ ECBindsMade(c, T, s, cs) /\ StateBindsMade(c, T, s, cs)
      BY <2>1, <2>2 DEF Built, ObjectsMade, NetMade
    <2>4. \A n \in PromisedOps(c) : Has(s, "operation", n)
      <3>1. \A o : PromisedOp(c, o) => HasPlain(s, NameRead(o.info))
        BY <2>1, <2>2, <2>3, Gone DEF OpsMade
      <3>2. \A n : HasPlain(s, n) => Has(s, "operation", n)
        BY <2>1, <2>2, GrownOn, GrownHas DEF HasOp
      <3> QED
        BY <3>1, <3>2, OpsPromised
    <2>5. \A n \in PromisedContainers(c) : Has(s, "container", n)
      <3>1. \A k : PromisedContainer(c, k) => Has(s, "container", NameRead(k.info))
        BY <2>1, <2>2, <2>3, Gone DEF ContainersMade
      <3> QED
        BY <3>1 DEF PromisedContainers, PromisedContainer
    <2>6. \A f \in PromisedFSMs(s, c) : FSMMade(s, f)
      BY <2>1, <2>2, <2>3, Gone DEF FSMsMade
    <2>7. \A e \in PromisedECs(s, c) : ECMade(s, e.name)
      BY <2>1, <2>2, <2>3, Gone DEF ECsMade
    <2>8. \A p \in Promised(s, c) : Has(s, p[1], p[2])
      BY <2>4, <2>5, <2>6, <2>7 DEF Promised, FSMMade, ECMade
    <2>9. \A f \in PromisedFSMs(s, c) : \A t \in Elements(f.states) : \A b \in Elements(t.bind) :
            b.name \in PromisedOps(c) => Whole(cs, StateEnds(f, t, b.name))
      BY <2>1, <2>2, <2>3, <2>6, Gone DEF StateBindsMade, FSMMade
    <2>10. \A e \in PromisedECs(s, c) : \A o \in Elements(e.bind) \cap PromisedOps(c) : Whole(cs, ECEnds(e, o))
      BY <2>1, <2>2, <2>3, Gone DEF ECBindsMade
    <2>11. \A w \in PromisedBinds(s, c) : Whole(cs, w)
      <3> DEFINE OfState(f, t) == {Ends(Member(f.name, t.name), b.name, "__argument__") :
                                     b \in {x \in Elements(t.bind) : x.name \in PromisedOps(c)}}
                 OfFSM(f) == UNION {OfState(f, t) : t \in Elements(f.states)}
                 OfEC(e) == {Ends(Member(e.name, "started"), o, "__event__") :
                               o \in Elements(e.bind) \cap PromisedOps(c)}
                 OfFSMs == {OfFSM(f) : f \in PromisedFSMs(s, c)}
                 OfECs == {OfEC(e) : e \in PromisedECs(s, c)}
      <3>1. PromisedBinds(s, c) = (UNION OfFSMs) \cup (UNION OfECs)
        BY DEF PromisedBinds
      <3>2. ASSUME NEW X \in OfFSMs, NEW w \in X PROVE Whole(cs, w)
        <4>1. PICK f \in PromisedFSMs(s, c) : X = OfFSM(f)
          <5> HIDE DEF OfFSM
          <5> QED
            BY <3>2
        <4>2. PICK t \in Elements(f.states) : w \in OfState(f, t)
          <5> HIDE DEF OfState
          <5> QED
            BY <3>2, <4>1
        <4>3. PICK b \in Elements(t.bind) : b.name \in PromisedOps(c) /\ w = StateEnds(f, t, b.name)
          BY <4>2 DEF StateEnds
        <4> QED
          BY <2>9, <4>3
      <3>3. ASSUME NEW X \in OfECs, NEW w \in X PROVE Whole(cs, w)
        <4>1. PICK e \in PromisedECs(s, c) : X = OfEC(e)
          <5> HIDE DEF OfEC
          <5> QED
            BY <3>3
        <4>2. PICK o \in Elements(e.bind) \cap PromisedOps(c) : w = ECEnds(e, o)
          BY <3>3, <4>1 DEF ECEnds
        <4> QED
          BY <2>10, <4>2
      <3> HIDE DEF OfFSMs, OfECs
      <3> QED
        BY <3>1, <3>2, <3>3
    <2> QED
      BY <2>2, <2>8, <2>11
  <1>2. ASSUME IInv, BuildInv PROVE ConnectedBeforeCalled
    <2> SUFFICES ASSUME ~(Elements(called) \subseteq AnchorStarts(config)), NEW w \in Elements(config.connections)
                 PROVE  ConnectionMade(config, store, cons, w)
      BY DEF ConnectedBeforeCalled, ConnectionMade
    <2>1. PassedIn(Elements(todo), 18) /\ ~thrown
      BY <1>2 DEF BuildInv, Calls
    <2>2. ToDo("connections", "connect", w) \notin Elements(todo)
      <3>1. Rank(ToDo("connections", "connect", w)) = 18
        BY Ranks
      <3> QED
        BY <2>1, <3>1 DEF PassedIn
    <2> QED
      BY <1>2, <2>1, <2>2 DEF BuildInv, Built, NetMade, ConnectionsMade
  <1>3. IInv /\ BuildInv => OrderKept
    BY <1>1, <1>2 DEF OrderKept
  <1> QED
    BY <1>3, Invariance, PTL

\* When startAsync is done every operation that publishes or subscribes is joined
\* to its topic, whoever came first and even when a client has taken the name.
THEOREM TopicsAreJoined == Spec => []TopicsJoined
  <1>1. ASSUME IInv, BuildInv PROVE TopicsJoined
    <2> SUFFICES ASSUME todo = <<>>, ~thrown, \A t \in Elements(TopicTasks(config)) : ~Throws(t),
                        NEW y \in Elements(TopicTasks(config)), TopicWanted(store, config, y.arg)
                 PROVE  Whole(cons, y.arg)
      BY DEF TopicsJoined, TopicItems
    <2>1. Elements(todo) = {}
      BY <1>1, NoneIs DEF IInv, InOrder
    <2>2. TopicMade(config, Elements(todo), store, cons, y.arg)
      BY <1>1, <2>1 DEF BuildInv, Built, NetMade, TopicsMade, BadTopics
    <2> QED
      BY <2>2 DEF TopicMade
  <1>2. IInv /\ BuildInv => TopicsJoined
    BY <1>1
  <1> QED
    BY <1>2, Invariance, PTL
===============================================================================
