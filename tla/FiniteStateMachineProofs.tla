----------------------- MODULE FiniteStateMachineProofs -----------------------
(***************************************************************************)
(* Theorems about FiniteStateMachine, for any states, transitions, entry   *)
(* connections and threads.  The execution context follows the machine     *)
(* because entries nest: a state entered from another's entry is entered   *)
(* when the other has no more to say to the execution context, and the one *)
(* entered last is on top until it has said its own.                       *)
(***************************************************************************)
EXTENDS FiniteStateMachine, SequenceTheorems, TLAPS

Frames == [ope : States, arg : States \cup {Unknown, Missing}, byExecute : BOOLEAN,
           pc : {"call", "body", "deliver", "return"}, cur : States \cup {Unknown}, k : Nat]

\* Connections to the execution context that f still has to serve.
EcLeft(f) == \E j \in DOMAIN OnEntry[f.ope] : j >= f.k /\ OnEntry[f.ope][j].kind = "ec"
FrameShape(f) ==
  /\ f.k # 0
  /\ f.byExecute => f.arg = f.ope
  /\ f.pc = "deliver" => f.byExecute
  /\ f.pc \in {"call", "body"} => f.k = 1

\* Every call but the innermost is delivering, and done with the context.
StackShape ==
  /\ stack \in [Threads -> Seq(Frames)]
  /\ \A t \in Threads :
    /\ \A n \in DOMAIN stack[t] : FrameShape(stack[t][n])
    /\ \A n \in 1..(Len(stack[t]) - 1) :
         stack[t][n].pc = "deliver" /\ (EcsFirst => ~EcLeft(stack[t][n]))

OneInside ==
  ~overlapped => \A t, u \in Threads : stack[t] # <<>> /\ stack[u] # <<>> => t = u

\* Only the state's own entry has something to say to the context, and it has
\* said it when nothing is left.
Owed(t) == At(t, "deliver") /\ EcLeft(Top(t))
OwedByState == ~overlapped /\ synced /\ EcsFirst => \A t \in Threads : Owed(t) => Top(t).ope = state
FollowsOrOwed ==
  EcsFirst /\ ~overlapped /\ synced /\ state \in States /\ ECTargets(state) # {}
  => ecState \in ECTargets(state) \/ \E t \in Threads : Owed(t)

IInv == TypeOK /\ StackShape /\ OneInside /\ OwedByState /\ FollowsOrOwed
------------------------------------------------------------------------------
\* What Front, Last, Append and the concatenation of two frames do to a stack.
LEMMA StackTop ==
  ASSUME NEW S, NEW s \in Seq(S), s # <<>>
  PROVE  /\ Len(s) \in Nat \ {0} /\ Last(s) = s[Len(s)] /\ Last(s) \in S
         /\ Front(s) \in Seq(S) /\ Len(Front(s)) = Len(s) - 1
         /\ \A n \in 1..(Len(s) - 1) : Front(s)[n] = s[n]
  <1>1. Len(s) \in Nat \ {0} /\ Len(s) \in DOMAIN s
    OBVIOUS
  <1>2. Last(s) = s[Len(s)] /\ Last(s) \in S
    BY <1>1 DEF Last
  <1> DEFINE l == Len(s) - 1
  <1>3. 1 \in Int /\ l \in Int /\ l \in Nat /\ \A i \in 1..l : s[i] \in S
    BY <1>1
  <1> HIDE DEF l
  <1>4. /\ SubSeq(s, 1, l) \in Seq(S) /\ Len(SubSeq(s, 1, l)) = IF 1 <= l THEN l - 1 + 1 ELSE 0
        /\ \A i \in 1..(l - 1 + 1) : SubSeq(s, 1, l)[i] = s[1 + i - 1]
    BY <1>3, SubSeqProperties
  <1>5. /\ Len(SubSeq(s, 1, l)) = l
        /\ \A n \in 1..l : SubSeq(s, 1, l)[n] = s[n]
    BY <1>3, <1>4
  <1> QED
    BY <1>1, <1>2, <1>4, <1>5 DEF Front, l
LEMMA StackReplace ==
  ASSUME NEW S, NEW s \in Seq(S), s # <<>>, NEW f \in S
  PROVE  LET z == Append(Front(s), f) IN
         /\ z \in Seq(S) /\ z # <<>> /\ Len(z) = Len(s) /\ Last(z) = f /\ z[Len(z)] = f
         /\ \A n \in 1..(Len(s) - 1) : z[n] = s[n]
  <1>1. Front(s) \in Seq(S) /\ Len(Front(s)) = Len(s) - 1
        /\ \A n \in 1..(Len(s) - 1) : Front(s)[n] = s[n]
    BY StackTop
  <1>2. Len(s) \in Nat \ {0}
    OBVIOUS
  <1> QED
    BY <1>1, <1>2 DEF Last
LEMMA StackEnter ==
  ASSUME NEW S, NEW s \in Seq(S), s # <<>>, NEW f \in S, NEW g \in S
  PROVE  LET z == Front(s) \o <<f, g>> IN
         /\ z \in Seq(S) /\ z # <<>> /\ Len(z) = Len(s) + 1
         /\ Last(z) = g /\ z[Len(z)] = g /\ z[Len(s)] = f
         /\ \A n \in 1..(Len(s) - 1) : z[n] = s[n]
  <1>1. Front(s) \in Seq(S) /\ Len(Front(s)) = Len(s) - 1
        /\ \A n \in 1..(Len(s) - 1) : Front(s)[n] = s[n]
    BY StackTop
  <1>2. <<f, g>> \in Seq(S)
    OBVIOUS
  <1> QED
    BY <1>1, <1>2 DEF Last
------------------------------------------------------------------------------
\* The innermost call of t becomes f.
LEMMA ContinueKeeps ==
  ASSUME IInv, NEW t \in Threads, stack[t] # <<>>, NEW f \in Frames, FrameShape(f), Continue(t, f)
  PROVE  /\ StackShape' /\ stack'[t] # <<>> /\ Top(t)' = f
         /\ \A u \in Threads : u # t => stack'[u] = stack[u]
  <1> DEFINE z == Append(Front(stack[t]), f)
  <1>1. stack \in [Threads -> Seq(Frames)] /\ stack' = [stack EXCEPT ![t] = z]
    BY DEF IInv, StackShape, Continue
  <1>2. /\ z \in Seq(Frames) /\ z # <<>> /\ Len(z) = Len(stack[t]) /\ Last(z) = f /\ z[Len(z)] = f
        /\ \A n \in 1..(Len(stack[t]) - 1) : z[n] = stack[t][n]
    BY <1>1, StackReplace
  <1> HIDE DEF z
  <1>3. stack' \in [Threads -> Seq(Frames)] /\ stack'[t] = z
        /\ \A u \in Threads : u # t => stack'[u] = stack[u]
    BY <1>1, <1>2
  <1>4. /\ \A n \in DOMAIN z : FrameShape(z[n])
        /\ \A n \in 1..(Len(z) - 1) : z[n].pc = "deliver" /\ (EcsFirst => ~EcLeft(z[n]))
    BY <1>1, <1>2 DEF IInv, StackShape
  <1>5. StackShape'
    BY <1>3, <1>4 DEF IInv, StackShape
  <1> QED
    BY <1>2, <1>3, <1>5 DEF Top

\* It becomes f, which has no more to say to the context, and calls g.
LEMMA EnterKeeps ==
  ASSUME IInv, NEW t \in Threads, stack[t] # <<>>, NEW f \in Frames, FrameShape(f),
         NEW g \in Frames, FrameShape(g), Enter(t, f, g),
         f.pc = "deliver", EcsFirst => ~EcLeft(f)
  PROVE  /\ StackShape' /\ stack'[t] # <<>> /\ Top(t)' = g
         /\ \A u \in Threads : u # t => stack'[u] = stack[u]
  <1> DEFINE z == Front(stack[t]) \o <<f, g>>
  <1>1. stack \in [Threads -> Seq(Frames)] /\ stack' = [stack EXCEPT ![t] = z]
    BY DEF IInv, StackShape, Enter
  <1>2. /\ z \in Seq(Frames) /\ z # <<>> /\ Len(z) = Len(stack[t]) + 1
        /\ Last(z) = g /\ z[Len(z)] = g /\ z[Len(stack[t])] = f
        /\ \A n \in 1..(Len(stack[t]) - 1) : z[n] = stack[t][n]
    BY <1>1, StackEnter
  <1>3. Len(stack[t]) \in Nat
    BY <1>1
  <1> HIDE DEF z
  <1>4. stack' \in [Threads -> Seq(Frames)] /\ stack'[t] = z
        /\ \A u \in Threads : u # t => stack'[u] = stack[u]
    BY <1>1, <1>2
  <1>5. \A n \in 1..Len(z) : n \in 1..(Len(stack[t]) - 1) \/ n = Len(stack[t]) \/ n = Len(z)
    BY <1>2, <1>3
  <1>6. DOMAIN z = 1..Len(z) /\ \A n \in 1..(Len(stack[t]) - 1) : n \in DOMAIN stack[t]
    BY <1>1, <1>2
  <1>7. \A n \in DOMAIN z : FrameShape(z[n])
    BY <1>2, <1>5, <1>6 DEF IInv, StackShape
  <1>8. \A n \in 1..(Len(z) - 1) : n \in 1..(Len(stack[t]) - 1) \/ n = Len(stack[t])
    BY <1>2, <1>3
  <1>9. \A n \in 1..(Len(z) - 1) : z[n].pc = "deliver" /\ (EcsFirst => ~EcLeft(z[n]))
    BY <1>2, <1>8 DEF IInv, StackShape
  <1>10. StackShape'
    BY <1>4, <1>7, <1>9 DEF IInv, StackShape
  <1> QED
    BY <1>2, <1>4, <1>10 DEF Top

\* It returns to the call that delivered it, if there is one.
LEMMA ReturnKeeps ==
  ASSUME IInv, NEW t \in Threads, stack[t] # <<>>, stack' = [stack EXCEPT ![t] = Front(@)]
  PROVE  /\ StackShape' /\ \A u \in Threads : u # t => stack'[u] = stack[u]
         /\ stack'[t] # <<>> => Top(t)'.pc = "deliver" /\ (EcsFirst => ~EcLeft(Top(t)'))
  <1> DEFINE z == Front(stack[t])
  <1>1. stack \in [Threads -> Seq(Frames)] /\ stack' = [stack EXCEPT ![t] = z]
    BY DEF IInv, StackShape
  <1>2. /\ z \in Seq(Frames) /\ Len(z) = Len(stack[t]) - 1 /\ Len(stack[t]) \in Nat
        /\ \A n \in 1..(Len(stack[t]) - 1) : z[n] = stack[t][n]
    <2>1. stack[t] \in Seq(Frames)
      BY <1>1
    <2> QED
      BY <2>1, StackTop
  <1> HIDE DEF z
  <1>3. stack' \in [Threads -> Seq(Frames)] /\ stack'[t] = z
        /\ \A u \in Threads : u # t => stack'[u] = stack[u]
    BY <1>1, <1>2
  <1>4. \A n \in 1..Len(z) : n \in DOMAIN stack[t] /\ z[n] = stack[t][n]
    BY <1>1, <1>2
  <1>9. DOMAIN z = 1..Len(z) /\ \A n \in 1..Len(z) : n \in 1..(Len(stack[t]) - 1)
    BY <1>2
  <1>5. /\ \A n \in DOMAIN z : FrameShape(z[n])
        /\ \A n \in 1..Len(z) : z[n].pc = "deliver" /\ (EcsFirst => ~EcLeft(z[n]))
    BY <1>4, <1>9 DEF IInv, StackShape
  <1>6. \A n \in 1..(Len(z) - 1) : n \in 1..Len(z)
    BY <1>2
  <1>7. StackShape'
    BY <1>3, <1>5, <1>6 DEF IInv, StackShape
  <1>8. z # <<>> => Len(z) \in 1..Len(z) /\ Last(z) = z[Len(z)]
    BY <1>2 DEF Last
  <1> QED
    BY <1>3, <1>5, <1>7, <1>8 DEF Top
------------------------------------------------------------------------------
\* What remains to be shown of a step of t: the variables keep their types, the
\* worker runs the body of at most one call, and the two parts about the context.
Scalars == /\ state \in States \cup {Unknown} /\ ecState \in ECStates
           /\ worker \in Threads \cup {NoOne} /\ requests \in 0..MaxRequests
           /\ overlapped \in BOOLEAN /\ synced \in BOOLEAN
LEMMA StepKeeps ==
  ASSUME IInv, NEW t \in Threads, StackShape', Scalars',
         \A u \in Threads : u # t => stack'[u] = stack[u],
         stack[t] # <<>>, overlapped' = overlapped,
         At(t, "body")' <=> worker' = t,
         \A u \in Threads : u # t => (worker' = u <=> worker = u),
         OwedByState', FollowsOrOwed'
  PROVE  IInv'
  <1>1. OneInside'
    BY DEF IInv, OneInside
  <1>2. \A u \in Threads : At(u, "body")' <=> worker' = u
    <2> SUFFICES ASSUME NEW u \in Threads, u # t PROVE At(u, "body")' <=> worker' = u
      OBVIOUS
    <2>1. At(u, "body")' <=> At(u, "body")
      BY DEF At, Top
    <2> QED
      BY <2>1 DEF IInv, TypeOK
  <1>3. \A u \in Threads : \A n \in DOMAIN stack'[u] : FrameType(stack'[u][n])
    <2> SUFFICES ASSUME NEW u \in Threads, NEW n \in DOMAIN stack'[u] PROVE FrameType(stack'[u][n])
      OBVIOUS
    <2>1. stack'[u][n] \in Frames
      BY DEF StackShape
    <2> QED
      BY <2>1 DEF Frames, FrameType
  <1>4. TypeOK'
    BY <1>2, <1>3 DEF TypeOK, Scalars
  <1> QED
    BY <1>1, <1>4 DEF IInv

\* A step after which the context is owed no more than before, and that leaves
\* the machine and the context where they are.
LEMMA NothingOwed ==
  ASSUME IInv, NEW t \in Threads,
         \A u \in Threads : u # t => stack'[u] = stack[u],
         UNCHANGED <<state, ecState, overlapped>>, synced' => synced,
         EcsFirst => ~Owed(t) /\ ~Owed(t)'
  PROVE  OwedByState' /\ FollowsOrOwed'
  <1>1. \A u \in Threads : u # t => (Owed(u)' <=> Owed(u)) /\ Top(u)' = Top(u)
    BY DEF Owed, At, Top
  <1>2. OwedByState'
    BY <1>1 DEF IInv, OwedByState
  <1>3. FollowsOrOwed'
    BY <1>1 DEF IInv, FollowsOrOwed
  <1> QED
    BY <1>2, <1>3

\* The innermost call is a frame of the right shape.
LEMMA TopIsFrame ==
  ASSUME IInv, NEW t \in Threads, stack[t] # <<>>
  PROVE  /\ Top(t) \in Frames /\ FrameShape(Top(t))
         /\ \A u \in Threads : ~overlapped /\ u # t => stack[u] = <<>>
  <1>1. stack[t] \in Seq(Frames)
    BY DEF IInv, StackShape
  <1>2. Last(stack[t]) \in Frames /\ Last(stack[t]) = stack[t][Len(stack[t])]
        /\ Len(stack[t]) \in Nat \ {0}
    BY <1>1, StackTop
  <1>3. Len(stack[t]) \in DOMAIN stack[t]
    BY <1>1, <1>2
  <1>4. FrameShape(stack[t][Len(stack[t])])
    BY <1>3 DEF IInv, StackShape
  <1> QED
    BY <1>2, <1>4 DEF Top, IInv, OneInside

LEMMA BeginStep == ASSUME IInv, NEW t \in Threads, BeginBody(t) PROVE IInv'
  <1> DEFINE f == [Top(t) EXCEPT !.pc = "body", !.cur = state]
  <1>1. /\ stack[t] # <<>> /\ Top(t).pc = "call" /\ worker = NoOne /\ worker' = t /\ Continue(t, f)
        /\ UNCHANGED <<state, ecState, requests, overlapped, synced>>
    BY DEF BeginBody, At, WorkerFree
  <1>2. Top(t) \in Frames /\ FrameShape(Top(t))
    BY <1>1, TopIsFrame
  <1>3. f \in Frames /\ FrameShape(f) /\ f.pc = "body"
    BY <1>1, <1>2 DEF Frames, FrameShape, IInv, TypeOK
  <1> HIDE DEF f
  <1>4. /\ StackShape' /\ stack'[t] # <<>> /\ Top(t)' = f
        /\ \A u \in Threads : u # t => stack'[u] = stack[u]
    BY <1>1, <1>3, ContinueKeeps
  <1>5. ~Owed(t) /\ ~Owed(t)'
    BY <1>1, <1>3, <1>4 DEF Owed, At
  <1>6. OwedByState' /\ FollowsOrOwed'
    BY <1>1, <1>4, <1>5, NothingOwed
  <1>7. Scalars' /\ \A u \in Threads : u # t => (worker' = u <=> worker = u)
    BY <1>1, ThreadAssumption DEF IInv, TypeOK, Scalars
  <1>8. At(t, "body")' <=> worker' = t
    BY <1>1, <1>3, <1>4 DEF At
  <1> QED
    BY <1>1, <1>4, <1>6, <1>7, <1>8, StepKeeps

\* A body that ends moves the machine or not; a state that is entered by execute
\* is owed the whole of its entry.
LEMMA EndStep == ASSUME IInv, NEW t \in Threads, EndBody(t) PROVE IInv'
  <1> DEFINE f == [Top(t) EXCEPT !.pc = AfterBody(Top(t))]
  <1>1. /\ stack[t] # <<>> /\ Top(t).pc = "body" /\ worker' = NoOne /\ Continue(t, f)
        /\ state' = IF Accepts(Top(t)) THEN Top(t).arg ELSE state
        /\ synced' = IF Top(t).byExecute THEN Accepts(Top(t)) ELSE synced /\ ~Accepts(Top(t))
        /\ UNCHANGED <<ecState, requests, overlapped>>
    BY DEF EndBody, At
  <1>2. /\ Top(t) \in Frames /\ FrameShape(Top(t))
        /\ \A u \in Threads : ~overlapped /\ u # t => stack[u] = <<>>
    BY <1>1, TopIsFrame
  <1>3. /\ f \in Frames /\ FrameShape(f) /\ f.ope = Top(t).ope /\ f.k = 1
        /\ f.pc = IF Top(t).byExecute THEN "deliver" ELSE "return"
    BY <1>1, <1>2 DEF Frames, FrameShape, AfterBody
  <1> HIDE DEF f
  <1>4. /\ StackShape' /\ stack'[t] # <<>> /\ Top(t)' = f
        /\ \A u \in Threads : u # t => stack'[u] = stack[u]
    BY <1>1, <1>3, ContinueKeeps
  <1>5. worker = t
    BY <1>1 DEF IInv, TypeOK, At
  <1>6. Scalars'
    BY <1>1, <1>2 DEF IInv, TypeOK, Scalars, Accepts, Frames
  <1>7. \A u \in Threads : u # t => (worker' = u <=> worker = u)
    BY <1>1, <1>5, ThreadAssumption
  <1>8. At(t, "body")' <=> worker' = t
    BY <1>1, <1>3, <1>4, ThreadAssumption DEF At
  <1>9. ~Owed(t)
    BY <1>1 DEF Owed, At
  <1>10. OwedByState' /\ FollowsOrOwed'
    <2>1. CASE ~synced'
      BY <2>1 DEF OwedByState, FollowsOrOwed
    <2>2. CASE synced' /\ Top(t).byExecute
      <3>1. state' = f.ope
        BY <1>1, <1>2, <1>3, <2>2 DEF FrameShape
      <3>2. \A u \in Threads : ~overlapped' /\ u # t => ~Owed(u)'
        BY <1>1, <1>2, <1>4 DEF Owed, At
      <3>3. OwedByState'
        BY <1>4, <3>1, <3>2 DEF OwedByState
      <3>4. ECTargets(f.ope) # {} => EcLeft(f)
        BY <1>3, StateAssumption DEF ECTargets, EcLeft, Frames
      <3>5. ECTargets(f.ope) # {} => Owed(t)'
        BY <1>3, <1>4, <2>2, <3>4 DEF Owed, At
      <3>6. FollowsOrOwed'
        BY <3>1, <3>5 DEF FollowsOrOwed, ECTargets
      <3> QED
        BY <3>3, <3>6
    <2>3. CASE synced' /\ ~Top(t).byExecute
      <3>1. synced /\ state' = state
        BY <1>1, <2>3
      <3>2. ~Owed(t)'
        BY <1>3, <1>4, <2>3 DEF Owed, At
      <3> QED
        BY <1>1, <1>4, <1>9, <3>1, <3>2, NothingOwed
    <2> QED
      BY <2>1, <2>2, <2>3
  <1> QED
    BY <1>1, <1>4, <1>6, <1>7, <1>8, <1>10, StepKeeps

\* The next entry of the outlet, when it drives the execution context.
LEMMA DeliverECStep == ASSUME IInv, NEW t \in Threads, DeliverToEC(t) PROVE IInv'
  <1> DEFINE f == [Top(t) EXCEPT !.k = @ + 1]
             entry == OnEntry[Top(t).ope]
  <1>1. /\ stack[t] # <<>> /\ Top(t).pc = "deliver" /\ Continue(t, f)
        /\ Top(t).k <= Len(entry) /\ entry[Top(t).k].kind = "ec"
        /\ ecState' = entry[Top(t).k].name
        /\ UNCHANGED <<state, worker, requests, overlapped, synced>>
    BY DEF DeliverToEC, At, Delivery
  <1>2. /\ Top(t) \in Frames /\ FrameShape(Top(t))
        /\ \A u \in Threads : ~overlapped /\ u # t => stack[u] = <<>>
    BY <1>1, TopIsFrame
  <1>3. /\ f \in Frames /\ FrameShape(f) /\ f.ope = Top(t).ope /\ f.k = Top(t).k + 1
        /\ f.pc = "deliver"
    BY <1>1, <1>2 DEF Frames, FrameShape
  <1> HIDE DEF f
  <1>4. /\ StackShape' /\ stack'[t] # <<>> /\ Top(t)' = f
        /\ \A u \in Threads : u # t => stack'[u] = stack[u]
    BY <1>1, <1>3, ContinueKeeps
  <1>5. entry \in Seq(Target) /\ Top(t).k \in Nat \ {0} /\ Top(t).ope \in States
    BY <1>2, StateAssumption DEF Frames, FrameShape
  <1>6. Top(t).k \in DOMAIN entry
    BY <1>1, <1>5
  <1>7. entry[Top(t).k] \in Target
    BY <1>5, <1>6
  <1>8. ecState' \in ECStates
    BY <1>1, <1>7, StateAssumption DEF Target
  <1>9. Scalars' /\ (At(t, "body")' <=> worker' = t)
    <2>1. worker # t
      BY <1>1 DEF IInv, TypeOK, At
    <2> QED
      BY <1>1, <1>3, <1>4, <1>8, <2>1 DEF IInv, TypeOK, Scalars, At
  <1>10. Owed(t)
    BY <1>1, <1>5, <1>6 DEF Owed, At, EcLeft
  <1>11. ecState' \in ECTargets(Top(t).ope)
    BY <1>1, <1>6 DEF ECTargets
  <1>12. ~overlapped /\ synced /\ EcsFirst => Top(t).ope = state
    BY <1>10 DEF IInv, OwedByState
  <1>13. OwedByState'
    <2> SUFFICES ASSUME ~overlapped, synced, EcsFirst, NEW u \in Threads, Owed(u)'
                 PROVE  Top(u)'.ope = state
      BY <1>1 DEF OwedByState
    <2>1. u = t
      BY <1>2, <1>4 DEF Owed, At
    <2> QED
      BY <1>3, <1>4, <1>12, <2>1
  <1>14. FollowsOrOwed'
    BY <1>1, <1>11, <1>12 DEF FollowsOrOwed, ECTargets
  <1> QED
    BY <1>1, <1>4, <1>9, <1>13, <1>14, StepKeeps

\* The next entry, when it leads on to another state: nothing is owed by then.
LEMMA DeliverFSMStep == ASSUME IInv, NEW t \in Threads, DeliverToFSM(t) PROVE IInv'
  <1> DEFINE entry == OnEntry[Top(t).ope]
             s == entry[Top(t).k].name
             f == [Top(t) EXCEPT !.k = @ + 1]
             g == Frame(s, s, TRUE)
  <1>1. /\ stack[t] # <<>> /\ Top(t).pc = "deliver" /\ Enter(t, f, g)
        /\ Top(t).k <= Len(entry) /\ entry[Top(t).k].kind = "fsm"
        /\ UNCHANGED <<state, ecState, worker, requests, overlapped, synced>>
    BY DEF DeliverToFSM, At, Delivery
  <1>2. Top(t) \in Frames /\ FrameShape(Top(t))
    BY <1>1, TopIsFrame
  <1>3. /\ f \in Frames /\ FrameShape(f) /\ f.ope = Top(t).ope /\ f.k = Top(t).k + 1
        /\ f.pc = "deliver"
    BY <1>1, <1>2 DEF Frames, FrameShape
  <1>4. entry \in Seq(Target) /\ Top(t).k \in Nat \ {0} /\ Top(t).ope \in States
    BY <1>2, StateAssumption DEF Frames, FrameShape
  <1>5. Top(t).k \in DOMAIN entry
    BY <1>1, <1>4
  <1>6. s \in States
    BY <1>1, <1>4, <1>5 DEF Target
  <1>7. EcsFirst => \A j \in DOMAIN entry : j >= Top(t).k => entry[j].kind # "ec"
    <2> SUFFICES ASSUME EcsFirst, NEW j \in DOMAIN entry, j >= Top(t).k, entry[j].kind = "ec" PROVE FALSE
      OBVIOUS
    <2>1. Top(t).k \in 1..j
      BY <1>4
    <2>2. entry[Top(t).k].kind = "ec"
      BY <1>4, <2>1 DEF EcsFirst
    <2> QED
      BY <1>1, <2>2
  <1>8. EcsFirst => ~EcLeft(Top(t)) /\ ~EcLeft(f)
    BY <1>3, <1>4, <1>7 DEF EcLeft
  <1> HIDE DEF f
  <1>9. g \in Frames /\ FrameShape(g) /\ g.pc = "call"
    BY <1>6 DEF Frames, FrameShape, Frame
  <1> HIDE DEF g, s, entry
  <1>10. /\ StackShape' /\ stack'[t] # <<>> /\ Top(t)' = g
         /\ \A u \in Threads : u # t => stack'[u] = stack[u]
    BY <1>1, <1>3, <1>8, <1>9, EnterKeeps
  <1>11. (EcsFirst => ~Owed(t)) /\ ~Owed(t)'
    BY <1>8, <1>9, <1>10 DEF Owed, At
  <1>12. OwedByState' /\ FollowsOrOwed'
    BY <1>1, <1>10, <1>11, NothingOwed
  <1>13. Scalars' /\ (At(t, "body")' <=> worker' = t)
    <2>1. worker # t
      BY <1>1 DEF IInv, TypeOK, At
    <2> QED
      BY <1>1, <1>9, <1>10, <2>1 DEF IInv, TypeOK, Scalars, At
  <1> QED
    BY <1>1, <1>10, <1>12, <1>13, StepKeeps

\* A delivery that is at its end, and a return to the delivery it was part of.
LEMMA EndDeliveryStep == ASSUME IInv, NEW t \in Threads, EndDelivery(t) PROVE IInv'
  <1> DEFINE f == [Top(t) EXCEPT !.pc = "return"]
  <1>1. /\ stack[t] # <<>> /\ Top(t).pc = "deliver" /\ Continue(t, f)
        /\ Top(t).k > Len(OnEntry[Top(t).ope])
        /\ UNCHANGED <<state, ecState, worker, requests, overlapped, synced>>
    BY DEF EndDelivery, At
  <1>2. Top(t) \in Frames /\ FrameShape(Top(t))
    BY <1>1, TopIsFrame
  <1>3. f \in Frames /\ FrameShape(f) /\ f.pc = "return"
    BY <1>1, <1>2 DEF Frames, FrameShape
  <1> HIDE DEF f
  <1>4. /\ StackShape' /\ stack'[t] # <<>> /\ Top(t)' = f
        /\ \A u \in Threads : u # t => stack'[u] = stack[u]
    BY <1>1, <1>3, ContinueKeeps
  <1>5. ~EcLeft(Top(t))
    <2>1. OnEntry[Top(t).ope] \in Seq(Target) /\ Top(t).k \in Nat
      BY <1>2, StateAssumption DEF Frames
    <2> QED
      BY <1>1, <2>1 DEF EcLeft
  <1>6. ~Owed(t) /\ ~Owed(t)'
    BY <1>3, <1>4, <1>5 DEF Owed, At
  <1>7. OwedByState' /\ FollowsOrOwed'
    BY <1>1, <1>4, <1>6, NothingOwed
  <1>8. Scalars' /\ (At(t, "body")' <=> worker' = t)
    <2>1. worker # t
      BY <1>1 DEF IInv, TypeOK, At
    <2> QED
      BY <1>1, <1>3, <1>4, <2>1 DEF IInv, TypeOK, Scalars, At
  <1> QED
    BY <1>1, <1>4, <1>7, <1>8, StepKeeps

LEMMA ReturnStep == ASSUME IInv, NEW t \in Threads, Return(t) PROVE IInv'
  <1>1. /\ stack[t] # <<>> /\ Top(t).pc = "return" /\ stack' = [stack EXCEPT ![t] = Front(@)]
        /\ UNCHANGED <<state, ecState, worker, requests, overlapped, synced>>
    BY DEF Return, At
  <1>2. /\ StackShape' /\ \A u \in Threads : u # t => stack'[u] = stack[u]
    BY <1>1, ReturnKeeps
  <1>3. stack'[t] # <<>> => Top(t)'.pc = "deliver" /\ (EcsFirst => ~EcLeft(Top(t)'))
    BY <1>1, ReturnKeeps
  <1>4. EcsFirst => ~Owed(t) /\ ~Owed(t)'
    BY <1>1, <1>3 DEF Owed, At, EcLeft
  <1>5. OwedByState' /\ FollowsOrOwed'
    BY <1>1, <1>2, <1>4, NothingOwed
  <1>6. Scalars' /\ (At(t, "body")' <=> worker' = t)
    <2>1. worker # t
      BY <1>1 DEF IInv, TypeOK, At
    <2> QED
      BY <1>1, <1>3, <2>1 DEF IInv, TypeOK, Scalars, At
  <1> QED
    BY <1>1, <1>2, <1>5, <1>6, StepKeeps

\* A request that finds nobody inside starts with nothing owed.
LEMMA RequestStep ==
  ASSUME IInv, NEW t \in Threads, NEW s \in States, NEW arg \in States \cup {Unknown, Missing},
         NEW byExecute \in BOOLEAN, byExecute => arg = s, Request(t, s, arg, byExecute)
  PROVE  IInv'
  <1> DEFINE f == Frame(s, arg, byExecute)
  <1>1. /\ stack[t] = <<>> /\ requests < MaxRequests /\ requests' = requests + 1
        /\ stack' = [stack EXCEPT ![t] = <<f>>]
        /\ overlapped' = (overlapped \/ \E u \in Threads : stack[u] # <<>>)
        /\ UNCHANGED <<state, ecState, worker, synced>>
    BY DEF Request
  <1>2. f \in Frames /\ FrameShape(f) /\ f.pc = "call"
    BY DEF Frames, FrameShape, Frame
  <1> HIDE DEF f
  <1>3. /\ stack' \in [Threads -> Seq(Frames)] /\ stack'[t] = <<f>>
        /\ \A u \in Threads : u # t => stack'[u] = stack[u]
    BY <1>1, <1>2 DEF IInv, StackShape
  <1>4. Len(<<f>>) = 1 /\ DOMAIN <<f>> = {1} /\ <<f>>[1] = f /\ 1..(Len(<<f>>) - 1) = {} /\ <<f>> # <<>>
    OBVIOUS
  <1>5. StackShape'
    <2> SUFFICES ASSUME NEW u \in Threads
                 PROVE  /\ \A n \in DOMAIN stack'[u] : FrameShape(stack'[u][n])
                        /\ \A n \in 1..(Len(stack'[u]) - 1) :
                             stack'[u][n].pc = "deliver" /\ (EcsFirst => ~EcLeft(stack'[u][n]))
      BY <1>3 DEF StackShape, FrameShape, EcLeft, EcsFirst
    <2>1. CASE u = t
      BY <1>2, <1>3, <1>4, <2>1
    <2>2. CASE u # t
      BY <1>3, <2>2 DEF IInv, StackShape
    <2> QED
      BY <2>1, <2>2
  <1>6. Top(t)' = f
    BY <1>3, <1>4 DEF Top, Last
  <1>7. OneInside'
    BY <1>1, <1>3 DEF OneInside
  <1>8. \A u \in Threads : /\ Owed(u)' => Owed(u) /\ u # t
                           /\ u # t => (At(u, "body")' <=> At(u, "body"))
    BY <1>2, <1>3, <1>6 DEF Owed, At, Top
  <1>9. ~overlapped' => \A u \in Threads : ~Owed(u) /\ ~Owed(u)'
    BY <1>1, <1>8 DEF Owed, At
  <1>10. OwedByState' /\ FollowsOrOwed'
    BY <1>1, <1>9 DEF IInv, OwedByState, FollowsOrOwed, ECTargets
  <1>11. ~At(t, "body") /\ ~At(t, "body")'
    BY <1>1, <1>2, <1>3, <1>6 DEF At
  <1>12. \A u \in Threads : At(u, "body")' <=> worker' = u
    BY <1>1, <1>8, <1>11 DEF IInv, TypeOK
  <1>13. \A u \in Threads : \A n \in DOMAIN stack'[u] : FrameType(stack'[u][n])
    <2> SUFFICES ASSUME NEW u \in Threads, NEW n \in DOMAIN stack'[u] PROVE FrameType(stack'[u][n])
      OBVIOUS
    <2>1. stack'[u][n] \in Frames
      BY <1>3
    <2> QED
      BY <2>1 DEF Frames, FrameType
  <1>14. requests' \in 0..MaxRequests /\ overlapped' \in BOOLEAN
    BY <1>1, ThreadAssumption DEF IInv, TypeOK
  <1>15. TypeOK'
    BY <1>1, <1>12, <1>13, <1>14 DEF IInv, TypeOK
  <1> QED
    BY <1>5, <1>7, <1>10, <1>15 DEF IInv

\* Nobody is inside at first.
LEMMA IInit == Init => IInv
  <1> SUFFICES ASSUME Init PROVE IInv
    OBVIOUS
  <1>1. \A t \in Threads : stack[t] = <<>>
    BY DEF Init
  <1>2. TypeOK
    <2>1. /\ state \in States \cup {Unknown} /\ ecState \in ECStates
          /\ requests \in 0..MaxRequests
      BY StateAssumption, ThreadAssumption DEF Init, ECStates
    <2>2. \A t \in Threads : \A n \in DOMAIN stack[t] : FrameType(stack[t][n])
      BY <1>1
    <2>3. \A t \in Threads : At(t, "body") <=> worker = t
      BY <1>1, ThreadAssumption DEF Init, At
    <2> QED
      BY <2>1, <2>2, <2>3 DEF Init, TypeOK
  <1>3. StackShape
    BY <1>1 DEF Init, StackShape
  <1> QED
    BY <1>1, <1>2, <1>3 DEF Init, IInv, OneInside, OwedByState, FollowsOrOwed

LEMMA IStep == IInv /\ [Next]_vars => IInv'
  <1> SUFFICES ASSUME IInv, [Next]_vars PROVE IInv'
    OBVIOUS
  <1>1. ASSUME NEW t \in Threads, Step(t) PROVE IInv'
    BY <1>1, BeginStep, EndStep, DeliverECStep, DeliverFSMStep, EndDeliveryStep, ReturnStep DEF Step
  <1>2. ASSUME NEW t \in Threads, NEW s \in States, RequestExecute(t, s) PROVE IInv'
    BY <1>2, RequestStep DEF RequestExecute
  <1>3. ASSUME NEW t \in Threads, NEW s \in States, NEW arg \in States \cup {Unknown, Missing},
               RequestCall(t, s, arg)
        PROVE  IInv'
    BY <1>3, RequestStep DEF RequestCall
  <1>4. CASE UNCHANGED vars
    BY <1>4 DEF vars, IInv, TypeOK, StackShape, OneInside, OwedByState, FollowsOrOwed, Owed, At, Top
  <1> QED
    BY <1>1, <1>2, <1>3, <1>4 DEF Next

THEOREM Invariance == Spec => []IInv
  BY IInit, IStep, PTL DEF Spec
------------------------------------------------------------------------------
\* The variables keep their types, and the container's worker runs the body of
\* one call at a time.
THEOREM TypesHold == Spec => []TypeOK
  BY Invariance, PTL DEF IInv

\* While requests do not overlap, the execution context is where the entry
\* connections of the current state put it (activate_state and the EVENT
\* connections of its outlet), for any states, transitions and entries that
\* drive the context before they lead on.
THEOREM ContextFollows == Spec => []EcFollowsFsm
  <1>1. IInv => EcFollowsFsm
    BY DEF IInv, EcFollowsFsm, FollowsOrOwed, Owed, At
  <1> QED
    BY <1>1, Invariance, PTL
===============================================================================
