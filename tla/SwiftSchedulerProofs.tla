------------------------- MODULE SwiftSchedulerProofs -------------------------
(***************************************************************************)
(* Proofs about a parallel region, for any number of threads, any tree of  *)
(* frames and any capacity of the queues.                                  *)
(***************************************************************************)
EXTENDS SwiftScheduler, SequenceTheorems, FiniteSetTheorems, TLAPS

-----------------------------------------------------------------------------
(***************************************************************************)
(* Sequences: what a push, a pop and a steal make of a queue               *)
(***************************************************************************)
LEMMA Pushed ==
  ASSUME NEW S, NEW s \in Seq(S), NEW x \in S
  PROVE  /\ Append(s, x) \in Seq(S) /\ Append(s, x) # <<>>
         /\ Len(Append(s, x)) = Len(s) + 1
         /\ DOMAIN Append(s, x) = DOMAIN s \union {Len(s) + 1}
         /\ Len(s) + 1 \notin DOMAIN s
         /\ \A i \in DOMAIN s : Append(s, x)[i] = s[i]
         /\ Append(s, x)[Len(s) + 1] = x
<1>1. Len(s) \in Nat /\ DOMAIN s = 1 .. Len(s)
  BY LenProperties
<1>. QED
  BY <1>1, AppendProperties

LEMMA Popped ==
  ASSUME NEW S, NEW s \in Seq(S), s # <<>>
  PROVE  /\ SubSeq(s, 1, Len(s) - 1) \in Seq(S)
         /\ Len(SubSeq(s, 1, Len(s) - 1)) = Len(s) - 1
         /\ DOMAIN SubSeq(s, 1, Len(s) - 1) = DOMAIN s \ {Len(s)}
         /\ Len(s) \in DOMAIN s /\ s[Len(s)] \in S
         /\ \A i \in DOMAIN s \ {Len(s)} : SubSeq(s, 1, Len(s) - 1)[i] = s[i]
<1>1. Len(s) \in Nat /\ DOMAIN s = 1 .. Len(s) /\ Len(s) # 0
  BY LenProperties, EmptySeq
<1>2. \A i \in 1 .. Len(s) : s[i] \in S
  BY ElementOfSeq
<1>. QED
  BY <1>1, <1>2

LEMMA Stolen ==
  ASSUME NEW S, NEW s \in Seq(S), s # <<>>
  PROVE  /\ Tail(s) \in Seq(S)
         /\ Len(Tail(s)) = Len(s) - 1
         /\ Head(s) = s[1] /\ 1 \in DOMAIN s /\ s[1] \in S
         /\ \A i \in DOMAIN Tail(s) : i + 1 \in DOMAIN s \ {1} /\ Tail(s)[i] = s[i + 1]
         /\ \A i \in DOMAIN s \ {1} : i - 1 \in DOMAIN Tail(s) /\ Tail(s)[i - 1] = s[i]
<1>1. Len(s) \in Nat /\ DOMAIN s = 1 .. Len(s) /\ Len(s) # 0
  BY LenProperties, EmptySeq
<1>2. Tail(s) \in Seq(S) /\ Len(Tail(s)) = Len(s) - 1 /\ Head(s) = s[1]
      /\ \A i \in 1 .. Len(Tail(s)) : Tail(s)[i] = s[i + 1]
  BY HeadTailProperties
<1>3. DOMAIN Tail(s) = 1 .. Len(s) - 1
  BY <1>2, LenProperties
<1>. QED
  BY <1>1, <1>2, <1>3, ElementOfSeq
-----------------------------------------------------------------------------
(***************************************************************************)
(* The types                                                               *)
(***************************************************************************)
\* what the types rest on: a frame to push is there when a push begins
Pushing(p) ==
  /\ pc[p] = "push" => next[p] \in DOMAIN Spawned[Current(p)]
  /\ pc[p] \in {"test_deps", "push_dep"} => Dependent[Current(p)] # None

TypeInv == TypeOK /\ \A p \in Thread : Pushing(p)

\* the labels of a thread that is inside a closure
Inside == {"run", "push", "finish", "signal_sync", "signal_deps", "test_deps", "push_dep",
           "frame_done"}

LEMMA CurrentIsFrame ==
  ASSUME TypeOK, NEW p \in Thread, stack[p] # <<>>
  PROVE  Current(p) \in Frame
BY Popped DEF TypeOK, Current

LEMMA TopIsFrame ==
  ASSUME NEW p \in Thread, TypeOK, queue[p] # <<>>
  PROVE  queue[p][Len(queue[p])] \in Frame /\ Head(queue[p]) \in Frame
BY Popped, Stolen DEF TypeOK

LEMMA SpawnedFrames ==
  ASSUME NEW f \in Frame
  PROVE  /\ Spawned[f] \in Seq(Frame \ {Root})
         /\ DOMAIN Spawned[f] = IF Spawned[f] = <<>> THEN {} ELSE {1, 2}
         /\ Len(Spawned[f]) = IF Spawned[f] = <<>> THEN 0 ELSE 2
         /\ \A i \in DOMAIN Spawned[f] : Spawned[f][i] \in Frame \ {Root}
<1>1. Spawned[f] \in Seq(Frame \ {Root})
  BY SchedulerAssumption
<1>2. Len(Spawned[f]) = IF Spawned[f] = <<>> THEN 0 ELSE 2
  BY <1>1, EmptySeq, TreeAssumption
<1>3. DOMAIN Spawned[f] = 1 .. Len(Spawned[f])
  BY <1>1, LenProperties
<1>4. \A i \in DOMAIN Spawned[f] : Spawned[f][i] \in Frame \ {Root}
  BY <1>1, <1>3, ElementOfSeq
<1>5. 1 .. 0 = {} /\ 1 .. 2 = {1, 2}
  OBVIOUS
<1>6. DOMAIN Spawned[f] = IF Spawned[f] = <<>> THEN {} ELSE {1, 2}
  BY <1>2, <1>3, <1>5
<1>. QED
  BY <1>1, <1>2, <1>4, <1>6

LEMMA NextThread ==
  ASSUME NEW i \in Thread
  PROVE  (i + 1) % ThreadNum = IF i + 1 = ThreadNum THEN 0 ELSE i + 1
<1>1. ThreadNum \in Nat \ {0} /\ i \in Nat /\ i < ThreadNum
  BY ThreadAssumption DEF Thread
<1>2. CASE i + 1 = ThreadNum
  BY <1>1, <1>2
<1>3. CASE i + 1 < ThreadNum
  BY <1>1, <1>3
<1>. QED
  BY <1>1, <1>2, <1>3

LEMMA TargetIsThread ==
  ASSUME NEW p \in Thread, NEW last \in Thread
  PROVE  StealTarget(p, last) \in Thread
<1>1. \A r \in Thread : (r + 1) % ThreadNum \in Thread
  BY NextThread, ThreadAssumption DEF Thread
<1>. QED
  BY <1>1 DEF StealTarget

\* A counter of frames fits in a swift_size_t.
LEMMA CountsFit ==
  ASSUME NEW F \in SUBSET Frame
  PROVE  IsFiniteSet(F) /\ Cardinality(F) \in 0 .. SizeRange - 1
<1>1. IsFiniteSet(F) /\ Cardinality(F) <= Cardinality(Frame)
  BY FS_Subset, CountAssumption
<1>2. Cardinality(F) \in Nat /\ Cardinality(Frame) \in Nat
  BY <1>1, FS_CardinalityType, CountAssumption
<1>. QED
  BY <1>1, <1>2, CountAssumption, SchedulerAssumption

LEMMA DecrementType ==
  ASSUME NEW counter \in [Frame -> 0 .. SizeRange - 1], NEW f \in Frame
  PROVE  Decrement(counter, f) \in [Frame -> 0 .. SizeRange - 1]
<1>1. (counter[f] - 1) % SizeRange \in 0 .. SizeRange - 1
  BY SchedulerAssumption
<1>. QED
  BY <1>1 DEF Decrement

LEMMA TotalType ==
  ASSUME TypeOK, NEW f \in Frame, Spawned[f] # <<>>
  PROVE  Total(f) \in Nat \union {Unwritten}
<1>1. Spawned[f][1] \in Frame /\ Spawned[f][2] \in Frame
  BY SpawnedFrames
<1>. DEFINE r1 == result[Spawned[f][1]]
            r2 == result[Spawned[f][2]]
<1>2. r1 \in Nat \union {Unwritten} /\ r2 \in Nat \union {Unwritten}
  BY <1>1 DEF TypeOK
<1>3. CASE Unwritten \in {r1, r2}
  BY <1>3 DEF Total
<1>4. CASE Unwritten \notin {r1, r2}
  <2>1. Total(f) = r1 + r2
    BY <1>4 DEF Total
  <2>. QED
    BY <2>1, <1>2, <1>4
<1>. QED
  BY <1>3, <1>4

\* A frame that awaits data has a parent that has spawned the frames it awaits.
LEMMA AwaitingParentSpawns ==
  ASSUME NEW f \in Frame, Inputs(f) # {}
  PROVE  Parent[f] \in Frame /\ Spawned[Parent[f]] # <<>>
<1>1. PICK g \in Frame : Dependent[g] = f
  BY DEF Inputs
<1>2. f \in {Dependent[g]} \ {None}
  BY <1>1, SchedulerAssumption
<1>3. \E i \in DOMAIN Spawned[Parent[f]] : Spawned[Parent[f]][i] = g
  BY <1>2, SchedulerAssumption
<1>. QED
  BY <1>3, SpawnedFrames, SchedulerAssumption
\* Only the thread that takes a step changes its place.
OthersStay(p) ==
  \A q \in Thread \ {p} : pc'[q] = pc[q] /\ stack'[q] = stack[q] /\ next'[q] = next[q]

LEMMA GotoMoves ==
  ASSUME TypeOK, NEW p \in Thread, NEW label \in Label, Goto(p, label)
  PROVE  /\ pc' \in [Thread -> Label]
         /\ pc'[p] = label /\ \A q \in Thread \ {p} : pc'[q] = pc[q]
BY DEF Goto, TypeOK

LEMMA EnterMoves ==
  ASSUME TypeOK, NEW p \in Thread, NEW f \in Frame, Enter(p, f)
  PROVE  /\ stack' \in [Thread -> Seq(Frame)] /\ runs' \in [Frame -> Nat]
         /\ pc' \in [Thread -> Label]
         /\ pc'[p] = "run" /\ stack'[p] = Append(stack[p], f) /\ stack'[p] # <<>>
         /\ runs'[f] = runs[f] + 1 /\ \A g \in Frame \ {f} : runs'[g] = runs[g]
         /\ \A q \in Thread \ {p} : pc'[q] = pc[q] /\ stack'[q] = stack[q]
<1>1. "run" \in Label
  BY DEF Label
<1>2. stack[p] \in Seq(Frame)
  BY DEF TypeOK
<1>3. Append(stack[p], f) \in Seq(Frame) /\ Append(stack[p], f) # <<>>
  BY <1>2, Pushed
<1>4. /\ pc' \in [Thread -> Label]
      /\ pc'[p] = "run" /\ \A q \in Thread \ {p} : pc'[q] = pc[q]
  BY <1>1, GotoMoves DEF Enter
<1>5. /\ stack' \in [Thread -> Seq(Frame)] /\ stack'[p] = Append(stack[p], f)
      /\ \A q \in Thread \ {p} : stack'[q] = stack[q]
  BY <1>3 DEF Enter, TypeOK
<1>6. /\ runs' \in [Frame -> Nat]
      /\ runs'[f] = runs[f] + 1 /\ \A g \in Frame \ {f} : runs'[g] = runs[g]
  <2>1. runs \in [Frame -> Nat] /\ runs[f] + 1 \in Nat
    BY DEF TypeOK
  <2>2. runs' = [runs EXCEPT ![f] = runs[f] + 1]
    BY DEF Enter
  <2>. QED
    BY <2>1, <2>2
<1>. QED
  BY <1>3, <1>4, <1>5, <1>6

LEMMA PushMoves ==
  ASSUME TypeOK, NEW p \in Thread, NEW f \in Frame, PushIgnoringStatus(p, f)
  PROVE  /\ queue' \in [Thread -> Seq(Frame)]
         /\ \/ queue' = queue
            \/ queue'[p] = Append(queue[p], f)
         /\ \A q \in Thread \ {p} : queue'[q] = queue[q]
<1>1. queue[p] \in Seq(Frame)
  BY DEF TypeOK
<1>2. Append(queue[p], f) \in Seq(Frame)
  BY <1>1, Pushed
<1>. QED
  BY <1>2 DEF PushIgnoringStatus, TypeOK

LEMMA MainTypes ==
  ASSUME TypeInv, MainStep
  PROVE  TypeInv'
<1>. USE DEF TypeInv
<1>1. \A phase \in {"join", "destroyed"} : MainAdvance(phase) =>
        main' \in [phase : {"start", "join", "destroyed", "crashed"}, at : Thread]
  <2>. SUFFICES ASSUME NEW phase \in {"join", "destroyed"}, MainAdvance(phase)
                PROVE  main' \in [phase : {"start", "join", "destroyed", "crashed"}, at : Thread]
    OBVIOUS
  <2>1. main \in [phase : {"start", "join", "destroyed", "crashed"}, at : Thread]
    BY DEF TypeOK
  <2>2. CASE main.at + 1 < ThreadNum
    <3>1. main.at + 1 \in Thread
      BY <2>1, <2>2, ThreadAssumption DEF Thread
    <3>. QED
      BY <2>1, <2>2, <3>1 DEF MainAdvance
  <2>3. CASE ~(main.at + 1 < ThreadNum)
    <3>1. 0 \in Thread
      BY ThreadAssumption DEF Thread
    <3>. QED
      BY <2>1, <2>3, <3>1 DEF MainAdvance
  <2>. QED
    BY <2>2, <2>3
<1>2. main.at \in Thread /\ main.phase \in {"start", "join", "destroyed", "crashed"}
  BY DEF TypeOK
<1>3. CASE StartThread
  <2>1. PICK label \in {"check", "failed"} : Goto(main.at, label)
    BY <1>3 DEF StartThread
  <2>2. /\ pc' \in [Thread -> Label]
        /\ pc'[main.at] = label /\ \A q \in Thread \ {main.at} : pc'[q] = pc[q]
    BY <1>2, <2>1, GotoMoves DEF Label
  <2>3. TypeOK'
    BY <1>1, <1>3, <2>2 DEF StartThread, TypeOK, work, locals, data, history
  <2>4. ASSUME NEW q \in Thread PROVE Pushing(q)'
    BY <1>3, <2>2 DEF StartThread, Pushing, Current, work, locals
  <2>. QED
    BY <2>3, <2>4
<1>4. CASE JoinThread \/ JoinFailed
  <2>1. main' \in [phase : {"start", "join", "destroyed", "crashed"}, at : Thread]
    BY <1>1, <1>2, <1>4 DEF JoinThread, JoinFailed, TypeOK
  <2>2. UNCHANGED <<work, pc, locals, data, stop, parallelFinished, history>>
    BY <1>4 DEF JoinThread, JoinFailed
  <2>3. TypeOK'
    BY <2>1, <2>2 DEF TypeOK, work, locals, data, history
  <2>4. ASSUME NEW q \in Thread PROVE Pushing(q)'
    BY <2>2 DEF Pushing, Current, work, locals
  <2>. QED
    BY <2>3, <2>4
<1>. QED
  BY <1>3, <1>4 DEF MainStep

\* What is left to show of a step of p once the types of its data are known.
LEMMA StepKeepsPlaces ==
  ASSUME TypeInv, NEW p \in Thread, OthersStay(p), Pushing(p)',
         pc'[p] \in Inside => stack'[p] # <<>>
  PROVE  /\ \A q \in Thread : pc'[q] \in Inside => stack'[q] # <<>>
         /\ \A q \in Thread : Pushing(q)'
<1>1. \A q \in Thread \ {p} : Pushing(q)'
  BY DEF TypeInv, OthersStay, Pushing, Current
<1>. QED
  BY <1>1 DEF TypeInv, TypeOK, OthersStay, Inside

LEMMA LoopTypes ==
  ASSUME TypeInv, NEW p \in Thread, ThreadLoop(p) \/ SyncLoop(p) \/ Inform(p)
  PROVE  TypeInv'
<1>. USE DEF TypeInv
<1>1. CASE ThreadLoop(p) \/ SyncLoop(p)
  <2>1. PICK label \in {"inform", "exited", "pop"} \union
                       (IF stack[p] = <<>> THEN {} ELSE {"finish"}) : Goto(p, label)
    BY <1>1 DEF ThreadLoop, SyncLoop
  <2>2. /\ pc' \in [Thread -> Label] /\ pc'[p] = label
        /\ \A q \in Thread \ {p} : pc'[q] = pc[q]
    BY <2>1, GotoMoves DEF Label
  <2>3. UNCHANGED <<work, locals, data, region, history>>
    BY <1>1 DEF ThreadLoop, SyncLoop
  <2>4. OthersStay(p) /\ Pushing(p)' /\ (pc'[p] \in Inside => stack'[p] # <<>>)
    BY <2>1, <2>2, <2>3 DEF OthersStay, Pushing, Inside, work, locals
  <2>5. \A q \in Thread : (pc'[q] \in Inside => stack'[q] # <<>>) /\ Pushing(q)'
    BY <2>4, StepKeepsPlaces
  <2>. QED
    BY <2>2, <2>3, <2>5 DEF TypeOK, Inside, work, locals, data, region, history
<1>2. CASE Inform(p)
  <2>1. stop' \in [Thread -> BOOLEAN]
    BY <1>2 DEF Inform, TypeOK
  <2>2. /\ next' \in [Thread -> Nat] /\ \A q \in Thread \ {p} : next'[q] = next[q]
        /\ pc' \in [Thread -> Label] /\ pc'[p] \in {"inform", "exited"}
        /\ \A q \in Thread \ {p} : pc'[q] = pc[q]
    <3>1. next \in [Thread -> Nat] /\ next[p] + 1 \in Nat /\ pc \in [Thread -> Label]
      BY DEF TypeOK
    <3>2. \/ next' = [next EXCEPT ![p] = next[p] + 1]
          \/ next' = [next EXCEPT ![p] = 0]
      BY <1>2 DEF Inform
    <3>3. (pc' = pc /\ pc[p] = "inform") \/ Goto(p, "exited")
      BY <1>2 DEF Inform
    <3>4. next' \in [Thread -> Nat] /\ \A q \in Thread \ {p} : next'[q] = next[q]
      BY <3>1, <3>2
    <3>. QED
      BY <3>1, <3>3, <3>4, GotoMoves DEF Label
  <2>3. UNCHANGED <<work, roundRobin, seen, data, parallelFinished, main, history>>
    BY <1>2 DEF Inform
  <2>4. OthersStay(p) /\ Pushing(p)' /\ (pc'[p] \in Inside => stack'[p] # <<>>)
    BY <2>2, <2>3 DEF OthersStay, Pushing, Inside, work
  <2>5. \A q \in Thread : (pc'[q] \in Inside => stack'[q] # <<>>) /\ Pushing(q)'
    BY <2>4, StepKeepsPlaces
  <2>. QED
    BY <2>1, <2>2, <2>3, <2>5 DEF TypeOK, Inside, work, data, history
<1>. QED
  BY <1>1, <1>2

LEMMA GetFrameTypes ==
  ASSUME TypeInv, NEW p \in Thread, GetFrame(p)
  PROVE  TypeInv'
<1>. USE DEF TypeInv
<1>1. CASE PopFrame(p) \/ StealSuccess(p)
  <2>1. PICK f \in Frame : Enter(p, f)
    BY <1>1, TopIsFrame DEF PopFrame, StealSuccess, TopUnchanged, TypeOK
  <2>2. /\ stack' \in [Thread -> Seq(Frame)] /\ runs' \in [Frame -> Nat]
        /\ pc' \in [Thread -> Label] /\ pc'[p] = "run" /\ stack'[p] # <<>>
        /\ \A q \in Thread \ {p} : pc'[q] = pc[q] /\ stack'[q] = stack[q]
    BY <2>1, EnterMoves
  <2>3. queue' \in [Thread -> Seq(Frame)]
    <3>1. CASE PopFrame(p)
      <4>1. SubSeq(queue[p], 1, Len(queue[p]) - 1) \in Seq(Frame)
        BY <3>1, Popped DEF PopFrame, TypeOK
      <4>. QED
        BY <3>1, <4>1 DEF PopFrame, TypeOK
    <3>2. CASE StealSuccess(p)
      <4>1. roundRobin[p] \in Thread
        BY DEF TypeOK
      <4>2. Tail(queue[roundRobin[p]]) \in Seq(Frame)
        BY <3>2, <4>1, Stolen DEF StealSuccess, TopUnchanged, TypeOK
      <4>. QED
        BY <3>2, <4>1, <4>2 DEF StealSuccess, TypeOK
    <3>. QED
      BY <1>1, <3>1, <3>2
  <2>4. seen' \in [Thread -> Frame \union {None}]
    BY <1>1 DEF PopFrame, StealSuccess, TypeOK, locals
  <2>5. UNCHANGED <<next, roundRobin, data, region, signalled>>
    BY <1>1 DEF PopFrame, StealSuccess, locals
  <2>6. OthersStay(p) /\ Pushing(p)'
    BY <2>2, <2>5 DEF OthersStay, Pushing
  <2>7. \A q \in Thread : (pc'[q] \in Inside => stack'[q] # <<>>) /\ Pushing(q)'
    BY <2>2, <2>6, StepKeepsPlaces
  <2>. QED
    BY <2>2, <2>3, <2>4, <2>5, <2>7 DEF TypeOK, Inside, data, region
<1>2. CASE PopEmpty(p) \/ StealRead(p) \/ StealEmpty(p) \/ StealAbort(p)
  <2>1. PICK label \in {"steal", "steal_cas", "check"} : Goto(p, label)
    BY <1>2 DEF PopEmpty, StealRead, StealEmpty, StealAbort
  <2>2. /\ pc' \in [Thread -> Label] /\ pc'[p] = label
        /\ \A q \in Thread \ {p} : pc'[q] = pc[q]
    BY <2>1, GotoMoves DEF Label
  <2>3. roundRobin' \in [Thread -> Thread]
    <3>1. StealTarget(p, roundRobin[p]) \in Thread
      BY TargetIsThread DEF TypeOK
    <3>. QED
      BY <1>2, <3>1 DEF PopEmpty, StealRead, StealEmpty, StealAbort, TypeOK, locals
  <2>4. seen' \in [Thread -> Frame \union {None}]
    <3>1. CASE StealRead(p)
      <4>1. Head(queue[roundRobin[p]]) \in Frame
        BY <3>1, TopIsFrame DEF StealRead, TypeOK
      <4>. QED
        BY <3>1, <4>1 DEF StealRead, TypeOK
    <3>2. CASE PopEmpty(p) \/ StealEmpty(p) \/ StealAbort(p)
      BY <3>2 DEF PopEmpty, StealEmpty, StealAbort, TypeOK, locals
    <3>. QED
      BY <1>2, <3>1, <3>2
  <2>5. UNCHANGED <<work, next, data, region, history>>
    BY <1>2 DEF PopEmpty, StealRead, StealEmpty, StealAbort, locals
  <2>6. OthersStay(p) /\ Pushing(p)' /\ (pc'[p] \in Inside => stack'[p] # <<>>)
    BY <2>1, <2>2, <2>5 DEF OthersStay, Pushing, Inside, work
  <2>7. \A q \in Thread : (pc'[q] \in Inside => stack'[q] # <<>>) /\ Pushing(q)'
    BY <2>6, StepKeepsPlaces
  <2>. QED
    BY <2>2, <2>3, <2>4, <2>5, <2>7 DEF TypeOK, Inside, work, data, region, history
<1>. QED
  BY <1>1, <1>2 DEF GetFrame

LEMMA ClosureTypes ==
  ASSUME TypeInv, NEW p \in Thread, Closure(p)
  PROVE  TypeInv'
<1>. USE DEF TypeInv
<1>. DEFINE f == Current(p)
<1>1. stack[p] # <<>> /\ f \in Frame /\ pc \in [Thread -> Label] /\ next \in [Thread -> Nat]
  BY CurrentIsFrame DEF Closure, RunLeaf, RunSpawn, PushSpawned, Finish, TypeOK
<1>2. 0 \in 0 .. SizeRange - 1
  BY SchedulerAssumption
<1>3. CASE RunLeaf(p) \/ Finish(p)
  <2>1. PICK label \in {"finish", "signal_sync"} : Goto(p, label)
    BY <1>3 DEF RunLeaf, Finish
  <2>2. /\ pc' \in [Thread -> Label] /\ pc'[p] = label
        /\ \A q \in Thread \ {p} : pc'[q] = pc[q]
    BY <2>1, GotoMoves DEF Label
  <2>3. syncRemaining' \in [Frame -> 0 .. SizeRange - 1]
    BY <1>1, <1>2, <1>3 DEF RunLeaf, Finish, TypeOK
  <2>4. result' \in [Frame -> Nat \union {Unwritten}]
    <3>1. result \in [Frame -> Nat \union {Unwritten}] /\ Value[f] \in Nat
      BY <1>1, SchedulerAssumption DEF TypeOK
    <3>2. CASE Finish(p)
      <4>1. Spawned[f] # <<>> => Total(f) \in Nat \union {Unwritten}
        BY <1>1, TotalType
      <4>. QED
        BY <3>1, <3>2, <4>1 DEF Finish
    <3>3. CASE RunLeaf(p) /\ Inputs(f) = {}
      BY <3>1, <3>3 DEF RunLeaf
    <3>4. CASE RunLeaf(p) /\ Inputs(f) # {}
      <4>1. Parent[f] \in Frame /\ Total(Parent[f]) \in Nat \union {Unwritten}
        BY <1>1, <3>4, AwaitingParentSpawns, TotalType
      <4>. QED
        BY <3>1, <3>4, <4>1 DEF RunLeaf
    <3>. QED
      BY <1>3, <3>2, <3>3, <3>4
  <2>5. stop' \in [Thread -> BOOLEAN]
    <3>1. CASE RunLeaf(p)
      BY <3>1 DEF RunLeaf, TypeOK, region
    <3>2. CASE Finish(p)
      <4>1. stop \in [Thread -> BOOLEAN] /\ (stop[p] \/ EndsRegion(f)) \in BOOLEAN
        BY DEF TypeOK
      <4>2. stop' = [stop EXCEPT ![p] = stop[p] \/ EndsRegion(f)]
        BY <3>2 DEF Finish
      <4>. QED
        BY <4>1, <4>2, Zenon
    <3>. QED
      BY <1>3, <3>1, <3>2
  <2>6. UNCHANGED <<work, locals, dependenciesNo, parallelFinished, main, history>>
    BY <1>3 DEF RunLeaf, Finish, region
  <2>7. OthersStay(p) /\ Pushing(p)' /\ (pc'[p] \in Inside => stack'[p] # <<>>)
    BY <1>1, <2>1, <2>2, <2>6 DEF OthersStay, Pushing, work, locals
  <2>8. \A q \in Thread : (pc'[q] \in Inside => stack'[q] # <<>>) /\ Pushing(q)'
    BY <2>7, StepKeepsPlaces
  <2>. QED
    BY <2>2, <2>3, <2>4, <2>5, <2>6, <2>8 DEF TypeOK, Inside, work, locals, history
<1>4. CASE RunSpawn(p)
  <2>1. /\ pc' \in [Thread -> Label] /\ pc'[p] = "push"
        /\ \A q \in Thread \ {p} : pc'[q] = pc[q]
    BY <1>4, GotoMoves DEF RunSpawn, Label
  <2>2. syncRemaining' \in [Frame -> 0 .. SizeRange - 1]
    <3>1. FramesToAwait(f) \in 0 .. SizeRange - 1
      BY CountsFit DEF FramesToAwait, SyncFrames
    <3>. QED
      BY <1>4, <3>1 DEF RunSpawn, TypeOK
  <2>3. dependenciesNo' \in [Frame -> 0 .. SizeRange - 1]
    <3>1. \A d : InputsToAwait(d) \in 0 .. SizeRange - 1
      BY CountsFit DEF InputsToAwait, Inputs
    <3>. QED
      BY <1>4, <3>1 DEF RunSpawn, TypeOK
  <2>4. next' = [next EXCEPT ![p] = 1]
    BY <1>4 DEF RunSpawn
  <2>5. next' \in [Thread -> Nat] /\ next'[p] = 1 /\ \A q \in Thread \ {p} : next'[q] = next[q]
    BY <1>1, <2>4
  <2>6. UNCHANGED <<work, roundRobin, seen, result, region, history>>
    BY <1>4 DEF RunSpawn
  <2>7. 1 \in DOMAIN Spawned[f]
    BY <1>1, <1>4, SpawnedFrames DEF RunSpawn
  <2>8. OthersStay(p) /\ Pushing(p)' /\ (pc'[p] \in Inside => stack'[p] # <<>>)
    BY <1>1, <2>1, <2>5, <2>6, <2>7 DEF OthersStay, Pushing, Current, work
  <2>9. \A q \in Thread : (pc'[q] \in Inside => stack'[q] # <<>>) /\ Pushing(q)'
    BY <2>8, StepKeepsPlaces
  <2>. QED
    BY <2>1, <2>2, <2>3, <2>5, <2>6, <2>9 DEF TypeOK, Inside, work, region, history
<1>5. CASE PushSpawned(p)
  <2>1. next[p] \in DOMAIN Spawned[f] /\ Spawned[f][next[p]] \in Frame
    BY <1>1, <1>5, SpawnedFrames DEF PushSpawned, Pushing
  <2>2. queue' \in [Thread -> Seq(Frame)]
    BY <1>5, <2>1, PushMoves DEF PushSpawned
  <2>3. \/ /\ next[p] < Len(Spawned[f])
           /\ next' = [next EXCEPT ![p] = next[p] + 1] /\ pc' = pc
        \/ next' = [next EXCEPT ![p] = 0] /\ Goto(p, "check")
    BY <1>5 DEF PushSpawned
  <2>4. next' \in [Thread -> Nat] /\ \A q \in Thread \ {p} : next'[q] = next[q]
    BY <1>1, <2>3
  <2>5. /\ pc' \in [Thread -> Label] /\ \A q \in Thread \ {p} : pc'[q] = pc[q]
        /\ \/ pc'[p] = "check"
           \/ pc'[p] = "push" /\ next'[p] = next[p] + 1 /\ next[p] < Len(Spawned[f])
    <3>1. CASE Goto(p, "check")
      BY <3>1, GotoMoves DEF Label
    <3>2. CASE pc' = pc /\ next' = [next EXCEPT ![p] = next[p] + 1]
               /\ next[p] < Len(Spawned[f])
      BY <1>1, <1>5, <3>2 DEF PushSpawned
    <3>. QED
      BY <2>3, <3>1, <3>2
  <2>6. UNCHANGED <<stack, roundRobin, seen, data, region, history>>
    BY <1>5 DEF PushSpawned
  <2>7. next[p] < Len(Spawned[f]) => next[p] + 1 \in DOMAIN Spawned[f]
    <3>1. Len(Spawned[f]) = IF Spawned[f] = <<>> THEN 0 ELSE 2
      BY <1>1, SpawnedFrames
    <3>2. DOMAIN Spawned[f] = IF Spawned[f] = <<>> THEN {} ELSE {1, 2}
      BY <1>1, SpawnedFrames
    <3>. QED
      BY <2>1, <3>1, <3>2
  <2>8. OthersStay(p) /\ Pushing(p)' /\ (pc'[p] \in Inside => stack'[p] # <<>>)
    BY <1>1, <2>4, <2>5, <2>6, <2>7 DEF OthersStay, Pushing, Current
  <2>9. \A q \in Thread : (pc'[q] \in Inside => stack'[q] # <<>>) /\ Pushing(q)'
    BY <2>8, StepKeepsPlaces
  <2>. QED
    BY <2>2, <2>4, <2>5, <2>6, <2>9 DEF TypeOK, Inside, data, region, history
<1>. QED
  BY <1>3, <1>4, <1>5 DEF Closure

LEMMA FrameEndTypes ==
  ASSUME TypeInv, NEW p \in Thread, FrameEnd(p)
  PROVE  TypeInv'
<1>. USE DEF TypeInv
<1>. DEFINE f == Current(p)
<1>1. /\ stack[p] # <<>> /\ f \in Frame /\ Parent[f] \in Frame
      /\ Dependent[f] \in Frame \union {None}
  BY CurrentIsFrame, SchedulerAssumption
     DEF FrameEnd, SignalSync, SignalDependencies, ReadGone, TestDependencies, PushDependent,
         FrameDone, TypeOK
<1>2. PICK label \in {"signal_deps", "frame_done", "test_deps", "push_dep", "check", "crashed"} :
        /\ Goto(p, label)
        /\ label \in {"test_deps", "push_dep"} => Dependent[f] # None
  BY DEF FrameEnd, SignalSync, SignalDependencies, ReadGone, TestDependencies, PushDependent,
         FrameDone, Pushing
<1>3. /\ pc' \in [Thread -> Label] /\ pc'[p] = label
      /\ \A q \in Thread \ {p} : pc'[q] = pc[q]
  BY <1>2, GotoMoves DEF Label
<1>4. CASE FrameDone(p)
  <2>1. SubSeq(stack[p], 1, Len(stack[p]) - 1) \in Seq(Frame)
    BY <1>1, Popped DEF TypeOK
  <2>2. /\ stack' \in [Thread -> Seq(Frame)]
        /\ \A q \in Thread \ {p} : stack'[q] = stack[q]
    BY <1>4, <2>1 DEF FrameDone, Leave, TypeOK
  <2>3. label = "check"
    BY <1>3, <1>4, GotoMoves DEF FrameDone, Label
  <2>4. parallelFinished' \in BOOLEAN
    BY <1>4 DEF FrameDone, TypeOK
  <2>5. UNCHANGED <<queue, locals, data, stop, main, history>>
    BY <1>4 DEF FrameDone
  <2>6. OthersStay(p) /\ Pushing(p)' /\ (pc'[p] \in Inside => stack'[p] # <<>>)
    BY <1>3, <2>2, <2>3, <2>5 DEF OthersStay, Pushing, Inside, locals
  <2>7. \A q \in Thread : (pc'[q] \in Inside => stack'[q] # <<>>) /\ Pushing(q)'
    BY <2>6, StepKeepsPlaces
  <2>. QED
    BY <1>3, <2>2, <2>4, <2>5, <2>7 DEF TypeOK, Inside, locals, data, history
<1>5. CASE ~FrameDone(p)
  <2>1. UNCHANGED <<stack, locals, region, runs>>
    BY <1>5 DEF FrameEnd, SignalSync, SignalDependencies, ReadGone, TestDependencies,
                PushDependent, work, history, region
  <2>2. queue' \in [Thread -> Seq(Frame)]
    <3>1. CASE PushDependent(p)
      BY <1>1, <3>1, PushMoves DEF PushDependent, Pushing
    <3>2. CASE ~PushDependent(p)
      BY <1>5, <3>2 DEF FrameEnd, SignalSync, SignalDependencies, ReadGone,
                        TestDependencies, work, TypeOK
    <3>. QED
      BY <3>1, <3>2
  <2>3. syncRemaining' \in [Frame -> 0 .. SizeRange - 1]
    <3>1. syncRemaining' = syncRemaining \/ syncRemaining' = Decrement(syncRemaining, Parent[f])
      BY <1>5 DEF FrameEnd, SignalSync, SignalDependencies, ReadGone, TestDependencies,
                  PushDependent, data
    <3>2. syncRemaining \in [Frame -> 0 .. SizeRange - 1]
      BY DEF TypeOK
    <3>3. Decrement(syncRemaining, Parent[f]) \in [Frame -> 0 .. SizeRange - 1]
      BY <1>1, <3>2, DecrementType
    <3>. QED
      BY <3>1, <3>2, <3>3
  <2>4. dependenciesNo' \in [Frame -> 0 .. SizeRange - 1]
    <3>1. \/ dependenciesNo' = dependenciesNo
          \/ Dependent[f] # None /\ dependenciesNo' = Decrement(dependenciesNo, Dependent[f])
      BY <1>5 DEF FrameEnd, SignalSync, SignalDependencies, ReadGone, TestDependencies,
                  PushDependent, data
    <3>2. dependenciesNo \in [Frame -> 0 .. SizeRange - 1]
      BY DEF TypeOK
    <3>3. Dependent[f] # None => Decrement(dependenciesNo, Dependent[f]) \in [Frame -> 0 .. SizeRange - 1]
      BY <1>1, <3>2, DecrementType
    <3>. QED
      BY <3>1, <3>2, <3>3
  <2>5. result' = result
    BY <1>5 DEF FrameEnd, SignalSync, SignalDependencies, ReadGone, TestDependencies,
                PushDependent, data
  <2>6. signalled' \in SUBSET Frame
    BY <1>1, <1>5 DEF FrameEnd, SignalSync, SignalDependencies, ReadGone, TestDependencies,
                PushDependent, history, TypeOK
  <2>7. OthersStay(p) /\ Pushing(p)' /\ (pc'[p] \in Inside => stack'[p] # <<>>)
    BY <1>1, <1>2, <1>3, <2>1 DEF OthersStay, Pushing, Current, locals
  <2>8. \A q \in Thread : (pc'[q] \in Inside => stack'[q] # <<>>) /\ Pushing(q)'
    BY <2>7, StepKeepsPlaces
  <2>. QED
    BY <1>3, <2>1, <2>2, <2>3, <2>4, <2>5, <2>6, <2>8 DEF TypeOK, Inside, locals, region
<1>. QED
  BY <1>4, <1>5

LEMMA InitTypes == Init => TypeInv
<1>. SUFFICES ASSUME Init PROVE TypeInv
  OBVIOUS
<1>. USE SchedulerAssumption, ThreadAssumption
<1>1. <<>> \in Seq(Frame) /\ <<Root>> \in Seq(Frame)
  OBVIOUS
<1>2. queue \in [Thread -> Seq(Frame)] /\ stack \in [Thread -> Seq(Frame)]
  BY <1>1 DEF Init
<1>3. /\ pc \in [Thread -> Label] /\ next \in [Thread -> Nat]
      /\ \A p \in Thread : pc[p] = "created"
  BY DEF Init, Label
<1>4. roundRobin \in [Thread -> Thread] /\ seen \in [Thread -> Frame \union {None}]
  BY DEF Init
<1>5. /\ syncRemaining \in [Frame -> 0 .. SizeRange - 1]
      /\ dependenciesNo \in [Frame -> 0 .. SizeRange - 1]
      /\ result \in [Frame -> Nat \union {Unwritten}]
      /\ runs \in [Frame -> Nat] /\ signalled \in SUBSET Frame
  BY DEF Init
<1>6. stop \in [Thread -> BOOLEAN] /\ parallelFinished \in BOOLEAN
  BY DEF Init
<1>7. main \in [phase : {"start", "join", "destroyed", "crashed"}, at : Thread]
  <2>1. 0 \in Thread
    BY DEF Thread
  <2>. QED
    BY <2>1 DEF Init
<1>. QED
  BY <1>2, <1>3, <1>4, <1>5, <1>6, <1>7 DEF TypeInv, TypeOK, Pushing

LEMMA StepTypes == TypeInv /\ [Next]_vars => TypeInv'
<1>. SUFFICES ASSUME TypeInv, [Next]_vars PROVE TypeInv'
  OBVIOUS
<1>1. CASE MainStep
  BY <1>1, MainTypes
<1>2. ASSUME NEW p \in Thread, ThreadStep(p) PROVE TypeInv'
  BY <1>2, LoopTypes, GetFrameTypes, ClosureTypes, FrameEndTypes DEF ThreadStep
<1>3. CASE UNCHANGED vars
  BY <1>3 DEF TypeInv, TypeOK, Pushing, Current, vars, work, locals, data, region, history
<1>. QED
  BY <1>1, <1>2, <1>3 DEF Next, Terminated

(***************************************************************************)
(* For every program, data-flow or not, with any number of threads: a      *)
(* steal target is a thread of the context, a counter stays in its word,   *)
(* and a thread inside a closure has one.                                  *)
(***************************************************************************)
THEOREM TypeCorrect == Spec => []TypeOK
<1>1. TypeInv => TypeOK
  BY DEF TypeInv
<1>. QED
  BY <1>1, InitTypes, StepTypes, PTL DEF Spec

-----------------------------------------------------------------------------
(***************************************************************************)
(* Places: a queue or a stack per thread, no frame in two of them          *)
(***************************************************************************)
Held(place) == {f \in Frame : \E p \in Thread : \E i \in DOMAIN place[p] : place[p][i] = f}

\* after is place with frame g added in cell n of thread p, or with cell n gone;
\* the cells that stay may move, from back[i] to i, as those of a tail do
AddsCell(place, after, p, n, g) ==
  /\ DOMAIN after[p] = DOMAIN place[p] \union {n}
  /\ \A i \in DOMAIN place[p] : after[p][i] = place[p][i]
  /\ n \notin DOMAIN place[p] /\ after[p][n] = g
  /\ \A q \in Thread \ {p} : after[q] = place[q]

RemovesCell(place, after, p, n, back) ==
  /\ n \in DOMAIN place[p]
  /\ \A i \in DOMAIN after[p] :
       back[i] \in DOMAIN place[p] \ {n} /\ after[p][i] = place[p][back[i]]
  /\ \A i, j \in DOMAIN after[p] : back[i] = back[j] => i = j
  /\ \A k \in DOMAIN place[p] \ {n} : \E i \in DOMAIN after[p] : back[i] = k
  /\ \A q \in Thread \ {p} : after[q] = place[q]

LEMMA CellAdded ==
  ASSUME NEW place, NEW after, NEW p \in Thread, NEW n, NEW g \in Frame,
         AddsCell(place, after, p, n, g), Apart(place), g \notin Held(place)
  PROVE  Apart(after) /\ Held(after) = Held(place) \union {g}
<1>. USE DEF AddsCell
<1>1. \A q \in Thread : \A i \in DOMAIN place[q] : place[q][i] # g
  BY DEF Held
<1>2. Apart(after)
  <2>. SUFFICES ASSUME NEW q \in Thread, NEW r \in Thread, NEW i \in DOMAIN after[q],
                       NEW j \in DOMAIN after[r], after[q][i] = after[r][j]
                PROVE  q = r /\ i = j
    BY DEF Apart
  <2>1. \A t \in Thread : \A k \in DOMAIN after[t] :
          (t = p /\ k = n) \/ (k \in DOMAIN place[t] /\ after[t][k] = place[t][k])
    OBVIOUS
  <2>2. CASE (q = p /\ i = n) \/ (r = p /\ j = n)
    <3>1. after[q][i] = g /\ after[r][j] = g
      BY <2>2
    <3>2. \A t \in Thread : \A k \in DOMAIN after[t] : after[t][k] = g => t = p /\ k = n
      BY <1>1, <2>1
    <3>. QED
      BY <3>1, <3>2
  <2>3. CASE ~(q = p /\ i = n) /\ ~(r = p /\ j = n)
    <3>1. /\ i \in DOMAIN place[q] /\ after[q][i] = place[q][i]
          /\ j \in DOMAIN place[r] /\ after[r][j] = place[r][j]
      BY <2>1, <2>3
    <3>2. place[q][i] = place[r][j]
      BY <3>1
    <3>. QED
      BY <3>1, <3>2 DEF Apart
  <2>. QED
    BY <2>2, <2>3
<1>3. ASSUME NEW f \in Frame PROVE f \in Held(after) <=> f \in Held(place) \/ f = g
  <2>1. \A t \in Thread : \A k \in DOMAIN place[t] :
          k \in DOMAIN after[t] /\ after[t][k] = place[t][k]
    OBVIOUS
  <2>2. \A t \in Thread : \A k \in DOMAIN after[t] :
          (after[t][k] = g) \/ (k \in DOMAIN place[t] /\ after[t][k] = place[t][k])
    OBVIOUS
  <2>3. n \in DOMAIN after[p]
    OBVIOUS
  <2>. QED
    BY <2>1, <2>2, <2>3 DEF Held
<1>. QED
  BY <1>2, <1>3 DEF Held

LEMMA CellRemoved ==
  ASSUME NEW place, NEW after, NEW p \in Thread, NEW n, NEW back,
         RemovesCell(place, after, p, n, back), Apart(place)
  PROVE  Apart(after) /\ Held(after) = Held(place) \ {place[p][n]}
<1>. USE DEF RemovesCell
<1>1. \A q \in Thread : \A i \in DOMAIN place[q] : place[q][i] = place[p][n] => q = p /\ i = n
  BY DEF Apart
<1>2. Apart(after)
  <2>. SUFFICES ASSUME NEW q \in Thread, NEW r \in Thread, NEW i \in DOMAIN after[q],
                       NEW j \in DOMAIN after[r], after[q][i] = after[r][j]
                PROVE  q = r /\ i = j
    BY DEF Apart
  <2>1. CASE q = p /\ r = p
    BY <2>1 DEF Apart
  <2>2. CASE q = p /\ r # p
    BY <2>2 DEF Apart
  <2>3. CASE q # p /\ r = p
    BY <2>3 DEF Apart
  <2>4. CASE q # p /\ r # p
    BY <2>4 DEF Apart
  <2>. QED
    BY <2>1, <2>2, <2>3, <2>4
<1>3. ASSUME NEW f \in Held(after) PROVE f \in Held(place) /\ f # place[p][n]
  <2>1. PICK q \in Thread : \E i \in DOMAIN after[q] : after[q][i] = f
    BY DEF Held
  <2>2. CASE q = p
    BY <1>1, <2>1, <2>2 DEF Held
  <2>3. CASE q # p
    BY <1>1, <2>1, <2>3 DEF Held
  <2>. QED
    BY <2>2, <2>3
<1>4. ASSUME NEW f \in Held(place), f # place[p][n] PROVE f \in Held(after)
  <2>1. PICK q \in Thread : \E k \in DOMAIN place[q] : place[q][k] = f
    BY DEF Held
  <2>2. CASE q = p
    BY <1>4, <2>1, <2>2 DEF Held
  <2>3. CASE q # p
    BY <2>1, <2>3 DEF Held
  <2>. QED
    BY <2>2, <2>3
<1>. QED
  BY <1>2, <1>3, <1>4

LEMMA PlaceAppend ==
  ASSUME NEW place \in [Thread -> Seq(Frame)], NEW after, NEW p \in Thread, NEW g \in Frame,
         after[p] = Append(place[p], g), \A q \in Thread \ {p} : after[q] = place[q],
         Apart(place), g \notin Held(place)
  PROVE  Apart(after) /\ Held(after) = Held(place) \union {g}
<1>1. place[p] \in Seq(Frame)
  OBVIOUS
<1>2. PICK n : /\ DOMAIN after[p] = DOMAIN place[p] \union {n} /\ n \notin DOMAIN place[p]
               /\ \A i \in DOMAIN place[p] : after[p][i] = place[p][i]
               /\ after[p][n] = g
  BY <1>1, Pushed
<1>3. AddsCell(place, after, p, n, g)
  BY <1>2 DEF AddsCell
<1>. QED
  BY <1>3, CellAdded

LEMMA PlaceRemoveLast ==
  ASSUME NEW place \in [Thread -> Seq(Frame)], NEW after, NEW p \in Thread,
         place[p] # <<>>,
         after[p] = SubSeq(place[p], 1, Len(place[p]) - 1),
         \A q \in Thread \ {p} : after[q] = place[q],
         Apart(place)
  PROVE  /\ Apart(after) /\ Held(after) = Held(place) \ {place[p][Len(place[p])]}
         /\ place[p][Len(place[p])] \in Held(place)
<1>1. place[p] \in Seq(Frame)
  OBVIOUS
<1>2. PICK n : /\ n = Len(place[p]) /\ DOMAIN after[p] = DOMAIN place[p] \ {n}
               /\ n \in DOMAIN place[p] /\ place[p][n] \in Frame
               /\ \A i \in DOMAIN place[p] \ {n} : after[p][i] = place[p][i]
  <2>. DEFINE n == Len(place[p])
  <2>1. /\ DOMAIN after[p] = DOMAIN place[p] \ {n}
        /\ n \in DOMAIN place[p] /\ place[p][n] \in Frame
        /\ \A i \in DOMAIN place[p] \ {n} : after[p][i] = place[p][i]
    BY <1>1, Popped
  <2>. QED
    BY <2>1
<1>. DEFINE back == [i \in DOMAIN after[p] |-> i]
<1>3. \A i \in DOMAIN after[p] : back[i] = i
  OBVIOUS
<1>. HIDE DEF back
<1>4. RemovesCell(place, after, p, n, back)
  BY <1>2, <1>3 DEF RemovesCell
<1>5. Apart(after) /\ Held(after) = Held(place) \ {place[p][n]}
  BY <1>4, CellRemoved
<1>. QED
  BY <1>2, <1>5 DEF Held

LEMMA PlaceRemoveFirst ==
  ASSUME NEW place \in [Thread -> Seq(Frame)], NEW after, NEW p \in Thread,
         place[p] # <<>>,
         after[p] = Tail(place[p]),
         \A q \in Thread \ {p} : after[q] = place[q],
         Apart(place)
  PROVE  /\ Apart(after) /\ Held(after) = Held(place) \ {Head(place[p])}
         /\ Head(place[p]) \in Held(place)
<1>1. place[p] \in Seq(Frame)
  OBVIOUS
<1>2. /\ Head(place[p]) = place[p][1] /\ 1 \in DOMAIN place[p] /\ place[p][1] \in Frame
      /\ \A i \in DOMAIN after[p] :
           i + 1 \in DOMAIN place[p] \ {1} /\ after[p][i] = place[p][i + 1]
      /\ \A i \in DOMAIN place[p] \ {1} : i - 1 \in DOMAIN after[p]
  BY <1>1, Stolen
<1>3. DOMAIN after[p] \subseteq Nat /\ DOMAIN place[p] \subseteq Nat
  BY <1>1, Stolen, LenProperties
<1>. DEFINE back == [i \in DOMAIN after[p] |-> i + 1]
<1>4. \A i \in DOMAIN after[p] : back[i] = i + 1
  OBVIOUS
<1>. HIDE DEF back
<1>5. \A i, j \in DOMAIN after[p] : back[i] = back[j] => i = j
  BY <1>3, <1>4
<1>6. \A k \in DOMAIN place[p] \ {1} : \E i \in DOMAIN after[p] : back[i] = k
  <2>. TAKE k \in DOMAIN place[p] \ {1}
  <2>1. k - 1 \in DOMAIN after[p] /\ (k - 1) + 1 = k
    BY <1>2, <1>3
  <2>. QED
    BY <1>4, <2>1
<1>7. \A i \in DOMAIN after[p] :
        back[i] \in DOMAIN place[p] \ {1} /\ after[p][i] = place[p][back[i]]
  BY <1>2, <1>4
<1>8. RemovesCell(place, after, p, 1, back)
  BY <1>2, <1>5, <1>6, <1>7 DEF RemovesCell
<1>9. Apart(after) /\ Held(after) = Held(place) \ {place[p][1]}
  BY <1>8, CellRemoved
<1>. QED
  BY <1>2, <1>9 DEF Held

LEMMA ActiveHeld == ASSUME TypeOK PROVE Active = Held(stack)
<1>1. \A p \in Thread : \A i \in DOMAIN stack[p] : stack[p][i] \in Frame
  BY LenProperties, ElementOfSeq DEF TypeOK
<1>. QED
  BY <1>1 DEF Active, Held

LEMMA QueuedHeld == Queued = Held(queue)
BY DEF Queued, InQueue, Held, Range

-----------------------------------------------------------------------------
(***************************************************************************)
(* Where the closures are: what a step makes of At(k), AtSync and Active   *)
(***************************************************************************)
AtSyncKinds ==
  {f \in Frame : \E p \in Thread : \E i \in DOMAIN stack[p] :
     stack[p][i] = f /\ (i < Len(stack[p]) \/ Kind(p) \in {"wait", "push"})}

LEMMA AtSyncByKind == TypeOK => AtSync = AtSyncKinds
<1>. SUFFICES ASSUME TypeOK PROVE AtSync = AtSyncKinds
  OBVIOUS
<1>1. ASSUME NEW p \in Thread, NEW i \in DOMAIN stack[p]
      PROVE  Waiting(p) <=> Kind(p) \in {"wait", "push"}
  <2>1. stack[p] # <<>> /\ pc[p] \in Label
    BY EmptySeq DEF TypeOK
  <2>. QED
    BY <2>1 DEF Waiting, Kind, Label
<1>. QED
  BY <1>1 DEF AtSync, AtSyncKinds

\* what a closure that is not waiting may be doing
Doing == {"run", "push", "finish", "signal_sync", "after"}

LEMMA InnermostCell ==
  ASSUME TypeOK, NEW p \in Thread, stack[p] # <<>>
  PROVE  /\ Len(stack[p]) \in DOMAIN stack[p] /\ Current(p) = stack[p][Len(stack[p])]
         /\ Current(p) \in Frame /\ Current(p) \in Active
         /\ ~(Len(stack[p]) < Len(stack[p]))
         /\ \A i \in DOMAIN stack[p] : i < Len(stack[p]) \/ i = Len(stack[p])
<1>1. Len(stack[p]) \in DOMAIN stack[p] /\ stack[p][Len(stack[p])] \in Frame
  BY Popped DEF TypeOK
<1>2. Current(p) \in Held(stack)
  BY <1>1 DEF Held, Current
<1>3. stack[p] \in Seq(Frame)
  BY DEF TypeOK
<1>4. Len(stack[p]) \in Nat /\ DOMAIN stack[p] = 1 .. Len(stack[p])
  BY <1>3, LenProperties
<1>5. \A i \in DOMAIN stack[p] : i < Len(stack[p]) \/ i = Len(stack[p])
  BY <1>4
<1>. QED
  BY <1>1, <1>2, <1>4, <1>5, ActiveHeld DEF Current

LEMMA CurrentOnce ==
  ASSUME TypeOK, Apart(stack), NEW p \in Thread, stack[p] # <<>>,
         NEW q \in Thread, NEW i \in DOMAIN stack[q], stack[q][i] = Current(p)
  PROVE  q = p /\ i = Len(stack[p])
BY InnermostCell DEF Apart

\* the thread whose innermost closure is f is the only one, and its kind is f's
LEMMA CurrentKind ==
  ASSUME TypeOK, Apart(stack), NEW p \in Thread, stack[p] # <<>>
  PROVE  /\ \A k \in Doing \union {"wait"} : Current(p) \in At(k) <=> k = Kind(p)
         /\ Current(p) \in AtSync <=> Kind(p) \in {"wait", "push"}
         /\ \A q \in Thread : stack[q] # <<>> /\ Current(q) = Current(p) => q = p
<1>1. \A q \in Thread : stack[q] # <<>> /\ Current(q) = Current(p) => q = p
  BY InnermostCell, CurrentOnce
<1>2. \A q \in Thread : Kind(q) # "none" => stack[q] # <<>>
  BY DEF Kind
<1>3. Current(p) \in AtSync <=> Kind(p) \in {"wait", "push"}
  BY InnermostCell, CurrentOnce, AtSyncByKind DEF AtSyncKinds
<1>. QED
  BY <1>1, <1>2, <1>3, InnermostCell DEF At, Doing

LEMMA KindShifts ==
  ASSUME TypeOK, TypeOK', Apart(stack), NEW p \in Thread, stack[p] # <<>>,
         stack' = stack, \A q \in Thread \ {p} : pc'[q] = pc[q]
  PROVE  /\ \A k \in Doing \union {"wait"} :
              At(k)' = (At(k) \ {Current(p)})
                         \union (IF Kind(p)' = k THEN {Current(p)} ELSE {})
         /\ AtSync' = (AtSync \ {Current(p)})
                        \union (IF Kind(p)' \in {"wait", "push"} THEN {Current(p)} ELSE {})
         /\ Active' = Active
         /\ Apart(stack)'
         /\ Current(p)' = Current(p)
         /\ \A q \in Thread \ {p} : Kind(q)' = Kind(q) /\ Current(q)' = Current(q)
<1>1. \A q \in Thread \ {p} : Kind(q)' = Kind(q)
  BY DEF Kind
<1>2. \A q \in Thread : Current(q)' = Current(q)
  BY DEF Current
<1>3. \A q \in Thread : Kind(q) # "none" => stack[q] # <<>>
  BY DEF Kind
<1>4. ASSUME NEW k \in Doing \union {"wait"}
      PROVE  At(k)' = (At(k) \ {Current(p)}) \union (IF Kind(p)' = k THEN {Current(p)} ELSE {})
  <2>1. \A q \in Thread : Kind(q) = k /\ Current(q) = Current(p) => q = p
    BY <1>3, <1>4, CurrentKind DEF Doing
  <2>2. At(k)' = {f \in Frame : \E q \in Thread : Kind(q)' = k /\ Current(q) = f}
    BY <1>2 DEF At
  <2>. QED
    BY <1>1, <2>1, <2>2, InnermostCell DEF At
<1>5. AtSync' = (AtSync \ {Current(p)})
                  \union (IF Kind(p)' \in {"wait", "push"} THEN {Current(p)} ELSE {})
  <2>1. (AtSync = AtSyncKinds)'
    BY AtSyncByKind, PTL
  <2>2. AtSync' = {f \in Frame : \E q \in Thread : \E i \in DOMAIN stack[q] :
                    stack[q][i] = f /\ (i < Len(stack[q]) \/ Kind(q)' \in {"wait", "push"})}
    BY <2>1 DEF AtSyncKinds
  <2>3. \A q \in Thread : \A i \in DOMAIN stack[q] :
          stack[q][i] = Current(p) => q = p /\ i = Len(stack[p])
    BY CurrentOnce
  <2>. QED
    BY <1>1, <2>2, <2>3, InnermostCell, AtSyncByKind DEF AtSyncKinds
<1>6. Active' = Active /\ Apart(stack)'
  BY DEF Active, Apart
<1>. QED
  BY <1>1, <1>2, <1>4, <1>5, <1>6

LEMMA KindsStay ==
  ASSUME TypeOK, TypeOK', stack' = stack, \A q \in Thread : Kind(q)' = Kind(q)
  PROVE  /\ \A k : At(k)' = At(k)
         /\ AtSync' = AtSync /\ Active' = Active /\ (Apart(stack) => Apart(stack)')
         /\ \A q \in Thread : Current(q)' = Current(q)
<1>1. \A q \in Thread : Current(q)' = Current(q)
  BY DEF Current
<1>2. \A k : At(k)' = At(k)
  BY <1>1 DEF At
<1>3. (AtSync = AtSyncKinds)'
  BY AtSyncByKind, PTL
<1>4. AtSync' = AtSync
  BY <1>3, AtSyncByKind DEF AtSyncKinds
<1>. QED
  BY <1>1, <1>2, <1>4 DEF Active, Apart

LEMMA EnterView ==
  ASSUME TypeOK, TypeOK', Apart(stack), NEW p \in Thread, NEW g \in Frame, g \notin Active,
         stack'[p] = Append(stack[p], g), pc'[p] = "run", Kind(p) \in {"none", "wait"},
         \A q \in Thread \ {p} : pc'[q] = pc[q] /\ stack'[q] = stack[q]
  PROVE  /\ \A k \in Doing :
              At(k)' = At(k) \union (IF k = "run" THEN {g} ELSE {})
         /\ AtSync' = AtSync /\ Active' = Active \union {g} /\ Apart(stack)'
         /\ Kind(p)' = "run" /\ Current(p)' = g
         /\ \A q \in Thread \ {p} : Kind(q)' = Kind(q) /\ Current(q)' = Current(q)
<1>1. \A q \in Thread \ {p} : Kind(q)' = Kind(q) /\ Current(q)' = Current(q)
  BY DEF Kind, Current
<1>2. stack[p] \in Seq(Frame) /\ stack \in [Thread -> Seq(Frame)]
  BY DEF TypeOK
<1>3. PICK n : /\ DOMAIN stack'[p] = DOMAIN stack[p] \union {n} /\ n \notin DOMAIN stack[p]
               /\ \A i \in DOMAIN stack[p] : stack'[p][i] = stack[p][i]
               /\ stack'[p][n] = g /\ stack'[p] # <<>>
               /\ n = Len(stack[p]) + 1 /\ Len(stack'[p]) = n
  BY <1>2, Pushed
<1>4. Kind(p)' = "run" /\ Current(p)' = g
  BY <1>3 DEF Kind, Current
<1>5. Apart(stack)' /\ Held(stack') = Held(stack) \union {g}
  <2>1. g \notin Held(stack)
    BY ActiveHeld
  <2>. QED
    BY <1>2, <2>1, PlaceAppend
<1>6. Active' = Active \union {g}
  <2>1. (Active = Held(stack))'
    BY ActiveHeld, PTL
  <2>. QED
    BY <1>5, <2>1, ActiveHeld
<1>7. \A k \in Doing :
        At(k)' = At(k) \union (IF k = "run" THEN {g} ELSE {})
  BY <1>1, <1>4 DEF At, Doing
<1>8. AtSync' = AtSync
  <2>1. (AtSync = AtSyncKinds)'
    BY AtSyncByKind, PTL
  <2>2. \A i \in DOMAIN stack[p] : i < Len(stack'[p]) /\ Kind(p) = "wait"
    <3>1. Len(stack[p]) \in Nat /\ DOMAIN stack[p] = 1 .. Len(stack[p])
      BY <1>2, LenProperties
    <3>2. DOMAIN stack[p] # {} => Kind(p) # "none"
      <4>1. stack[p] = <<>> => DOMAIN stack[p] = {}
        OBVIOUS
      <4>2. pc[p] \in Label
        BY DEF TypeOK
      <4>. QED
        BY <4>1, <4>2 DEF Kind, Label
    <3>. QED
      BY <1>3, <3>1, <3>2
  <2>3. ~(n < Len(stack'[p])) /\ n \in DOMAIN stack'[p]
    BY <1>2, <1>3, LenProperties
  <2>4. ASSUME NEW f \in Frame, NEW q \in Thread
        PROVE  (\E i \in DOMAIN stack'[q] :
                  stack'[q][i] = f /\ (i < Len(stack'[q]) \/ Kind(q)' \in {"wait", "push"}))
               <=>
               (\E i \in DOMAIN stack[q] :
                  stack[q][i] = f /\ (i < Len(stack[q]) \/ Kind(q) \in {"wait", "push"}))
    <3>1. CASE q = p
      BY <1>3, <1>4, <2>2, <2>3, <3>1
    <3>2. CASE q # p
      BY <1>1, <3>2
    <3>. QED
      BY <3>1, <3>2
  <2>. QED
    BY <2>1, <2>4, AtSyncByKind DEF AtSyncKinds
<1>. QED
  BY <1>1, <1>4, <1>5, <1>6, <1>7, <1>8

LEMMA LeaveView ==
  ASSUME TypeOK, TypeOK', Apart(stack), NEW p \in Thread, stack[p] # <<>>,
         stack'[p] = SubSeq(stack[p], 1, Len(stack[p]) - 1),
         pc'[p] = "check", Kind(p) = "after",
         \A q \in Thread \ {p} : pc'[q] = pc[q] /\ stack'[q] = stack[q]
  PROVE  /\ \A k \in Doing : At(k)' = At(k) \ {Current(p)}
         /\ AtSync' = AtSync /\ Active' = Active \ {Current(p)} /\ Apart(stack)'
         /\ Kind(p)' \in {"none", "wait"}
         /\ \A q \in Thread \ {p} : Kind(q)' = Kind(q) /\ Current(q)' = Current(q)
<1>1. \A q \in Thread \ {p} : Kind(q)' = Kind(q) /\ Current(q)' = Current(q)
  BY DEF Kind, Current
<1>2. stack[p] \in Seq(Frame) /\ stack \in [Thread -> Seq(Frame)]
  BY DEF TypeOK
<1>3. PICK n : /\ DOMAIN stack'[p] = DOMAIN stack[p] \ {n} /\ n \in DOMAIN stack[p]
               /\ \A i \in DOMAIN stack[p] \ {n} : stack'[p][i] = stack[p][i]
               /\ n = Len(stack[p]) /\ Len(stack'[p]) = n - 1
  <2>. DEFINE n == Len(stack[p])
  <2>1. /\ DOMAIN stack'[p] = DOMAIN stack[p] \ {n} /\ n \in DOMAIN stack[p]
        /\ \A i \in DOMAIN stack[p] \ {n} : stack'[p][i] = stack[p][i]
        /\ Len(stack'[p]) = n - 1
    BY <1>2, Popped
  <2>. QED
    BY <2>1
<1>4. Kind(p)' = IF stack'[p] = <<>> THEN "none" ELSE "wait"
  BY DEF Kind
<1>5. Apart(stack)' /\ Held(stack') = Held(stack) \ {Current(p)}
  BY <1>2, PlaceRemoveLast DEF Current
<1>6. Active' = Active \ {Current(p)}
  <2>1. (Active = Held(stack))'
    BY ActiveHeld, PTL
  <2>. QED
    BY <1>5, <2>1, ActiveHeld
<1>7. \A k \in Doing : At(k)' = At(k) \ {Current(p)}
  <2>. SUFFICES ASSUME NEW k \in Doing
                PROVE  At(k)' = At(k) \ {Current(p)}
    OBVIOUS
  <2>1. \A q \in Thread \ {p} : Kind(q) = k => Current(q) # Current(p)
    BY CurrentKind DEF Kind, Doing
  <2>2. Kind(p)' # k
    BY <1>4 DEF Doing
  <2>3. Kind(p) = k => \A f \in Frame : Current(p) = f => f = Current(p)
    OBVIOUS
  <2>. QED
    BY <1>1, <2>1, <2>2 DEF At
<1>8. AtSync' = AtSync
  <2>1. (AtSync = AtSyncKinds)'
    BY AtSyncByKind, PTL
  <2>2. \A i \in DOMAIN stack[p] : i < n \/ i = n
    BY <1>3, InnermostCell
  <2>3. \A i \in DOMAIN stack'[p] : Kind(p)' = "wait"
    <3>1. stack'[p] = <<>> => DOMAIN stack'[p] = {}
      OBVIOUS
    <3>. QED
      BY <1>4, <3>1
  <2>4. ~(n < n)
    BY <1>3, InnermostCell
  <2>5. ASSUME NEW f \in Frame, NEW q \in Thread
        PROVE  (\E i \in DOMAIN stack'[q] :
                  stack'[q][i] = f /\ (i < Len(stack'[q]) \/ Kind(q)' \in {"wait", "push"}))
               <=>
               (\E i \in DOMAIN stack[q] :
                  stack[q][i] = f /\ (i < Len(stack[q]) \/ Kind(q) \in {"wait", "push"}))
    <3>1. CASE q = p
      BY <1>3, <2>2, <2>3, <2>4, <3>1
    <3>2. CASE q # p
      BY <1>1, <3>2
    <3>. QED
      BY <3>1, <3>2
  <2>. QED
    BY <2>1, <2>5, AtSyncByKind DEF AtSyncKinds
<1>. QED
  BY <1>1, <1>4, <1>5, <1>6, <1>7, <1>8

-----------------------------------------------------------------------------
(***************************************************************************)
(* Fork-join programs: one lemma for every kind of step                    *)
(***************************************************************************)
LEMMA ForkJoinTree ==
  ASSUME ForkJoinProgram
  PROVE  /\ \A f \in Frame : Inputs(f) = {}
         /\ \A f \in Frame \ {Root} :
              /\ Parent[f] \in Frame /\ Parent[f] # f
              /\ Spawned[Parent[f]] # <<>>
              /\ \E i \in DOMAIN Spawned[Parent[f]] : Spawned[Parent[f]][i] = f
         /\ \A f \in Frame : \A i \in DOMAIN Spawned[f] : Spawned[f][i] \in SyncFrames(f)
         /\ \A f \in Frame : \A i, j \in DOMAIN Spawned[f] :
              Spawned[f][i] = Spawned[f][j] => i = j
         /\ \A f \in Frame : SyncFrames(f) \in SUBSET (Frame \ {Root})
         /\ \A f \in Frame : Spawned[f] = <<>> => SyncFrames(f) = {}
<1>1. \A f \in Frame : Inputs(f) = {}
  BY SchedulerAssumption DEF ForkJoinProgram, Inputs
<1>2. ASSUME NEW f \in Frame \ {Root}
      PROVE  /\ Parent[f] \in Frame /\ Parent[f] # f
             /\ \E i \in DOMAIN Spawned[Parent[f]] : Spawned[Parent[f]][i] = f
  <2>1. Parent[f] \in Frame
    BY SchedulerAssumption
  <2>2. \E i \in DOMAIN Spawned[Parent[f]] : Spawned[Parent[f]][i] = f
    BY <1>1, TreeAssumption
  <2>3. {f} \in (SUBSET (Frame \ {Root})) \ {{}}
    OBVIOUS
  <2>4. \E g \in {f} : Parent[g] \notin {f}
    BY <2>3, TreeAssumption
  <2>. QED
    BY <2>1, <2>2, <2>4
<1>3. \A f \in Frame \ {Root} : Spawned[Parent[f]] # <<>>
  BY <1>2, SpawnedFrames
<1>4. \A f \in Frame : \A i \in DOMAIN Spawned[f] : Spawned[f][i] \in SyncFrames(f)
  BY SpawnedFrames, SchedulerAssumption DEF SyncFrames
<1>5. ASSUME NEW f \in Frame, NEW i \in DOMAIN Spawned[f], NEW j \in DOMAIN Spawned[f],
             Spawned[f][i] = Spawned[f][j]
      PROVE  i = j
  <2>1. Spawned[f] # <<>> /\ i \in {1, 2} /\ j \in {1, 2}
    BY SpawnedFrames
  <2>2. Spawned[f][1] # Spawned[f][2]
    BY <2>1, TreeAssumption
  <2>. QED
    BY <1>5, <2>1, <2>2
<1>6. \A f \in Frame : SyncFrames(f) \in SUBSET (Frame \ {Root})
  BY DEF SyncFrames
<1>7. \A f \in Frame : Spawned[f] = <<>> => SyncFrames(f) = {}
  BY <1>3 DEF SyncFrames
<1>. QED
  BY <1>1, <1>2, <1>3, <1>4, <1>5, <1>6, <1>7

\* what is true of the places of the frames, however the steps name them
ViewInv == PlaceInv /\ SpawnInv /\ SyncCounts /\ ResultInv

LEMMA QuietStep ==
  ASSUME TypeInv, TypeInv', ViewInv,
         UNCHANGED <<queue, stack, runs, signalled, syncRemaining, result>>,
         \A q \in Thread : Kind(q)' = Kind(q) /\ (Kind(q) = "push" => next'[q] = next[q])
  PROVE  ViewInv'
<1>1. TypeOK /\ TypeOK' /\ stack' = stack
  BY DEF TypeInv
<1>2. /\ \A k : At(k)' = At(k)
      /\ AtSync' = AtSync /\ Active' = Active
      /\ \A q \in Thread : Current(q)' = Current(q)
  BY <1>1, KindsStay
<1>3. Apart(stack)' /\ Apart(queue)'
  BY DEF ViewInv, PlaceInv, Apart
<1>4. Queued' = Queued /\ Pending' = Pending
  BY <1>2 DEF Queued, InQueue, Pending
<1>5. PlaceInv'
  BY <1>2, <1>3, <1>4 DEF ViewInv, PlaceInv
<1>6. SpawnInv'
  BY <1>2, <1>4 DEF ViewInv, SpawnInv, NotYet
<1>7. SyncCounts'
  BY <1>2 DEF ViewInv, SyncCounts, Unsignalled
<1>8. ResultInv'
  BY <1>2 DEF ViewInv, ResultInv
<1>. QED
  BY <1>5, <1>6, <1>7, <1>8 DEF ViewInv

\* the labels of the scheduler functions that a waiting closure is in
LEMMA QuietMoves ==
  ASSUME TypeInv, TypeInv', ViewInv, NEW p \in Thread,
         UNCHANGED <<queue, stack, runs, signalled, syncRemaining, result, next>>,
         pc' \in [Thread -> Label],
         \A q \in Thread \ {p} : pc'[q] = pc[q],
         \/ stack[p] = <<>>
         \/ Kind(p) = "wait" /\ pc'[p] \in {"check", "pop", "steal", "steal_cas"}
         \/ Kind(p) = "after" /\ pc'[p] \in {"frame_done", "crashed"}
  PROVE  ViewInv'
<1>1. \A q \in Thread : Kind(q)' = Kind(q)
  BY DEF Kind
<1>. QED
  BY <1>1, QuietStep

LEMMA MainView ==
  ASSUME TypeInv, TypeInv', ViewInv, MainInv, MainStep
  PROVE  ViewInv'
<1>1. CASE StartThread
  <2>1. main.at \in Thread /\ stack[main.at] = <<>>
    BY <1>1 DEF StartThread, TypeInv, TypeOK, MainInv, Thread
  <2>2. PICK label \in {"check", "failed"} : Goto(main.at, label)
    BY <1>1 DEF StartThread
  <2>3. pc' \in [Thread -> Label] /\ \A q \in Thread \ {main.at} : pc'[q] = pc[q]
    BY <2>1, <2>2, GotoMoves DEF TypeInv, Label
  <2>. QED
    BY <1>1, <2>1, <2>3, QuietMoves DEF StartThread, work, locals, data, history
<1>2. CASE JoinThread \/ JoinFailed
  <2>1. UNCHANGED <<queue, stack, pc, runs, signalled, syncRemaining, result, next>>
    BY <1>2 DEF JoinThread, JoinFailed, work, locals, data, history
  <2>2. \A q \in Thread : Kind(q)' = Kind(q)
    BY <2>1 DEF Kind
  <2>. QED
    BY <2>1, <2>2, QuietStep
<1>. QED
  BY <1>1, <1>2 DEF MainStep

\* the steps that leave every frame where it is
LEMMA LookForWorkView ==
  ASSUME ForkJoinProgram, TypeInv, TypeInv', ViewInv, MainInv, NEW p \in Thread,
         \/ ThreadLoop(p) \/ Inform(p) \/ PopEmpty(p)
         \/ StealRead(p) \/ StealEmpty(p) \/ StealAbort(p)
         \/ SyncLoop(p) /\ ~SyncDone(Current(p))
         \/ SignalDependencies(p) \/ ReadGone(p)
  PROVE  ViewInv'
<1>1. CASE Inform(p)
  <2>1. stack[p] = <<>> /\ next \in [Thread -> Nat]
    BY <1>1 DEF Inform, MainInv, TypeInv, TypeOK
  <2>2. \A q \in Thread \ {p} : pc'[q] = pc[q] /\ next'[q] = next[q]
    <3>1. next' = [next EXCEPT ![p] = next[p] + 1] \/ next' = [next EXCEPT ![p] = 0]
      BY <1>1 DEF Inform
    <3>2. pc' = pc \/ Goto(p, "exited")
      BY <1>1 DEF Inform
    <3>. QED
      BY <2>1, <3>1, <3>2, GotoMoves DEF TypeInv, Label
  <2>3. UNCHANGED <<queue, stack, runs, signalled, syncRemaining, result>>
    BY <1>1 DEF Inform, work, data, history
  <2>4. \A q \in Thread : Kind(q)' = Kind(q) /\ (Kind(q) = "push" => next'[q] = next[q])
    BY <2>1, <2>2, <2>3 DEF Kind
  <2>. QED
    BY <2>3, <2>4, QuietStep
<1>2. CASE ~Inform(p)
  <2>1. PICK label \in Label : Goto(p, label)
    BY <1>2 DEF ThreadLoop, PopEmpty, StealRead, StealEmpty, StealAbort, SyncLoop,
                SignalDependencies, ReadGone, Label
  <2>2. /\ pc' \in [Thread -> Label] /\ pc'[p] = label
        /\ \A q \in Thread \ {p} : pc'[q] = pc[q]
    BY <2>1, GotoMoves DEF TypeInv
  <2>3. UNCHANGED <<queue, stack, runs, signalled, syncRemaining, result, next>>
    BY <1>2 DEF ThreadLoop, PopEmpty, StealRead, StealEmpty, StealAbort, SyncLoop,
                SignalDependencies, ReadGone, work, locals, data, history
  <2>4. CASE ThreadLoop(p)
    BY <2>2, <2>3, <2>4, QuietMoves DEF ThreadLoop
  <2>5. CASE PopEmpty(p) \/ StealRead(p) \/ StealEmpty(p) \/ StealAbort(p)
             \/ (SyncLoop(p) /\ ~SyncDone(Current(p)))
    <3>1. pc[p] \in {"check", "pop", "steal", "steal_cas"}
      BY <2>5 DEF PopEmpty, StealRead, StealEmpty, StealAbort, SyncLoop
    <3>2. Goto(p, "steal") \/ Goto(p, "steal_cas") \/ Goto(p, "check") \/ Goto(p, "pop")
      BY <2>5 DEF PopEmpty, StealRead, StealEmpty, StealAbort, SyncLoop
    <3>3. pc'[p] \in {"check", "pop", "steal", "steal_cas"}
      BY <3>2, GotoMoves DEF TypeInv, Label
    <3>4. stack[p] = <<>> \/ Kind(p) = "wait"
      BY <3>1 DEF Kind
    <3>. QED
      BY <2>2, <2>3, <3>3, <3>4, QuietMoves
  <2>6. CASE SignalDependencies(p) \/ ReadGone(p)
    <3>1. pc[p] = "signal_deps" /\ stack[p] # <<>>
      BY <2>6 DEF SignalDependencies, ReadGone, TypeInv, TypeOK
    <3>2. Dependent[Current(p)] = None
      BY <3>1, CurrentIsFrame DEF ForkJoinProgram, TypeInv
    <3>3. Goto(p, "frame_done") \/ Goto(p, "crashed")
      BY <2>6, <3>2 DEF SignalDependencies, ReadGone
    <3>4. pc'[p] \in {"frame_done", "crashed"}
      BY <3>3, GotoMoves DEF TypeInv, Label
    <3>5. Kind(p) = "after"
      BY <3>1 DEF Kind
    <3>. QED
      BY <2>2, <2>3, <3>4, <3>5, QuietMoves
  <2>. QED
    BY <1>2, <2>4, <2>5, <2>6
<1>. QED
  BY <1>1, <1>2

\* a thread takes frame g out of a queue and begins to run it
LEMMA EnterStep ==
  ASSUME TypeInv, TypeInv', ViewInv, NEW p \in Thread, NEW g \in Frame,
         g \in Queued, Queued' = Queued \ {g}, Apart(queue)', Enter(p, g),
         Kind(p) \in {"none", "wait"},
         UNCHANGED <<next, syncRemaining, result, signalled>>
  PROVE  ViewInv'
<1>. USE DEF ViewInv
<1>1. /\ stack'[p] = Append(stack[p], g) /\ pc'[p] = "run"
      /\ \A q \in Thread \ {p} : pc'[q] = pc[q] /\ stack'[q] = stack[q]
      /\ runs'[g] = runs[g] + 1 /\ \A f \in Frame \ {g} : runs'[f] = runs[f]
  BY EnterMoves DEF TypeInv
<1>2. runs[g] = 0 /\ g \notin Active /\ g \notin signalled
  BY DEF PlaceInv
<1>3. /\ \A k \in Doing :
           At(k)' = At(k) \union (IF k = "run" THEN {g} ELSE {})
      /\ AtSync' = AtSync /\ Active' = Active \union {g} /\ Apart(stack)'
      /\ Kind(p)' = "run" /\ Current(p)' = g
      /\ \A q \in Thread \ {p} : Kind(q)' = Kind(q) /\ Current(q)' = Current(q)
  BY <1>1, <1>2, EnterView DEF TypeInv, PlaceInv
<1>4. /\ At("run")' = At("run") \union {g} /\ At("finish")' = At("finish")
      /\ At("signal_sync")' = At("signal_sync") /\ At("after")' = At("after")
  BY <1>3 DEF Doing
<1>5. Pending' = Pending
  BY <1>3 DEF Pending
<1>6. runs'[g] = 1
  BY <1>1, <1>2
<1>7. PlaceInv'
  <2>. USE DEF PlaceInv
  <2>1. (\A f \in Queued : runs[f] = 0)'
    <3>1. Queued \subseteq Frame
      BY DEF Queued
    <3>. QED
      BY <1>1, <3>1
  <2>2. (\A f \in Active : runs[f] = 1)'
    BY <1>1, <1>2, <1>3, <1>6, ActiveHeld DEF TypeInv, Held
  <2>3. (\A f \in Frame : runs[f] \in {0, 1})'
    BY <1>1, <1>6
  <2>4. (\A f \in Frame \ Active : runs[f] = 1 => f \in signalled)'
    BY <1>1, <1>3
  <2>5. (\A f \in signalled : runs[f] = 1)'
    BY <1>1, <1>2 DEF TypeInv, TypeOK
  <2>6. (signalled \intersect Active = At("after"))'
    BY <1>2, <1>3, <1>4
  <2>7. \A q \in Thread :
         (Kind(q) \in {"none", "wait", "run", "push", "finish", "signal_sync", "after"})'
    BY <1>3
  <2>. QED
    BY <1>3, <2>1, <2>2, <2>3, <2>4, <2>5, <2>6, <2>7
<1>8. NotYet' = NotYet
  BY <1>1, <1>2, <1>4, <1>6 DEF NotYet
<1>9. SpawnInv'
  <2>. USE DEF SpawnInv
  <2>1. (\A f \in Frame \ {Root} : Parent[f] \in NotYet => runs[f] = 0 /\ f \notin Queued)'
    BY <1>1, <1>8
  <2>2. (\A f \in Frame \ {Root} :
           f \in Queued \/ f \in Active \ signalled => Parent[f] \in AtSync)'
    BY <1>3
  <2>3. (\A f \in AtSync : Spawned[f] # <<>>)'
    BY <1>3
  <2>4. (\A f \in Pending : runs[f] = 0 /\ f \notin Queued)'
    BY <1>1, <1>5 DEF Pending
  <2>5. \A q \in Thread : (Kind(q) = "push" => next[q] \in DOMAIN Spawned[Current(q)])'
    BY <1>3
  <2>6. (\A f \in At("finish") \union At("signal_sync") \union signalled :
           SyncFrames(f) \subseteq signalled)'
    BY <1>4 DEF SyncFrames
  <2>. QED
    BY <2>1, <2>2, <2>3, <2>4, <2>5, <2>6
<1>10. SyncCounts' /\ ResultInv'
  BY <1>3, <1>4 DEF SyncCounts, ResultInv, Unsignalled
<1>. QED
  BY <1>7, <1>9, <1>10

\* the frame that a pop or a steal takes out of a queue and begins to run
LEMMA TakesFrame ==
  ASSUME TypeInv, ViewInv, NEW p \in Thread, PopFrame(p) \/ StealSuccess(p)
  PROVE  \E g \in Frame : /\ g \in Queued /\ Queued' = Queued \ {g} /\ Apart(queue)'
                         /\ Enter(p, g)
<1>. USE DEF TypeInv
<1>0. queue \in [Thread -> Seq(Frame)] /\ Apart(queue) /\ roundRobin[p] \in Thread
  BY DEF TypeOK, ViewInv, PlaceInv
<1>1. Queued' = Held(queue')
  BY DEF Queued, InQueue, Held, Range
<1>2. CASE PopFrame(p)
  <2>1. /\ queue[p] # <<>> /\ queue'[p] = SubSeq(queue[p], 1, Len(queue[p]) - 1)
        /\ \A q \in Thread \ {p} : queue'[q] = queue[q]
        /\ Enter(p, queue[p][Len(queue[p])])
    BY <1>0, <1>2 DEF PopFrame
  <2>2. /\ Apart(queue') /\ Held(queue') = Held(queue) \ {queue[p][Len(queue[p])]}
        /\ queue[p][Len(queue[p])] \in Held(queue)
    BY <1>0, <2>1, PlaceRemoveLast
  <2>. QED
    BY <1>1, <2>1, <2>2, QueuedHeld, TopIsFrame DEF Apart
<1>3. CASE StealSuccess(p)
  <2>1. /\ queue[roundRobin[p]] # <<>> /\ queue'[roundRobin[p]] = Tail(queue[roundRobin[p]])
        /\ \A q \in Thread \ {roundRobin[p]} : queue'[q] = queue[q]
        /\ Enter(p, Head(queue[roundRobin[p]]))
    BY <1>0, <1>3 DEF StealSuccess, TopUnchanged
  <2>2. /\ Apart(queue') /\ Held(queue') = Held(queue) \ {Head(queue[roundRobin[p]])}
        /\ Head(queue[roundRobin[p]]) \in Held(queue)
    BY <1>0, <2>1, PlaceRemoveFirst
  <2>. QED
    BY <1>0, <1>1, <2>1, <2>2, QueuedHeld, TopIsFrame DEF Apart
<1>. QED
  BY <1>2, <1>3

LEMMA EnterStepView ==
  ASSUME TypeInv, TypeInv', ViewInv, NEW p \in Thread, PopFrame(p) \/ StealSuccess(p)
  PROVE  ViewInv'
<1>1. PICK g \in Frame : /\ g \in Queued /\ Queued' = Queued \ {g} /\ Apart(queue)'
                         /\ Enter(p, g)
  BY TakesFrame
<1>2. Kind(p) \in {"none", "wait"}
  BY DEF PopFrame, StealSuccess, Kind
<1>3. UNCHANGED <<next, syncRemaining, result, signalled>>
  BY DEF PopFrame, StealSuccess, locals, data
<1>. QED
  BY <1>1, <1>2, <1>3, EnterStep

\* what becomes of a set S of the frames of some kinds when f goes from a to b
AfterMove(S, kinds, f, a, b) ==
  IF b \in kinds THEN S \union {f} ELSE IF a \in kinds THEN S \ {f} ELSE S

\* A step within the innermost closure of p: it alone may change its kind.

LEMMA InnerStep ==
  ASSUME TypeInv, TypeInv', ViewInv, NEW p \in Thread, stack[p] # <<>>,
         UNCHANGED <<stack, runs>>, \A q \in Thread \ {p} : pc'[q] = pc[q],
         NEW f, f = Current(p), NEW a, NEW b, Kind(p) = a, Kind(p)' = b
  PROVE  /\ At("run")' = AfterMove(At("run"), {"run"}, f, a, b)
         /\ At("finish")' = AfterMove(At("finish"), {"finish"}, f, a, b)
         /\ At("signal_sync")' = AfterMove(At("signal_sync"), {"signal_sync"}, f, a, b)
         /\ At("after")' = AfterMove(At("after"), {"after"}, f, a, b)
         /\ AtSync' = AfterMove(AtSync, {"wait", "push"}, f, a, b)
         /\ f \in At("run") <=> a = "run"
         /\ f \in At("finish") <=> a = "finish"
         /\ f \in At("signal_sync") <=> a = "signal_sync"
         /\ f \in At("after") <=> a = "after"
         /\ f \in AtSync <=> a \in {"wait", "push"}
         /\ f \in signalled <=> a = "after"
         /\ f \in Frame /\ f \in Active /\ runs[f] = 1
         /\ Active' = Active /\ Apart(stack)' /\ Current(p)' = f
         /\ \A q \in Thread \ {p} : Kind(q)' = Kind(q) /\ Current(q)' = Current(q)
<1>. USE DEF TypeInv, ViewInv
<1>1. Apart(stack) /\ stack' = stack
  BY DEF PlaceInv
<1>2. /\ \A k \in Doing \union {"wait"} :
           At(k)' = (At(k) \ {f}) \union (IF b = k THEN {f} ELSE {})
      /\ AtSync' = (AtSync \ {f}) \union (IF b \in {"wait", "push"} THEN {f} ELSE {})
      /\ Active' = Active /\ Apart(stack)' /\ Current(p)' = f
      /\ \A q \in Thread \ {p} : Kind(q)' = Kind(q) /\ Current(q)' = Current(q)
  BY <1>1, KindShifts
<1>3. /\ \A k \in Doing \union {"wait"} : f \in At(k) <=> k = a
      /\ f \in AtSync <=> a \in {"wait", "push"}
  BY <1>1, CurrentKind
<1>4. f \in Frame /\ f \in Active
  BY InnermostCell
<1>5. /\ f \in At("run") <=> a = "run"
      /\ f \in At("finish") <=> a = "finish"
      /\ f \in At("signal_sync") <=> a = "signal_sync"
      /\ f \in At("after") <=> a = "after"
  BY <1>3 DEF Doing
<1>6. /\ At("run")' = AfterMove(At("run"), {"run"}, f, a, b)
      /\ At("finish")' = AfterMove(At("finish"), {"finish"}, f, a, b)
      /\ At("signal_sync")' = AfterMove(At("signal_sync"), {"signal_sync"}, f, a, b)
      /\ At("after")' = AfterMove(At("after"), {"after"}, f, a, b)
  <2>1. \A k \in Doing : At(k)' = AfterMove(At(k), {k}, f, a, b)
    <3>. TAKE k \in Doing
    <3>1. At(k)' = (At(k) \ {f}) \union (IF b = k THEN {f} ELSE {})
      BY <1>2
    <3>2. f \in At(k) <=> k = a
      BY <1>3
    <3>. QED
      BY <3>1, <3>2 DEF AfterMove
  <2>. QED
    BY <2>1 DEF Doing
<1>7. (f \in signalled <=> a = "after") /\ runs[f] = 1
  BY <1>4, <1>5 DEF PlaceInv
<1>. QED
  BY <1>2, <1>3, <1>4, <1>5, <1>6, <1>7 DEF AfterMove

LEMMA RunLeafView ==
  ASSUME ForkJoinProgram, TypeInv, TypeInv', ViewInv, NEW p \in Thread, RunLeaf(p)
  PROVE  ViewInv'
<1>. DEFINE f == Current(p)
<1>1. /\ stack[p] # <<>> /\ pc[p] = "run" /\ Spawned[f] = <<>>
      /\ UNCHANGED <<queue, stack, runs, signalled, next>>
  BY DEF RunLeaf, TypeInv, TypeOK, work, locals, history
<1>2. pc'[p] = "finish" /\ \A q \in Thread \ {p} : pc'[q] = pc[q]
  BY GotoMoves DEF RunLeaf, TypeInv, Label
<1>3. Kind(p) = "run" /\ Kind(p)' = "finish"
  BY <1>1, <1>2 DEF Kind
<1>4. f \in Frame /\ f \notin AtSync /\ f \notin signalled /\ f \notin At("signal_sync")
  BY <1>1, <1>2, <1>3, InnerStep
<1>5. /\ At("run")' = At("run") \ {f} /\ At("finish")' = At("finish") \union {f}
      /\ At("signal_sync")' = At("signal_sync") /\ At("after")' = At("after")
      /\ AtSync' = AtSync /\ Active' = Active /\ Apart(stack)'
      /\ \A q \in Thread \ {p} : Kind(q)' = Kind(q) /\ Current(q)' = Current(q)
  <2>1. /\ At("run")' = AfterMove(At("run"), {"run"}, f, "run", "finish")
        /\ At("finish")' = AfterMove(At("finish"), {"finish"}, f, "run", "finish")
        /\ At("signal_sync")' = AfterMove(At("signal_sync"), {"signal_sync"}, f, "run", "finish")
        /\ At("after")' = AfterMove(At("after"), {"after"}, f, "run", "finish")
        /\ AtSync' = AfterMove(AtSync, {"wait", "push"}, f, "run", "finish")
        /\ Active' = Active /\ Apart(stack)'
        /\ \A q \in Thread \ {p} : Kind(q)' = Kind(q) /\ Current(q)' = Current(q)
    BY <1>1, <1>2, <1>3, InnerStep
  <2>. QED
    BY <2>1 DEF AfterMove
<1>6. Queued' = Queued /\ Apart(queue)' /\ Pending' = Pending
  BY <1>1, <1>3, <1>5 DEF Queued, InQueue, Pending, ViewInv, PlaceInv, Apart
<1>7. /\ \A h \in Frame \ {f} : syncRemaining'[h] = syncRemaining[h] /\ result'[h] = result[h]
      /\ result'[f] = Value[f]
  <2>1. syncRemaining \in [Frame -> 0 .. SizeRange - 1] /\ result \in [Frame -> Nat \union {Unwritten}]
    BY DEF TypeInv, TypeOK
  <2>2. Inputs(f) = {}
    BY <1>4, ForkJoinTree
  <2>3. /\ syncRemaining' = [syncRemaining EXCEPT ![f] = 0]
        /\ result' = [result EXCEPT ![f] = Value[f]]
    BY <2>2 DEF RunLeaf
  <2>. QED
    BY <1>4, <2>1, <2>3
<1>8. PlaceInv'
  BY <1>1, <1>3, <1>5, <1>6 DEF ViewInv, PlaceInv
<1>9. SpawnInv'
  <2>. USE DEF ViewInv, SpawnInv
  <2>1. NotYet' \subseteq NotYet
    BY <1>1, <1>5 DEF NotYet
  <2>2. \A q \in Thread : (Kind(q) = "push" => next[q] \in DOMAIN Spawned[Current(q)])'
    BY <1>1, <1>3, <1>5
  <2>3. SyncFrames(f) = {}
    BY <1>1, <1>4, ForkJoinTree
  <2>4. (\A h \in At("finish") \union At("signal_sync") \union signalled :
           SyncFrames(h) \subseteq signalled)'
    BY <1>1, <1>5, <2>3 DEF SyncFrames
  <2>5. (\A h \in Frame \ {Root} : Parent[h] \in NotYet => runs[h] = 0 /\ h \notin Queued)'
    BY <1>1, <1>6, <2>1
  <2>. QED
    BY <1>1, <1>5, <1>6, <2>2, <2>4, <2>5
<1>10. SyncCounts'
  <2>1. AtSync \subseteq Frame \ {f}
    BY <1>4 DEF AtSync
  <2>. QED
    BY <1>1, <1>5, <1>7, <2>1 DEF ViewInv, SyncCounts, Unsignalled
<1>11. ResultInv'
  <2>1. /\ signalled \union At("signal_sync") \subseteq Frame \ {f}
        /\ At("finish") \subseteq Frame
    BY <1>4 DEF At, TypeInv, TypeOK
  <2>. QED
    BY <1>1, <1>5, <1>7, <2>1 DEF ViewInv, ResultInv
<1>. QED
  BY <1>8, <1>9, <1>10, <1>11 DEF ViewInv

LEMMA RunSpawnView ==
  ASSUME ForkJoinProgram, TypeInv, TypeInv', ViewInv, NEW p \in Thread, RunSpawn(p)
  PROVE  ViewInv'
<1>. DEFINE f == Current(p)
<1>1. /\ stack[p] # <<>> /\ pc[p] = "run" /\ Spawned[f] # <<>>
      /\ UNCHANGED <<queue, stack, runs, signalled, result>>
  BY DEF RunSpawn, TypeInv, TypeOK, work, history
<1>2. pc'[p] = "push" /\ \A q \in Thread \ {p} : pc'[q] = pc[q]
  BY GotoMoves DEF RunSpawn, TypeInv, Label
<1>3. Kind(p) = "run" /\ Kind(p)' = "push"
  BY <1>1, <1>2 DEF Kind
<1>4. f \in Frame /\ f \in At("run") /\ runs[f] = 1 /\ f \notin AtSync /\ Current(p)' = f
  BY <1>1, <1>2, <1>3, InnerStep
<1>5. /\ At("run")' = At("run") \ {f} /\ At("finish")' = At("finish")
      /\ At("signal_sync")' = At("signal_sync") /\ At("after")' = At("after")
      /\ AtSync' = AtSync \union {f} /\ Active' = Active /\ Apart(stack)'
      /\ \A q \in Thread \ {p} : Kind(q)' = Kind(q) /\ Current(q)' = Current(q)
  <2>1. /\ At("run")' = AfterMove(At("run"), {"run"}, f, "run", "push")
        /\ At("finish")' = AfterMove(At("finish"), {"finish"}, f, "run", "push")
        /\ At("signal_sync")' = AfterMove(At("signal_sync"), {"signal_sync"}, f, "run", "push")
        /\ At("after")' = AfterMove(At("after"), {"after"}, f, "run", "push")
        /\ AtSync' = AfterMove(AtSync, {"wait", "push"}, f, "run", "push")
        /\ Active' = Active /\ Apart(stack)'
        /\ \A q \in Thread \ {p} : Kind(q)' = Kind(q) /\ Current(q)' = Current(q)
    BY <1>1, <1>2, <1>3, InnerStep
  <2>. QED
    BY <2>1 DEF AfterMove
<1>6. /\ next'[p] = 1 /\ \A q \in Thread \ {p} : next'[q] = next[q]
      /\ syncRemaining'[f] = Cardinality(SyncFrames(f))
      /\ \A h \in Frame \ {f} : syncRemaining'[h] = syncRemaining[h]
  BY <1>4 DEF RunSpawn, TypeInv, TypeOK, FramesToAwait
\* f's frames have not been run yet, nor are they in a queue
<1>7. \A h \in SyncFrames(f) : runs[h] = 0 /\ h \notin Queued /\ h \notin signalled
  <2>1. f \in NotYet
    BY <1>4 DEF NotYet
  <2>. QED
    BY <2>1, ForkJoinTree DEF ViewInv, SpawnInv, PlaceInv, SyncFrames
<1>8. Queued' = Queued /\ Apart(queue)'
  BY <1>1 DEF Queued, InQueue, ViewInv, PlaceInv, Apart
<1>9. \A h \in Pending' : h \in Pending \/ h \in SyncFrames(f)
  <2>. TAKE h \in Pending'
  <2>1. PICK q \in Thread : /\ Kind(q)' = "push"
                            /\ \E i \in next'[q] .. Len(Spawned[Current(q)']) :
                                 Spawned[Current(q)'][i] = h
    BY DEF Pending
  <2>2. CASE q = p
    <3>1. Len(Spawned[f]) = 2 /\ DOMAIN Spawned[f] = {1, 2}
      BY <1>1, <1>4, SpawnedFrames
    <3>2. PICK i \in 1 .. 2 : Spawned[f][i] = h
      BY <1>4, <1>6, <2>1, <2>2, <3>1
    <3>3. i \in DOMAIN Spawned[f]
      BY <3>1
    <3>. QED
      BY <1>4, <3>2, <3>3, ForkJoinTree
  <2>3. CASE q # p
    <3>1. h \in Frame
      BY DEF Pending
    <3>. QED
      BY <1>5, <1>6, <2>1, <2>3, <3>1 DEF Pending
  <2>. QED
    BY <2>2, <2>3
<1>10. PlaceInv'
  BY <1>1, <1>3, <1>5, <1>8 DEF ViewInv, PlaceInv
<1>11. SpawnInv'
  <2>. USE DEF ViewInv, SpawnInv
  <2>1. NotYet' \subseteq NotYet
    BY <1>1, <1>5 DEF NotYet
  <2>2. (\A h \in Frame \ {Root} : Parent[h] \in NotYet => runs[h] = 0 /\ h \notin Queued)'
    BY <1>1, <1>8, <2>1
  <2>3. (\A h \in Frame \ {Root} :
           h \in Queued \/ h \in Active \ signalled => Parent[h] \in AtSync)'
    BY <1>1, <1>5, <1>8
  <2>4. (\A h \in AtSync : Spawned[h] # <<>>)'
    BY <1>1, <1>5
  <2>5. (\A h \in Pending : runs[h] = 0 /\ h \notin Queued)'
    BY <1>1, <1>7, <1>8, <1>9
  <2>6. \A q \in Thread : (Kind(q) = "push" => next[q] \in DOMAIN Spawned[Current(q)])'
    BY <1>1, <1>4, <1>5, <1>6, SpawnedFrames
  <2>7. (\A h \in At("finish") \union At("signal_sync") \union signalled :
           SyncFrames(h) \subseteq signalled)'
    BY <1>1, <1>5 DEF SyncFrames
  <2>. QED
    BY <2>2, <2>3, <2>4, <2>5, <2>6, <2>7
<1>12. SyncCounts'
  <2>1. AtSync \subseteq Frame \ {f}
    BY <1>4 DEF AtSync
  <2>2. Unsignalled(f) = SyncFrames(f)
    BY <1>7 DEF Unsignalled
  <2>3. \A h : Unsignalled(h)' = Unsignalled(h)
    BY <1>1 DEF Unsignalled
  <2>. QED
    BY <1>5, <1>6, <2>1, <2>2, <2>3 DEF ViewInv, SyncCounts
<1>13. ResultInv'
  BY <1>1, <1>5 DEF ViewInv, ResultInv
<1>. QED
  BY <1>10, <1>11, <1>12, <1>13 DEF ViewInv

LEMMA SyncDoneView ==
  ASSUME ForkJoinProgram, TypeInv, TypeInv', ViewInv, NEW p \in Thread,
         SyncLoop(p), SyncDone(Current(p))
  PROVE  ViewInv'
<1>. DEFINE f == Current(p)
<1>1. /\ stack[p] # <<>> /\ pc[p] = "check" /\ syncRemaining[f] = 0
      /\ UNCHANGED <<queue, stack, runs, signalled, result, syncRemaining, next>>
  BY DEF SyncLoop, SyncDone, work, locals, data, history
<1>2. pc'[p] = "finish" /\ \A q \in Thread \ {p} : pc'[q] = pc[q]
  <2>1. Goto(p, "finish")
    BY DEF SyncLoop
  <2>. QED
    BY <2>1, GotoMoves DEF TypeInv, Label
<1>3. Kind(p) = "wait" /\ Kind(p)' = "finish"
  BY <1>1, <1>2 DEF Kind
<1>4. f \in Frame /\ f \in AtSync
  BY <1>1, <1>2, <1>3, InnerStep
<1>5. /\ At("run")' = At("run") /\ At("finish")' = At("finish") \union {f}
      /\ At("signal_sync")' = At("signal_sync") /\ At("after")' = At("after")
      /\ AtSync' = AtSync \ {f} /\ Active' = Active /\ Apart(stack)'
      /\ \A q \in Thread \ {p} : Kind(q)' = Kind(q) /\ Current(q)' = Current(q)
  <2>1. /\ At("run")' = AfterMove(At("run"), {"run"}, f, "wait", "finish")
        /\ At("finish")' = AfterMove(At("finish"), {"finish"}, f, "wait", "finish")
        /\ At("signal_sync")' = AfterMove(At("signal_sync"), {"signal_sync"}, f, "wait", "finish")
        /\ At("after")' = AfterMove(At("after"), {"after"}, f, "wait", "finish")
        /\ AtSync' = AfterMove(AtSync, {"wait", "push"}, f, "wait", "finish")
        /\ Active' = Active /\ Apart(stack)'
        /\ \A q \in Thread \ {p} : Kind(q)' = Kind(q) /\ Current(q)' = Current(q)
    BY <1>1, <1>2, <1>3, InnerStep
  <2>. QED
    BY <2>1 DEF AfterMove
\* the counter is zero, so all that f waits for has signalled
<1>6. SyncFrames(f) \subseteq signalled
  <2>1. Unsignalled(f) \in SUBSET Frame
    BY <1>4, ForkJoinTree DEF Unsignalled
  <2>2. IsFiniteSet(Unsignalled(f)) /\ Cardinality(Unsignalled(f)) = 0
    BY <1>1, <1>4, <2>1, CountsFit DEF ViewInv, SyncCounts
  <2>3. Unsignalled(f) = {}
    BY <2>2, FS_EmptySet
  <2>. QED
    BY <2>3 DEF Unsignalled
<1>7. Queued' = Queued /\ Apart(queue)' /\ Pending' = Pending
  BY <1>1, <1>3, <1>5 DEF Queued, InQueue, Pending, ViewInv, PlaceInv, Apart
<1>8. PlaceInv'
  BY <1>1, <1>3, <1>5, <1>7 DEF ViewInv, PlaceInv
<1>9. SpawnInv'
  <2>. USE DEF ViewInv, SpawnInv
  <2>1. NotYet' = NotYet
    BY <1>1, <1>5 DEF NotYet
  <2>2. (\A h \in Frame \ {Root} : Parent[h] \in NotYet => runs[h] = 0 /\ h \notin Queued)'
    BY <1>1, <1>7, <2>1
  <2>3. (\A h \in Frame \ {Root} :
           h \in Queued \/ h \in Active \ signalled => Parent[h] \in AtSync)'
    <3>1. \A h \in Queued : h \notin signalled
      BY DEF PlaceInv
    <3>2. \A h \in Frame \ {Root} : Parent[h] = f => h \in signalled
      BY <1>6 DEF SyncFrames
    <3>. QED
      BY <1>1, <1>5, <1>7, <3>1, <3>2
  <2>4. (\A h \in AtSync : Spawned[h] # <<>>)'
    BY <1>5
  <2>5. (\A h \in Pending : runs[h] = 0 /\ h \notin Queued)'
    BY <1>1, <1>7
  <2>6. \A q \in Thread : (Kind(q) = "push" => next[q] \in DOMAIN Spawned[Current(q)])'
    BY <1>1, <1>3, <1>5
  <2>7. (\A h \in At("finish") \union At("signal_sync") \union signalled :
           SyncFrames(h) \subseteq signalled)'
    BY <1>1, <1>5, <1>6 DEF SyncFrames
  <2>. QED
    BY <2>2, <2>3, <2>4, <2>5, <2>6, <2>7
<1>10. SyncCounts'
  BY <1>1, <1>5 DEF ViewInv, SyncCounts, Unsignalled
<1>11. ResultInv'
  <2>1. Spawned[f] # <<>>
    BY <1>4 DEF ViewInv, SpawnInv
  <2>. QED
    BY <1>1, <1>5, <2>1 DEF ViewInv, ResultInv
<1>. QED
  BY <1>8, <1>9, <1>10, <1>11 DEF ViewInv

LEMMA FinishView ==
  ASSUME ForkJoinProgram, TypeInv, TypeInv', ViewInv, NEW p \in Thread, Finish(p)
  PROVE  ViewInv'
<1>. DEFINE f == Current(p)
<1>1. /\ stack[p] # <<>> /\ pc[p] = "finish"
      /\ UNCHANGED <<queue, stack, runs, signalled, syncRemaining, next>>
  BY DEF Finish, TypeInv, TypeOK, work, locals, history
<1>2. pc'[p] = "signal_sync" /\ \A q \in Thread \ {p} : pc'[q] = pc[q]
  BY GotoMoves DEF Finish, TypeInv, Label
<1>3. Kind(p) = "finish" /\ Kind(p)' = "signal_sync"
  BY <1>1, <1>2 DEF Kind
<1>4. f \in Frame /\ f \in At("finish") /\ f \notin signalled /\ f \notin At("signal_sync")
  BY <1>1, <1>2, <1>3, InnerStep
<1>5. /\ At("run")' = At("run") /\ At("finish")' = At("finish") \ {f}
      /\ At("signal_sync")' = At("signal_sync") \union {f} /\ At("after")' = At("after")
      /\ AtSync' = AtSync /\ Active' = Active /\ Apart(stack)'
      /\ \A q \in Thread \ {p} : Kind(q)' = Kind(q) /\ Current(q)' = Current(q)
  <2>1. /\ At("run")' = AfterMove(At("run"), {"run"}, f, "finish", "signal_sync")
        /\ At("finish")' = AfterMove(At("finish"), {"finish"}, f, "finish", "signal_sync")
        /\ At("signal_sync")' =
             AfterMove(At("signal_sync"), {"signal_sync"}, f, "finish", "signal_sync")
        /\ At("after")' = AfterMove(At("after"), {"after"}, f, "finish", "signal_sync")
        /\ AtSync' = AfterMove(AtSync, {"wait", "push"}, f, "finish", "signal_sync")
        /\ Active' = Active /\ Apart(stack)'
        /\ \A q \in Thread \ {p} : Kind(q)' = Kind(q) /\ Current(q)' = Current(q)
    BY <1>1, <1>2, <1>3, InnerStep
  <2>. QED
    BY <2>1 DEF AfterMove
<1>6. Queued' = Queued /\ Apart(queue)' /\ Pending' = Pending
  BY <1>1, <1>3, <1>5 DEF Queued, InQueue, Pending, ViewInv, PlaceInv, Apart
\* the frames f has spawned have signalled, so their results are there
<1>7. result'[f] = Value[f] /\ \A h \in Frame \ {f} : result'[h] = result[h]
  <2>1. result \in [Frame -> Nat \union {Unwritten}]
    BY DEF TypeInv, TypeOK
  <2>2. CASE Spawned[f] = <<>>
    BY <1>4, <2>2 DEF Finish, ViewInv, ResultInv
  <2>3. CASE Spawned[f] # <<>>
    <3>1. 1 \in DOMAIN Spawned[f] /\ 2 \in DOMAIN Spawned[f]
      BY <1>4, <2>3, SpawnedFrames
    <3>2. Spawned[f][1] \in SyncFrames(f) /\ Spawned[f][2] \in SyncFrames(f)
      BY <1>4, <3>1, ForkJoinTree
    <3>3. SyncFrames(f) \subseteq signalled
      BY <1>4 DEF ViewInv, SpawnInv
    <3>4. /\ result[Spawned[f][1]] = Value[Spawned[f][1]]
          /\ result[Spawned[f][2]] = Value[Spawned[f][2]]
      BY <3>2, <3>3 DEF ViewInv, ResultInv
    <3>5. /\ Value[Spawned[f][1]] \in Nat /\ Value[Spawned[f][2]] \in Nat
          /\ Value[f] = Value[Spawned[f][1]] + Value[Spawned[f][2]]
      BY <1>4, <2>3, <3>1, SpawnedFrames, SchedulerAssumption, TreeAssumption
    <3>6. Total(f) = Value[f]
      BY <3>4, <3>5 DEF Total, Unwritten
    <3>7. result' = [result EXCEPT ![f] = Value[f]]
      BY <2>3, <3>6 DEF Finish, ForkJoinProgram
    <3>. QED
      BY <1>4, <2>1, <3>7
  <2>. QED
    BY <2>2, <2>3
<1>8. PlaceInv'
  BY <1>1, <1>3, <1>5, <1>6 DEF ViewInv, PlaceInv
<1>9. SpawnInv'
  <2>. USE DEF ViewInv, SpawnInv
  <2>1. NotYet' = NotYet
    BY <1>1, <1>5 DEF NotYet
  <2>2. (\A h \in At("finish") \union At("signal_sync") \union signalled :
           SyncFrames(h) \subseteq signalled)'
    BY <1>1, <1>4, <1>5 DEF SyncFrames
  <2>3. \A q \in Thread : (Kind(q) = "push" => next[q] \in DOMAIN Spawned[Current(q)])'
    BY <1>1, <1>3, <1>5
  <2>4. (\A h \in Frame \ {Root} : Parent[h] \in NotYet => runs[h] = 0 /\ h \notin Queued)'
    BY <1>1, <1>6, <2>1
  <2>. QED
    BY <1>1, <1>5, <1>6, <2>2, <2>3, <2>4
<1>10. SyncCounts'
  BY <1>1, <1>5 DEF ViewInv, SyncCounts, Unsignalled
<1>11. ResultInv'
  <2>1. /\ signalled \union At("signal_sync") \subseteq Frame \ {f}
        /\ At("finish") \subseteq Frame
    BY <1>4 DEF At, TypeInv, TypeOK
  <2>. QED
    BY <1>1, <1>5, <1>7, <2>1 DEF ViewInv, ResultInv
<1>. QED
  BY <1>8, <1>9, <1>10, <1>11 DEF ViewInv

LEMMA Remainder ==
  ASSUME NEW m \in Nat \ {0}, NEW n \in 0 .. m - 1
  PROVE  n % m = n
OBVIOUS

\* A counter that counts a frame which signals is not zero yet.
LEMMA CountDown ==
  ASSUME NEW F \in SUBSET Frame, NEW f \in F
  PROVE  /\ Cardinality(F \ {f}) = Cardinality(F) - 1
         /\ (Cardinality(F) - 1) % SizeRange = Cardinality(F \ {f})
<1>1. IsFiniteSet(F) /\ Cardinality(F) \in 0 .. SizeRange - 1
  BY CountsFit
<1>2. Cardinality(F \ {f}) = Cardinality(F) - 1
  BY <1>1, FS_RemoveElement
<1>3. Cardinality(F \ {f}) \in 0 .. SizeRange - 1
  BY CountsFit
<1>4. Cardinality(F \ {f}) % SizeRange = Cardinality(F \ {f})
  BY <1>3, Remainder, SchedulerAssumption
<1>. QED
  BY <1>2, <1>3, <1>4

LEMMA SignalSyncView ==
  ASSUME ForkJoinProgram, TypeInv, TypeInv', ViewInv, NEW p \in Thread, SignalSync(p)
  PROVE  ViewInv'
<1>. DEFINE f == Current(p)
<1>1. /\ stack[p] # <<>> /\ pc[p] = "signal_sync" /\ signalled' = signalled \union {f}
      /\ UNCHANGED <<queue, stack, runs, result, next>>
  BY DEF SignalSync, TypeInv, TypeOK, work, locals
<1>2. pc'[p] = "signal_deps" /\ \A q \in Thread \ {p} : pc'[q] = pc[q]
  BY GotoMoves DEF SignalSync, TypeInv, Label
<1>3. Kind(p) = "signal_sync" /\ Kind(p)' = "after"
  BY <1>1, <1>2 DEF Kind
<1>4. /\ f \in Frame /\ f \in At("signal_sync") /\ f \notin signalled /\ f \in Active
      /\ f \notin AtSync /\ runs[f] = 1
  BY <1>1, <1>2, <1>3, InnerStep
<1>5. /\ At("run")' = At("run") /\ At("finish")' = At("finish")
      /\ At("signal_sync")' = At("signal_sync") \ {f} /\ At("after")' = At("after") \union {f}
      /\ AtSync' = AtSync /\ Active' = Active /\ Apart(stack)'
      /\ \A q \in Thread \ {p} : Kind(q)' = Kind(q) /\ Current(q)' = Current(q)
  <2>1. /\ At("run")' = AfterMove(At("run"), {"run"}, f, "signal_sync", "after")
        /\ At("finish")' = AfterMove(At("finish"), {"finish"}, f, "signal_sync", "after")
        /\ At("signal_sync")' =
             AfterMove(At("signal_sync"), {"signal_sync"}, f, "signal_sync", "after")
        /\ At("after")' = AfterMove(At("after"), {"after"}, f, "signal_sync", "after")
        /\ AtSync' = AfterMove(AtSync, {"wait", "push"}, f, "signal_sync", "after")
        /\ Active' = Active /\ Apart(stack)'
        /\ \A q \in Thread \ {p} : Kind(q)' = Kind(q) /\ Current(q)' = Current(q)
    BY <1>1, <1>2, <1>3, InnerStep
  <2>. QED
    BY <2>1 DEF AfterMove
<1>6. Queued' = Queued /\ Apart(queue)' /\ Pending' = Pending
  BY <1>1, <1>3, <1>5 DEF Queued, InQueue, Pending, ViewInv, PlaceInv, Apart
<1>7. f \notin Queued
  BY <1>4 DEF ViewInv, PlaceInv
<1>8. PlaceInv'
  <2>. USE DEF ViewInv, PlaceInv
  <2>1. (signalled \intersect Active = At("after"))'
    BY <1>1, <1>4, <1>5
  <2>2. (\A h \in Frame \ Active : runs[h] = 1 => h \in signalled)'
    BY <1>1, <1>5
  <2>3. (\A h \in signalled : runs[h] = 1)'
    BY <1>1, <1>4
  <2>. QED
    BY <1>1, <1>3, <1>5, <1>6, <2>1, <2>2, <2>3
<1>9. SpawnInv'
  <2>. USE DEF ViewInv, SpawnInv
  <2>1. NotYet' = NotYet
    BY <1>1, <1>5 DEF NotYet
  <2>2. (\A h \in At("finish") \union At("signal_sync") \union signalled :
           SyncFrames(h) \subseteq signalled)'
    BY <1>1, <1>4, <1>5 DEF SyncFrames
  <2>3. \A q \in Thread : (Kind(q) = "push" => next[q] \in DOMAIN Spawned[Current(q)])'
    BY <1>1, <1>3, <1>5
  <2>4. (\A h \in Frame \ {Root} : Parent[h] \in NotYet => runs[h] = 0 /\ h \notin Queued)'
    BY <1>1, <1>6, <2>1
  <2>5. (\A h \in Frame \ {Root} :
           h \in Queued \/ h \in Active \ signalled => Parent[h] \in AtSync)'
    BY <1>1, <1>5, <1>6
  <2>. QED
    BY <1>1, <1>5, <1>6, <2>2, <2>3, <2>4, <2>5
<1>10. SyncCounts'
  <2>. SUFFICES ASSUME NEW h \in AtSync PROVE (syncRemaining[h] = Cardinality(Unsignalled(h)))'
    BY <1>5 DEF SyncCounts
  <2>1. h \in Frame /\ h # f /\ syncRemaining[h] = Cardinality(Unsignalled(h))
    BY <1>4 DEF AtSync, ViewInv, SyncCounts
  <2>2. Unsignalled(h)' = Unsignalled(h) \ {f}
    BY <1>1 DEF Unsignalled, SyncFrames
  <2>3. syncRemaining \in [Frame -> 0 .. SizeRange - 1] /\ Parent[f] \in Frame
    BY <1>4, SchedulerAssumption DEF TypeInv, TypeOK
  <2>4. syncRemaining' = [syncRemaining EXCEPT ![Parent[f]] = (syncRemaining[Parent[f]] - 1) % SizeRange]
    BY DEF SignalSync, Decrement
  <2>5. CASE f # Root /\ h = Parent[f]
    <3>1. f \in Unsignalled(h) /\ Unsignalled(h) \in SUBSET Frame
      BY <1>4, <2>1, <2>5, ForkJoinTree DEF Unsignalled, SyncFrames
    <3>2. syncRemaining'[h] = (Cardinality(Unsignalled(h)) - 1) % SizeRange
      BY <2>1, <2>3, <2>4, <2>5
    <3>. QED
      BY <2>2, <3>1, <3>2, CountDown
  <2>6. CASE ~(f # Root /\ h = Parent[f])
    <3>1. f \notin Unsignalled(h)
      BY <2>6 DEF Unsignalled, SyncFrames
    <3>2. h # Parent[f]
      <4>1. CASE f = Root
        BY <2>1, <4>1, SchedulerAssumption
      <4>2. CASE f # Root
        BY <2>6, <4>2
      <4>. QED
        BY <4>1, <4>2
    <3>3. Unsignalled(h)' = Unsignalled(h) /\ syncRemaining'[h] = syncRemaining[h]
      BY <2>1, <2>2, <2>3, <2>4, <3>1, <3>2
    <3>. QED
      BY <2>1, <3>3
  <2>. QED
    BY <2>5, <2>6
<1>11. ResultInv'
  BY <1>1, <1>4, <1>5 DEF ViewInv, ResultInv
<1>. QED
  BY <1>8, <1>9, <1>10, <1>11 DEF ViewInv

LEMMA FrameDoneView ==
  ASSUME TypeInv, TypeInv', ViewInv, NEW p \in Thread, FrameDone(p)
  PROVE  ViewInv'
<1>. DEFINE f == Current(p)
<1>1. /\ stack[p] # <<>> /\ pc[p] = "frame_done" /\ Kind(p) = "after"
      /\ UNCHANGED <<queue, runs, signalled, syncRemaining, result, next>>
  BY DEF FrameDone, TypeInv, TypeOK, Kind, locals, data, history
<1>2. pc'[p] = "check" /\ \A q \in Thread \ {p} : pc'[q] = pc[q]
  BY GotoMoves DEF FrameDone, TypeInv, Label
<1>3. /\ stack'[p] = SubSeq(stack[p], 1, Len(stack[p]) - 1)
      /\ \A q \in Thread \ {p} : stack'[q] = stack[q]
  BY DEF FrameDone, Leave, TypeInv, TypeOK
<1>4. Apart(stack) /\ TypeOK /\ TypeOK'
  BY DEF ViewInv, PlaceInv, TypeInv
<1>5. f \in At("after") /\ f \in Frame
  BY <1>1, <1>4, CurrentKind, InnermostCell DEF Doing
<1>6. /\ \A k \in Doing : At(k)' = At(k) \ {f}
      /\ AtSync' = AtSync /\ Active' = Active \ {f} /\ Apart(stack)'
      /\ Kind(p)' \in {"none", "wait"}
      /\ \A q \in Thread \ {p} : Kind(q)' = Kind(q) /\ Current(q)' = Current(q)
  BY <1>1, <1>2, <1>3, <1>4, LeaveView
<1>7. f \notin At("run") /\ f \notin At("finish") /\ f \notin At("signal_sync")
  BY <1>1, <1>4, CurrentKind DEF Doing
<1>8. /\ At("run")' = At("run") /\ At("finish")' = At("finish")
      /\ At("signal_sync")' = At("signal_sync") /\ At("after")' = At("after") \ {f}
  <2>1. /\ At("run")' = At("run") \ {f} /\ At("finish")' = At("finish") \ {f}
        /\ At("signal_sync")' = At("signal_sync") \ {f} /\ At("after")' = At("after") \ {f}
    BY <1>6 DEF Doing
  <2>. QED
    BY <1>7, <2>1
<1>9. Queued' = Queued /\ Apart(queue)' /\ Pending' = Pending
  BY <1>1, <1>6 DEF Queued, InQueue, Pending, ViewInv, PlaceInv, Apart
<1>10. f \in signalled
  BY <1>5 DEF ViewInv, PlaceInv
<1>11. PlaceInv'
  <2>. USE DEF ViewInv, PlaceInv
  <2>1. (signalled \intersect Active = At("after"))'
    BY <1>1, <1>6, <1>8
  <2>2. (\A h \in Frame \ Active : runs[h] = 1 => h \in signalled)'
    BY <1>1, <1>6, <1>10
  <2>3. (\A h \in Active : runs[h] = 1)'
    BY <1>1, <1>6
  <2>4. \A q \in Thread :
         (Kind(q) \in {"none", "wait", "run", "push", "finish", "signal_sync", "after"})'
    BY <1>6
  <2>. QED
    BY <1>1, <1>6, <1>9, <2>1, <2>2, <2>3, <2>4
<1>12. SpawnInv'
  <2>. USE DEF ViewInv, SpawnInv
  <2>1. NotYet' = NotYet
    BY <1>1, <1>8 DEF NotYet
  <2>2. (\A h \in Frame \ {Root} : Parent[h] \in NotYet => runs[h] = 0 /\ h \notin Queued)'
    BY <1>1, <1>9, <2>1
  <2>3. (\A h \in Frame \ {Root} :
           h \in Queued \/ h \in Active \ signalled => Parent[h] \in AtSync)'
    BY <1>1, <1>6, <1>9
  <2>4. \A q \in Thread : (Kind(q) = "push" => next[q] \in DOMAIN Spawned[Current(q)])'
    BY <1>1, <1>6
  <2>5. (\A h \in At("finish") \union At("signal_sync") \union signalled :
           SyncFrames(h) \subseteq signalled)'
    BY <1>1, <1>8 DEF SyncFrames
  <2>. QED
    BY <1>1, <1>6, <1>9, <2>2, <2>3, <2>4, <2>5
<1>13. SyncCounts' /\ ResultInv'
  BY <1>1, <1>6, <1>8 DEF ViewInv, SyncCounts, Unsignalled, ResultInv
<1>. QED
  BY <1>11, <1>12, <1>13 DEF ViewInv

\* what a push makes of the frames that are still to be pushed
LEMMA PushSpawnedMoves ==
  ASSUME ForkJoinProgram, TypeInv, TypeInv', ViewInv, NEW p \in Thread, PushSpawned(p)
  PROVE  \E g \in Frame :
           /\ g \in Pending /\ Parent[g] = Current(p) /\ g # Root
           /\ Pending' \subseteq Pending \ {g}
           /\ PushIgnoringStatus(p, g)
           /\ Kind(p) = "push" /\ Kind(p)' \in {"push", "wait"}
           /\ \A q \in Thread \ {p} : pc'[q] = pc[q]
<1>. DEFINE f == Current(p)
            spawned == Spawned[f]
<1>1. /\ stack[p] # <<>> /\ pc[p] = "push" /\ Kind(p) = "push"
      /\ UNCHANGED <<stack, runs>>
  BY DEF PushSpawned, TypeInv, TypeOK, Kind, history
<1>2. f \in Frame /\ f \in AtSync
  BY <1>1, CurrentKind, InnermostCell DEF TypeInv, ViewInv, PlaceInv
<1>3. Len(spawned) = 2 /\ DOMAIN spawned = {1, 2}
  BY <1>2, SpawnedFrames DEF ViewInv, SpawnInv
<1>4. next[p] \in {1, 2} /\ next \in [Thread -> Nat]
  BY <1>1, <1>3 DEF TypeInv, Pushing, TypeOK
<1>5. \/ next[p] = 1 /\ next' = [next EXCEPT ![p] = 2] /\ pc' = pc
      \/ next[p] = 2 /\ next' = [next EXCEPT ![p] = 0] /\ Goto(p, "check")
  BY <1>3, <1>4 DEF PushSpawned
<1>6. \A q \in Thread \ {p} : pc'[q] = pc[q] /\ next'[q] = next[q]
  BY <1>4, <1>5, GotoMoves DEF TypeInv, Label
<1>7. Kind(p)' \in {"push", "wait"}
  BY <1>1, <1>5, GotoMoves DEF Kind, TypeInv, Label
<1>8. /\ spawned[next[p]] \in Frame \ {Root} /\ Parent[spawned[next[p]]] = f
      /\ spawned[next[p]] \in SyncFrames(f)
  <2>1. next[p] \in DOMAIN spawned
    BY <1>3, <1>4
  <2>. QED
    BY <1>2, <2>1, SpawnedFrames, ForkJoinTree DEF SyncFrames
<1>9. spawned[next[p]] \in Pending
  BY <1>1, <1>3, <1>4, <1>8 DEF Pending
<1>10. Pending' \subseteq Pending \ {spawned[next[p]]}
  <2>. SUFFICES ASSUME NEW h \in Pending' PROVE h \in Pending /\ h # spawned[next[p]]
    OBVIOUS
  <2>0. h \in Frame
    BY DEF Pending
  <2>1. PICK q \in Thread : /\ Kind(q)' = "push"
                            /\ \E i \in next'[q] .. Len(Spawned[Current(q)']) :
                                 Spawned[Current(q)'][i] = h
    BY DEF Pending
  <2>2. \A t \in Thread : Current(t)' = Current(t)
    BY <1>1 DEF Current
  <2>3. CASE q = p
    <3>1. pc'[p] = "push"
      BY <1>1, <2>1, <2>3 DEF Kind
    <3>2. next[p] = 1 /\ next'[p] = 2
      BY <1>4, <1>5, <3>1, GotoMoves DEF TypeInv, Label
    <3>3. spawned[2] = h
      <4>1. \E i \in 2 .. 2 : spawned[i] = h
        BY <1>3, <2>1, <2>2, <2>3, <3>2
      <4>. QED
        BY <4>1
    <3>4. spawned[1] # spawned[2]
      BY <1>2, <1>3, ForkJoinTree
    <3>5. 2 \in next[p] .. Len(spawned)
      BY <1>3, <3>2
    <3>. QED
      BY <1>1, <2>0, <3>2, <3>3, <3>4, <3>5 DEF Pending
  <2>4. CASE q # p
    <3>1. Kind(q) = "push" /\ stack[q] # <<>>
      BY <1>1, <1>6, <2>1, <2>4 DEF Kind
    <3>2. PICK i \in next[q] .. Len(Spawned[Current(q)]) : Spawned[Current(q)][i] = h
      BY <1>6, <2>1, <2>2, <2>4
    <3>3. h \in Pending
      BY <2>0, <3>1, <3>2 DEF Pending
    \* q pushes frames of its own
    <3>4. Current(q) \in Frame /\ Current(q) # f
      BY <1>1, <2>4, <3>1, CurrentKind, InnermostCell DEF TypeInv, ViewInv, PlaceInv
    <3>5. next[q] \in {1, 2} /\ DOMAIN Spawned[Current(q)] = {1, 2} /\ Len(Spawned[Current(q)]) = 2
      BY <3>1, <3>4, SpawnedFrames DEF ViewInv, SpawnInv
    <3>6. i \in DOMAIN Spawned[Current(q)]
      BY <3>2, <3>5
    <3>7. Parent[h] = Current(q)
      BY <3>2, <3>4, <3>6, ForkJoinTree DEF SyncFrames
    <3>. QED
      BY <1>8, <3>3, <3>4, <3>7
  <2>. QED
    BY <2>3, <2>4
<1>11. PushIgnoringStatus(p, spawned[next[p]])
  BY DEF PushSpawned
<1>. QED
  BY <1>1, <1>6, <1>7, <1>8, <1>9, <1>10, <1>11

LEMMA PushSpawnedView ==
  ASSUME ForkJoinProgram, TypeInv, TypeInv', ViewInv, NEW p \in Thread, PushSpawned(p)
  PROVE  ViewInv'
<1>. DEFINE f == Current(p)
<1>1. PICK g \in Frame :
        /\ g \in Pending /\ Parent[g] = Current(p) /\ g # Root
        /\ Pending' \subseteq Pending \ {g}
        /\ PushIgnoringStatus(p, g)
        /\ Kind(p) = "push" /\ Kind(p)' \in {"push", "wait"}
        /\ \A q \in Thread \ {p} : pc'[q] = pc[q]
  BY PushSpawnedMoves
<1>2. /\ stack[p] # <<>>
      /\ UNCHANGED <<stack, runs, signalled, syncRemaining, result>>
  BY DEF PushSpawned, TypeInv, TypeOK, data, history
<1>3. \A q \in Thread \ {p} : next'[q] = next[q]
  <2>1. next' = [next EXCEPT ![p] = next[p] + 1] \/ next' = [next EXCEPT ![p] = 0]
    BY DEF PushSpawned
  <2>. QED
    BY <2>1 DEF TypeInv, TypeOK
<1>4. f \in Frame /\ f \in AtSync /\ f \notin At("run") /\ runs[f] = 1 /\ Current(p)' = f
  BY <1>1, <1>2, InnerStep
<1>5. /\ At("run")' = At("run") /\ At("finish")' = At("finish")
      /\ At("signal_sync")' = At("signal_sync") /\ At("after")' = At("after")
      /\ AtSync' = AtSync /\ Active' = Active /\ Apart(stack)'
      /\ \A q \in Thread \ {p} : Kind(q)' = Kind(q) /\ Current(q)' = Current(q)
  <2>. DEFINE b == Kind(p)'
  <2>1. /\ At("run")' = AfterMove(At("run"), {"run"}, f, "push", b)
        /\ At("finish")' = AfterMove(At("finish"), {"finish"}, f, "push", b)
        /\ At("signal_sync")' = AfterMove(At("signal_sync"), {"signal_sync"}, f, "push", b)
        /\ At("after")' = AfterMove(At("after"), {"after"}, f, "push", b)
        /\ AtSync' = AfterMove(AtSync, {"wait", "push"}, f, "push", b)
        /\ Active' = Active /\ Apart(stack)'
        /\ \A q \in Thread \ {p} : Kind(q)' = Kind(q) /\ Current(q)' = Current(q)
    BY <1>1, <1>2, InnerStep
  <2>2. AtSync' = AtSync \union {f}
    BY <1>1, <2>1 DEF AfterMove
  <2>. QED
    BY <1>1, <1>4, <2>1, <2>2 DEF AfterMove
\* g is not in a queue; the push puts it there, unless the queue is full
<1>6. runs[g] = 0 /\ g \notin Queued
  BY <1>1 DEF ViewInv, SpawnInv
<1>7. Apart(queue)' /\ (Queued' = Queued \/ Queued' = Queued \union {g})
  <2>1. queue \in [Thread -> Seq(Frame)] /\ Apart(queue)
    BY DEF TypeInv, TypeOK, ViewInv, PlaceInv
  <2>2. Queued' = Held(queue')
    BY DEF Queued, InQueue, Held, Range
  <2>3. CASE queue' = queue
    BY <2>1, <2>2, <2>3, QueuedHeld DEF Apart
  <2>4. CASE queue'[p] = Append(queue[p], g)
    <3>1. \A q \in Thread \ {p} : queue'[q] = queue[q]
      BY <1>1, PushMoves DEF TypeInv
    <3>2. Apart(queue') /\ Held(queue') = Held(queue) \union {g}
      BY <1>6, <2>1, <2>4, <3>1, PlaceAppend, QueuedHeld
    <3>. QED
      BY <2>2, <3>2, QueuedHeld DEF Apart
  <2>. QED
    BY <1>1, <2>3, <2>4, PushMoves DEF TypeInv
<1>8. PlaceInv'
  <2>. USE DEF ViewInv, PlaceInv
  <2>1. (\A h \in Queued : runs[h] = 0)'
    BY <1>2, <1>6, <1>7
  <2>2. \A q \in Thread :
         (Kind(q) \in {"none", "wait", "run", "push", "finish", "signal_sync", "after"})'
    BY <1>1, <1>5
  <2>. QED
    BY <1>2, <1>5, <1>7, <2>1, <2>2
<1>9. SpawnInv'
  <2>. USE DEF ViewInv, SpawnInv
  <2>1. NotYet' = NotYet /\ f \notin NotYet
    BY <1>2, <1>4, <1>5 DEF NotYet
  <2>2. (\A h \in Frame \ {Root} : Parent[h] \in NotYet => runs[h] = 0 /\ h \notin Queued)'
    BY <1>1, <1>2, <1>7, <2>1
  <2>3. (\A h \in Frame \ {Root} :
           h \in Queued \/ h \in Active \ signalled => Parent[h] \in AtSync)'
    BY <1>1, <1>2, <1>4, <1>5, <1>7
  <2>4. (\A h \in Pending : runs[h] = 0 /\ h \notin Queued)'
    BY <1>1, <1>2, <1>7
  <2>5. \A q \in Thread : (Kind(q) = "push" => next[q] \in DOMAIN Spawned[Current(q)])'
    <3>1. (Kind(p) = "push" => next[p] \in DOMAIN Spawned[Current(p)])'
      <4>1. Kind(p)' = "push" => pc'[p] = "push"
        BY <1>2 DEF Kind
      <4>. QED
        BY <4>1 DEF TypeInv, Pushing
    <3>. QED
      BY <1>3, <1>5, <3>1
  <2>6. (\A h \in At("finish") \union At("signal_sync") \union signalled :
           SyncFrames(h) \subseteq signalled)'
    BY <1>2, <1>5 DEF SyncFrames
  <2>. QED
    BY <1>5, <2>2, <2>3, <2>4, <2>5, <2>6
<1>10. SyncCounts' /\ ResultInv'
  BY <1>2, <1>5 DEF ViewInv, SyncCounts, Unsignalled, ResultInv
<1>. QED
  BY <1>8, <1>9, <1>10 DEF ViewInv

\* a fork-join program has no frame that awaits data
LEMMA NoDependents ==
  ASSUME ForkJoinProgram, TypeInv, NEW p \in Thread
  PROVE  ~TestDependencies(p) /\ ~PushDependent(p)
<1>1. ~(pc[p] \in {"test_deps", "push_dep"})
  <2>. SUFFICES ASSUME pc[p] \in {"test_deps", "push_dep"} PROVE FALSE
    OBVIOUS
  <2>1. Current(p) \in Frame /\ Dependent[Current(p)] # None
    BY CurrentIsFrame DEF TypeInv, TypeOK, Pushing
  <2>. QED
    BY <2>1 DEF ForkJoinProgram
<1>. QED
  BY <1>1 DEF TestDependencies, PushDependent

LEMMA ViewStep ==
  ASSUME ForkJoinProgram, TypeInv, TypeInv', ViewInv, MainInv, [Next]_vars
  PROVE  ViewInv'
<1>1. CASE MainStep
  BY <1>1, MainView
<1>2. ASSUME NEW p \in Thread, ThreadStep(p) PROVE ViewInv'
  <2>1. CASE PopFrame(p) \/ StealSuccess(p)
    BY <2>1, EnterStepView
  <2>2. CASE RunLeaf(p)
    BY <2>2, RunLeafView
  <2>3. CASE RunSpawn(p)
    BY <2>3, RunSpawnView
  <2>4. CASE PushSpawned(p)
    BY <2>4, PushSpawnedView
  <2>5. CASE SyncLoop(p) /\ SyncDone(Current(p))
    BY <2>5, SyncDoneView
  <2>6. CASE Finish(p)
    BY <2>6, FinishView
  <2>7. CASE SignalSync(p)
    BY <2>7, SignalSyncView
  <2>8. CASE FrameDone(p)
    BY <2>8, FrameDoneView
  <2>9. CASE \/ ThreadLoop(p) \/ Inform(p) \/ PopEmpty(p)
             \/ StealRead(p) \/ StealEmpty(p) \/ StealAbort(p)
             \/ SyncLoop(p) /\ ~SyncDone(Current(p))
             \/ SignalDependencies(p) \/ ReadGone(p)
    BY <2>9, LookForWorkView
  <2>. QED
    BY <1>2, <2>1, <2>2, <2>3, <2>4, <2>5, <2>6, <2>7, <2>8, <2>9, NoDependents
       DEF ThreadStep, GetFrame, Closure, FrameEnd
<1>3. CASE UNCHANGED vars
  BY <1>3, QuietStep DEF vars, work, locals, data, region, history, Kind
<1>. QED
  BY <1>1, <1>2, <1>3 DEF Next, Terminated

-----------------------------------------------------------------------------
(***************************************************************************)
(* The threads and main: who has begun, who is told to stop, who has left  *)
(***************************************************************************)
Left(label) == label \in {"created", "failed", "inform", "exited"}

\* what any step of p does to the labels, and what it leaves alone
LEMMA ThreadMoves ==
  ASSUME TypeInv, NEW p \in Thread, ThreadStep(p)
  PROVE  /\ pc[p] \notin {"created", "failed", "exited"}
         /\ \A q \in Thread \ {p} : pc'[q] = pc[q] /\ stack'[q] = stack[q]
         /\ Left(pc'[p]) => stack[p] = stack'[p] /\ (ThreadLoop(p) \/ Inform(p))
         /\ main' = main /\ pc' \in [Thread -> Label]
<1>1. stack \in [Thread -> Seq(Frame)] /\ pc \in [Thread -> Label] /\ TypeOK
  BY DEF TypeInv, TypeOK
<1>2. CASE ThreadLoop(p) \/ Inform(p)
  <2>1. (pc' = pc /\ pc[p] = "inform") \/ \E label \in {"inform", "exited", "pop"} : Goto(p, label)
    BY <1>2 DEF ThreadLoop, Inform
  <2>2. pc[p] \in {"check", "inform"} /\ stack' = stack /\ main' = main
    BY <1>2 DEF ThreadLoop, Inform, work, region
  <2>. QED
    BY <1>1, <1>2, <2>1, <2>2, GotoMoves DEF Label
<1>3. CASE PopFrame(p) \/ StealSuccess(p)
  <2>1. PICK f \in Frame : Enter(p, f)
    <3>1. CASE PopFrame(p)
      BY <3>1, TopIsFrame DEF PopFrame, TypeInv
    <3>2. CASE StealSuccess(p)
      <4>1. roundRobin[p] \in Thread
        BY DEF TypeInv, TypeOK
      <4>. QED
        BY <3>2, <4>1, TopIsFrame DEF StealSuccess, TopUnchanged, TypeInv
    <3>. QED
      BY <1>3, <3>1, <3>2
  <2>2. /\ pc'[p] = "run" /\ pc' \in [Thread -> Label]
        /\ \A q \in Thread \ {p} : pc'[q] = pc[q] /\ stack'[q] = stack[q]
    BY <1>1, <2>1, EnterMoves
  <2>3. pc[p] \in {"pop", "steal_cas"} /\ main' = main
    BY <1>3 DEF PopFrame, StealSuccess, region
  <2>. QED
    BY <2>2, <2>3 DEF Left
<1>4. CASE \/ SyncLoop(p) \/ PopEmpty(p) \/ StealRead(p) \/ StealEmpty(p) \/ StealAbort(p)
           \/ RunLeaf(p) \/ RunSpawn(p) \/ Finish(p)
           \/ SignalSync(p) \/ SignalDependencies(p) \/ ReadGone(p)
           \/ TestDependencies(p) \/ PushDependent(p)
  <2>1. PICK label \in Label : Goto(p, label) /\ ~Left(label)
    BY <1>4 DEF SyncLoop, PopEmpty, StealRead, StealEmpty, StealAbort, RunLeaf, RunSpawn,
                Finish, SignalSync, SignalDependencies, ReadGone,
                TestDependencies, PushDependent, Left, Label
  <2>2. pc[p] \in {"check", "pop", "steal", "steal_cas", "run", "finish", "signal_sync",
                   "signal_deps", "test_deps", "push_dep"}
        /\ stack' = stack /\ main' = main
    BY <1>4 DEF SyncLoop, PopEmpty, StealRead, StealEmpty, StealAbort, RunLeaf, RunSpawn,
                Finish, SignalSync, SignalDependencies, ReadGone,
                TestDependencies, PushDependent, work, region
  <2>. QED
    BY <1>1, <2>1, <2>2, GotoMoves
<1>5. CASE PushSpawned(p)
  <2>1. (pc' = pc \/ Goto(p, "check")) /\ pc[p] = "push" /\ stack' = stack /\ main' = main
    BY <1>5 DEF PushSpawned, region
  <2>. QED
    BY <1>1, <2>1, GotoMoves DEF Left, Label
<1>6. CASE FrameDone(p)
  <2>1. Goto(p, "check") /\ pc[p] = "frame_done" /\ Leave(p) /\ main' = main
    BY <1>6 DEF FrameDone
  <2>. QED
    BY <1>1, <2>1, GotoMoves DEF Leave, Left, Label
<1>. QED
  BY <1>2, <1>3, <1>4, <1>5, <1>6 DEF ThreadStep, GetFrame, Closure, FrameEnd

LEMMA MainInvStep ==
  ASSUME TypeInv, TypeInv', MainInv, [Next]_vars
  PROVE  MainInv'
<1>1. CASE StartThread
  <2>1. main.at \in Thread /\ main.phase = "start" /\ pc[main.at] = "created"
    BY <1>1 DEF StartThread, TypeInv, TypeOK, MainInv, Thread
  <2>2. PICK label \in {"check", "failed"} : Goto(main.at, label)
    BY <1>1 DEF StartThread
  <2>3. pc'[main.at] \in {"check", "failed"} /\ \A q \in Thread \ {main.at} : pc'[q] = pc[q]
    BY <2>1, <2>2, GotoMoves DEF TypeInv, Label
  <2>4. stack' = stack /\ stack[main.at] = <<>>
    BY <1>1, <2>1 DEF StartThread, work, MainInv
  <2>5. \/ main'.phase = "start" /\ main'.at = main.at + 1
        \/ main'.phase = "join" /\ main'.at = 0
    <3>1. main \in [phase : {"start", "join", "destroyed", "crashed"}, at : Thread]
      BY DEF TypeInv, TypeOK
    <3>2. main' = [main EXCEPT !.at = main.at + 1] \/ main' = [phase |-> "join", at |-> 0]
      BY <1>1 DEF StartThread, MainAdvance
    <3>. QED
      BY <2>1, <3>1, <3>2
  <2>6. \A q \in Thread : q \in Nat /\ main.at \in Nat /\ (main.at + 1 <= q => q # main.at /\ main.at <= q)
    BY <2>1 DEF Thread
  <2>7. \A q \in Thread : ~(q < 0)
    BY DEF Thread
  <2>. QED
    BY <2>1, <2>3, <2>4, <2>5, <2>6, <2>7 DEF MainInv
<1>2. CASE JoinThread \/ JoinFailed
  <2>1. main.at \in Thread /\ main.phase = "join" /\ pc[main.at] \in {"exited", "failed"}
    BY <1>2 DEF JoinThread, JoinFailed, TypeInv, TypeOK
  <2>2. stack' = stack /\ pc' = pc
    BY <1>2 DEF JoinThread, JoinFailed, work
  <2>3. \/ main'.phase = "join" /\ main'.at = main.at + 1
        \/ main'.phase = "destroyed" /\ main.at + 1 >= ThreadNum
        \/ main'.phase = "crashed"
    <3>1. main \in [phase : {"start", "join", "destroyed", "crashed"}, at : Thread]
      BY DEF TypeInv, TypeOK
    <3>2. \/ main.at + 1 < ThreadNum /\ main' = [main EXCEPT !.at = main.at + 1]
          \/ ~(main.at + 1 < ThreadNum) /\ main' = [phase |-> "destroyed", at |-> 0]
          \/ main' = [main EXCEPT !.phase = "crashed"]
      BY <1>2 DEF JoinThread, JoinFailed, MainAdvance
    <3>. QED
      BY <2>1, <3>1, <3>2, ThreadAssumption DEF Thread
  <2>4. \A q \in Thread : /\ main.at + 1 >= ThreadNum => q < main.at \/ q = main.at
                          /\ q < main.at + 1 => q < main.at \/ q = main.at
    BY <2>1, ThreadAssumption DEF Thread
  <2>. QED
    BY <2>1, <2>2, <2>3, <2>4 DEF MainInv
<1>3. ASSUME NEW p \in Thread, ThreadStep(p) PROVE MainInv'
  <2>1. /\ pc[p] \notin {"created", "failed", "exited"}
        /\ \A q \in Thread \ {p} : pc'[q] = pc[q] /\ stack'[q] = stack[q]
        /\ Left(pc'[p]) => stack[p] = stack'[p] /\ (ThreadLoop(p) \/ Inform(p))
        /\ main' = main
    BY <1>3, ThreadMoves
  <2>2. ThreadLoop(p) \/ Inform(p) => stack[p] = <<>>
    BY DEF ThreadLoop, Inform, MainInv
  <2>. QED
    BY <2>1, <2>2 DEF MainInv, Left
<1>4. CASE UNCHANGED vars
  BY <1>4 DEF vars, work, region, MainInv
<1>. QED
  BY <1>1, <1>2, <1>3, <1>4 DEF Next, Terminated, MainStep

\* a frame that is about to signal does that next
LEMMA SignalsNext ==
  ASSUME TypeInv, NEW p \in Thread, ThreadStep(p), NEW f \in At("signal_sync") \union signalled
  PROVE  f \in At("signal_sync")' \union signalled'
<1>1. signalled \subseteq signalled'
  BY DEF ThreadStep, ThreadLoop, SyncLoop, Inform, GetFrame, PopFrame, PopEmpty, StealRead,
         StealEmpty, StealSuccess, StealAbort, Closure, RunLeaf, RunSpawn, PushSpawned, Finish,
         FrameEnd, SignalSync, SignalDependencies, ReadGone, TestDependencies, PushDependent,
         FrameDone, history
<1>2. ASSUME f \in At("signal_sync") PROVE f \in At("signal_sync")' \union signalled'
  <2>1. PICK q \in Thread : Kind(q) = "signal_sync" /\ Current(q) = f
    BY <1>2 DEF At
  <2>2. stack[q] # <<>> /\ pc[q] = "signal_sync" /\ f \in Frame
    BY <1>2, <2>1 DEF Kind, At
  <2>3. CASE q = p
    <3>1. SignalSync(p)
      BY <2>2, <2>3 DEF ThreadStep, ThreadLoop, SyncLoop, Inform, GetFrame, PopFrame, PopEmpty,
         StealRead, StealEmpty, StealSuccess, StealAbort, Closure, RunLeaf, RunSpawn, PushSpawned,
         Finish, FrameEnd, SignalDependencies, ReadGone, TestDependencies, PushDependent,
         FrameDone
    <3>. QED
      BY <2>1, <2>3, <3>1 DEF SignalSync
  <2>4. CASE q # p
    <3>1. Kind(q)' = "signal_sync" /\ Current(q)' = f
      BY <2>1, <2>4, ThreadMoves DEF Kind, Current
    <3>. QED
      BY <2>2, <3>1 DEF At
  <2>. QED
    BY <2>3, <2>4
<1>. QED
  BY <1>1, <1>2

LEMMA StopInvStep ==
  ASSUME ForkJoinProgram, TypeInv, TypeInv', StopInv, MainInv, [Next]_vars
  PROVE  StopInv'
<1>1. CASE MainStep
  <2>1. UNCHANGED <<stack, stop, signalled>>
    BY <1>1 DEF MainStep, StartThread, JoinThread, JoinFailed, work, history
  <2>2. \A q \in Thread :
          \/ pc'[q] = pc[q]
          \/ main.phase = "start" /\ q = main.at /\ pc'[q] \in {"check", "failed"}
    <3>1. CASE StartThread
      <4>1. main.at \in Thread
        BY DEF TypeInv, TypeOK
      <4>2. PICK label \in {"check", "failed"} : Goto(main.at, label)
        BY <3>1 DEF StartThread
      <4>3. pc'[main.at] \in {"check", "failed"} /\ \A q \in Thread \ {main.at} : pc'[q] = pc[q]
        BY <4>1, <4>2, GotoMoves DEF TypeInv, Label
      <4>. QED
        BY <3>1, <4>3 DEF StartThread
    <3>2. CASE JoinThread \/ JoinFailed
      BY <3>2 DEF JoinThread, JoinFailed
    <3>. QED
      BY <1>1, <3>1, <3>2 DEF MainStep
  <2>3. main.phase = "start" /\ main.at \in Thread => stack[main.at] = <<>>
    BY DEF MainInv, Thread
  <2>4. \A q \in Thread : Kind(q)' = Kind(q) /\ Current(q)' = Current(q)
    BY <2>1, <2>2, <2>3 DEF Kind, Current
  <2>5. At("signal_sync")' = At("signal_sync")
    BY <2>4 DEF At
  <2>. QED
    BY <2>1, <2>2, <2>5 DEF StopInv
<1>2. ASSUME NEW p \in Thread, ThreadStep(p) PROVE StopInv'
  <2>1. \A f \in At("signal_sync") \union signalled : f \in At("signal_sync")' \union signalled'
    BY <1>2, SignalsNext
  <2>2. /\ \A q \in Thread \ {p} : pc'[q] = pc[q] /\ stack'[q] = stack[q]
        /\ Left(pc'[p]) => ThreadLoop(p) \/ Inform(p)
        /\ pc' \in [Thread -> Label]
    BY <1>2, ThreadMoves
  <2>3. stop \in [Thread -> BOOLEAN] /\ stop' \in [Thread -> BOOLEAN]
    BY DEF TypeInv, TypeOK
  <2>4. CASE Inform(p)
    <3>1. stop[p]
      BY <2>4 DEF Inform, StopInv
    <3>2. \A q \in Thread : stop[q] => stop'[q]
      BY <2>3, <2>4 DEF Inform
    <3>3. pc[p] = "inform"
      BY <2>4 DEF Inform
    <3>. QED
      BY <2>1, <2>2, <3>1, <3>2 DEF StopInv
  <2>5. CASE Finish(p)
    <3>1. \A q \in Thread : stop'[q] = (stop[q] \/ (q = p /\ EndsRegion(Current(p))))
      BY <2>3, <2>5 DEF Finish, EndsRegion
    <3>2. pc'[p] = "signal_sync" /\ stack' = stack /\ stack[p] # <<>>
      <4>1. Goto(p, "signal_sync") /\ stack' = stack /\ stack[p] # <<>>
        BY <2>5 DEF Finish, work, TypeInv, TypeOK
      <4>. QED
        BY <4>1, GotoMoves DEF TypeInv, Label
    <3>3. Current(p) \in At("signal_sync")'
      <4>1. Kind(p)' = "signal_sync" /\ Current(p)' = Current(p) /\ Current(p) \in Frame
        BY <3>2, CurrentIsFrame DEF Kind, Current, TypeInv
      <4>. QED
        BY <4>1 DEF At
    <3>4. EndsRegion(Current(p)) => Current(p) = Root
      BY DEF EndsRegion
    <3>. QED
      BY <2>1, <2>2, <3>1, <3>2, <3>3, <3>4 DEF StopInv
  <2>6. CASE ~Inform(p) /\ ~Finish(p)
    <3>1. stop' = stop
      BY <1>2, <2>6 DEF ThreadStep, ThreadLoop, SyncLoop, GetFrame, PopFrame, PopEmpty, StealRead,
         StealEmpty, StealSuccess, StealAbort, Closure, RunLeaf, RunSpawn, PushSpawned,
         FrameEnd, SignalSync, SignalDependencies, ReadGone, TestDependencies, PushDependent,
         FrameDone, region
    <3>2. pc'[p] \in {"inform", "exited"} => stop[p]
      <4>. SUFFICES ASSUME pc'[p] \in {"inform", "exited"} PROVE stop[p]
        OBVIOUS
      <4>1. ThreadLoop(p)
        BY <2>2, <2>6 DEF Left
      <4>2. stop[p] \/ Goto(p, "pop")
        BY <4>1 DEF ThreadLoop, ForkJoinProgram
      <4>. QED
        BY <4>2, GotoMoves DEF TypeInv, Label
    <3>. QED
      BY <2>1, <2>2, <3>1, <3>2 DEF StopInv
  <2>. QED
    BY <2>4, <2>5, <2>6
<1>3. CASE UNCHANGED vars
  BY <1>3 DEF vars, work, region, history, StopInv, At, Kind, Current
<1>. QED
  BY <1>1, <1>2, <1>3 DEF Next, Terminated

LEMMA RegionInit ==
  ASSUME ForkJoinProgram, Init
  PROVE  ViewInv /\ MainInv /\ StopInv
<1>1. /\ \A p \in Thread : stack[p] = <<>> /\ pc[p] = "created" /\ Kind(p) = "none"
                           /\ stop[p] = FALSE
      /\ \A f \in Frame : runs[f] = 0
      /\ signalled = {} /\ main.at = 0 /\ main.phase = "start"
  BY DEF Init, Kind
<1>2. Active = {} /\ AtSync = {} /\ Pending = {} /\ \A k \in Doing : At(k) = {}
  BY <1>1 DEF Active, AtSync, Pending, At, Doing
<1>3. At("run") = {} /\ At("finish") = {} /\ At("signal_sync") = {} /\ At("after") = {}
  BY <1>2 DEF Doing
<1>4. \A p \in Thread : \A i \in DOMAIN queue[p] : p = 0 /\ i = 1 /\ queue[p][i] = Root
  <2>1. \A p \in Thread : queue[p] = <<>> \/ (p = 0 /\ queue[p] = <<Root>>)
    BY DEF Init
  <2>2. DOMAIN <<>> = {} /\ DOMAIN <<Root>> = {1} /\ <<Root>>[1] = Root
    OBVIOUS
  <2>. QED
    BY <2>1, <2>2
<1>5. Queued \subseteq {Root} /\ Queued \subseteq Frame
  BY <1>4 DEF Queued, InQueue, Range
<1>6. PlaceInv
  <2>1. \A p \in Thread : DOMAIN stack[p] = {}
    BY <1>1
  <2>2. Apart(queue) /\ Apart(stack)
    BY <1>4, <2>1 DEF Apart
  <2>. QED
    BY <1>1, <1>2, <1>3, <1>5, <2>2 DEF PlaceInv
<1>7. SpawnInv
  BY <1>1, <1>2, <1>3, <1>5 DEF SpawnInv
<1>8. SyncCounts /\ ResultInv
  BY <1>1, <1>2, <1>3 DEF SyncCounts, ResultInv
<1>9. MainInv /\ StopInv
  BY <1>1 DEF MainInv, StopInv
<1>. QED
  BY <1>6, <1>7, <1>8, <1>9 DEF ViewInv

RegionIInv == TypeInv /\ ViewInv /\ MainInv /\ StopInv

LEMMA RegionInductive == ForkJoinProgram => (Spec => []RegionIInv)
<1>. SUFFICES ASSUME ForkJoinProgram PROVE Spec => []RegionIInv
  OBVIOUS
<1>1. Init => RegionIInv
  BY InitTypes, RegionInit DEF RegionIInv
<1>2. RegionIInv /\ [Next]_vars => RegionIInv'
  BY StepTypes, ViewStep, MainInvStep, StopInvStep DEF RegionIInv
<1>. QED
  BY <1>1, <1>2, PTL DEF Spec

(***************************************************************************)
(* Of a program such as fibo_stack_2spawns or qsort_ws: every frame is in  *)
(* one place and has been run as often as it has begun, the counter of a   *)
(* closure counts what it waits for, a closure goes on only when all that  *)
(* it has spawned has signalled, and main and the threads stop after that. *)
(***************************************************************************)
THEOREM RegionCorrect == ForkJoinProgram => (Spec => []RegionInv)
<1>1. RegionIInv => RegionInv
  BY DEF RegionIInv, RegionInv, TypeInv, ViewInv
<1>. QED
  BY <1>1, RegionInductive, PTL

\* No frame of such a program is executed twice.
THEOREM RunsOnceCorrect == ForkJoinProgram => (Spec => []RunsOnce)
<1>1. RegionInv => RunsOnce
  BY DEF RegionInv, PlaceInv, RunsOnce
<1>. QED
  BY <1>1, RegionCorrect, PTL

\* The counter of a waiting closure counts the frames that have not signalled.
THEOREM SyncCountsCorrect == ForkJoinProgram => (Spec => []SyncCounts)
<1>1. RegionInv => SyncCounts
  BY DEF RegionInv
<1>. QED
  BY <1>1, RegionCorrect, PTL

-----------------------------------------------------------------------------
(***************************************************************************)
(* The end of the region                                                   *)
(***************************************************************************)
\* a frame is waiting, signalling or done, never two of them
LEMMA OneKind ==
  ASSUME TypeOK, PlaceInv, NEW f \in AtSync
  PROVE  f \notin At("signal_sync") /\ f \notin signalled
<1>1. f \in Active
  BY ActiveHeld DEF AtSync, Held
<1>2. ASSUME NEW k \in {"signal_sync", "after"}, f \in At(k) PROVE FALSE
  <2>1. PICK p \in Thread : Kind(p) = k /\ Current(p) = f
    BY <1>2 DEF At
  <2>2. stack[p] # <<>> /\ Apart(stack)
    BY <1>2, <2>1 DEF Kind, PlaceInv
  <2>. QED
    BY <2>1, <2>2, CurrentKind
<1>. QED
  BY <1>1, <1>2 DEF PlaceInv

\* once the root has what it waited for, so has every frame below it
LEMMA AllSignalled ==
  ASSUME ForkJoinProgram, SpawnInv, Root \in At("signal_sync") \union signalled
  PROVE  Frame \ {Root} \subseteq signalled
<1>. DEFINE F == (Frame \ {Root}) \ signalled
<1>1. SUFFICES ASSUME F # {} PROVE FALSE
  OBVIOUS
<1>2. F \in (SUBSET (Frame \ {Root})) \ {{}}
  BY <1>1
<1>3. PICK f \in F : Parent[f] \notin F
  BY <1>2, TreeAssumption
<1>4. Parent[f] \in Frame
  BY SchedulerAssumption
<1>5. Parent[f] \in At("signal_sync") \union signalled
  BY <1>3, <1>4
<1>6. SyncFrames(Parent[f]) \subseteq signalled
  BY <1>5 DEF SpawnInv
<1>7. f \in SyncFrames(Parent[f])
  BY DEF SyncFrames
<1>. QED
  BY <1>6, <1>7

LEMMA RootDone ==
  ASSUME ForkJoinProgram, RegionInv, Root \in At("signal_sync") \union signalled
  PROVE  /\ Frame \ {Root} \subseteq signalled
         /\ \A p \in Thread : queue[p] = <<>>
         /\ AtSync = {}
<1>1. TypeOK /\ PlaceInv /\ SpawnInv
  BY DEF RegionInv
<1>2. Frame \ {Root} \subseteq signalled
  BY <1>1, AllSignalled
<1>3. ASSUME NEW f \in Frame PROVE f \notin AtSync
  BY <1>1, <1>2, OneKind
<1>4. AtSync = {}
  BY <1>3 DEF AtSync
<1>5. \A f \in Frame : runs[f] = 1
  <2>1. ASSUME Root \in At("signal_sync") PROVE Root \in Active
    <3>1. PICK p \in Thread : Kind(p) = "signal_sync" /\ Current(p) = Root
      BY <2>1 DEF At
    <3>2. stack[p] # <<>>
      BY <3>1 DEF Kind
    <3>. QED
      BY <1>1, <3>1, <3>2, InnermostCell
  <2>. QED
    BY <1>1, <1>2, <2>1 DEF PlaceInv
<1>6. ASSUME NEW p \in Thread, queue[p] # <<>> PROVE FALSE
  <2>1. queue[p] \in Seq(Frame)
    BY <1>1 DEF TypeOK
  <2>2. Len(queue[p]) \in DOMAIN queue[p] /\ queue[p][Len(queue[p])] \in Frame
    BY <1>6, <2>1, Popped
  <2>3. queue[p][Len(queue[p])] \in Queued
    BY <2>2 DEF Queued, InQueue, Range
  <2>. QED
    BY <1>1, <1>5, <2>2, <2>3 DEF PlaceInv
<1>. QED
  BY <1>2, <1>4, <1>6

(***************************************************************************)
(* A thread is told to stop only when every other frame has signalled, the *)
(* queues are empty and no closure is waiting.                             *)
(***************************************************************************)
THEOREM StopMeansDoneCorrect == ForkJoinProgram => (Spec => []StopMeansDone)
<1>. SUFFICES ASSUME ForkJoinProgram PROVE Spec => []StopMeansDone
  OBVIOUS
<1>1. RegionInv => StopMeansDone
  <2>. SUFFICES ASSUME RegionInv, RegionOver PROVE StopMeansDone
    BY DEF StopMeansDone
  <2>1. \E p \in Thread : stop[p]
    BY DEF RegionOver, ForkJoinProgram
  <2>2. Root \in At("signal_sync") \union signalled
    BY <2>1 DEF RegionInv, StopInv
  <2>. QED
    BY <2>2, RootDone DEF StopMeansDone
<1>. QED
  BY <1>1, RegionCorrect, PTL

(***************************************************************************)
(* When main has joined its threads, of which one at least was created,    *)
(* the root's result is the right one, all frames have been executed, and  *)
(* no thread is left.                                                      *)
(***************************************************************************)
THEOREM MainSeesResultCorrect == ForkJoinProgram => (Spec => []MainSeesResult)
<1>. SUFFICES ASSUME ForkJoinProgram PROVE Spec => []MainSeesResult
  OBVIOUS
<1>1. RegionInv => MainSeesResult
  <2>. SUFFICES ASSUME RegionInv, main.phase = "destroyed", NEW p \in Thread, pc[p] # "failed"
                PROVE  /\ signalled = Frame /\ result[Root] = Value[Root]
                       /\ \A q \in Thread : pc[q] \in {"exited", "failed"}
    BY DEF MainSeesResult
  <2>1. \A q \in Thread : pc[q] \in {"exited", "failed"} /\ Kind(q) = "none"
    BY DEF RegionInv, MainInv, Kind
  <2>2. stop[p]
    BY <2>1 DEF RegionInv, StopInv
  <2>3. Root \in At("signal_sync") \union signalled
    BY <2>2 DEF RegionInv, StopInv
  <2>4. At("signal_sync") = {}
    BY <2>1 DEF At
  <2>5. signalled = Frame
    <3>1. Frame \ {Root} \subseteq signalled
      BY <2>3, RootDone
    <3>2. signalled \subseteq Frame
      BY DEF RegionInv, TypeOK
    <3>. QED
      BY <2>3, <2>4, <3>1, <3>2
  <2>6. result[Root] = Value[Root]
    BY <2>3, <2>4 DEF RegionInv, ResultInv
  <2>. QED
    BY <2>1, <2>5, <2>6
<1>. QED
  BY <1>1, RegionCorrect, PTL

-----------------------------------------------------------------------------
(***************************************************************************)
(* No circle of closures that wait for each other                          *)
(***************************************************************************)
\* frames G that nothing blocks may be added to what others are blocked by
BlockedByNew(G) ==
  /\ \A g \in G : Blocks(g)' = {}
  /\ \A f \in Active' \ G : f \in Active /\ Blocks(f)' \subseteq Blocks(f) \union G

LEMMA StillNoCycle ==
  ASSUME NoWaitCycle, NEW G, BlockedByNew(G)
  PROVE  NoWaitCycle'
<1>. SUFFICES ASSUME NEW S \in (SUBSET Active') \ {{}}
              PROVE  \E f \in S : Blocks(f)' \intersect S = {}
  BY DEF NoWaitCycle
<1>1. CASE S \intersect G # {}
  BY <1>1 DEF BlockedByNew
<1>2. CASE S \intersect G = {}
  <2>1. S \in (SUBSET Active) \ {{}}
    BY <1>2 DEF BlockedByNew
  <2>2. PICK f \in S : Blocks(f) \intersect S = {}
    BY <2>1 DEF NoWaitCycle
  <2>. QED
    BY <1>2, <2>2 DEF BlockedByNew
<1>. QED
  BY <1>1, <1>2

\* the steps in which nobody begins or ends a closure, or begins to wait
WaitsLess ==
  /\ stack' = stack /\ signalled \subseteq signalled'
  /\ \A q \in Thread : stack[q] = <<>> \/ (Waiting(q)' => Waiting(q))

LEMMA WaitsLessNoCycle ==
  ASSUME TypeOK, NoWaitCycle, WaitsLess
  PROVE  NoWaitCycle'
<1>1. \A q \in Thread : stack[q] = <<>> => DOMAIN stack[q] = {}
  OBVIOUS
<1>2. AtSync' \subseteq AtSync
  BY <1>1 DEF WaitsLess, AtSync
<1>3. Active' = Active
  BY DEF WaitsLess, Active
<1>4. \A f : OnTopOf(f)' = OnTopOf(f) /\ Unsignalled(f)' \subseteq Unsignalled(f)
  BY DEF WaitsLess, OnTopOf, Unsignalled, SyncFrames
<1>5. \A f : Blocks(f)' \subseteq Blocks(f)
  BY <1>2, <1>3, <1>4 DEF Blocks
<1>6. BlockedByNew({})
  BY <1>3, <1>5 DEF BlockedByNew
<1>. QED
  BY <1>6, StillNoCycle

\* nothing runs on top of the innermost closure of a thread
LEMMA NothingOnTop ==
  ASSUME TypeOK, Apart(stack), NEW p \in Thread, stack[p] # <<>>
  PROVE  OnTopOf(Current(p)) = {}
<1>1. stack \in [Thread -> Seq(Frame)]
  BY DEF TypeOK
<1>2. ASSUME NEW q \in Thread, NEW i \in 1 .. Len(stack[q]) - 1, stack[q][i] = Current(p)
      PROVE  FALSE
  <2>1. Len(stack[q]) \in Nat /\ DOMAIN stack[q] = 1 .. Len(stack[q])
    BY <1>1, LenProperties
  <2>2. q = p /\ i = Len(stack[p])
    BY <1>2, <2>1, CurrentOnce
  <2>. QED
    BY <2>1, <2>2
<1>. QED
  BY <1>2 DEF OnTopOf

LEMMA RunSpawnNoCycle ==
  ASSUME TypeInv, TypeInv', ViewInv, NoWaitCycle, NEW p \in Thread, RunSpawn(p)
  PROVE  NoWaitCycle'
<1>0. PICK f : f = Current(p)
  OBVIOUS
<1>1. /\ pc[p] = "run" /\ stack[p] # <<>> /\ Kind(p) = "run"
      /\ stack' = stack /\ runs' = runs /\ signalled' = signalled
  BY DEF RunSpawn, TypeInv, TypeOK, Kind, work, history
<1>2. pc'[p] = "push" /\ \A q \in Thread \ {p} : pc'[q] = pc[q]
  BY GotoMoves DEF RunSpawn, TypeInv, Label
<1>3. Kind(p)' = "push"
  BY <1>1, <1>2 DEF Kind
<1>4. /\ f \in At("run") /\ f \in Frame /\ Active' = Active
      /\ AtSync' = AtSync \union {f}
  BY <1>0, <1>1, <1>2, <1>3, InnerStep DEF AfterMove
<1>5. \A h : OnTopOf(h)' = OnTopOf(h) /\ Unsignalled(h)' = Unsignalled(h)
  BY <1>1 DEF OnTopOf, Unsignalled, SyncFrames
<1>6. OnTopOf(f) = {}
  BY <1>0, <1>1, NothingOnTop DEF TypeInv, ViewInv, PlaceInv
<1>7. Unsignalled(f) \intersect Active = {}
  <2>1. \A h \in SyncFrames(f) : runs[h] = 0
    BY <1>4 DEF SyncFrames, NotYet, ViewInv, SpawnInv
  <2>2. \A h \in Active : runs[h] = 1
    BY DEF ViewInv, PlaceInv
  <2>. QED
    BY <2>1, <2>2 DEF Unsignalled
<1>8. Blocks(f)' = {} /\ \A h : h # f => Blocks(h)' = Blocks(h)
  BY <1>4, <1>5, <1>6, <1>7 DEF Blocks
<1>9. BlockedByNew({f})
  BY <1>4, <1>8 DEF BlockedByNew
<1>. QED
  BY <1>9, StillNoCycle

LEMMA EnterNoCycle ==
  ASSUME TypeInv, TypeInv', ViewInv, ViewInv', NoWaitCycle, NEW p \in Thread,
         PopFrame(p) \/ StealSuccess(p)
  PROVE  NoWaitCycle'
<1>1. PICK g \in Frame : g \in Queued /\ Enter(p, g)
  BY TakesFrame
<1>2. /\ stack'[p] = Append(stack[p], g) /\ pc'[p] = "run" /\ stack'[p] # <<>>
      /\ \A q \in Thread \ {p} : pc'[q] = pc[q] /\ stack'[q] = stack[q]
  BY <1>1, EnterMoves DEF TypeInv
<1>3. g \notin Active
  BY <1>1 DEF ViewInv, PlaceInv
<1>4. Kind(p) \in {"none", "wait"} /\ signalled' = signalled
  BY DEF PopFrame, StealSuccess, Kind
<1>5. /\ AtSync' = AtSync /\ Active' = Active \union {g} /\ Kind(p)' = "run"
      /\ Current(p)' = g
  BY <1>2, <1>3, <1>4, EnterView DEF TypeInv, ViewInv, PlaceInv
<1>6. Blocks(g)' = {}
  <2>1. (OnTopOf(Current(p)) = {})'
    <3>1. (TypeOK /\ Apart(stack) /\ stack[p] # <<>> => OnTopOf(Current(p)) = {})'
      BY NothingOnTop, PTL
    <3>. QED
      BY <1>2, <3>1 DEF TypeInv, ViewInv, PlaceInv
  <2>2. g \notin AtSync
    BY <1>3, ActiveHeld DEF AtSync, Held, TypeInv
  <2>. QED
    BY <1>5, <2>1, <2>2 DEF Blocks, OnTopOf
<1>7. \A f : OnTopOf(f)' \subseteq OnTopOf(f) \union {g}
  <2>1. stack[p] \in Seq(Frame)
    BY DEF TypeInv, TypeOK
  <2>2. Len(stack[p]) \in Nat /\ Len(stack'[p]) = Len(stack[p]) + 1
        /\ \A i \in 1 .. Len(stack[p]) : stack'[p][i] = stack[p][i]
        /\ stack'[p][Len(stack[p]) + 1] = g
    BY <1>2, <2>1, Pushed, LenProperties
  <2>3. ASSUME NEW i \in 1 .. Len(stack'[p]) - 1
        PROVE  \/ stack'[p][i + 1] = g
               \/ /\ i \in 1 .. Len(stack[p]) - 1
                  /\ stack'[p][i] = stack[p][i] /\ stack'[p][i + 1] = stack[p][i + 1]
    BY <2>2
  <2>. SUFFICES ASSUME NEW f, NEW h \in OnTopOf(f)', h # g PROVE h \in OnTopOf(f)
    OBVIOUS
  <2>4. PICK q \in Thread : \E i \in 1 .. Len(stack'[q]) - 1 :
          stack'[q][i] = f /\ stack'[q][i + 1] = h
    BY DEF OnTopOf
  <2>5. CASE q = p
    BY <2>3, <2>4, <2>5 DEF OnTopOf
  <2>6. CASE q # p
    BY <1>2, <2>4, <2>6 DEF OnTopOf
  <2>. QED
    BY <2>5, <2>6
<1>8. \A h : Blocks(h)' \subseteq Blocks(h) \union {g}
  BY <1>4, <1>5, <1>7 DEF Blocks, Unsignalled, SyncFrames
<1>9. BlockedByNew({g})
  BY <1>5, <1>6, <1>8 DEF BlockedByNew
<1>. QED
  BY <1>9, StillNoCycle

LEMMA FrameDoneNoCycle ==
  ASSUME TypeInv, TypeInv', ViewInv, NoWaitCycle, NEW p \in Thread, FrameDone(p)
  PROVE  NoWaitCycle'
<1>1. /\ stack[p] # <<>> /\ Kind(p) = "after" /\ signalled' = signalled
  BY DEF FrameDone, TypeInv, TypeOK, Kind, history
<1>2. pc'[p] = "check" /\ \A q \in Thread \ {p} : pc'[q] = pc[q]
  BY GotoMoves DEF FrameDone, TypeInv, Label
<1>3. /\ stack'[p] = SubSeq(stack[p], 1, Len(stack[p]) - 1)
      /\ \A q \in Thread \ {p} : stack'[q] = stack[q]
  BY DEF FrameDone, Leave, TypeInv, TypeOK
<1>4. AtSync' = AtSync /\ Active' \subseteq Active
  BY <1>1, <1>2, <1>3, LeaveView DEF TypeInv, ViewInv, PlaceInv
<1>5. \A f : OnTopOf(f)' \subseteq OnTopOf(f)
  <2>1. stack[p] \in Seq(Frame)
    BY DEF TypeInv, TypeOK
  <2>2. Len(stack[p]) \in Nat /\ Len(stack'[p]) = Len(stack[p]) - 1
        /\ \A i \in 1 .. Len(stack[p]) - 1 : stack'[p][i] = stack[p][i]
    <3>1. Len(stack[p]) \in Nat /\ DOMAIN stack[p] = 1 .. Len(stack[p])
      BY <2>1, LenProperties
    <3>. QED
      BY <1>1, <1>3, <2>1, <3>1, Popped
  <2>3. ASSUME NEW i \in 1 .. Len(stack'[p]) - 1
        PROVE  /\ i \in 1 .. Len(stack[p]) - 1
               /\ stack'[p][i] = stack[p][i] /\ stack'[p][i + 1] = stack[p][i + 1]
    BY <2>2
  <2>. SUFFICES ASSUME NEW f, NEW h \in OnTopOf(f)' PROVE h \in OnTopOf(f)
    OBVIOUS
  <2>4. PICK q \in Thread : \E i \in 1 .. Len(stack'[q]) - 1 :
          stack'[q][i] = f /\ stack'[q][i + 1] = h
    BY DEF OnTopOf
  <2>5. CASE q = p
    BY <2>3, <2>4, <2>5 DEF OnTopOf
  <2>6. CASE q # p
    BY <1>3, <2>4, <2>6 DEF OnTopOf
  <2>. QED
    BY <2>5, <2>6
<1>6. \A f : Blocks(f)' \subseteq Blocks(f)
  BY <1>1, <1>4, <1>5 DEF Blocks, Unsignalled, SyncFrames
<1>7. BlockedByNew({})
  BY <1>4, <1>6 DEF BlockedByNew
<1>. QED
  BY <1>7, StillNoCycle

\* all the other steps
LEMMA OthersWaitLess ==
  ASSUME TypeInv, MainInv, [Next]_vars,
         \A p \in Thread : ~PopFrame(p) /\ ~StealSuccess(p) /\ ~RunSpawn(p) /\ ~FrameDone(p)
  PROVE  WaitsLess
<1>1. CASE StartThread
  <2>1. main.at \in Thread /\ stack[main.at] = <<>> /\ stack' = stack /\ signalled' = signalled
    BY <1>1 DEF StartThread, TypeInv, TypeOK, MainInv, Thread, work, history
  <2>2. PICK label \in {"check", "failed"} : Goto(main.at, label)
    BY <1>1 DEF StartThread
  <2>3. \A q \in Thread \ {main.at} : pc'[q] = pc[q]
    BY <2>1, <2>2, GotoMoves DEF TypeInv, Label
  <2>. QED
    BY <2>1, <2>3 DEF WaitsLess, Waiting
<1>2. CASE JoinThread \/ JoinFailed \/ UNCHANGED vars
  BY <1>2 DEF JoinThread, JoinFailed, vars, work, history, WaitsLess, Waiting
<1>3. ASSUME NEW p \in Thread, ThreadStep(p) PROVE WaitsLess
  <2>1. \A q \in Thread \ {p} : pc'[q] = pc[q]
    BY <1>3, ThreadMoves
  <2>2. CASE Inform(p) \/ PushSpawned(p)
    <3>1. UNCHANGED <<stack, signalled>>
      BY <2>2 DEF Inform, PushSpawned, work, history
    <3>2. pc' = pc \/ Goto(p, "exited") \/ (pc[p] = "push" /\ Goto(p, "check"))
      BY <2>2 DEF Inform, PushSpawned
    <3>3. Waiting(p)' => Waiting(p)
      BY <3>2, GotoMoves DEF Waiting, TypeInv, Label
    <3>. QED
      BY <2>1, <3>1, <3>3 DEF WaitsLess, Waiting
  <2>3. CASE \/ ThreadLoop(p) \/ SyncLoop(p) \/ PopEmpty(p) \/ StealRead(p) \/ StealEmpty(p)
             \/ StealAbort(p)
    <3>1. Waiting(p)
      BY <2>3 DEF ThreadLoop, SyncLoop, PopEmpty, StealRead, StealEmpty, StealAbort, Waiting
    <3>2. UNCHANGED <<stack, signalled>>
      BY <2>3 DEF ThreadLoop, SyncLoop, PopEmpty, StealRead, StealEmpty, StealAbort, work, history
    <3>. QED
      BY <2>1, <3>1, <3>2 DEF WaitsLess, Waiting
  <2>4. CASE \/ RunLeaf(p) \/ Finish(p) \/ SignalSync(p) \/ SignalDependencies(p) \/ ReadGone(p)
             \/ TestDependencies(p) \/ PushDependent(p)
    <3>1. PICK label \in Label \ {"push", "check", "pop", "steal", "steal_cas"} : Goto(p, label)
      BY <2>4 DEF RunLeaf, Finish, SignalSync, SignalDependencies, ReadGone, TestDependencies,
                  PushDependent, Label
    <3>2. ~Waiting(p)'
      BY <3>1, GotoMoves DEF Waiting, TypeInv
    <3>3. stack' = stack /\ signalled \subseteq signalled'
      BY <2>4 DEF RunLeaf, Finish, SignalSync, SignalDependencies, ReadGone, TestDependencies,
                  PushDependent, work, history
    <3>. QED
      BY <2>1, <3>2, <3>3 DEF WaitsLess, Waiting
  <2>. QED
    BY <1>3, <2>2, <2>3, <2>4 DEF ThreadStep, GetFrame, Closure, FrameEnd
<1>. QED
  BY <1>1, <1>2, <1>3 DEF Next, MainStep, Terminated

(***************************************************************************)
(* Threads that run other frames while they wait never wait in a circle,   *)
(* whatever is on top of what: with any number of threads, and however     *)
(* deep they stack the frames that they steal.                             *)
(***************************************************************************)
THEOREM NoWaitCycleCorrect == ForkJoinProgram => (Spec => []NoWaitCycle)
<1>. SUFFICES ASSUME ForkJoinProgram PROVE Spec => []NoWaitCycle
  OBVIOUS
<1>1. Init => NoWaitCycle
  <2>1. Init => Active = {}
    BY DEF Init, Active
  <2>. QED
    BY <2>1 DEF NoWaitCycle
<1>2. RegionIInv /\ RegionIInv' /\ NoWaitCycle /\ [Next]_vars => NoWaitCycle'
  <2>. SUFFICES ASSUME RegionIInv, RegionIInv', NoWaitCycle, [Next]_vars PROVE NoWaitCycle'
    OBVIOUS
  <2>. USE DEF RegionIInv
  <2>1. CASE \E p \in Thread : PopFrame(p) \/ StealSuccess(p)
    BY <2>1, EnterNoCycle
  <2>2. CASE \E p \in Thread : RunSpawn(p)
    BY <2>2, RunSpawnNoCycle
  <2>3. CASE \E p \in Thread : FrameDone(p)
    BY <2>3, FrameDoneNoCycle
  <2>4. CASE \A p \in Thread :
               ~PopFrame(p) /\ ~StealSuccess(p) /\ ~RunSpawn(p) /\ ~FrameDone(p)
    BY <2>4, OthersWaitLess, WaitsLessNoCycle DEF TypeInv
  <2>. QED
    BY <2>1, <2>2, <2>3, <2>4
<1>. QED
  BY <1>1, <1>2, RegionInductive, PTL DEF Spec

-----------------------------------------------------------------------------
(***************************************************************************)
(* The region implements ForkJoin                                          *)
(***************************************************************************)
Started == {f \in Frame : runs[f] > 0}

LEMMA EnterStarts ==
  ASSUME ForkJoinProgram, RegionIInv, NEW p \in Thread, PopFrame(p) \/ StealSuccess(p)
  PROVE  FJ!Next
<1>. USE DEF RegionIInv
<1>1. PICK g \in Frame : g \in Queued /\ Enter(p, g)
  BY TakesFrame
<1>2. runs'[g] = runs[g] + 1 /\ \A f \in Frame \ {g} : runs'[f] = runs[f]
  BY <1>1, EnterMoves DEF TypeInv
<1>3. runs[g] = 0
  BY <1>1 DEF ViewInv, PlaceInv
<1>4. Started' = Started \union {g} /\ g \notin Started
  BY <1>2, <1>3 DEF Started
<1>5. signalled' = signalled /\ RegionOver' = RegionOver
  BY DEF PopFrame, StealSuccess, region, RegionOver
<1>6. g = Root \/ \E f \in Started \ signalled : f \in Frame /\ g \in SyncFrames(f)
  <2>. SUFFICES ASSUME g # Root PROVE Parent[g] \in Started \ signalled /\ g \in SyncFrames(Parent[g])
    BY DEF Started
  <2>1. Parent[g] \in AtSync /\ TypeOK /\ PlaceInv
    BY <1>1 DEF ViewInv, SpawnInv, TypeInv
  <2>2. Parent[g] \in Frame /\ Parent[g] \in Active
    BY <2>1, ActiveHeld DEF AtSync, Held
  <2>. QED
    BY <2>1, <2>2, OneKind DEF Started, SyncFrames, PlaceInv
<1>7. FJ!MayStart(g)
  BY <1>4, <1>6, ForkJoinTree DEF FJ!MayStart, Started
<1>. QED
  BY <1>4, <1>5, <1>7 DEF FJ!Next, FJ!Start, Started

LEMMA SignalCompletes ==
  ASSUME ForkJoinProgram, RegionIInv, RegionIInv', NEW p \in Thread, SignalSync(p)
  PROVE  FJ!Next
<1>. USE DEF RegionIInv
<1>0. PICK f : f = Current(p)
  OBVIOUS
<1>1. /\ stack[p] # <<>> /\ pc[p] = "signal_sync" /\ signalled' = signalled \union {f}
      /\ stack' = stack /\ runs' = runs /\ RegionOver' = RegionOver
  BY <1>0 DEF SignalSync, TypeInv, TypeOK, work, region, RegionOver
<1>2. pc'[p] = "signal_deps" /\ \A q \in Thread \ {p} : pc'[q] = pc[q]
  BY GotoMoves DEF SignalSync, TypeInv, Label
<1>3. Kind(p) = "signal_sync" /\ Kind(p)' = "after"
  BY <1>1, <1>2 DEF Kind
<1>4. f \in Frame /\ f \in At("signal_sync") /\ f \notin signalled /\ runs[f] = 1
  BY <1>0, <1>1, <1>2, <1>3, InnerStep
<1>5. SyncFrames(f) \subseteq signalled
  BY <1>4 DEF ViewInv, SpawnInv
<1>6. FJ!Complete(f)
  BY <1>1, <1>4, <1>5 DEF FJ!Complete
<1>. QED
  BY <1>4, <1>6 DEF FJ!Next

LEMMA FinishEnds ==
  ASSUME ForkJoinProgram, RegionIInv, RegionIInv', NEW p \in Thread, Finish(p)
  PROVE  [FJ!Next]_FJ!vars
<1>. USE DEF RegionIInv
<1>1. UNCHANGED <<runs, signalled>> /\ stack[p] # <<>> /\ pc[p] = "finish"
  BY DEF Finish, TypeInv, TypeOK, history
<1>2. stop \in [Thread -> BOOLEAN] /\ StopFlag
  BY DEF TypeInv, TypeOK, ForkJoinProgram
<1>3. CASE EndsRegion(Current(p))
  <2>1. Root = Current(p) /\ Kind(p) = "finish"
    BY <1>1, <1>3 DEF EndsRegion, Kind
  <2>2. Root \in At("finish") /\ Root \in Active /\ Root \in Frame
    BY <1>1, <2>1, InnermostCell DEF At, TypeInv
  <2>3. SyncFrames(Root) \subseteq signalled /\ runs[Root] = 1
    BY <2>2 DEF ViewInv, SpawnInv, PlaceInv
  <2>4. stop'[p] = TRUE
    BY <1>2, <1>3 DEF Finish
  <2>5. RegionOver' = TRUE
    BY <1>2, <2>4 DEF RegionOver
  <2>6. FJ!End
    BY <1>1, <2>2, <2>3, <2>5 DEF FJ!End
  <2>. QED
    BY <2>6 DEF FJ!Next
<1>4. CASE ~EndsRegion(Current(p))
  <2>1. stop' = [stop EXCEPT ![p] = stop[p] \/ FALSE]
    BY <1>4 DEF Finish
  <2>2. stop' = stop
    BY <1>2, <2>1
  <2>. QED
    BY <1>1, <1>2, <2>2 DEF RegionOver, FJ!vars
<1>. QED
  BY <1>3, <1>4

\* a step that begins no closure, completes none, and does not end the region
LEMMA OthersStutter ==
  ASSUME ForkJoinProgram, RegionIInv, [Next]_vars,
         \A p \in Thread :
           ~PopFrame(p) /\ ~StealSuccess(p) /\ ~SignalSync(p) /\ ~Finish(p)
  PROVE  UNCHANGED FJ!vars
<1>. SUFFICES runs' = runs /\ signalled' = signalled /\ RegionOver' = RegionOver
  BY DEF FJ!vars
<1>1. CASE MainStep
  BY <1>1 DEF MainStep, StartThread, JoinThread, JoinFailed, history, RegionOver
<1>2. ASSUME NEW p \in Thread, ThreadStep(p)
      PROVE  runs' = runs /\ signalled' = signalled /\ RegionOver' = RegionOver
  <2>1. runs' = runs /\ signalled' = signalled
    BY <1>2 DEF ThreadStep, ThreadLoop, SyncLoop, Inform, GetFrame, PopEmpty, StealRead,
       StealEmpty, StealAbort, Closure, RunLeaf, RunSpawn, PushSpawned, FrameEnd,
       SignalDependencies, ReadGone, TestDependencies, PushDependent, FrameDone, history
  <2>2. CASE Inform(p)
    <3>1. stop[p] /\ stop \in [Thread -> BOOLEAN]
      BY <2>2 DEF Inform, RegionIInv, StopInv, TypeInv, TypeOK
    <3>2. stop'[p]
      BY <2>2, <3>1 DEF Inform
    <3>. QED
      BY <2>1, <3>1, <3>2 DEF RegionOver, ForkJoinProgram
  <2>3. CASE ~Inform(p)
    <3>1. stop' = stop
      BY <1>2, <2>3 DEF ThreadStep, ThreadLoop, SyncLoop, GetFrame, PopEmpty, StealRead,
         StealEmpty, StealAbort, Closure, RunLeaf, RunSpawn, PushSpawned, FrameEnd,
         SignalDependencies, ReadGone, TestDependencies, PushDependent, FrameDone, region
    <3>. QED
      BY <2>1, <3>1 DEF RegionOver, ForkJoinProgram
  <2>. QED
    BY <2>2, <2>3
<1>3. CASE UNCHANGED vars
  BY <1>3 DEF vars, region, history, RegionOver
<1>. QED
  BY <1>1, <1>2, <1>3 DEF Next, Terminated

(***************************************************************************)
(* Threads, queues and counters together are a tree of frames in which a   *)
(* frame starts once, while the one that spawned it waits, is complete     *)
(* after everything it waits for, and the region ends after the root's     *)
(* wait: the scheduler implements ForkJoin.                                *)
(***************************************************************************)
THEOREM ForkJoinImplemented == ForkJoinProgram => (Spec => ImplementsForkJoin)
<1>. SUFFICES ASSUME ForkJoinProgram PROVE Spec => FJ!Spec
  BY DEF ImplementsForkJoin
<1>1. Init => FJ!Init
  <2>. SUFFICES ASSUME Init PROVE FJ!Init
    OBVIOUS
  <2>1. /\ \A f \in Frame : runs[f] = 0
        /\ signalled = {} /\ \A p \in Thread : stop[p] = FALSE
    BY DEF Init
  <2>2. RegionOver = FALSE
    BY <2>1 DEF RegionOver, ForkJoinProgram
  <2>. QED
    BY <2>1, <2>2 DEF FJ!Init
<1>2. RegionIInv /\ RegionIInv' /\ [Next]_vars => [FJ!Next]_FJ!vars
  <2>. SUFFICES ASSUME RegionIInv, RegionIInv', [Next]_vars PROVE [FJ!Next]_FJ!vars
    OBVIOUS
  <2>1. CASE \E p \in Thread : PopFrame(p) \/ StealSuccess(p)
    BY <2>1, EnterStarts
  <2>2. CASE \E p \in Thread : SignalSync(p)
    BY <2>2, SignalCompletes
  <2>3. CASE \E p \in Thread : Finish(p)
    BY <2>3, FinishEnds
  <2>4. CASE \A p \in Thread :
               ~PopFrame(p) /\ ~StealSuccess(p) /\ ~SignalSync(p) /\ ~Finish(p)
    BY <2>4, OthersStutter
  <2>. QED
    BY <2>1, <2>2, <2>3, <2>4
<1>. QED
  BY <1>1, <1>2, RegionInductive, PTL DEF Spec, FJ!Spec

-----------------------------------------------------------------------------
(***************************************************************************)
(* No frame is lost but by a push on a full queue                          *)
(***************************************************************************)
\* the places where a thread will find a frame, or has found it
Places == Active \union Queued \union Pending

WithinReach == \A f \in AtSync : Unsignalled(f) \subseteq Places

LEMMA NothingLostPlaces ==
  ASSUME ForkJoinProgram, TypeInv, WithinReach
  PROVE  NothingLost
<1>. SUFFICES ASSUME NEW f \in AtSync, NEW g \in Unsignalled(f)
              PROVE  g \in Active \/ InQueue(g) \/ ToPush(g)
  BY DEF NothingLost
<1>1. g \in Active \/ g \in Queued \/ g \in Pending
  BY DEF WithinReach, Places
<1>2. g \in Queued => InQueue(g)
  BY DEF Queued
<1>3. g \in Pending => ToPush(g)
  BY DEF Pending, ToPush, Kind
<1>. QED
  BY <1>1, <1>2, <1>3

LEMMA EnterKeepsReach ==
  ASSUME TypeInv, TypeInv', ViewInv, WithinReach, NEW p \in Thread,
         PopFrame(p) \/ StealSuccess(p)
  PROVE  WithinReach'
<1>1. PICK g \in Frame : g \in Queued /\ Queued' = Queued \ {g} /\ Enter(p, g)
  BY TakesFrame
<1>2. /\ stack'[p] = Append(stack[p], g) /\ pc'[p] = "run" /\ stack'[p] # <<>>
      /\ \A q \in Thread \ {p} : pc'[q] = pc[q] /\ stack'[q] = stack[q]
  BY <1>1, EnterMoves DEF TypeInv
<1>3. g \notin Active
  BY <1>1 DEF ViewInv, PlaceInv
<1>4. Kind(p) \in {"none", "wait"} /\ UNCHANGED <<signalled, next>>
  BY DEF PopFrame, StealSuccess, Kind, locals
<1>5. /\ AtSync' = AtSync /\ Active' = Active \union {g} /\ Kind(p)' = "run"
      /\ \A q \in Thread \ {p} : Kind(q)' = Kind(q) /\ Current(q)' = Current(q)
  BY <1>2, <1>3, <1>4, EnterView DEF TypeInv, ViewInv, PlaceInv
<1>6. Pending' = Pending
  BY <1>4, <1>5 DEF Pending
<1>. QED
  BY <1>1, <1>4, <1>5, <1>6 DEF WithinReach, Places, Unsignalled, SyncFrames

LEMMA RunSpawnKeepsReach ==
  ASSUME ForkJoinProgram, TypeInv, TypeInv', ViewInv, WithinReach, NEW p \in Thread, RunSpawn(p)
  PROVE  WithinReach'
<1>0. PICK f : f = Current(p)
  OBVIOUS
<1>1. /\ pc[p] = "run" /\ stack[p] # <<>> /\ Kind(p) = "run" /\ Spawned[f] # <<>>
      /\ UNCHANGED <<queue, stack, runs, signalled>>
  BY <1>0 DEF RunSpawn, TypeInv, TypeOK, Kind, work, history
<1>2. pc'[p] = "push" /\ \A q \in Thread \ {p} : pc'[q] = pc[q]
  BY GotoMoves DEF RunSpawn, TypeInv, Label
<1>3. Kind(p)' = "push"
  BY <1>1, <1>2 DEF Kind
<1>4. /\ f \in Frame /\ Active' = Active /\ AtSync' = AtSync \union {f} /\ Current(p)' = f
      /\ \A q \in Thread \ {p} : Kind(q)' = Kind(q) /\ Current(q)' = Current(q)
  BY <1>0, <1>1, <1>2, <1>3, InnerStep DEF AfterMove
<1>5. Queued' = Queued
  BY <1>1 DEF Queued, InQueue
<1>6. next'[p] = 1 /\ \A q \in Thread \ {p} : next'[q] = next[q]
  BY DEF RunSpawn, TypeInv, TypeOK
<1>7. SyncFrames(f) \subseteq Pending'
  <2>. SUFFICES ASSUME NEW g \in SyncFrames(f) PROVE g \in Pending'
    OBVIOUS
  <2>1. g \in Frame \ {Root} /\ Parent[g] = f
    BY DEF SyncFrames
  <2>2. PICK i \in DOMAIN Spawned[f] : Spawned[f][i] = g
    BY <2>1, ForkJoinTree
  <2>3. i \in 1 .. Len(Spawned[f])
    BY <1>1, <1>4, <2>2, SpawnedFrames
  <2>4. \E j \in next'[p] .. Len(Spawned[Current(p)']) : Spawned[Current(p)'][j] = g
    BY <1>4, <1>6, <2>2, <2>3
  <2>. QED
    BY <1>3, <2>1, <2>4 DEF Pending
<1>8. Pending \subseteq Pending'
  BY <1>1, <1>4, <1>6 DEF Pending
<1>. QED
  BY <1>1, <1>4, <1>5, <1>7, <1>8 DEF WithinReach, Places, Unsignalled, SyncFrames

LEMMA FrameDoneKeepsReach ==
  ASSUME TypeInv, TypeInv', ViewInv, WithinReach, NEW p \in Thread, FrameDone(p)
  PROVE  WithinReach'
<1>0. PICK f : f = Current(p)
  OBVIOUS
<1>1. /\ stack[p] # <<>> /\ Kind(p) = "after"
      /\ UNCHANGED <<queue, signalled, next>>
  BY DEF FrameDone, TypeInv, TypeOK, Kind, locals, history
<1>2. pc'[p] = "check" /\ \A q \in Thread \ {p} : pc'[q] = pc[q]
  BY GotoMoves DEF FrameDone, TypeInv, Label
<1>3. /\ stack'[p] = SubSeq(stack[p], 1, Len(stack[p]) - 1)
      /\ \A q \in Thread \ {p} : stack'[q] = stack[q]
  BY DEF FrameDone, Leave, TypeInv, TypeOK
<1>4. /\ AtSync' = AtSync /\ Active' = Active \ {f} /\ Kind(p)' \in {"none", "wait"}
      /\ \A q \in Thread \ {p} : Kind(q)' = Kind(q) /\ Current(q)' = Current(q)
  BY <1>0, <1>1, <1>2, <1>3, LeaveView DEF TypeInv, ViewInv, PlaceInv
<1>5. f \in signalled
  <2>1. f \in At("after")
    BY <1>0, <1>1, InnermostCell DEF At, TypeInv
  <2>. QED
    BY <2>1 DEF ViewInv, PlaceInv
<1>6. Queued' = Queued /\ Pending' = Pending
  BY <1>1, <1>4 DEF Queued, InQueue, Pending
<1>. QED
  BY <1>1, <1>4, <1>5, <1>6 DEF WithinReach, Places, Unsignalled, SyncFrames

LEMMA PushSpawnedKeepsReach ==
  ASSUME ForkJoinProgram, TypeInv, TypeInv', ViewInv, WithinReach,
         NEW p \in Thread, PushSpawned(p), Len(queue[p]) < Capacity
  PROVE  WithinReach'
<1>0. PICK f : f = Current(p)
  OBVIOUS
<1>1. /\ stack[p] # <<>> /\ pc[p] = "push" /\ Kind(p) = "push"
      /\ UNCHANGED <<stack, runs, signalled>>
  BY DEF PushSpawned, TypeInv, TypeOK, Kind, history
<1>2. f \in Frame /\ f \in AtSync /\ Current(p)' = f
  BY <1>0, <1>1, CurrentKind, InnermostCell DEF TypeInv, ViewInv, PlaceInv, Current
<1>3. /\ Len(Spawned[f]) = 2 /\ DOMAIN Spawned[f] = {1, 2}
      /\ next[p] \in {1, 2} /\ next \in [Thread -> Nat]
  <2>1. Len(Spawned[f]) = 2 /\ DOMAIN Spawned[f] = {1, 2}
    BY <1>2, SpawnedFrames DEF ViewInv, SpawnInv
  <2>. QED
    BY <1>0, <1>1, <2>1 DEF TypeInv, Pushing, TypeOK
<1>4. \/ next[p] = 1 /\ next' = [next EXCEPT ![p] = 2] /\ pc' = pc
      \/ next[p] = 2 /\ next' = [next EXCEPT ![p] = 0] /\ Goto(p, "check")
  BY <1>0, <1>3 DEF PushSpawned
<1>5. /\ \A q \in Thread \ {p} : pc'[q] = pc[q] /\ next'[q] = next[q]
      /\ Kind(p)' \in {"push", "wait"}
  BY <1>1, <1>3, <1>4, GotoMoves DEF Kind, TypeInv, Label
<1>6. PICK g \in Frame : g = Spawned[f][next[p]]
  BY <1>2, <1>3, SpawnedFrames
<1>7. /\ AtSync' = AtSync /\ Active' = Active
      /\ \A q \in Thread \ {p} : Kind(q)' = Kind(q) /\ Current(q)' = Current(q)
  <2>1. AtSync' = AfterMove(AtSync, {"wait", "push"}, f, "push", Kind(p)')
        /\ Active' = Active
        /\ \A q \in Thread \ {p} : Kind(q)' = Kind(q) /\ Current(q)' = Current(q)
    BY <1>0, <1>1, <1>5, InnerStep
  <2>. QED
    BY <1>2, <1>5, <2>1 DEF AfterMove
<1>8. Queued' = Queued \union {g}
  <2>1. queue \in [Thread -> Seq(Frame)] /\ queue[p] \in Seq(Frame)
    BY DEF TypeInv, TypeOK
  <2>2. /\ queue'[p] = Append(queue[p], g)
        /\ \A q \in Thread \ {p} : queue'[q] = queue[q]
    BY <1>0, <1>6, <2>1 DEF PushSpawned, PushIgnoringStatus
  <2>3. PICK n : /\ DOMAIN queue'[p] = DOMAIN queue[p] \union {n}
                 /\ \A i \in DOMAIN queue[p] : queue'[p][i] = queue[p][i]
                 /\ queue'[p][n] = g
    BY <2>1, <2>2, Pushed
  <2>4. \A h \in Frame : (\E i \in DOMAIN queue'[p] : queue'[p][i] = h)
                           <=> (h = g \/ (\E i \in DOMAIN queue[p] : queue[p][i] = h))
    BY <2>3
  <2>5. Queued' = Held(queue')
    BY DEF Queued, InQueue, Held, Range
  <2>6. ASSUME NEW h \in Frame PROVE h \in Held(queue') <=> (h = g \/ h \in Held(queue))
    <3>. DEFINE Has(place, q) == \E i \in DOMAIN place[q] : place[q][i] = h
    <3>1. Has(queue', p) <=> (h = g \/ Has(queue, p))
      BY <2>4
    <3>2. \A q \in Thread \ {p} : Has(queue', q) <=> Has(queue, q)
      BY <2>2
    <3>3. /\ h \in Held(queue) <=> \E q \in Thread : Has(queue, q)
          /\ h \in Held(queue') <=> \E q \in Thread : Has(queue', q)
      BY DEF Held
    <3>. HIDE DEF Has
    <3>. QED
      BY <3>1, <3>2, <3>3
  <2>. QED
    BY <2>5, <2>6, QueuedHeld DEF Held
<1>9. \A h \in Pending : h = g \/ h \in Pending'
  <2>. TAKE h \in Pending
  <2>0. h \in Frame
    BY DEF Pending
  <2>1. PICK q \in Thread : /\ Kind(q) = "push"
                            /\ \E i \in next[q] .. Len(Spawned[Current(q)]) :
                                 Spawned[Current(q)][i] = h
    BY DEF Pending
  <2>2. CASE q = p
    <3>1. PICK i \in next[p] .. 2 : Spawned[f][i] = h
      BY <1>0, <1>3, <2>1, <2>2
    <3>2. CASE i = next[p]
      BY <1>6, <3>1, <3>2
    <3>3. CASE i # next[p]
      <4>1. i = 2 /\ next[p] = 1
        BY <1>3, <3>1, <3>3
      <4>2. Kind(p)' = "push" /\ next'[p] = 2
        BY <1>1, <1>3, <1>4, <4>1 DEF Kind
      <4>3. \E j \in next'[p] .. Len(Spawned[Current(p)']) : Spawned[Current(p)'][j] = h
        BY <1>2, <1>3, <3>1, <4>1, <4>2
      <4>. QED
        BY <2>0, <4>2, <4>3 DEF Pending
    <3>. QED
      BY <3>2, <3>3
  <2>3. CASE q # p
    BY <1>5, <1>7, <2>0, <2>1, <2>3 DEF Pending
  <2>. QED
    BY <2>2, <2>3
<1>. QED
  BY <1>1, <1>7, <1>8, <1>9 DEF WithinReach, Places, Unsignalled, SyncFrames

\* the steps that leave every frame in its place
LEMMA OthersKeepReach ==
  ASSUME ForkJoinProgram, TypeInv, TypeInv', ViewInv, MainInv, WithinReach, [Next]_vars,
         \A p \in Thread : /\ ~PopFrame(p) /\ ~StealSuccess(p) /\ ~RunSpawn(p)
                           /\ ~PushSpawned(p) /\ ~FrameDone(p)
  PROVE  WithinReach'
<1>1. WaitsLess
  BY OthersWaitLess
<1>2. \A q \in Thread : stack[q] = <<>> => DOMAIN stack[q] = {}
  OBVIOUS
<1>3. AtSync' \subseteq AtSync /\ Active' = Active
  BY <1>1, <1>2 DEF WaitsLess, AtSync, Active
<1>4. /\ queue' = queue
      /\ \A q \in Thread : (Kind(q)' = "push" <=> Kind(q) = "push")
                           /\ (Kind(q) = "push" => next'[q] = next[q])
  <2>1. CASE StartThread
    <3>1. main.at \in Thread /\ stack[main.at] = <<>> /\ stack' = stack /\ queue' = queue
          /\ next' = next
      BY <2>1 DEF StartThread, TypeInv, TypeOK, MainInv, Thread, work, locals
    <3>2. PICK label \in {"check", "failed"} : Goto(main.at, label)
      BY <2>1 DEF StartThread
    <3>3. \A q \in Thread \ {main.at} : pc'[q] = pc[q]
      BY <3>1, <3>2, GotoMoves DEF TypeInv, Label
    <3>. QED
      BY <3>1, <3>3 DEF Kind
  <2>2. CASE JoinThread \/ JoinFailed \/ UNCHANGED vars
    BY <2>2 DEF JoinThread, JoinFailed, vars, work, locals, Kind
  <2>3. ASSUME NEW p \in Thread, ThreadStep(p)
        PROVE  /\ queue' = queue
               /\ \A q \in Thread : (Kind(q)' = "push" <=> Kind(q) = "push")
                                    /\ (Kind(q) = "push" => next'[q] = next[q])
    <3>1. /\ \A q \in Thread \ {p} : pc'[q] = pc[q] /\ stack'[q] = stack[q]
          /\ stack' = stack
      BY <1>1, <2>3, ThreadMoves DEF WaitsLess
    <3>2. pc[p] # "push" /\ queue' = queue
          /\ (next' = next \/ Inform(p))
      BY <2>3, NoDependents DEF ThreadStep, ThreadLoop, SyncLoop, Inform, GetFrame, PopEmpty,
         StealRead, StealEmpty, StealAbort, Closure, RunLeaf, Finish, FrameEnd, SignalSync,
         SignalDependencies, ReadGone, work, locals
    <3>3. pc'[p] # "push"
      <4>1. WaitsLess /\ (pc'[p] = "push" => Waiting(p)')
        BY <1>1 DEF Waiting
      <4>2. CASE Inform(p)
        <5>1. pc' = pc \/ Goto(p, "exited")
          BY <4>2 DEF Inform
        <5>. QED
          BY <3>2, <5>1, GotoMoves DEF TypeInv, Label
      <4>3. CASE ~Inform(p)
        <5>1. \E label \in Label \ {"push"} : Goto(p, label)
          BY <2>3, <4>3, NoDependents DEF ThreadStep, ThreadLoop, SyncLoop, GetFrame, PopEmpty,
             StealRead, StealEmpty, StealAbort, Closure, RunLeaf, Finish, FrameEnd, SignalSync,
             SignalDependencies, ReadGone, Label
        <5>. QED
          BY <5>1, GotoMoves DEF TypeInv
      <4>. QED
        BY <4>2, <4>3
    <3>4. \A q \in Thread \ {p} : next'[q] = next[q]
      BY <3>2 DEF Inform, TypeInv, TypeOK
    <3>. QED
      BY <3>1, <3>2, <3>3, <3>4 DEF Kind
  <2>. QED
    BY <2>1, <2>2, <2>3 DEF Next, MainStep, Terminated
<1>5. Queued' = Queued
  BY <1>4 DEF Queued, InQueue
<1>6. \A q \in Thread : Current(q)' = Current(q)
  BY <1>1 DEF WaitsLess, Current
<1>7. Pending' = Pending
  BY <1>4, <1>6 DEF Pending
<1>. QED
  BY <1>1, <1>3, <1>5, <1>7 DEF WithinReach, Places, Unsignalled, SyncFrames, WaitsLess

(***************************************************************************)
(* As long as no closure finds its queue full when it pushes a frame, what *)
(* a closure waits for is on a stack, in a queue or about to be pushed:    *)
(* pops, steals and aborted steals lose nothing, only a full queue does.   *)
(***************************************************************************)
THEOREM NothingLostCorrect == ForkJoinProgram => (Spec /\ []RoomToPush => []NothingLost)
<1>. SUFFICES ASSUME ForkJoinProgram PROVE Spec /\ []RoomToPush => []NothingLost
  OBVIOUS
<1>1. Init => WithinReach
  <2>1. Init => AtSync = {}
    BY DEF Init, AtSync
  <2>. QED
    BY <2>1 DEF WithinReach
<1>2. RegionIInv /\ RegionIInv' /\ RoomToPush /\ WithinReach /\ [Next]_vars => WithinReach'
  <2>. SUFFICES ASSUME RegionIInv, RegionIInv', RoomToPush, WithinReach, [Next]_vars
                PROVE  WithinReach'
    OBVIOUS
  <2>. USE DEF RegionIInv
  <2>1. CASE \E p \in Thread : PopFrame(p) \/ StealSuccess(p)
    BY <2>1, EnterKeepsReach
  <2>2. CASE \E p \in Thread : RunSpawn(p)
    BY <2>2, RunSpawnKeepsReach
  <2>3. CASE \E p \in Thread : PushSpawned(p)
    <3>1. PICK p \in Thread : PushSpawned(p)
      BY <2>3
    <3>2. Len(queue[p]) < Capacity
      BY <3>1 DEF PushSpawned, RoomToPush
    <3>. QED
      BY <3>1, <3>2, PushSpawnedKeepsReach
  <2>4. CASE \E p \in Thread : FrameDone(p)
    BY <2>4, FrameDoneKeepsReach
  <2>5. CASE \A p \in Thread : /\ ~PopFrame(p) /\ ~StealSuccess(p) /\ ~RunSpawn(p)
                               /\ ~PushSpawned(p) /\ ~FrameDone(p)
    BY <2>5, OthersKeepReach
  <2>. QED
    BY <2>1, <2>2, <2>3, <2>4, <2>5
<1>3. RegionIInv /\ WithinReach => NothingLost
  BY NothingLostPlaces DEF RegionIInv
<1>. QED
  BY <1>1, <1>2, <1>3, RegionInductive, PTL DEF Spec

\* A queue that a frame is not in is shorter than the region has frames.
LEMMA QueueIsShort ==
  ASSUME TypeOK, PlaceInv, NEW p \in Thread, NEW g \in Frame, g \notin Queued
  PROVE  Len(queue[p]) < Cardinality(Frame)
<1>. DEFINE n == Len(queue[p])
            T == Frame \ {g}
<1>1. queue[p] \in Seq(Frame)
  BY DEF TypeOK
<1>2. n \in Nat /\ DOMAIN queue[p] = 1 .. n
  BY <1>1, LenProperties
<1>3. \A i \in 1 .. n : queue[p][i] \in T
  <2>. TAKE i \in 1 .. n
  <2>1. queue[p][i] \in Frame
    BY <1>1, <1>2, ElementOfSeq
  <2>2. queue[p][i] \in Queued
    BY <1>2, <2>1 DEF Queued, InQueue, Range
  <2>. QED
    BY <2>1, <2>2
<1>4. \A i, j \in 1 .. n : queue[p][i] = queue[p][j] => i = j
  BY <1>2 DEF PlaceInv, Apart
<1>. DEFINE cell == [i \in 1 .. n |-> queue[p][i]]
<1>5. cell \in Injection(1 .. n, T)
  BY <1>3, <1>4 DEF Injection, IsInjective
<1>6. IsFiniteSet(T) /\ Cardinality(T) = Cardinality(Frame) - 1
  BY FS_RemoveElement, CountAssumption
<1>7. Cardinality(1 .. n) <= Cardinality(T)
  BY <1>5, <1>6, FS_Injection
<1>8. Cardinality(1 .. n) = n
  BY <1>2, FS_Interval
<1>9. Cardinality(Frame) \in Nat
  BY FS_CardinalityType, CountAssumption
<1>. QED
  BY <1>2, <1>6, <1>7, <1>8, <1>9

(***************************************************************************)
(* Queues that could hold every frame of the region are never full when a  *)
(* frame is pushed.                                                        *)
(***************************************************************************)
THEOREM RoomForEveryFrame ==
  ForkJoinProgram /\ Cardinality(Frame) <= Capacity => (Spec => [](RoomToPush /\ NothingLost))
<1>. SUFFICES ASSUME ForkJoinProgram, Cardinality(Frame) <= Capacity
              PROVE  Spec => [](RoomToPush /\ NothingLost)
  OBVIOUS
<1>1. RegionIInv => RoomToPush
  <2>. SUFFICES ASSUME RegionIInv, NEW p \in Thread, pc[p] = "push"
                PROVE  Len(queue[p]) < Capacity
    BY DEF RoomToPush
  <2>. USE DEF RegionIInv, ViewInv, TypeInv
  <2>1. stack[p] # <<>> /\ Kind(p) = "push"
    BY DEF TypeOK, Kind
  <2>2. Current(p) \in Frame
    BY <2>1, CurrentIsFrame
  <2>3. next[p] \in DOMAIN Spawned[Current(p)]
    BY <2>1 DEF SpawnInv
  <2>4. next[p] \in 1 .. Len(Spawned[Current(p)])
    BY <2>2, <2>3, SpawnedFrames, LenProperties
  <2>5. PICK g \in Frame : g = Spawned[Current(p)][next[p]]
    BY <2>2, <2>3, SpawnedFrames
  <2>6. g \in Pending
    BY <2>1, <2>4, <2>5 DEF Pending
  <2>7. g \notin Queued
    BY <2>6 DEF SpawnInv
  <2>8. Len(queue[p]) < Cardinality(Frame)
    BY <2>7, QueueIsShort
  <2>9. Len(queue[p]) \in Nat /\ Cardinality(Frame) \in Nat
    BY LenProperties, FS_CardinalityType, CountAssumption DEF TypeOK
  <2>. QED
    BY <2>8, <2>9, SchedulerAssumption
<1>. QED
  BY <1>1, NothingLostCorrect, RegionInductive, PTL
=============================================================================
