-------------------------- MODULE SwiftDataFlowProofs --------------------------
(***************************************************************************)
(* Proofs about parallel regions with frames that await data, such as the  *)
(* sums of test/fibo.c: any number of threads, any tree of frames and any  *)
(* capacity of the queues, however threads are told to stop.               *)
(***************************************************************************)
EXTENDS SwiftSchedulerProofs

\* fibo's program: a frame that awaits data spawns nothing.
SumsAreLeaves == \A f \in Frame : Inputs(f) # {} => Spawned[f] = <<>>

\* the frames that are pushed by the closure that spawns them
Plain == {f \in Frame : Inputs(f) = {}}

\* the labels of a thread from the signal to its closure on, and those from
\* there to the decrement for the frame that awaits it, which a crash prevents
After      == {"signal_deps", "test_deps", "push_dep", "frame_done", "crashed"}
Decreasing == {"signal_deps", "crashed"}

\* the frames whose closures are the innermost of their thread, at such a label
InStep(L) == {f \in Frame : \E p \in Thread : stack[p] # <<>> /\ pc[p] \in L /\ Current(p) = f}

\* the inputs of d that are counted
Missing(d) == {g \in Inputs(d) : g \notin signalled \/ g \in InStep(Decreasing)}

Fresh(f) == runs[f] = 0 /\ f \notin Queued

\* a plain frame is in one cell of a queue or of a stack
PlainApart(place) ==
  \A p, q \in Thread : \A i \in DOMAIN place[p] : \A j \in DOMAIN place[q] :
    place[p][i] \in Plain /\ place[p][i] = place[q][j] => p = q /\ i = j

\* a plain frame is pushed once, so run once; frames that await data may be
\* pushed, and run, by each of those that supply it
PlainOnce ==
  /\ PlainApart(queue) /\ PlainApart(stack)
  /\ \A f \in Plain : runs[f] \in {0, 1} /\ (f \in Queued => runs[f] = 0)
  /\ \A f \in Active : runs[f] > 0
  /\ \A f \in Plain \ {Root} :
       runs[Parent[f]] = 0 \/ Parent[f] \in InStep({"run"}) => Fresh(f)
  /\ \A p \in Thread : pc[p] = "push" =>
       \A i \in DOMAIN Spawned[Current(p)] : i >= next[p] => Fresh(Spawned[Current(p)][i])

SignalInv ==
  /\ \A f \in signalled : runs[f] > 0
  /\ \A f \in Active \intersect Plain : f \in signalled => f \in InStep(After)
  /\ InStep(After) \subseteq signalled

\* the counter of a frame that awaits data, once its parent has set it
CounterInv ==
  \A d \in Frame \ Plain :
    runs[Parent[d]] > 0 /\ Parent[d] \notin InStep({"run"}) =>
      dependenciesNo[d] = Cardinality(Missing(d))

\* what a thread knows that has found the counter at zero
ReadyInv == \A p \in Thread : pc[p] = "push_dep" => ~Awaits(Dependent[Current(p)])

FlowInv == PlainOnce /\ SignalInv /\ CounterInv /\ ReadyInv /\ InputsComeFirst

-----------------------------------------------------------------------------
(***************************************************************************)
(* The program                                                             *)
(***************************************************************************)
LEMMA InputsArePlain ==
  ASSUME NEW d \in Frame \ Plain
  PROVE  /\ d # Root /\ Parent[d] \in Frame /\ d \in SyncFrames(Parent[d])
         /\ \A g \in Inputs(d) : g \in Plain \ {Root} /\ Parent[g] = Parent[d]
<1>1. PICK h \in Frame : Dependent[h] = d
  BY DEF Plain, Inputs
<1>2. \A g \in Inputs(d) : d \in {Dependent[g]} \ {None} /\ g \in Frame
  BY SchedulerAssumption DEF Inputs
<1>3. d # Root /\ \A g \in Inputs(d) : \E i \in DOMAIN Spawned[Parent[d]] : Spawned[Parent[d]][i] = g
  BY <1>1, <1>2, SchedulerAssumption DEF Inputs
<1>4. Parent[d] \in Frame
  BY SchedulerAssumption
<1>5. \A g \in Inputs(d) : g \in Plain \ {Root} /\ Parent[g] = Parent[d]
  BY <1>3, <1>4, SpawnedFrames, SchedulerAssumption DEF Plain
<1>. QED
  BY <1>3, <1>4, <1>5 DEF SyncFrames

\* Closures that spawn anything are plain, and so is what they spawn.
LEMMA SpawnersArePlain ==
  ASSUME SumsAreLeaves, NEW f \in Frame
  PROVE  /\ Spawned[f] # <<>> => f \in Plain
         /\ \A i \in DOMAIN Spawned[f] :
              Spawned[f][i] \in Plain \ {Root} /\ Parent[Spawned[f][i]] = f
         /\ \A i, j \in DOMAIN Spawned[f] : Spawned[f][i] = Spawned[f][j] => i = j
<1>1. \A i \in DOMAIN Spawned[f] :
        Spawned[f][i] \in Plain \ {Root} /\ Parent[Spawned[f][i]] = f
  BY SpawnedFrames, SchedulerAssumption DEF Plain
<1>2. \A i, j \in DOMAIN Spawned[f] : Spawned[f][i] = Spawned[f][j] => i = j
  BY SpawnedFrames, TreeAssumption
<1>. QED
  BY <1>1, <1>2 DEF SumsAreLeaves, Plain

LEMMA PlainParent ==
  ASSUME SumsAreLeaves, NEW f \in Plain \ {Root}
  PROVE  Parent[f] \in Plain /\ Spawned[Parent[f]] # <<>>
<1>1. f \in Frame \ {Root} /\ Inputs(f) = {} /\ Parent[f] \in Frame
  BY SchedulerAssumption DEF Plain
<1>2. \E i \in DOMAIN Spawned[Parent[f]] : Spawned[Parent[f]][i] = f
  BY <1>1, TreeAssumption
<1>3. Spawned[Parent[f]] # <<>>
  BY <1>1, <1>2, SpawnedFrames
<1>. QED
  BY <1>1, <1>3, SpawnersArePlain

LEMMA MissingFits ==
  ASSUME NEW d \in Frame
  PROVE  IsFiniteSet(Missing(d)) /\ Cardinality(Missing(d)) \in 0 .. SizeRange - 1
<1>1. Missing(d) \in SUBSET Frame
  BY DEF Missing, Inputs
<1>. QED
  BY <1>1, CountsFit

-----------------------------------------------------------------------------
(***************************************************************************)
(* Places of plain frames                                                  *)
(***************************************************************************)
LEMMA PlainAdded ==
  ASSUME NEW place, NEW after, NEW p \in Thread, NEW n, NEW g \in Frame,
         AddsCell(place, after, p, n, g), PlainApart(place), g \in Plain => g \notin Held(place)
  PROVE  PlainApart(after) /\ Held(after) = Held(place) \union {g}
<1>. USE DEF AddsCell
<1>1. g \in Plain => \A q \in Thread : \A i \in DOMAIN place[q] : place[q][i] # g
  BY DEF Held
<1>2. PlainApart(after)
  <2>. SUFFICES ASSUME NEW q \in Thread, NEW r \in Thread, NEW i \in DOMAIN after[q],
                       NEW j \in DOMAIN after[r], after[q][i] \in Plain, after[q][i] = after[r][j]
                PROVE  q = r /\ i = j
    BY DEF PlainApart
  <2>1. \A t \in Thread : \A k \in DOMAIN after[t] :
          (t = p /\ k = n) \/ (k \in DOMAIN place[t] /\ after[t][k] = place[t][k])
    OBVIOUS
  <2>2. CASE (q = p /\ i = n) \/ (r = p /\ j = n)
    <3>1. after[q][i] = g /\ after[r][j] = g /\ g \in Plain
      BY <2>2
    <3>2. \A t \in Thread : \A k \in DOMAIN after[t] : after[t][k] = g => t = p /\ k = n
      BY <1>1, <2>1, <3>1
    <3>. QED
      BY <3>1, <3>2
  <2>3. CASE ~(q = p /\ i = n) /\ ~(r = p /\ j = n)
    <3>1. /\ i \in DOMAIN place[q] /\ after[q][i] = place[q][i]
          /\ j \in DOMAIN place[r] /\ after[r][j] = place[r][j]
      BY <2>1, <2>3
    <3>2. place[q][i] = place[r][j] /\ place[q][i] \in Plain
      BY <3>1
    <3>. QED
      BY <3>1, <3>2 DEF PlainApart
  <2>. QED
    BY <2>2, <2>3
<1>3. ASSUME NEW f \in Frame PROVE f \in Held(after) <=> f \in Held(place) \/ f = g
  <2>1. \A t \in Thread : \A k \in DOMAIN place[t] :
          k \in DOMAIN after[t] /\ after[t][k] = place[t][k]
    OBVIOUS
  <2>2. \A t \in Thread : \A k \in DOMAIN after[t] :
          (after[t][k] = g) \/ (k \in DOMAIN place[t] /\ after[t][k] = place[t][k])
    OBVIOUS
  <2>3. n \in DOMAIN after[p]
    OBVIOUS
  <2>. QED
    BY <2>1, <2>2, <2>3 DEF Held
<1>. QED
  BY <1>2, <1>3 DEF Held

LEMMA PlainRemoved ==
  ASSUME NEW place, NEW after, NEW p \in Thread, NEW n, NEW back,
         RemovesCell(place, after, p, n, back), PlainApart(place)
  PROVE  /\ PlainApart(after) /\ Held(after) \subseteq Held(place)
         /\ place[p][n] \in Plain => place[p][n] \notin Held(after)
         /\ Held(place) \subseteq Held(after) \union {place[p][n]}
<1>. USE DEF RemovesCell
<1>1. place[p][n] \in Plain =>
        \A q \in Thread : \A i \in DOMAIN place[q] : place[q][i] = place[p][n] => q = p /\ i = n
  BY DEF PlainApart
<1>2. PlainApart(after)
  <2>. SUFFICES ASSUME NEW q \in Thread, NEW r \in Thread, NEW i \in DOMAIN after[q],
                       NEW j \in DOMAIN after[r], after[q][i] \in Plain, after[q][i] = after[r][j]
                PROVE  q = r /\ i = j
    BY DEF PlainApart
  <2>1. CASE q = p /\ r = p
    BY <2>1 DEF PlainApart
  <2>2. CASE q = p /\ r # p
    BY <2>2 DEF PlainApart
  <2>3. CASE q # p /\ r = p
    BY <2>3 DEF PlainApart
  <2>4. CASE q # p /\ r # p
    BY <2>4 DEF PlainApart
  <2>. QED
    BY <2>1, <2>2, <2>3, <2>4
<1>3. ASSUME NEW f \in Held(after)
      PROVE  f \in Held(place) /\ (place[p][n] \in Plain => f # place[p][n])
  <2>1. PICK q \in Thread : \E i \in DOMAIN after[q] : after[q][i] = f
    BY DEF Held
  <2>2. CASE q = p
    BY <1>1, <2>1, <2>2 DEF Held
  <2>3. CASE q # p
    BY <1>1, <2>1, <2>3 DEF Held
  <2>. QED
    BY <2>2, <2>3
<1>4. ASSUME NEW f \in Held(place), f # place[p][n] PROVE f \in Held(after)
  <2>1. PICK q \in Thread : \E k \in DOMAIN place[q] : place[q][k] = f
    BY DEF Held
  <2>2. CASE q = p
    BY <1>4, <2>1, <2>2 DEF Held
  <2>3. CASE q # p
    BY <2>1, <2>3 DEF Held
  <2>. QED
    BY <2>2, <2>3
<1>. QED
  BY <1>2, <1>3, <1>4

LEMMA PlainAppend ==
  ASSUME NEW place \in [Thread -> Seq(Frame)], NEW after, NEW p \in Thread, NEW g \in Frame,
         after[p] = Append(place[p], g), \A q \in Thread \ {p} : after[q] = place[q],
         PlainApart(place), g \in Plain => g \notin Held(place)
  PROVE  PlainApart(after) /\ Held(after) = Held(place) \union {g}
<1>1. place[p] \in Seq(Frame)
  OBVIOUS
<1>2. PICK n : /\ DOMAIN after[p] = DOMAIN place[p] \union {n} /\ n \notin DOMAIN place[p]
               /\ \A i \in DOMAIN place[p] : after[p][i] = place[p][i]
               /\ after[p][n] = g
  BY <1>1, Pushed
<1>3. AddsCell(place, after, p, n, g)
  BY <1>2 DEF AddsCell
<1>. QED
  BY <1>3, PlainAdded

LEMMA PlainRemoveLast ==
  ASSUME NEW place \in [Thread -> Seq(Frame)], NEW after, NEW p \in Thread,
         place[p] # <<>>,
         after[p] = SubSeq(place[p], 1, Len(place[p]) - 1),
         \A q \in Thread \ {p} : after[q] = place[q],
         PlainApart(place), NEW g, g = place[p][Len(place[p])]
  PROVE  /\ PlainApart(after) /\ Held(after) \subseteq Held(place)
         /\ g \in Plain => g \notin Held(after)
         /\ g \in Held(place) /\ Held(place) \subseteq Held(after) \union {g}
<1>1. place[p] \in Seq(Frame)
  OBVIOUS
<1>2. PICK n : /\ n = Len(place[p]) /\ DOMAIN after[p] = DOMAIN place[p] \ {n}
               /\ n \in DOMAIN place[p] /\ place[p][n] \in Frame
               /\ \A i \in DOMAIN place[p] \ {n} : after[p][i] = place[p][i]
  <2>. DEFINE n == Len(place[p])
  <2>1. /\ DOMAIN after[p] = DOMAIN place[p] \ {n}
        /\ n \in DOMAIN place[p] /\ place[p][n] \in Frame
        /\ \A i \in DOMAIN place[p] \ {n} : after[p][i] = place[p][i]
    BY <1>1, Popped
  <2>. QED
    BY <2>1
<1>. DEFINE back == [i \in DOMAIN after[p] |-> i]
<1>3. \A i \in DOMAIN after[p] : back[i] = i
  OBVIOUS
<1>. HIDE DEF back
<1>4. RemovesCell(place, after, p, n, back)
  BY <1>2, <1>3 DEF RemovesCell
<1>5. /\ PlainApart(after) /\ Held(after) \subseteq Held(place)
      /\ place[p][n] \in Plain => place[p][n] \notin Held(after)
      /\ Held(place) \subseteq Held(after) \union {place[p][n]}
  BY <1>4, PlainRemoved
<1>. QED
  BY <1>2, <1>5 DEF Held

LEMMA PlainRemoveFirst ==
  ASSUME NEW place \in [Thread -> Seq(Frame)], NEW after, NEW p \in Thread,
         place[p] # <<>>,
         after[p] = Tail(place[p]),
         \A q \in Thread \ {p} : after[q] = place[q],
         PlainApart(place)
  PROVE  /\ PlainApart(after) /\ Held(after) \subseteq Held(place)
         /\ Head(place[p]) \in Plain => Head(place[p]) \notin Held(after)
         /\ Head(place[p]) \in Held(place)
         /\ Held(place) \subseteq Held(after) \union {Head(place[p])}
<1>1. place[p] \in Seq(Frame)
  OBVIOUS
<1>2. /\ Head(place[p]) = place[p][1] /\ 1 \in DOMAIN place[p] /\ place[p][1] \in Frame
      /\ \A i \in DOMAIN after[p] :
           i + 1 \in DOMAIN place[p] \ {1} /\ after[p][i] = place[p][i + 1]
      /\ \A i \in DOMAIN place[p] \ {1} : i - 1 \in DOMAIN after[p]
  BY <1>1, Stolen
<1>3. DOMAIN after[p] \subseteq Nat /\ DOMAIN place[p] \subseteq Nat
  BY <1>1, Stolen, LenProperties
<1>. DEFINE back == [i \in DOMAIN after[p] |-> i + 1]
<1>4. \A i \in DOMAIN after[p] : back[i] = i + 1
  OBVIOUS
<1>. HIDE DEF back
<1>5. \A i, j \in DOMAIN after[p] : back[i] = back[j] => i = j
  BY <1>3, <1>4
<1>6. \A k \in DOMAIN place[p] \ {1} : \E i \in DOMAIN after[p] : back[i] = k
  <2>. TAKE k \in DOMAIN place[p] \ {1}
  <2>1. k - 1 \in DOMAIN after[p] /\ (k - 1) + 1 = k
    BY <1>2, <1>3
  <2>. QED
    BY <1>4, <2>1
<1>7. \A i \in DOMAIN after[p] :
        back[i] \in DOMAIN place[p] \ {1} /\ after[p][i] = place[p][back[i]]
  BY <1>2, <1>4
<1>8. RemovesCell(place, after, p, 1, back)
  BY <1>2, <1>5, <1>6, <1>7 DEF RemovesCell
<1>9. /\ PlainApart(after) /\ Held(after) \subseteq Held(place)
      /\ place[p][1] \in Plain => place[p][1] \notin Held(after)
      /\ Held(place) \subseteq Held(after) \union {place[p][1]}
  BY <1>8, PlainRemoved
<1>. QED
  BY <1>2, <1>9 DEF Held

-----------------------------------------------------------------------------
(***************************************************************************)
(* The frames whose closures are innermost and in some step                *)
(***************************************************************************)
LEMMA CurrentInStep ==
  ASSUME TypeOK, PlainApart(stack), NEW p \in Thread, stack[p] # <<>>, Current(p) \in Plain
  PROVE  /\ \A q \in Thread : stack[q] # <<>> /\ Current(q) = Current(p) => q = p
         /\ \A L : Current(p) \in InStep(L) <=> pc[p] \in L
<1>1. \A q \in Thread : stack[q] # <<>> /\ Current(q) = Current(p) => q = p
  BY InnermostCell DEF PlainApart
<1>. QED
  BY <1>1, InnermostCell DEF InStep

LEMMA OutsideStep ==
  ASSUME NEW p \in Thread, NEW L, pc[p] \notin L, pc'[p] \notin L,
         \A q \in Thread \ {p} : pc'[q] = pc[q] /\ stack'[q] = stack[q]
  PROVE  InStep(L)' = InStep(L)
<1>1. \A q \in Thread \ {p} : Current(q)' = Current(q)
  BY DEF Current
<1>. QED
  BY <1>1 DEF InStep

LEMMA WithinStep ==
  ASSUME NEW p \in Thread, NEW L, pc[p] \in L, pc'[p] \in L, stack' = stack,
         \A q \in Thread \ {p} : pc'[q] = pc[q]
  PROVE  InStep(L)' = InStep(L)
<1>1. \A q \in Thread : Current(q)' = Current(q)
  BY DEF Current
<1>. QED
  BY <1>1 DEF InStep

LEMMA IntoStep ==
  ASSUME NEW p \in Thread, NEW L, pc[p] \notin L, pc'[p] \in L,
         \A q \in Thread \ {p} : pc'[q] = pc[q] /\ stack'[q] = stack[q],
         stack'[p] # <<>>, NEW f \in Frame, f = Current(p)'
  PROVE  InStep(L)' = InStep(L) \union {f}
<1>1. \A q \in Thread \ {p} : Current(q)' = Current(q)
  BY DEF Current
<1>. QED
  BY <1>1 DEF InStep

LEMMA OutOfStep ==
  ASSUME TypeOK, PlainApart(stack), NEW p \in Thread, NEW L, pc[p] \in L, pc'[p] \notin L,
         \A q \in Thread \ {p} : pc'[q] = pc[q] /\ stack'[q] = stack[q],
         stack[p] # <<>>, NEW f \in Frame, f = Current(p)
  PROVE  /\ InStep(L)' \subseteq InStep(L) /\ InStep(L) \subseteq InStep(L)' \union {f}
         /\ f \in Plain => InStep(L)' = InStep(L) \ {f}
<1>1. \A q \in Thread \ {p} : Current(q)' = Current(q)
  BY DEF Current
<1>2. InStep(L)' \subseteq InStep(L) /\ InStep(L) \subseteq InStep(L)' \union {f}
  BY <1>1 DEF InStep
<1>3. f \in Plain => f \notin InStep(L)'
  BY <1>1, CurrentInStep DEF InStep
<1>. QED
  BY <1>2, <1>3

-----------------------------------------------------------------------------
(***************************************************************************)
(* Each part of the invariant, over the steps that leave it alone          *)
(***************************************************************************)
LEMMA PlainOnceStays ==
  ASSUME PlainOnce, UNCHANGED <<queue, stack, runs>>,
         InStep({"run"})' \subseteq InStep({"run"}),
         \A q \in Thread : pc'[q] = "push" => pc[q] = "push" /\ next'[q] = next[q]
  PROVE  PlainOnce'
<1>1. Queued' = Queued /\ Active' = Active /\ \A f : Fresh(f)' = Fresh(f)
  BY DEF Queued, InQueue, Active, Fresh
<1>2. \A q \in Thread : Current(q)' = Current(q)
  BY DEF Current
<1>3. PlainApart(queue)' /\ PlainApart(stack)'
  BY DEF PlainOnce, PlainApart
<1>. QED
  BY <1>1, <1>2, <1>3 DEF PlainOnce

LEMMA SignalStays ==
  ASSUME SignalInv, UNCHANGED <<stack, runs, signalled>>, InStep(After)' = InStep(After)
  PROVE  SignalInv'
<1>1. Active' = Active
  BY DEF Active
<1>. QED
  BY <1>1 DEF SignalInv

LEMMA CounterStays ==
  ASSUME CounterInv,
         \A d \in Frame \ Plain :
           /\ runs'[Parent[d]] > 0 /\ Parent[d] \notin InStep({"run"})' =>
                runs[Parent[d]] > 0 /\ Parent[d] \notin InStep({"run"})
           /\ dependenciesNo'[d] = dependenciesNo[d]
           /\ Missing(d)' = Missing(d)
  PROVE  CounterInv'
BY DEF CounterInv

LEMMA MissingStays ==
  ASSUME signalled' = signalled, InStep(Decreasing)' = InStep(Decreasing)
  PROVE  \A d : Missing(d)' = Missing(d)
BY DEF Missing

LEMMA ReadyStays ==
  ASSUME ReadyInv, signalled \subseteq signalled',
         \A q \in Thread : pc'[q] = "push_dep" =>
           pc[q] = "push_dep" /\ Current(q)' = Current(q)
  PROVE  ReadyInv'
BY DEF ReadyInv, Awaits

LEMMA InputsStayFirst ==
  ASSUME TypeOK, TypeOK', InputsComeFirst, signalled \subseteq signalled',
         \A d \in Frame \ Plain :
           d \in Queued' \union Active' => d \in Queued \union Active \/ ~Awaits(d)
  PROVE  InputsComeFirst'
<1>1. \A f \in Plain : ~Awaits(f)'
  BY DEF Plain, Awaits
<1>2. \A f \in Frame : ~Awaits(f) => ~Awaits(f)'
  BY DEF Awaits
<1>3. \A f \in Frame : (f \in Queued <=> InQueue(f)) /\ (f \in Queued' <=> InQueue(f)')
  BY DEF Queued
<1>. QED
  BY <1>1, <1>2, <1>3 DEF InputsComeFirst

\* a step that moves no frame and counts nothing
LEMMA QuietFlow ==
  ASSUME TypeInv, TypeInv', FlowInv,
         UNCHANGED <<queue, stack, runs, signalled, dependenciesNo>>,
         \A q \in Thread : /\ pc'[q] = "push" => pc[q] = "push" /\ next'[q] = next[q]
                           /\ pc'[q] = "push_dep" => pc[q] = "push_dep",
         InStep({"run"})' \subseteq InStep({"run"}),
         \A d \in Frame \ Plain : Parent[d] \in InStep({"run"}) => Parent[d] \in InStep({"run"})',
         InStep(After)' = InStep(After), InStep(Decreasing)' = InStep(Decreasing)
  PROVE  FlowInv'
<1>. USE DEF FlowInv
<1>1. PlainOnce' /\ SignalInv'
  BY PlainOnceStays, SignalStays
<1>2. CounterInv'
  BY MissingStays, CounterStays
<1>3. ReadyInv'
  BY ReadyStays DEF Current
<1>4. Queued' = Queued /\ Active' = Active
  BY DEF Queued, InQueue, Active
<1>5. InputsComeFirst'
  BY <1>4, InputsStayFirst DEF TypeInv
<1>. QED
  BY <1>1, <1>2, <1>3, <1>5

LEMMA QuietMovesFlow ==
  ASSUME TypeInv, TypeInv', FlowInv, NEW p \in Thread,
         UNCHANGED <<queue, stack, runs, signalled, dependenciesNo>>,
         \A q \in Thread \ {p} : pc'[q] = pc[q] /\ next'[q] = next[q],
         pc[p] \notin {"run"} \union After, pc'[p] \notin {"run", "push"} \union After
  PROVE  FlowInv'
<1>1. \A q \in Thread \ {p} : pc'[q] = pc[q] /\ stack'[q] = stack[q]
  OBVIOUS
<1>2. InStep({"run"})' = InStep({"run"}) /\ InStep(After)' = InStep(After)
  BY <1>1, OutsideStep
<1>3. InStep(Decreasing)' = InStep(Decreasing)
  BY <1>1, OutsideStep DEF After, Decreasing
<1>4. \A q \in Thread : /\ pc'[q] = "push" => pc[q] = "push" /\ next'[q] = next[q]
                        /\ pc'[q] = "push_dep" => pc[q] = "push_dep"
  BY DEF After
<1>. QED
  BY <1>2, <1>3, <1>4, QuietFlow

-----------------------------------------------------------------------------
(***************************************************************************)
(* The steps                                                               *)
(***************************************************************************)
LEMMA MainFlow ==
  ASSUME TypeInv, TypeInv', FlowInv, MainInv, MainStep
  PROVE  FlowInv'
<1>1. CASE StartThread
  <2>1. main.at \in Thread /\ pc[main.at] = "created"
    BY <1>1 DEF StartThread, TypeInv, TypeOK, MainInv, Thread
  <2>2. PICK label \in {"check", "failed"} : Goto(main.at, label)
    BY <1>1 DEF StartThread
  <2>3. pc'[main.at] = label /\ \A q \in Thread \ {main.at} : pc'[q] = pc[q]
    BY <2>1, <2>2, GotoMoves DEF TypeInv, Label
  <2>4. UNCHANGED <<queue, stack, runs, signalled, dependenciesNo, next>>
    BY <1>1 DEF StartThread, work, locals, data, history
  <2>. QED
    BY <2>1, <2>3, <2>4, QuietMovesFlow DEF After
<1>2. CASE JoinThread \/ JoinFailed
  <2>1. UNCHANGED <<queue, stack, pc, runs, signalled, dependenciesNo, next>>
    BY <1>2 DEF JoinThread, JoinFailed, work, locals, data, history
  <2>2. \A L : InStep(L)' = InStep(L)
    BY <2>1 DEF InStep, Current
  <2>. QED
    BY <2>1, <2>2, QuietFlow
<1>. QED
  BY <1>1, <1>2 DEF MainStep

\* the loops, a search for work that finds none, and the sum of the results
LEMMA LookForWorkFlow ==
  ASSUME TypeInv, TypeInv', FlowInv, NEW p \in Thread,
         \/ ThreadLoop(p) \/ SyncLoop(p) \/ Inform(p) \/ Finish(p)
         \/ PopEmpty(p) \/ StealRead(p) \/ StealEmpty(p) \/ StealAbort(p)
  PROVE  FlowInv'
<1>1. pc[p] \in {"check", "inform", "pop", "steal", "steal_cas", "finish"}
  BY DEF ThreadLoop, SyncLoop, Inform, PopEmpty, StealRead, StealEmpty, StealAbort, Finish
<1>2. UNCHANGED <<queue, stack, runs, signalled, dependenciesNo>>
  BY DEF ThreadLoop, SyncLoop, Inform, PopEmpty, StealRead, StealEmpty, StealAbort, Finish,
         work, data, history
<1>3. \A q \in Thread \ {p} : next'[q] = next[q]
  <2>1. next' = next \/ Inform(p)
    BY DEF ThreadLoop, SyncLoop, PopEmpty, StealRead, StealEmpty, StealAbort, Finish, locals
  <2>. QED
    BY <2>1 DEF Inform, TypeInv, TypeOK
<1>4. \/ pc' = pc
      \/ \E label \in {"check", "inform", "exited", "pop", "steal", "steal_cas", "finish",
                       "signal_sync"} : Goto(p, label)
  BY DEF ThreadLoop, SyncLoop, Inform, PopEmpty, StealRead, StealEmpty, StealAbort, Finish
<1>5. /\ \A q \in Thread \ {p} : pc'[q] = pc[q]
      /\ pc'[p] \in {"check", "inform", "exited", "pop", "steal", "steal_cas", "finish",
                     "signal_sync"}
  BY <1>1, <1>4, GotoMoves DEF TypeInv, Label
<1>. QED
  BY <1>1, <1>2, <1>3, <1>5, QuietMovesFlow DEF After

LEMMA RunLeafFlow ==
  ASSUME TypeInv, TypeInv', FlowInv, NEW p \in Thread, RunLeaf(p)
  PROVE  FlowInv'
<1>0. PICK f : f = Current(p)
  OBVIOUS
<1>1. /\ pc[p] = "run" /\ stack[p] # <<>> /\ Spawned[f] = <<>>
      /\ UNCHANGED <<queue, stack, runs, signalled, dependenciesNo, next>>
  BY <1>0 DEF RunLeaf, TypeInv, TypeOK, work, locals, data, history
<1>2. pc'[p] = "finish" /\ \A q \in Thread \ {p} : pc'[q] = pc[q] /\ stack'[q] = stack[q]
  BY <1>1, GotoMoves DEF RunLeaf, TypeInv, Label
<1>3. f \in Frame
  BY <1>0, <1>1, CurrentIsFrame DEF TypeInv
<1>4. /\ InStep({"run"})' \subseteq InStep({"run"})
      /\ InStep({"run"}) \subseteq InStep({"run"})' \union {f}
  BY <1>0, <1>1, <1>2, <1>3, OutOfStep DEF TypeInv, FlowInv, PlainOnce
<1>5. \A d \in Frame \ Plain : Parent[d] # f
  BY <1>1, AwaitingParentSpawns DEF Plain
<1>6. InStep(After)' = InStep(After) /\ InStep(Decreasing)' = InStep(Decreasing)
  BY <1>1, <1>2, OutsideStep DEF After, Decreasing
<1>7. \A q \in Thread : /\ pc'[q] = "push" => pc[q] = "push" /\ next'[q] = next[q]
                        /\ pc'[q] = "push_dep" => pc[q] = "push_dep"
  BY <1>1, <1>2
<1>. QED
  BY <1>1, <1>4, <1>5, <1>6, <1>7, QuietFlow

LEMMA ReadGoneFlow ==
  ASSUME TypeInv, TypeInv', FlowInv, NEW p \in Thread, ReadGone(p)
  PROVE  FlowInv'
<1>1. /\ pc[p] = "signal_deps"
      /\ UNCHANGED <<queue, stack, runs, signalled, dependenciesNo, next>>
  BY DEF ReadGone, work, locals, data, history
<1>2. pc'[p] = "crashed" /\ \A q \in Thread \ {p} : pc'[q] = pc[q] /\ stack'[q] = stack[q]
  BY <1>1, GotoMoves DEF ReadGone, TypeInv, Label
<1>3. InStep(After)' = InStep(After) /\ InStep(Decreasing)' = InStep(Decreasing)
  BY <1>1, <1>2, WithinStep DEF After, Decreasing
<1>4. InStep({"run"})' = InStep({"run"})
  BY <1>1, <1>2, OutsideStep
<1>5. \A q \in Thread : /\ pc'[q] = "push" => pc[q] = "push" /\ next'[q] = next[q]
                        /\ pc'[q] = "push_dep" => pc[q] = "push_dep"
  BY <1>1, <1>2
<1>. QED
  BY <1>1, <1>3, <1>4, <1>5, QuietFlow

\* A pop or a steal that succeeds takes a frame from a queue; there may be
\* more of it there if it awaits data.
LEMMA TakesQueued ==
  ASSUME TypeInv, PlainApart(queue), NEW p \in Thread, PopFrame(p) \/ StealSuccess(p)
  PROVE  \E g \in Frame : /\ g \in Queued /\ Queued' \subseteq Queued
                          /\ Queued \subseteq Queued' \union {g}
                          /\ g \in Plain => g \notin Queued'
                          /\ PlainApart(queue)' /\ Enter(p, g)
<1>0. queue \in [Thread -> Seq(Frame)] /\ roundRobin[p] \in Thread
  BY DEF TypeInv, TypeOK
<1>1. Queued' = Held(queue')
  BY DEF Queued, InQueue, Held, Range
<1>2. CASE PopFrame(p)
  <2>1. /\ queue[p] # <<>> /\ queue'[p] = SubSeq(queue[p], 1, Len(queue[p]) - 1)
        /\ \A q \in Thread \ {p} : queue'[q] = queue[q]
        /\ Enter(p, queue[p][Len(queue[p])])
    BY <1>0, <1>2 DEF PopFrame
  <2>2. PICK g \in Frame : g = queue[p][Len(queue[p])]
    BY <2>1, TopIsFrame DEF TypeInv
  <2>3. /\ PlainApart(queue') /\ Held(queue') \subseteq Held(queue)
        /\ g \in Plain => g \notin Held(queue')
        /\ g \in Held(queue) /\ Held(queue) \subseteq Held(queue') \union {g}
    <3>1. /\ queue[p] # <<>> /\ queue'[p] = SubSeq(queue[p], 1, Len(queue[p]) - 1)
          /\ \A q \in Thread \ {p} : queue'[q] = queue[q]
      BY <2>1
    <3>. QED
      BY <1>0, <2>2, <3>1, PlainRemoveLast
  <2>. QED
    BY <1>1, <2>1, <2>2, <2>3, QueuedHeld DEF PlainApart
<1>3. CASE StealSuccess(p)
  <2>1. PICK r \in Thread : r = roundRobin[p]
    BY <1>0
  <2>2. /\ queue[r] # <<>> /\ queue'[r] = Tail(queue[r])
        /\ \A q \in Thread \ {r} : queue'[q] = queue[q]
        /\ Enter(p, Head(queue[r]))
    BY <1>0, <1>3, <2>1 DEF StealSuccess, TopUnchanged
  <2>3. PICK g \in Frame : g = Head(queue[r])
    BY <2>2, TopIsFrame DEF TypeInv
  <2>4. /\ PlainApart(queue') /\ Held(queue') \subseteq Held(queue)
        /\ g \in Plain => g \notin Held(queue')
        /\ g \in Held(queue) /\ Held(queue) \subseteq Held(queue') \union {g}
    <3>1. /\ queue[r] # <<>> /\ queue'[r] = Tail(queue[r])
          /\ \A q \in Thread \ {r} : queue'[q] = queue[q]
      BY <2>2
    <3>2. /\ PlainApart(queue') /\ Held(queue') \subseteq Held(queue)
          /\ Head(queue[r]) \in Plain => Head(queue[r]) \notin Held(queue')
          /\ Head(queue[r]) \in Held(queue)
          /\ Held(queue) \subseteq Held(queue') \union {Head(queue[r])}
      BY <1>0, <3>1, PlainRemoveFirst
    <3>. QED
      BY <2>3, <3>2
  <2>. QED
    BY <1>1, <2>2, <2>3, <2>4, QueuedHeld DEF PlainApart
<1>. QED
  BY <1>2, <1>3

LEMMA EnterFlow ==
  ASSUME SumsAreLeaves, TypeInv, TypeInv', FlowInv,
         NEW p \in Thread, PopFrame(p) \/ StealSuccess(p)
  PROVE  FlowInv'
<1>. USE DEF TypeInv, FlowInv
<1>1. PICK g \in Frame : /\ g \in Queued /\ Queued' \subseteq Queued
                         /\ g \in Plain => g \notin Queued'
                         /\ PlainApart(queue)' /\ Enter(p, g)
  BY TakesQueued DEF PlainOnce
<1>2. /\ pc'[p] = "run" /\ stack'[p] = Append(stack[p], g) /\ stack'[p] # <<>>
      /\ runs'[g] = runs[g] + 1 /\ \A h \in Frame \ {g} : runs'[h] = runs[h]
      /\ \A q \in Thread \ {p} : pc'[q] = pc[q] /\ stack'[q] = stack[q]
  BY <1>1, EnterMoves
<1>3. /\ pc[p] \in {"pop", "steal_cas"}
      /\ UNCHANGED <<next, signalled, dependenciesNo>>
  BY DEF PopFrame, StealSuccess, locals, data
<1>4. \A h \in Frame : runs[h] \in Nat
  BY DEF TypeOK
<1>5. \A h \in Frame : runs[h] > 0 => runs'[h] > 0
  BY <1>2, <1>4
<1>6. g \in Plain => g \notin Active
  BY <1>1 DEF PlainOnce
<1>7. Active' = Active \union {g} /\ PlainApart(stack)' /\ Current(p)' = g
  <2>1. stack \in [Thread -> Seq(Frame)] /\ PlainApart(stack) /\ Active = Held(stack)
    BY ActiveHeld DEF TypeOK, PlainOnce
  <2>2. PlainApart(stack') /\ Held(stack') = Held(stack) \union {g}
    BY <1>2, <1>6, <2>1, PlainAppend
  <2>3. (Active = Held(stack))'
    BY ActiveHeld, PTL
  <2>4. Active' = Held(stack')
    BY <2>3 DEF Held
  <2>5. Current(p)' = g
    BY <1>2, <2>1, Pushed DEF Current
  <2>. QED
    BY <2>1, <2>2, <2>4, <2>5 DEF PlainApart
<1>8. InStep({"run"})' = InStep({"run"}) \union {g}
  BY <1>2, <1>3, <1>7, IntoStep
<1>9. InStep(After)' = InStep(After) /\ InStep(Decreasing)' = InStep(Decreasing)
  BY <1>2, <1>3, OutsideStep DEF After, Decreasing
<1>10. \A h \in Frame : Fresh(h) => Fresh(h)'
  BY <1>1, <1>2 DEF Fresh
<1>11. PlainOnce'
  <2>1. \A f \in Plain : runs'[f] \in {0, 1} /\ (f \in Queued' => runs'[f] = 0)
    BY <1>1, <1>2 DEF PlainOnce, Plain
  <2>2. \A f \in Active' : runs'[f] > 0
    <3>1. runs'[g] > 0
      BY <1>2, <1>4
    <3>2. Active \subseteq Frame
      BY ActiveHeld DEF Held
    <3>. QED
      BY <1>5, <1>7, <3>1, <3>2 DEF PlainOnce
  <2>3. ASSUME NEW f \in Plain \ {Root}, runs'[Parent[f]] = 0 \/ Parent[f] \in InStep({"run"})'
        PROVE  Fresh(f)'
    <3>1. f \in Frame /\ Parent[f] \in Plain /\ Parent[f] \in Frame
      BY PlainParent DEF Plain
    <3>2. runs[Parent[f]] = 0 \/ Parent[f] \in InStep({"run"})
      BY <1>1, <1>2, <1>4, <1>8, <2>3, <3>1 DEF PlainOnce
    <3>. QED
      BY <1>10, <3>1, <3>2 DEF PlainOnce
  <2>4. ASSUME NEW q \in Thread, pc'[q] = "push",
               NEW i \in DOMAIN Spawned[Current(q)]', i >= next'[q]
        PROVE  Fresh(Spawned[Current(q)][i])'
    <3>1. q # p /\ pc[q] = "push" /\ Current(q)' = Current(q)
      BY <1>2, <2>4 DEF Current
    <3>2. Current(q) \in Frame
      BY <3>1, CurrentIsFrame DEF TypeOK
    <3>3. PICK h \in Frame : h = Spawned[Current(q)][i]
      BY <2>4, <3>1, <3>2, SpawnedFrames
    <3>4. Fresh(h)
      BY <1>3, <2>4, <3>1, <3>3 DEF PlainOnce
    <3>5. Fresh(h)'
      BY <1>10, <3>4
    <3>. QED
      BY <3>1, <3>3, <3>5 DEF Fresh
  <2>. QED
    BY <1>1, <1>7, <2>1, <2>2, <2>3, <2>4 DEF PlainOnce
<1>12. SignalInv'
  <2>1. \A f \in signalled' : runs'[f] > 0
    BY <1>3, <1>5 DEF SignalInv, TypeOK
  <2>2. \A f \in Active' \intersect Plain : f \in signalled' => f \in InStep(After)'
    BY <1>1, <1>3, <1>7, <1>9 DEF SignalInv, PlainOnce
  <2>. QED
    BY <1>3, <1>9, <2>1, <2>2 DEF SignalInv
<1>13. CounterInv'
  <2>1. \A d \in Frame \ Plain : Parent[d] \in Frame
    BY InputsArePlain
  <2>2. \A d \in Frame \ Plain :
           runs'[Parent[d]] > 0 /\ Parent[d] \notin InStep({"run"})' =>
             runs[Parent[d]] > 0 /\ Parent[d] \notin InStep({"run"})
    BY <1>2, <1>8, <2>1
  <2>. QED
    BY <1>3, <1>9, <2>2, MissingStays, CounterStays
<1>14. ReadyInv'
  BY <1>2, <1>3, ReadyStays DEF Current
<1>15. InputsComeFirst'
  BY <1>1, <1>3, <1>7, InputsStayFirst
<1>. QED
  BY <1>11, <1>12, <1>13, <1>14, <1>15

LEMMA RunSpawnFlow ==
  ASSUME SumsAreLeaves, TypeInv, TypeInv', FlowInv, NEW p \in Thread, RunSpawn(p)
  PROVE  FlowInv'
<1>. USE DEF TypeInv, FlowInv
<1>0. PICK f : f = Current(p)
  OBVIOUS
<1>1. /\ pc[p] = "run" /\ stack[p] # <<>> /\ Spawned[f] # <<>>
      /\ UNCHANGED <<queue, stack, runs, signalled>>
  BY <1>0 DEF RunSpawn, TypeOK, work, history
<1>2. pc'[p] = "push" /\ \A q \in Thread \ {p} : pc'[q] = pc[q] /\ stack'[q] = stack[q]
  BY <1>1, GotoMoves DEF RunSpawn, Label
<1>3. f \in Frame /\ f \in Plain /\ Current(p)' = f
  BY <1>0, <1>1, CurrentIsFrame, SpawnersArePlain DEF Current
<1>4. next'[p] = 1 /\ \A q \in Thread \ {p} : next'[q] = next[q]
  BY DEF RunSpawn, TypeOK
<1>5. InStep({"run"})' = InStep({"run"}) \ {f} /\ f \in InStep({"run"})
  <2>1. f \in InStep({"run"})
    BY <1>0, <1>1, <1>3 DEF InStep
  <2>. QED
    BY <1>0, <1>1, <1>2, <1>3, <2>1, OutOfStep DEF PlainOnce
<1>6. InStep(After)' = InStep(After) /\ InStep(Decreasing)' = InStep(Decreasing)
  BY <1>1, <1>2, OutsideStep DEF After, Decreasing
<1>7. /\ Queued' = Queued /\ Active' = Active /\ \A h : Fresh(h)' = Fresh(h)
      /\ \A q \in Thread : Current(q)' = Current(q)
  BY <1>1 DEF Queued, InQueue, Active, Fresh, Current
<1>8. \A h \in Plain \ {Root} : Parent[h] = f => Fresh(h)
  BY <1>5 DEF PlainOnce
<1>9. PlainOnce'
  <2>1. PlainApart(queue)' /\ PlainApart(stack)'
    BY <1>1 DEF PlainOnce, PlainApart
  <2>2. ASSUME NEW q \in Thread, pc'[q] = "push", NEW i \in DOMAIN Spawned[Current(q)], i >= next'[q]
        PROVE  Fresh(Spawned[Current(q)][i])
    <3>1. CASE q = p
      <4>1. Spawned[f][i] \in Plain \ {Root} /\ Parent[Spawned[f][i]] = f
        BY <1>0, <1>3, <2>2, <3>1, SpawnersArePlain
      <4>. QED
        BY <1>0, <1>8, <3>1, <4>1
    <3>2. CASE q # p
      BY <1>2, <1>4, <2>2, <3>2 DEF PlainOnce
    <3>. QED
      BY <3>1, <3>2
  <2>. QED
    BY <1>1, <1>5, <1>7, <2>1, <2>2 DEF PlainOnce
<1>10. SignalInv'
  BY <1>1, <1>6, SignalStays
<1>11. CounterInv'
  <2>1. \A d : Missing(d)' = Missing(d)
    BY <1>1, <1>6, MissingStays
  <2>. SUFFICES ASSUME NEW d \in Frame \ Plain,
                       runs[Parent[d]] > 0, Parent[d] \notin InStep({"run"}) \ {f}
                PROVE  dependenciesNo'[d] = Cardinality(Missing(d))
    BY <1>1, <1>5, <2>1 DEF CounterInv
  <2>2. /\ d \in Frame /\ d # Root /\ d \in SyncFrames(Parent[d])
        /\ \A g \in Inputs(d) : g \in Plain \ {Root} /\ Parent[g] = Parent[d]
    BY InputsArePlain
  <2>3. dependenciesNo'[d] = IF d \in SyncFrames(f) THEN InputsToAwait(d) ELSE dependenciesNo[d]
    BY <1>0, <2>2 DEF RunSpawn
  <2>4. CASE Parent[d] = f
    <3>1. dependenciesNo'[d] = Cardinality(Inputs(d))
      BY <2>2, <2>3, <2>4 DEF InputsToAwait
    <3>2. \A g \in Inputs(d) : g \notin signalled
      <4>1. \A g \in Inputs(d) : g \in Frame /\ runs[g] = 0
        BY <1>8, <2>2, <2>4 DEF Fresh, Inputs
      <4>. QED
        BY <4>1 DEF SignalInv
    <3>3. Missing(d) = Inputs(d)
      BY <3>2 DEF Missing
    <3>. QED
      BY <3>1, <3>3
  <2>5. CASE Parent[d] # f
    BY <2>3, <2>5 DEF CounterInv, SyncFrames
  <2>. QED
    BY <2>4, <2>5
<1>12. ReadyInv'
  BY <1>1, <1>2, <1>7, ReadyStays
<1>13. InputsComeFirst'
  BY <1>1, <1>7, InputsStayFirst
<1>. QED
  BY <1>9, <1>10, <1>11, <1>12, <1>13

LEMMA SignalSyncFlow ==
  ASSUME TypeInv, TypeInv', FlowInv, NEW p \in Thread, SignalSync(p)
  PROVE  FlowInv'
<1>. USE DEF TypeInv, FlowInv
<1>0. PICK f : f = Current(p)
  OBVIOUS
<1>1. /\ pc[p] = "signal_sync" /\ stack[p] # <<>>
      /\ signalled' = signalled \union {f}
      /\ UNCHANGED <<queue, stack, runs, dependenciesNo, next>>
  BY <1>0 DEF SignalSync, TypeOK, work, locals
<1>2. pc'[p] = "signal_deps" /\ \A q \in Thread \ {p} : pc'[q] = pc[q] /\ stack'[q] = stack[q]
  BY <1>1, GotoMoves DEF SignalSync, Label
<1>3. f \in Frame /\ f \in Active /\ Current(p)' = f /\ stack'[p] # <<>>
  BY <1>0, <1>1, InnermostCell DEF Current
<1>4. InStep({"run"})' = InStep({"run"})
  BY <1>1, <1>2, OutsideStep
<1>5. /\ InStep(After)' = InStep(After) \union {f}
      /\ InStep(Decreasing)' = InStep(Decreasing) \union {f}
  BY <1>1, <1>2, <1>3, IntoStep DEF After, Decreasing
<1>6. Queued' = Queued /\ Active' = Active /\ \A q \in Thread : Current(q)' = Current(q)
  BY <1>1 DEF Queued, InQueue, Active, Current
<1>7. f \in Plain => f \notin signalled
  <2>1. f \in Plain => f \notin InStep(After)
    BY <1>0, <1>1, CurrentInStep DEF PlainOnce, After
  <2>. QED
    BY <1>3, <2>1 DEF SignalInv
<1>8. PlainOnce'
  BY <1>1, <1>2, <1>4, PlainOnceStays
<1>9. SignalInv'
  BY <1>1, <1>3, <1>5, <1>6 DEF SignalInv, PlainOnce
<1>10. CounterInv'
  <2>1. ASSUME NEW d \in Frame \ Plain PROVE Missing(d)' = Missing(d)
    <3>1. f \in Inputs(d) => f \in Plain
      BY InputsArePlain
    <3>. QED
      BY <1>1, <1>5, <1>7, <3>1 DEF Missing
  <2>. QED
    BY <1>1, <1>4, <2>1, CounterStays
<1>11. ReadyInv'
  BY <1>1, <1>2, <1>6, ReadyStays
<1>12. InputsComeFirst'
  BY <1>1, <1>6, InputsStayFirst
<1>. QED
  BY <1>8, <1>9, <1>10, <1>11, <1>12

LEMMA SignalDependenciesFlow ==
  ASSUME TypeInv, TypeInv', FlowInv, NEW p \in Thread, SignalDependencies(p)
  PROVE  FlowInv'
<1>. USE DEF TypeInv, FlowInv
<1>0. PICK f : f = Current(p)
  OBVIOUS
<1>1. /\ pc[p] = "signal_deps" /\ stack[p] # <<>>
      /\ UNCHANGED <<queue, stack, runs, signalled, next>>
  BY DEF SignalDependencies, TypeOK, work, locals, history
<1>2. /\ pc'[p] \in {"frame_done", "test_deps"}
      /\ \A q \in Thread \ {p} : pc'[q] = pc[q] /\ stack'[q] = stack[q]
  <2>1. Goto(p, "frame_done") \/ Goto(p, "test_deps")
    BY DEF SignalDependencies
  <2>. QED
    BY <1>1, <2>1, GotoMoves DEF Label
<1>3. f \in Frame
  BY <1>0, <1>1, CurrentIsFrame
<1>4. InStep({"run"})' = InStep({"run"})
  BY <1>1, <1>2, OutsideStep
<1>5. InStep(After)' = InStep(After)
  BY <1>1, <1>2, WithinStep DEF After
<1>6. f \in InStep(After) /\ f \in InStep(Decreasing)
  BY <1>0, <1>1, <1>3 DEF InStep, After, Decreasing
<1>7. /\ \A h : h # f => (h \in InStep(Decreasing)' <=> h \in InStep(Decreasing))
      /\ f \in Plain => f \notin InStep(Decreasing)'
  <2>1. /\ InStep(Decreasing)' \subseteq InStep(Decreasing)
        /\ InStep(Decreasing) \subseteq InStep(Decreasing)' \union {f}
        /\ f \in Plain => InStep(Decreasing)' = InStep(Decreasing) \ {f}
    BY <1>0, <1>1, <1>2, <1>3, OutOfStep DEF PlainOnce, Decreasing
  <2>. QED
    BY <2>1
<1>8. Queued' = Queued /\ Active' = Active /\ \A q \in Thread : Current(q)' = Current(q)
  BY <1>1 DEF Queued, InQueue, Active, Current
<1>9. PlainOnce' /\ SignalInv'
  BY <1>1, <1>2, <1>4, <1>5, PlainOnceStays, SignalStays
<1>10. CounterInv'
  <2>. SUFFICES ASSUME NEW d \in Frame \ Plain,
                       runs[Parent[d]] > 0, Parent[d] \notin InStep({"run"})
                PROVE  dependenciesNo'[d] = Cardinality(Missing(d)')
    BY <1>1, <1>4 DEF CounterInv
  <2>1. dependenciesNo[d] = Cardinality(Missing(d)) /\ Missing(d) \in SUBSET Frame
    BY DEF CounterInv, Missing, Inputs
  <2>2. CASE Dependent[f] = d
    <3>1. f \in Inputs(d) /\ f \in Plain /\ f \in Missing(d)
      BY <1>3, <1>6, <2>2, InputsArePlain DEF Inputs, Missing
    <3>2. Missing(d)' = Missing(d) \ {f}
      BY <1>1, <1>5, <1>6, <1>7, <3>1 DEF Missing, SignalInv
    <3>3. d # None
      BY SchedulerAssumption
    <3>4. dependenciesNo'[d] = (dependenciesNo[d] - 1) % SizeRange
      BY <1>0, <2>2, <3>3 DEF SignalDependencies, Decrement, TypeOK
    <3>. QED
      BY <2>1, <3>1, <3>2, <3>4, CountDown
  <2>3. CASE Dependent[f] # d
    <3>1. dependenciesNo'[d] = dependenciesNo[d]
      BY <1>0, <2>3 DEF SignalDependencies, Decrement, TypeOK
    <3>2. Missing(d)' = Missing(d)
      BY <1>1, <1>7, <2>3 DEF Missing, Inputs
    <3>. QED
      BY <2>1, <3>1, <3>2
  <2>. QED
    BY <2>2, <2>3
<1>11. ReadyInv'
  BY <1>1, <1>2, <1>8, ReadyStays
<1>12. InputsComeFirst'
  BY <1>1, <1>8, InputsStayFirst
<1>. QED
  BY <1>9, <1>10, <1>11, <1>12

LEMMA TestDependenciesFlow ==
  ASSUME TypeInv, TypeInv', FlowInv, NEW p \in Thread, TestDependencies(p)
  PROVE  FlowInv'
<1>. USE DEF TypeInv, FlowInv
<1>0. PICK f : f = Current(p)
  OBVIOUS
<1>1. /\ pc[p] = "test_deps" /\ stack[p] # <<>>
      /\ UNCHANGED <<queue, stack, runs, signalled, dependenciesNo, next>>
  BY DEF TestDependencies, TypeOK, work, locals, data, history
<1>2. /\ pc'[p] \in {"frame_done", "push_dep"}
      /\ pc'[p] = "push_dep" => dependenciesNo[Dependent[f]] = 0
      /\ \A q \in Thread \ {p} : pc'[q] = pc[q] /\ stack'[q] = stack[q]
  <2>1. PICK label \in {"frame_done", "push_dep"} :
          Goto(p, label) /\ (label = "push_dep" => dependenciesNo[Dependent[f]] = 0)
    BY <1>0 DEF TestDependencies, DependenciesMet
  <2>. QED
    BY <1>1, <2>1, GotoMoves DEF Label
<1>3. f \in Frame /\ f \in Active
  BY <1>0, <1>1, InnermostCell
<1>4. /\ InStep({"run"})' = InStep({"run"})
      /\ InStep(After)' = InStep(After) /\ InStep(Decreasing)' = InStep(Decreasing)
  BY <1>1, <1>2, OutsideStep, WithinStep DEF After, Decreasing
<1>5. Queued' = Queued /\ Active' = Active /\ \A q \in Thread : Current(q)' = Current(q)
  BY <1>1 DEF Queued, InQueue, Active, Current
<1>6. PlainOnce' /\ SignalInv'
  BY <1>1, <1>2, <1>4, PlainOnceStays, SignalStays
<1>7. CounterInv'
  BY <1>1, <1>4, MissingStays, CounterStays
<1>8. pc'[p] = "push_dep" => ~Awaits(Dependent[f])
  <2>. SUFFICES ASSUME dependenciesNo[Dependent[f]] = 0 PROVE ~Awaits(Dependent[f])
    BY <1>2
  <2>1. PICK d \in Frame : d = Dependent[f]
    BY <1>0, <1>1, <1>3, SchedulerAssumption DEF Pushing
  <2>2. f \in Inputs(d) /\ d \in Frame \ Plain
    BY <1>3, <2>1 DEF Inputs, Plain
  <2>3. f \in Plain \ {Root} /\ Parent[f] = Parent[d] /\ Parent[d] \in Frame
    BY <2>2, InputsArePlain
  <2>4. runs[f] > 0 /\ runs[f] \in Nat /\ runs[Parent[d]] \in Nat
    BY <1>3, <2>3 DEF PlainOnce, TypeOK
  <2>5. runs[Parent[d]] > 0 /\ Parent[d] \notin InStep({"run"})
    BY <2>3, <2>4 DEF PlainOnce, Fresh
  <2>6. Cardinality(Missing(d)) = 0
    BY <2>1, <2>2, <2>5 DEF CounterInv
  <2>7. Missing(d) = {}
    BY <2>6, MissingFits, FS_EmptySet
  <2>. QED
    BY <2>1, <2>7 DEF Missing, Awaits
<1>9. ReadyInv'
  <2>1. \A h : Awaits(h)' = Awaits(h)
    BY <1>1 DEF Awaits
  <2>. QED
    BY <1>0, <1>2, <1>5, <1>8, <2>1 DEF ReadyInv
<1>10. InputsComeFirst'
  BY <1>1, <1>5, InputsStayFirst
<1>. QED
  BY <1>6, <1>7, <1>9, <1>10

\* what a push adds to the queues, if it adds anything
LEMMA PushAdds ==
  ASSUME TypeInv, PlainApart(queue), NEW p \in Thread, NEW g \in Frame,
         PushIgnoringStatus(p, g), g \in Plain => g \notin Queued
  PROVE  /\ PlainApart(queue)' /\ Queued' \subseteq Queued \union {g}
<1>1. queue \in [Thread -> Seq(Frame)] /\ Queued' = Held(queue') /\ Queued = Held(queue)
  <2>1. Queued' = Held(queue')
    BY DEF Queued, InQueue, Held, Range
  <2>. QED
    BY <2>1, QueuedHeld DEF TypeInv, TypeOK
<1>2. \/ queue' = queue
      \/ queue'[p] = Append(queue[p], g) /\ \A q \in Thread \ {p} : queue'[q] = queue[q]
  BY PushMoves DEF TypeInv
<1>3. CASE queue' = queue
  BY <1>1, <1>3 DEF PlainApart
<1>4. CASE queue'[p] = Append(queue[p], g) /\ \A q \in Thread \ {p} : queue'[q] = queue[q]
  <2>1. PlainApart(queue') /\ Held(queue') = Held(queue) \union {g}
    BY <1>1, <1>4, PlainAppend
  <2>. QED
    BY <1>1, <2>1 DEF PlainApart
<1>. QED
  BY <1>2, <1>3, <1>4

LEMMA PushDependentFlow ==
  ASSUME TypeInv, TypeInv', FlowInv, NEW p \in Thread, PushDependent(p)
  PROVE  FlowInv'
<1>. USE DEF TypeInv, FlowInv
<1>0. PICK f : f = Current(p)
  OBVIOUS
<1>1. /\ pc[p] = "push_dep" /\ stack[p] # <<>>
      /\ UNCHANGED <<stack, runs, signalled, dependenciesNo, next>>
  BY DEF PushDependent, TypeOK, locals, data, history
<1>2. /\ pc'[p] = "frame_done"
      /\ \A q \in Thread \ {p} : pc'[q] = pc[q] /\ stack'[q] = stack[q]
  BY <1>1, GotoMoves DEF PushDependent, Label
<1>3. f \in Frame
  BY <1>0, <1>1, InnermostCell
<1>4. PICK d \in Frame : d = Dependent[f]
  BY <1>0, <1>1, <1>3, SchedulerAssumption DEF Pushing
<1>5. d \in Frame \ Plain /\ ~Awaits(d)
  BY <1>0, <1>1, <1>3, <1>4 DEF Plain, Inputs, ReadyInv
<1>6. PlainApart(queue)' /\ Queued' \subseteq Queued \union {d}
  BY <1>0, <1>4, <1>5, PushAdds DEF PushDependent, PlainOnce
<1>7. /\ InStep({"run"})' = InStep({"run"})
      /\ InStep(After)' = InStep(After) /\ InStep(Decreasing)' = InStep(Decreasing)
  BY <1>1, <1>2, OutsideStep, WithinStep DEF After, Decreasing
<1>8. Active' = Active /\ \A q \in Thread : Current(q)' = Current(q)
  BY <1>1 DEF Active, Current
<1>9. \A h \in Plain : Fresh(h) => Fresh(h)'
  BY <1>1, <1>5, <1>6 DEF Fresh
<1>10. PlainOnce'
  <2>1. PlainApart(stack)'
    BY <1>1 DEF PlainOnce, PlainApart
  <2>2. ASSUME NEW q \in Thread, pc'[q] = "push", NEW i \in DOMAIN Spawned[Current(q)], i >= next'[q]
        PROVE  Fresh(Spawned[Current(q)][i])'
    <3>1. q # p /\ pc[q] = "push" /\ next'[q] = next[q]
      BY <1>1, <1>2, <2>2
    <3>2. Current(q) \in Frame
      BY <3>1, CurrentIsFrame DEF TypeOK
    <3>3. PICK h \in Frame : h = Spawned[Current(q)][i] /\ h \in Plain
      BY <3>2, SpawnedFrames, SchedulerAssumption DEF Plain
    <3>4. Fresh(h)'
      BY <1>9, <2>2, <3>1, <3>3 DEF PlainOnce
    <3>. QED
      BY <1>8, <3>3, <3>4 DEF Fresh
  <2>3. \A f1 \in Plain : runs[f1] \in {0, 1} /\ (f1 \in Queued' => runs[f1] = 0)
    BY <1>5, <1>6 DEF PlainOnce
  <2>. QED
    BY <1>1, <1>6, <1>7, <1>8, <1>9, <2>1, <2>2, <2>3 DEF PlainOnce
<1>11. SignalInv'
  BY <1>1, <1>7, SignalStays
<1>12. CounterInv'
  BY <1>1, <1>7, MissingStays, CounterStays
<1>13. ReadyInv'
  BY <1>1, <1>2, <1>8, ReadyStays
<1>14. InputsComeFirst'
  BY <1>1, <1>5, <1>6, <1>8, InputsStayFirst
<1>. QED
  BY <1>10, <1>11, <1>12, <1>13, <1>14

LEMMA PushSpawnedFlow ==
  ASSUME SumsAreLeaves, TypeInv, TypeInv', FlowInv, NEW p \in Thread, PushSpawned(p)
  PROVE  FlowInv'
<1>. USE DEF TypeInv, FlowInv
<1>0. PICK f : f = Current(p)
  OBVIOUS
<1>1. /\ pc[p] = "push" /\ stack[p] # <<>>
      /\ UNCHANGED <<stack, runs, signalled, dependenciesNo>>
  BY DEF PushSpawned, TypeOK, data, history
<1>2. f \in Frame /\ next[p] \in DOMAIN Spawned[f]
  BY <1>0, <1>1, InnermostCell DEF Pushing
<1>3. f \in Plain /\ DOMAIN Spawned[f] = {1, 2} /\ Len(Spawned[f]) = 2 /\ next[p] \in {1, 2}
  BY <1>2, SpawnersArePlain, SpawnedFrames
<1>4. \/ next[p] = 1 /\ next' = [next EXCEPT ![p] = 2] /\ pc' = pc
      \/ next[p] = 2 /\ next' = [next EXCEPT ![p] = 0] /\ Goto(p, "check")
  BY <1>0, <1>3 DEF PushSpawned
<1>5. /\ \A q \in Thread \ {p} : pc'[q] = pc[q] /\ stack'[q] = stack[q] /\ next'[q] = next[q]
      /\ pc'[p] \in {"push", "check"}
      /\ pc'[p] = "push" => next[p] = 1 /\ next'[p] = 2
  BY <1>1, <1>4, GotoMoves DEF Label, TypeOK
<1>6. PICK g \in Frame : g = Spawned[f][next[p]] /\ g \in Plain \ {Root} /\ Parent[g] = f
  BY <1>2, SpawnedFrames, SpawnersArePlain
<1>7. Fresh(g)
  <2>1. next[p] >= next[p]
    BY <1>3
  <2>. QED
    BY <1>0, <1>1, <1>2, <1>6, <2>1 DEF PlainOnce
<1>8. PlainApart(queue)' /\ Queued' \subseteq Queued \union {g}
  BY <1>0, <1>6, <1>7, PushAdds DEF PushSpawned, PlainOnce, Fresh
<1>9. /\ InStep({"run"})' = InStep({"run"})
      /\ InStep(After)' = InStep(After) /\ InStep(Decreasing)' = InStep(Decreasing)
  BY <1>1, <1>5, OutsideStep DEF After, Decreasing
<1>10. Active' = Active /\ \A q \in Thread : Current(q)' = Current(q)
  BY <1>1 DEF Active, Current
<1>11. \A h \in Plain \ {g} : Fresh(h) => Fresh(h)'
  BY <1>1, <1>8 DEF Fresh
<1>12. runs[f] > 0 /\ f \notin InStep({"run"}) /\ runs[f] # 0
  <2>1. f \in Active /\ runs[f] \in Nat
    BY <1>0, <1>1, <1>2, InnermostCell DEF TypeOK
  <2>2. f \notin InStep({"run"})
    BY <1>0, <1>1, <1>3, CurrentInStep DEF PlainOnce
  <2>. QED
    BY <2>1, <2>2 DEF PlainOnce
<1>13. PlainOnce'
  <2>1. PlainApart(stack)'
    BY <1>1 DEF PlainOnce, PlainApart
  <2>2. ASSUME NEW q \in Thread, pc'[q] = "push", NEW i \in DOMAIN Spawned[Current(q)], i >= next'[q]
        PROVE  Fresh(Spawned[Current(q)][i])'
    <3>1. pc[q] = "push" /\ stack[q] # <<>> /\ Current(q) \in Frame
      BY <1>1, <1>5, <2>2, CurrentIsFrame DEF TypeOK
    <3>2. PICK h \in Frame : /\ h = Spawned[Current(q)][i] /\ h \in Plain \ {Root}
                             /\ Parent[h] = Current(q)
      BY <3>1, SpawnersArePlain, SpawnedFrames
    <3>3. h # g /\ Fresh(h)
      <4>1. CASE q = p
        <5>1. i = 2 /\ next[p] = 1
          BY <1>0, <1>3, <1>5, <2>2, <4>1
        <5>2. h = Spawned[f][2] /\ g = Spawned[f][1]
          BY <1>0, <1>6, <3>2, <4>1, <5>1
        <5>3. h # g
          BY <1>2, <1>3, <5>2, SpawnersArePlain
        <5>. QED
          BY <1>0, <1>1, <2>2, <3>2, <4>1, <5>1, <5>3 DEF PlainOnce
      <4>2. CASE q # p
        <5>1. Current(q) # f
          BY <1>0, <1>1, <1>3, <3>1, <4>2, CurrentInStep DEF PlainOnce
        <5>. QED
          BY <1>5, <1>6, <2>2, <3>1, <3>2, <4>2, <5>1 DEF PlainOnce
      <4>. QED
        BY <4>1, <4>2
    <3>4. Fresh(h)'
      BY <1>11, <3>2, <3>3
    <3>. QED
      BY <1>10, <3>2, <3>4 DEF Fresh
  <2>3. \A h \in Plain : runs[h] \in {0, 1} /\ (h \in Queued' => runs[h] = 0)
    BY <1>7, <1>8 DEF PlainOnce, Fresh
  <2>4. \A h \in Plain \ {Root} : runs[Parent[h]] = 0 \/ Parent[h] \in InStep({"run"}) => Fresh(h)'
    BY <1>6, <1>11, <1>12 DEF PlainOnce
  <2>. QED
    BY <1>1, <1>8, <1>9, <1>10, <2>1, <2>2, <2>3, <2>4 DEF PlainOnce
<1>14. SignalInv'
  BY <1>1, <1>9, SignalStays
<1>15. CounterInv'
  BY <1>1, <1>9, MissingStays, CounterStays
<1>16. ReadyInv'
  BY <1>1, <1>5, <1>10, ReadyStays
<1>17. InputsComeFirst'
  BY <1>1, <1>6, <1>8, <1>10, InputsStayFirst
<1>. QED
  BY <1>13, <1>14, <1>15, <1>16, <1>17

\* what a closure that returns leaves on the stacks
LEMMA StackLeft ==
  ASSUME TypeOK, TypeOK', PlainApart(stack), NEW p \in Thread, stack[p] # <<>>,
         stack'[p] = SubSeq(stack[p], 1, Len(stack[p]) - 1),
         \A q \in Thread \ {p} : stack'[q] = stack[q],
         NEW f \in Frame, f = Current(p)
  PROVE  /\ PlainApart(stack)' /\ Active' \subseteq Active
         /\ f \in Plain => f \notin Active'
         /\ Active \subseteq Active' \union {f}
<1>1. stack \in [Thread -> Seq(Frame)]
  BY DEF TypeOK
<1>2. f = stack[p][Len(stack[p])]
  BY DEF Current
<1>3. /\ PlainApart(stack') /\ Held(stack') \subseteq Held(stack)
      /\ f \in Plain => f \notin Held(stack')
      /\ Held(stack) \subseteq Held(stack') \union {f}
  BY <1>1, <1>2, PlainRemoveLast
<1>4. (Active = Held(stack))'
  BY ActiveHeld, PTL
<1>5. Active' = Held(stack')
  BY <1>4 DEF Held
<1>. QED
  BY <1>3, <1>5, ActiveHeld DEF PlainApart

LEMMA FrameDoneFlow ==
  ASSUME TypeInv, TypeInv', FlowInv, NEW p \in Thread, FrameDone(p)
  PROVE  FlowInv'
<1>. USE DEF TypeInv, FlowInv
<1>0. PICK f : f = Current(p)
  OBVIOUS
<1>1. /\ pc[p] = "frame_done" /\ stack[p] # <<>>
      /\ UNCHANGED <<queue, runs, signalled, dependenciesNo, next>>
  BY DEF FrameDone, TypeOK, locals, data, history
<1>2. /\ pc'[p] = "check"
      /\ stack'[p] = SubSeq(stack[p], 1, Len(stack[p]) - 1)
      /\ \A q \in Thread \ {p} : pc'[q] = pc[q] /\ stack'[q] = stack[q]
  BY <1>1, GotoMoves DEF FrameDone, Leave, Label, TypeOK
<1>3. f \in Frame
  BY <1>0, <1>1, InnermostCell
<1>4. /\ PlainApart(stack)' /\ Active' \subseteq Active
      /\ f \in Plain => f \notin Active'
  BY <1>0, <1>1, <1>2, <1>3, StackLeft DEF PlainOnce
<1>5. InStep({"run"})' = InStep({"run"}) /\ InStep(Decreasing)' = InStep(Decreasing)
  BY <1>1, <1>2, OutsideStep DEF Decreasing
<1>6. InStep(After)' \subseteq InStep(After) /\ InStep(After) \subseteq InStep(After)' \union {f}
  BY <1>0, <1>1, <1>2, <1>3, OutOfStep DEF PlainOnce, After
<1>7. /\ Queued' = Queued /\ \A h : Fresh(h)' = Fresh(h)
      /\ \A q \in Thread \ {p} : Current(q)' = Current(q)
  BY <1>1, <1>2 DEF Queued, InQueue, Fresh, Current
<1>8. PlainOnce'
  <2>1. PlainApart(queue)'
    BY <1>1 DEF PlainOnce, PlainApart
  <2>2. ASSUME NEW q \in Thread, pc'[q] = "push", NEW i \in DOMAIN Spawned[Current(q)]', i >= next'[q]
        PROVE  Fresh(Spawned[Current(q)][i])'
    <3>1. q # p /\ pc[q] = "push" /\ Current(q)' = Current(q)
      BY <1>2, <1>7, <2>2
    <3>2. Fresh(Spawned[Current(q)][i])
      BY <1>1, <2>2, <3>1 DEF PlainOnce
    <3>. QED
      BY <1>1, <1>7, <3>1, <3>2 DEF Fresh
  <2>. QED
    BY <1>1, <1>4, <1>5, <1>7, <2>1, <2>2 DEF PlainOnce
<1>9. SignalInv'
  BY <1>1, <1>4, <1>6 DEF SignalInv
<1>10. CounterInv'
  BY <1>1, <1>5, MissingStays, CounterStays
<1>11. ReadyInv'
  BY <1>1, <1>2, <1>7, ReadyStays
<1>12. InputsComeFirst'
  BY <1>1, <1>4, <1>7, InputsStayFirst
<1>. QED
  BY <1>8, <1>9, <1>10, <1>11, <1>12

-----------------------------------------------------------------------------
LEMMA InitFlow == Init => FlowInv
<1>. SUFFICES ASSUME Init PROVE FlowInv
  OBVIOUS
<1>1. /\ \A q \in Thread : stack[q] = <<>> /\ pc[q] = "created"
      /\ \A f \in Frame : runs[f] = 0
      /\ signalled = {}
      /\ \A q \in Thread \ {0} : queue[q] = <<>>
      /\ 0 \in Thread => queue[0] = <<>> \/ queue[0] = <<Root>>
  BY DEF Init
<1>2. Active = {} /\ \A L : InStep(L) = {}
  BY <1>1 DEF Active, InStep
<1>3. \A q \in Thread : \A i \in DOMAIN queue[q] : q = 0 /\ i = 1 /\ queue[q][i] = Root
  BY <1>1
<1>4. Queued \subseteq {Root}
  BY <1>3 DEF Queued, InQueue, Range
<1>5. Root \in Plain
  BY InputsArePlain, SchedulerAssumption DEF Plain
<1>6. PlainOnce
  <2>1. PlainApart(queue) /\ PlainApart(stack)
    BY <1>1, <1>3 DEF PlainApart
  <2>. QED
    BY <1>1, <1>2, <1>4, <2>1 DEF PlainOnce, Fresh, Plain
<1>7. SignalInv
  BY <1>1, <1>2 DEF SignalInv
<1>8. CounterInv /\ ReadyInv
  BY <1>1, InputsArePlain DEF CounterInv, ReadyInv
<1>9. InputsComeFirst
  BY <1>2, <1>4, <1>5 DEF InputsComeFirst, Queued, Plain, Awaits
<1>. QED
  BY <1>6, <1>7, <1>8, <1>9 DEF FlowInv

LEMMA InitMain == Init => MainInv
BY DEF Init, MainInv, Thread

FlowIInv == TypeInv /\ MainInv /\ FlowInv

LEMMA FlowInductive == SumsAreLeaves => (Spec => []FlowIInv)
<1>. SUFFICES ASSUME SumsAreLeaves PROVE Spec => []FlowIInv
  OBVIOUS
<1>. USE DEF FlowIInv
<1>1. Init => FlowIInv
  BY InitTypes, InitFlow, InitMain
<1>2. FlowIInv /\ [Next]_vars => FlowIInv'
  <2>. SUFFICES ASSUME FlowIInv, [Next]_vars PROVE FlowIInv'
    OBVIOUS
  <2>1. TypeInv' /\ MainInv'
    BY StepTypes, MainInvStep
  <2>2. CASE MainStep
    BY <2>1, <2>2, MainFlow
  <2>3. ASSUME NEW p \in Thread, ThreadStep(p) PROVE FlowInv'
    <3>1. CASE \/ ThreadLoop(p) \/ SyncLoop(p) \/ Inform(p) \/ Finish(p)
               \/ PopEmpty(p) \/ StealRead(p) \/ StealEmpty(p) \/ StealAbort(p)
      BY <2>1, <3>1, LookForWorkFlow
    <3>2. CASE PopFrame(p) \/ StealSuccess(p)
      BY <2>1, <3>2, EnterFlow
    <3>3. CASE RunLeaf(p)
      BY <2>1, <3>3, RunLeafFlow
    <3>4. CASE RunSpawn(p)
      BY <2>1, <3>4, RunSpawnFlow
    <3>5. CASE PushSpawned(p)
      BY <2>1, <3>5, PushSpawnedFlow
    <3>6. CASE SignalSync(p)
      BY <2>1, <3>6, SignalSyncFlow
    <3>7. CASE SignalDependencies(p)
      BY <2>1, <3>7, SignalDependenciesFlow
    <3>8. CASE ReadGone(p)
      BY <2>1, <3>8, ReadGoneFlow
    <3>9. CASE TestDependencies(p)
      BY <2>1, <3>9, TestDependenciesFlow
    <3>10. CASE PushDependent(p)
      BY <2>1, <3>10, PushDependentFlow
    <3>11. CASE FrameDone(p)
      BY <2>1, <3>11, FrameDoneFlow
    <3>. QED
      BY <2>3, <3>1, <3>2, <3>3, <3>4, <3>5, <3>6, <3>7, <3>8, <3>9, <3>10, <3>11
         DEF ThreadStep, GetFrame, Closure, FrameEnd
  <2>4. CASE UNCHANGED vars
    <3>1. UNCHANGED <<queue, stack, pc, next, runs, signalled, dependenciesNo>>
      BY <2>4 DEF vars, work, locals, data, history
    <3>2. \A L : InStep(L)' = InStep(L)
      BY <3>1 DEF InStep, Current
    <3>3. FlowInv'
      BY <2>1, <3>1, <3>2, QuietFlow
    <3>. QED
      BY <2>1, <3>3
  <2>. QED
    BY <2>1, <2>2, <2>3, <2>4 DEF Next, Terminated
<1>. QED
  BY <1>1, <1>2, PTL DEF Spec

(***************************************************************************)
(* A frame that awaits data is in no queue and on no stack before the last *)
(* of the frames that compute it has signalled: the counter that           *)
(* swift_signal_frame_done decrements and tests, in two steps, between     *)
(* those of any number of other threads, never reads zero too early.       *)
(***************************************************************************)
THEOREM InputsComeFirstCorrect == SumsAreLeaves => (Spec => []InputsComeFirst)
<1>1. FlowIInv => InputsComeFirst
  BY DEF FlowIInv, FlowInv
<1>. QED
  BY <1>1, FlowInductive, PTL

(***************************************************************************)
(* A frame that awaits nothing is executed at most once, and so is every   *)
(* frame of fibo's program except its sums: those may be pushed by both of *)
(* the frames that they await (DependentPushedOnce is violated).           *)
(***************************************************************************)
THEOREM PlainRunsOnce == SumsAreLeaves => (Spec => [](\A f \in Plain : runs[f] <= 1))
<1>1. FlowIInv => \A f \in Plain : runs[f] <= 1
  BY DEF FlowIInv, FlowInv, PlainOnce
<1>. QED
  BY <1>1, FlowInductive, PTL

-----------------------------------------------------------------------------
(***************************************************************************)
(* The waits                                                               *)
(***************************************************************************)
\* what awaits data never waits for what it has spawned: it spawns nothing
WaitersArePlain == AtSync \subseteq Plain

LEMMA WaitsLessAtSync ==
  ASSUME WaitsLess
  PROVE  AtSync' \subseteq AtSync /\ Active' = Active
<1>1. \A q \in Thread : stack[q] = <<>> => DOMAIN stack[q] = {}
  OBVIOUS
<1>. QED
  BY <1>1 DEF WaitsLess, AtSync, Active

LEMMA AtSyncActive == ASSUME TypeOK PROVE AtSync \subseteq Active
BY ActiveHeld DEF AtSync, Held

\* a pop or a steal puts a closure on top of one that waits
LEMMA EnterAtSync ==
  ASSUME TypeOK, NEW p \in Thread, NEW g \in Frame, Waiting(p),
         stack'[p] = Append(stack[p], g), pc'[p] = "run",
         \A q \in Thread \ {p} : pc'[q] = pc[q] /\ stack'[q] = stack[q]
  PROVE  /\ AtSync' \subseteq AtSync
         /\ \A f : OnTopOf(f)' \subseteq OnTopOf(f) \union {g}
<1>1. stack[p] \in Seq(Frame)
  BY DEF TypeOK
<1>2. /\ Len(stack[p]) \in Nat /\ DOMAIN stack[p] = 1 .. Len(stack[p])
      /\ Len(stack'[p]) = Len(stack[p]) + 1
      /\ DOMAIN stack'[p] = DOMAIN stack[p] \union {Len(stack[p]) + 1}
      /\ \A i \in DOMAIN stack[p] : stack'[p][i] = stack[p][i]
      /\ stack'[p][Len(stack[p]) + 1] = g
  BY <1>1, Pushed, LenProperties
<1>3. ~Waiting(p)' /\ \A q \in Thread \ {p} : Waiting(q)' <=> Waiting(q)
  BY DEF Waiting
<1>4. AtSync' \subseteq AtSync
  <2>. SUFFICES ASSUME NEW f \in AtSync' PROVE f \in AtSync
    OBVIOUS
  <2>1. PICK q \in Thread : \E i \in DOMAIN stack'[q] :
          f \in Frame /\ stack'[q][i] = f /\ (i < Len(stack'[q]) \/ Waiting(q)')
    BY DEF AtSync
  <2>2. CASE q = p
    <3>1. PICK i \in DOMAIN stack'[p] : stack'[p][i] = f /\ i < Len(stack'[p])
      BY <1>3, <2>1, <2>2
    <3>2. i \in DOMAIN stack[p]
      BY <1>2, <3>1
    <3>. QED
      BY <1>2, <2>1, <3>1, <3>2 DEF AtSync
  <2>3. CASE q # p
    BY <1>3, <2>1, <2>3 DEF AtSync
  <2>. QED
    BY <2>2, <2>3
<1>5. ASSUME NEW f PROVE OnTopOf(f)' \subseteq OnTopOf(f) \union {g}
  <2>1. ASSUME NEW i \in 1 .. Len(stack'[p]) - 1
        PROVE  \/ stack'[p][i + 1] = g
               \/ /\ i \in 1 .. Len(stack[p]) - 1
                  /\ stack'[p][i] = stack[p][i] /\ stack'[p][i + 1] = stack[p][i + 1]
    BY <1>2
  <2>. SUFFICES ASSUME NEW h \in OnTopOf(f)', h # g PROVE h \in OnTopOf(f)
    OBVIOUS
  <2>2. PICK q \in Thread : \E i \in 1 .. Len(stack'[q]) - 1 :
          h \in Frame /\ stack'[q][i] = f /\ stack'[q][i + 1] = h
    BY DEF OnTopOf
  <2>3. CASE q = p
    <3>1. PICK i \in 1 .. Len(stack'[p]) - 1 :
            h \in Frame /\ stack'[p][i] = f /\ stack'[p][i + 1] = h
      BY <2>2, <2>3
    <3>. QED
      BY <2>1, <3>1 DEF OnTopOf
  <2>4. CASE q # p
    BY <2>2, <2>4 DEF OnTopOf
  <2>. QED
    BY <2>3, <2>4
<1>. QED
  BY <1>4, <1>5

LEMMA LeaveAtSync ==
  ASSUME TypeOK, NEW p \in Thread, stack[p] # <<>>,
         stack'[p] = SubSeq(stack[p], 1, Len(stack[p]) - 1),
         \A q \in Thread \ {p} : pc'[q] = pc[q] /\ stack'[q] = stack[q]
  PROVE  AtSync' \subseteq AtSync /\ \A f : OnTopOf(f)' \subseteq OnTopOf(f)
<1>1. stack[p] \in Seq(Frame)
  BY DEF TypeOK
<1>2. Len(stack[p]) \in Nat /\ DOMAIN stack[p] = 1 .. Len(stack[p])
  BY <1>1, LenProperties
<1>3. /\ Len(stack'[p]) = Len(stack[p]) - 1
      /\ DOMAIN stack'[p] = DOMAIN stack[p] \ {Len(stack[p])}
      /\ \A i \in DOMAIN stack'[p] : stack'[p][i] = stack[p][i]
  BY <1>1, Popped
<1>4. \A q \in Thread \ {p} : Waiting(q)' <=> Waiting(q)
  BY DEF Waiting
<1>5. AtSync' \subseteq AtSync
  <2>. SUFFICES ASSUME NEW f \in AtSync' PROVE f \in AtSync
    OBVIOUS
  <2>1. PICK q \in Thread : \E i \in DOMAIN stack'[q] :
          f \in Frame /\ stack'[q][i] = f /\ (i < Len(stack'[q]) \/ Waiting(q)')
    BY DEF AtSync
  <2>2. CASE q = p
    <3>1. PICK i \in DOMAIN stack'[p] : stack'[p][i] = f
      BY <2>1, <2>2
    <3>2. i \in DOMAIN stack[p] /\ i < Len(stack[p])
      BY <1>2, <1>3, <3>1
    <3>. QED
      BY <1>3, <2>1, <3>1, <3>2 DEF AtSync
  <2>3. CASE q # p
    BY <1>4, <2>1, <2>3 DEF AtSync
  <2>. QED
    BY <2>2, <2>3
<1>6. ASSUME NEW f PROVE OnTopOf(f)' \subseteq OnTopOf(f)
  <2>1. ASSUME NEW i \in 1 .. Len(stack'[p]) - 1
        PROVE  /\ i \in 1 .. Len(stack[p]) - 1
               /\ stack'[p][i] = stack[p][i] /\ stack'[p][i + 1] = stack[p][i + 1]
    BY <1>2, <1>3
  <2>. SUFFICES ASSUME NEW h \in OnTopOf(f)' PROVE h \in OnTopOf(f)
    OBVIOUS
  <2>2. PICK q \in Thread : \E i \in 1 .. Len(stack'[q]) - 1 :
          h \in Frame /\ stack'[q][i] = f /\ stack'[q][i + 1] = h
    BY DEF OnTopOf
  <2>3. CASE q = p
    <3>1. PICK i \in 1 .. Len(stack'[p]) - 1 :
            h \in Frame /\ stack'[p][i] = f /\ stack'[p][i + 1] = h
      BY <2>2, <2>3
    <3>. QED
      BY <2>1, <3>1 DEF OnTopOf
  <2>4. CASE q # p
    BY <2>2, <2>4 DEF OnTopOf
  <2>. QED
    BY <2>3, <2>4
<1>. QED
  BY <1>5, <1>6

\* what has something on top of it, or waits, is at its wait
LEMMA BlocksAtSync ==
  ASSUME TypeOK, NEW f \in Frame, f \notin AtSync
  PROVE  Blocks(f) = {}
<1>1. stack \in [Thread -> Seq(Frame)]
  BY DEF TypeOK
<1>2. OnTopOf(f) = {}
  <2>. SUFFICES ASSUME NEW q \in Thread, NEW i \in 1 .. Len(stack[q]) - 1, stack[q][i] = f
                PROVE  FALSE
    BY DEF OnTopOf
  <2>1. Len(stack[q]) \in Nat /\ DOMAIN stack[q] = 1 .. Len(stack[q])
    BY <1>1, LenProperties
  <2>2. i \in DOMAIN stack[q] /\ i < Len(stack[q])
    BY <2>1
  <2>. QED
    BY <2>2 DEF AtSync
<1>. QED
  BY <1>2 DEF Blocks

LEMMA BlocksOffSync == TypeOK => \A h \in Frame : h \notin AtSync => Blocks(h) = {}
BY BlocksAtSync

LEMMA NothingOnPlain ==
  ASSUME TypeOK, PlainApart(stack), NEW p \in Thread, stack[p] # <<>>, Current(p) \in Plain
  PROVE  OnTopOf(Current(p)) = {}
<1>1. stack \in [Thread -> Seq(Frame)]
  BY DEF TypeOK
<1>2. ASSUME NEW q \in Thread, NEW i \in 1 .. Len(stack[q]) - 1, stack[q][i] = Current(p)
      PROVE  FALSE
  <2>1. Len(stack[q]) \in Nat /\ DOMAIN stack[q] = 1 .. Len(stack[q])
    BY <1>1, LenProperties
  <2>2. q = p /\ i = Len(stack[p])
    BY <1>2, <2>1, InnermostCell DEF PlainApart
  <2>. QED
    BY <2>1, <2>2
<1>. QED
  BY <1>2 DEF OnTopOf

WaitInv == WaitersArePlain /\ NoWaitCycle

LEMMA EnterWaits ==
  ASSUME TypeInv, TypeInv', FlowInv, WaitInv, NEW p \in Thread, PopFrame(p) \/ StealSuccess(p)
  PROVE  WaitInv'
<1>. USE DEF TypeInv, WaitInv
<1>1. PICK g \in Frame : g \in Queued /\ Enter(p, g)
  BY TakesQueued DEF FlowInv, PlainOnce
<1>2. /\ stack'[p] = Append(stack[p], g) /\ pc'[p] = "run"
      /\ \A q \in Thread \ {p} : pc'[q] = pc[q] /\ stack'[q] = stack[q]
  BY <1>1, EnterMoves
<1>3. Waiting(p) /\ signalled' = signalled
  BY DEF PopFrame, StealSuccess, Waiting
<1>4. AtSync' \subseteq AtSync /\ \A f : OnTopOf(f)' \subseteq OnTopOf(f) \union {g}
  BY <1>2, <1>3, EnterAtSync
<1>5. Active' = Active \union {g}
  <2>1. stack \in [Thread -> Seq(Frame)] /\ PlainApart(stack)
    BY DEF TypeOK, FlowInv, PlainOnce
  <2>2. g \in Plain => g \notin Held(stack)
    BY <1>1, ActiveHeld DEF FlowInv, PlainOnce
  <2>3. Held(stack') = Held(stack) \union {g}
    BY <1>2, <2>1, <2>2, PlainAppend
  <2>4. (Active = Held(stack))'
    BY ActiveHeld, PTL
  <2>5. Active' = Held(stack')
    BY <2>4 DEF Held
  <2>. QED
    BY <2>3, <2>5, ActiveHeld
<1>6. g \notin AtSync
  <2>1. g \in Plain => g \notin Active
    BY <1>1 DEF FlowInv, PlainOnce
  <2>. QED
    BY <2>1, AtSyncActive DEF WaitersArePlain
<1>7. Blocks(g)' = {}
  <2>1. (TypeOK => \A h \in Frame : h \notin AtSync => Blocks(h) = {})'
    BY BlocksOffSync, PTL
  <2>. QED
    BY <1>4, <1>6, <2>1
<1>8. \A f : Blocks(f)' \subseteq Blocks(f) \union {g}
  BY <1>3, <1>4, <1>5 DEF Blocks, Unsignalled, SyncFrames
<1>9. BlockedByNew({g})
  BY <1>5, <1>7, <1>8 DEF BlockedByNew
<1>. QED
  BY <1>4, <1>9, StillNoCycle DEF WaitersArePlain

LEMMA RunSpawnAtSync ==
  ASSUME TypeInv, NEW p \in Thread, RunSpawn(p), NEW f, f = Current(p)
  PROVE  AtSync' \subseteq AtSync \union {f}
<1>1. pc[p] = "run" /\ stack[p] # <<>> /\ stack' = stack
  BY DEF RunSpawn, TypeInv, TypeOK, work
<1>2. \A q \in Thread \ {p} : pc'[q] = pc[q]
  BY GotoMoves DEF RunSpawn, TypeInv, Label
<1>3. \A i \in DOMAIN stack[p] : i < Len(stack[p]) \/ stack[p][i] = f
  BY <1>1, InnermostCell DEF TypeInv
<1>4. \A q \in Thread \ {p} : Waiting(q)' <=> Waiting(q)
  BY <1>2 DEF Waiting
<1>. QED
  BY <1>1, <1>3, <1>4 DEF AtSync

LEMMA RunSpawnWaits ==
  ASSUME SumsAreLeaves, TypeInv, TypeInv', FlowInv, WaitInv, NEW p \in Thread, RunSpawn(p)
  PROVE  WaitInv'
<1>. USE DEF TypeInv, WaitInv
<1>0. PICK f : f = Current(p)
  OBVIOUS
<1>1. /\ pc[p] = "run" /\ stack[p] # <<>> /\ Spawned[f] # <<>>
      /\ stack' = stack /\ signalled' = signalled
  BY <1>0 DEF RunSpawn, TypeOK, work, history
<1>2. f \in Frame /\ f \in Plain /\ f \in InStep({"run"})
  <2>1. f \in Frame
    BY <1>0, <1>1, CurrentIsFrame
  <2>. QED
    BY <1>0, <1>1, <2>1, SpawnersArePlain DEF InStep
<1>3. AtSync' \subseteq AtSync \union {f}
  BY <1>0, RunSpawnAtSync
<1>4. OnTopOf(f) = {}
  BY <1>0, <1>1, <1>2, NothingOnPlain DEF FlowInv, PlainOnce
<1>5. Unsignalled(f) \intersect Active = {}
  <2>. SUFFICES ASSUME NEW h \in Frame \ {Root}, Parent[h] = f PROVE h \notin Active
    BY DEF Unsignalled, SyncFrames
  <2>1. CASE h \in Plain
    BY <1>2, <2>1 DEF FlowInv, PlainOnce, Fresh
  <2>2. CASE h \notin Plain
    <3>1. PICK g \in Inputs(h) : g \in Plain \ {Root} /\ Parent[g] = f /\ g \in Frame
      BY <2>2, InputsArePlain DEF Plain, Inputs
    <3>2. runs[g] = 0
      BY <1>2, <3>1 DEF FlowInv, PlainOnce, Fresh
    <3>3. g \notin signalled
      BY <3>2 DEF FlowInv, SignalInv
    <3>. QED
      BY <3>3 DEF FlowInv, InputsComeFirst, Awaits
  <2>. QED
    BY <2>1, <2>2
<1>6. /\ Active' = Active
      /\ \A h : OnTopOf(h)' = OnTopOf(h) /\ Unsignalled(h)' = Unsignalled(h)
  BY <1>1 DEF Active, OnTopOf, Unsignalled, SyncFrames
<1>7. Blocks(f)' = {} /\ \A h : h # f => Blocks(h)' \subseteq Blocks(h)
  BY <1>3, <1>4, <1>5, <1>6 DEF Blocks
<1>8. BlockedByNew({f})
  BY <1>6, <1>7 DEF BlockedByNew
<1>. QED
  BY <1>2, <1>3, <1>8, StillNoCycle DEF WaitersArePlain

LEMMA FrameDoneMoves ==
  ASSUME TypeInv, NEW p \in Thread, FrameDone(p)
  PROVE  /\ pc[p] = "frame_done" /\ stack[p] # <<>> /\ pc'[p] = "check"
         /\ stack'[p] = SubSeq(stack[p], 1, Len(stack[p]) - 1)
         /\ \A q \in Thread \ {p} : pc'[q] = pc[q] /\ stack'[q] = stack[q]
         /\ Current(p) \in Frame
<1>1. pc[p] = "frame_done" /\ stack[p] # <<>>
  BY DEF FrameDone, TypeInv, TypeOK
<1>2. pc'[p] = "check" /\ \A q \in Thread \ {p} : pc'[q] = pc[q]
  BY GotoMoves DEF FrameDone, TypeInv, Label
<1>3. /\ stack'[p] = SubSeq(stack[p], 1, Len(stack[p]) - 1)
      /\ \A q \in Thread \ {p} : stack'[q] = stack[q]
  BY DEF FrameDone, Leave, TypeInv, TypeOK
<1>. QED
  BY <1>1, <1>2, <1>3, CurrentIsFrame DEF TypeInv

LEMMA FrameDoneWaits ==
  ASSUME TypeInv, TypeInv', FlowInv, WaitInv, NEW p \in Thread, FrameDone(p)
  PROVE  WaitInv'
<1>. USE DEF TypeInv, WaitInv
<1>1. AtSync' \subseteq AtSync /\ \A f : OnTopOf(f)' \subseteq OnTopOf(f)
  BY FrameDoneMoves, LeaveAtSync
<1>2. Active' \subseteq Active
  <2>1. PICK f \in Frame : f = Current(p)
    BY FrameDoneMoves
  <2>. QED
    BY <2>1, FrameDoneMoves, StackLeft DEF FlowInv, PlainOnce
<1>3. signalled' = signalled
  BY DEF FrameDone, history
<1>4. \A f : Blocks(f)' \subseteq Blocks(f)
  BY <1>1, <1>2, <1>3 DEF Blocks, Unsignalled, SyncFrames
<1>5. BlockedByNew({})
  BY <1>2, <1>4 DEF BlockedByNew
<1>. QED
  BY <1>1, <1>5, StillNoCycle DEF WaitersArePlain

LEMMA WaitsInductive == SumsAreLeaves => (Spec => []WaitInv)
<1>. SUFFICES ASSUME SumsAreLeaves PROVE Spec => []WaitInv
  OBVIOUS
<1>1. Init => WaitInv
  <2>1. Init => AtSync = {} /\ Active = {}
    BY DEF Init, AtSync, Active
  <2>. QED
    BY <2>1 DEF WaitInv, WaitersArePlain, NoWaitCycle
<1>2. FlowIInv /\ FlowIInv' /\ WaitInv /\ [Next]_vars => WaitInv'
  <2>. SUFFICES ASSUME FlowIInv, FlowIInv', WaitInv, [Next]_vars PROVE WaitInv'
    OBVIOUS
  <2>. USE DEF FlowIInv
  <2>1. CASE \E p \in Thread : PopFrame(p) \/ StealSuccess(p)
    BY <2>1, EnterWaits
  <2>2. CASE \E p \in Thread : RunSpawn(p)
    BY <2>2, RunSpawnWaits
  <2>3. CASE \E p \in Thread : FrameDone(p)
    BY <2>3, FrameDoneWaits
  <2>4. CASE \A p \in Thread :
               ~PopFrame(p) /\ ~StealSuccess(p) /\ ~RunSpawn(p) /\ ~FrameDone(p)
    <3>1. WaitsLess
      BY <2>4, OthersWaitLess
    <3>2. NoWaitCycle'
      BY <3>1, WaitsLessNoCycle DEF TypeInv, WaitInv
    <3>. QED
      BY <3>1, <3>2, WaitsLessAtSync DEF WaitInv, WaitersArePlain
  <2>. QED
    BY <2>1, <2>2, <2>3, <2>4
<1>. QED
  BY <1>1, <1>2, FlowInductive, PTL DEF Spec

(***************************************************************************)
(* With data-flow frames too, threads that run other frames while they     *)
(* wait never wait in a circle: a sum that two threads execute at a time   *)
(* waits for nobody, and every other closure is on one stack.              *)
(***************************************************************************)
THEOREM DataFlowNoWaitCycle == SumsAreLeaves => (Spec => []NoWaitCycle)
<1>1. WaitInv => NoWaitCycle
  BY DEF WaitInv
<1>. QED
  BY <1>1, WaitsInductive, PTL

-----------------------------------------------------------------------------
(***************************************************************************)
(* Nothing is lost, when frames are malloc-ed and queues have room         *)
(***************************************************************************)
\* what RoomToPush says of spawned frames, of those whose data has come
RoomForDependents == \A p \in Thread : pc[p] = "push_dep" => Len(queue[p]) < Capacity

\* no thread has gone through a wild pointer
NoCrash == \A p \in Thread : pc[p] # "crashed"

\* where NothingLost says that a frame is
InReach(g) == g \in Active \/ g \in Queued \/ ToPush(g) \/ Awaits(g)

\* the labels of a thread that is going to push something, or may be
Pushes == {"push", "signal_deps", "test_deps", "push_dep"}

LEMMA NothingLostReach ==
  NothingLost <=> \A f \in AtSync : \A g \in Unsignalled(f) : InReach(g)
<1>1. \A f : \A g \in Unsignalled(f) : g \in Frame
  BY DEF Unsignalled, SyncFrames
<1>. QED
  BY <1>1 DEF NothingLost, InReach, Queued

LEMMA NothingLostNext ==
  (\A f \in AtSync' : \A g \in Unsignalled(f)' : InReach(g)') => NothingLost'
<1>1. (NothingLost <=> \A f \in AtSync : \A g \in Unsignalled(f) : InReach(g))'
  BY NothingLostReach, PTL
<1>. QED
  BY <1>1

LEMMA StaysInReach ==
  ASSUME NothingLost, AtSync' \subseteq AtSync, signalled \subseteq signalled',
         \A g \in Frame : InReach(g) => InReach(g)' \/ g \in signalled'
  PROVE  NothingLost'
<1>1. \A f : Unsignalled(f)' = {g \in Unsignalled(f) : g \notin signalled'}
  BY DEF Unsignalled, SyncFrames
<1>2. \A f : \A g \in Unsignalled(f) : g \in Frame
  BY DEF Unsignalled, SyncFrames
<1>. QED
  BY <1>1, <1>2, NothingLostReach, NothingLostNext

LEMMA OthersPush ==
  ASSUME NEW p \in Thread, NEW g, ToPush(g), pc[p] \notin Pushes,
         \A q \in Thread \ {p} : pc'[q] = pc[q] /\ stack'[q] = stack[q] /\ next'[q] = next[q]
  PROVE  ToPush(g)'
<1>1. \A q \in Thread \ {p} : Current(q)' = Current(q)
  BY DEF Current
<1>. QED
  BY <1>1 DEF ToPush, Pushes

\* a thread that signals has its frame to push as long as it has not found
\* that the counter is not zero
LEMMA SignallerPushes ==
  ASSUME NEW p \in Thread, NEW g, pc'[p] \in {"signal_deps", "test_deps", "push_dep"},
         stack' = stack, Dependent[Current(p)] = g
  PROVE  ToPush(g)'
<1>1. Current(p)' = Current(p)
  BY DEF Current
<1>. QED
  BY <1>1 DEF ToPush

LEMMA OthersPushOn ==
  ASSUME NEW p \in Thread, NEW g, ToPush(g),
         pc[p] \in Pushes \ {"push"}, Dependent[Current(p)] # g,
         \A q \in Thread \ {p} : pc'[q] = pc[q] /\ stack'[q] = stack[q] /\ next'[q] = next[q]
  PROVE  ToPush(g)'
<1>1. \A q \in Thread \ {p} : Current(q)' = Current(q)
  BY DEF Current
<1>. QED
  BY <1>1 DEF ToPush, Pushes

LEMMA EnterReach ==
  ASSUME TypeInv, TypeInv', FlowInv, NothingLost, NEW p \in Thread,
         PopFrame(p) \/ StealSuccess(p)
  PROVE  NothingLost'
<1>. USE DEF TypeInv
<1>1. PICK g \in Frame : Queued \subseteq Queued' \union {g} /\ Enter(p, g)
  BY TakesQueued DEF FlowInv, PlainOnce
<1>2. /\ stack'[p] = Append(stack[p], g) /\ pc'[p] = "run"
      /\ \A q \in Thread \ {p} : pc'[q] = pc[q] /\ stack'[q] = stack[q]
  BY <1>1, EnterMoves
<1>3. /\ Waiting(p) /\ signalled' = signalled /\ next' = next
      /\ pc[p] \notin Pushes
  BY DEF PopFrame, StealSuccess, Waiting, Pushes, locals
<1>4. AtSync' \subseteq AtSync
  BY <1>2, <1>3, EnterAtSync
<1>5. Active \union {g} \subseteq Active'
  <2>1. stack[p] \in Seq(Frame)
    BY DEF TypeOK
  <2>2. /\ \A i \in DOMAIN stack[p] : i \in DOMAIN stack'[p] /\ stack'[p][i] = stack[p][i]
        /\ \E i \in DOMAIN stack'[p] : stack'[p][i] = g
    BY <1>2, <2>1, Pushed
  <2>3. Held(stack) \union {g} \subseteq Held(stack')
    BY <1>2, <2>2 DEF Held
  <2>4. (Active = Held(stack))'
    BY ActiveHeld, PTL
  <2>5. Active' = Held(stack')
    BY <2>4 DEF Held
  <2>. QED
    BY <2>3, <2>5, ActiveHeld
<1>6. \A h \in Frame : InReach(h) => InReach(h)'
  <2>. SUFFICES ASSUME NEW h \in Frame, InReach(h) PROVE InReach(h)'
    OBVIOUS
  <2>1. Awaits(h) => Awaits(h)'
    BY <1>3 DEF Awaits
  <2>2. ToPush(h) => ToPush(h)'
    BY <1>2, <1>3, OthersPush
  <2>. QED
    BY <1>1, <1>5, <2>1, <2>2 DEF InReach
<1>. QED
  BY <1>3, <1>4, <1>6, StaysInReach

LEMMA FrameDoneReach ==
  ASSUME TypeInv, TypeInv', FlowInv, NothingLost, NEW p \in Thread, FrameDone(p)
  PROVE  NothingLost'
<1>. USE DEF TypeInv
<1>1. PICK f \in Frame : f = Current(p)
  BY FrameDoneMoves
<1>2. Active \subseteq Active' \union {f}
  BY <1>1, FrameDoneMoves, StackLeft DEF FlowInv, PlainOnce
<1>3. f \in signalled
  BY <1>1, FrameDoneMoves DEF FlowInv, SignalInv, InStep, After
<1>4. UNCHANGED <<queue, signalled, next>> /\ pc[p] \notin Pushes
  BY DEF FrameDone, locals, history, Pushes
<1>5. AtSync' \subseteq AtSync
  BY FrameDoneMoves, LeaveAtSync
<1>6. Queued' = Queued
  BY <1>4 DEF Queued, InQueue
<1>7. \A h \in Frame : InReach(h) => InReach(h)' \/ h \in signalled'
  <2>. SUFFICES ASSUME NEW h \in Frame, InReach(h), h # f PROVE InReach(h)'
    BY <1>3, <1>4
  <2>1. Awaits(h) => Awaits(h)'
    BY <1>4 DEF Awaits
  <2>2. ToPush(h) => ToPush(h)'
    BY <1>4, FrameDoneMoves, OthersPush
  <2>. QED
    BY <1>2, <1>6, <2>1, <2>2 DEF InReach
<1>. QED
  BY <1>4, <1>5, <1>7, StaysInReach

\* a step that touches neither the stacks nor what has signalled
LEMMA KeepsReach ==
  ASSUME NothingLost, AtSync' \subseteq AtSync, stack' = stack, signalled' = signalled,
         Queued \subseteq Queued', \A g \in Frame : ToPush(g) => InReach(g)'
  PROVE  NothingLost'
<1>1. \A g \in Frame : InReach(g) => InReach(g)'
  <2>. SUFFICES ASSUME NEW g \in Frame, InReach(g) PROVE InReach(g)'
    OBVIOUS
  <2>1. (Awaits(g) => Awaits(g)') /\ (g \in Active => g \in Active')
    BY DEF Awaits, Active
  <2>. QED
    BY <2>1 DEF InReach
<1>. QED
  BY <1>1, StaysInReach

LEMMA QuietReach ==
  ASSUME NothingLost, AtSync' \subseteq AtSync, UNCHANGED <<queue, stack, signalled>>,
         NEW p \in Thread, pc[p] \notin Pushes,
         \A q \in Thread \ {p} : pc'[q] = pc[q] /\ next'[q] = next[q]
  PROVE  NothingLost'
<1>1. Queued' = Queued
  BY DEF Queued, InQueue
<1>2. \A g \in Frame : ToPush(g) => InReach(g)'
  BY OthersPush DEF InReach
<1>. QED
  BY <1>1, <1>2, KeepsReach

LEMMA MainReach ==
  ASSUME TypeInv, MainInv, NothingLost, AtSync' \subseteq AtSync,
         MainStep \/ UNCHANGED vars
  PROVE  NothingLost'
<1>1. UNCHANGED <<queue, stack, signalled, next>>
  BY DEF MainStep, StartThread, JoinThread, JoinFailed, vars, work, locals, history
<1>2. CASE pc' = pc
  <2>1. Queued' = Queued /\ \A g : ToPush(g)' <=> ToPush(g)
    BY <1>1, <1>2 DEF Queued, InQueue, ToPush, Current
  <2>. QED
    BY <1>1, <2>1, KeepsReach DEF InReach
<1>3. CASE StartThread
  <2>1. main.at \in Thread /\ pc[main.at] = "created"
    BY <1>3 DEF StartThread, TypeInv, TypeOK, MainInv, Thread
  <2>2. PICK label \in {"check", "failed"} : Goto(main.at, label)
    BY <1>3 DEF StartThread
  <2>3. \A q \in Thread \ {main.at} : pc'[q] = pc[q]
    BY <2>1, <2>2, GotoMoves DEF TypeInv, Label
  <2>. QED
    BY <1>1, <2>1, <2>3, QuietReach DEF Pushes
<1>. QED
  BY <1>2, <1>3 DEF MainStep, JoinThread, JoinFailed, vars

LEMMA LookForWorkReach ==
  ASSUME TypeInv, NothingLost, AtSync' \subseteq AtSync, NEW p \in Thread,
         \/ ThreadLoop(p) \/ SyncLoop(p) \/ Inform(p) \/ Finish(p) \/ RunLeaf(p)
         \/ PopEmpty(p) \/ StealRead(p) \/ StealEmpty(p) \/ StealAbort(p)
  PROVE  NothingLost'
<1>1. pc[p] \notin Pushes
  BY DEF ThreadLoop, SyncLoop, Inform, PopEmpty, StealRead, StealEmpty, StealAbort, Finish,
         RunLeaf, Pushes
<1>2. UNCHANGED <<queue, stack, signalled>>
  BY DEF ThreadLoop, SyncLoop, Inform, PopEmpty, StealRead, StealEmpty, StealAbort, Finish,
         RunLeaf, work, history
<1>3. \A q \in Thread \ {p} : next'[q] = next[q]
  <2>1. next' = next \/ Inform(p)
    BY DEF ThreadLoop, SyncLoop, PopEmpty, StealRead, StealEmpty, StealAbort, Finish, RunLeaf,
           locals
  <2>. QED
    BY <2>1 DEF Inform, TypeInv, TypeOK
<1>4. pc' = pc \/ \E label \in Label : Goto(p, label)
  BY DEF ThreadLoop, SyncLoop, Inform, PopEmpty, StealRead, StealEmpty, StealAbort, Finish,
         RunLeaf, Label
<1>5. \A q \in Thread \ {p} : pc'[q] = pc[q]
  BY <1>4, GotoMoves DEF TypeInv
<1>. QED
  BY <1>1, <1>2, <1>3, <1>5, QuietReach

\* what a closure begins to wait for is to be pushed, or awaits what is
LEMMA RunSpawnReach ==
  ASSUME SumsAreLeaves, TypeInv, FlowInv, NothingLost, NEW p \in Thread, RunSpawn(p)
  PROVE  NothingLost'
<1>. USE DEF TypeInv, FlowInv
<1>0. PICK f : f = Current(p)
  OBVIOUS
<1>1. /\ pc[p] = "run" /\ stack[p] # <<>> /\ Spawned[f] # <<>>
      /\ UNCHANGED <<queue, stack, signalled>>
  BY <1>0 DEF RunSpawn, TypeOK, work, history
<1>2. pc'[p] = "push" /\ \A q \in Thread \ {p} : pc'[q] = pc[q] /\ stack'[q] = stack[q]
  BY <1>1, GotoMoves DEF RunSpawn, Label
<1>3. next'[p] = 1 /\ \A q \in Thread \ {p} : next'[q] = next[q]
  BY DEF RunSpawn, TypeOK
<1>4. f \in Frame /\ f \in InStep({"run"}) /\ Current(p)' = f
  BY <1>0, <1>1, CurrentIsFrame DEF Current, InStep
<1>5. AtSync' \subseteq AtSync \union {f}
  BY <1>0, RunSpawnAtSync
<1>6. ASSUME NEW h \in Frame \ {Root}, Parent[h] = f PROVE InReach(h)'
  <2>1. CASE h \in Plain
    <3>1. PICK i \in DOMAIN Spawned[f] : Spawned[f][i] = h
      BY <1>6, <2>1, TreeAssumption DEF Plain
    <3>2. i \in 1 .. Len(Spawned[f])
      BY <1>4, <3>1, SpawnedFrames
    <3>3. ToPush(h)'
      BY <1>2, <1>3, <1>4, <3>1, <3>2 DEF ToPush
    <3>. QED
      BY <3>3 DEF InReach
  <2>2. CASE h \notin Plain
    <3>1. PICK g \in Inputs(h) : g \in Plain \ {Root} /\ Parent[g] = f /\ g \in Frame
      BY <1>6, <2>2, InputsArePlain DEF Plain, Inputs
    <3>2. runs[g] = 0
      BY <1>4, <3>1 DEF PlainOnce, Fresh
    <3>3. g \notin signalled'
      BY <1>1, <3>1, <3>2 DEF SignalInv
    <3>. QED
      BY <3>1, <3>3 DEF InReach, Awaits
  <2>. QED
    BY <2>1, <2>2
<1>7. \A h \in Frame : InReach(h) => InReach(h)'
  <2>. SUFFICES ASSUME NEW h \in Frame, InReach(h) PROVE InReach(h)'
    OBVIOUS
  <2>1. /\ Awaits(h) => Awaits(h)'
        /\ h \in Active => h \in Active'
        /\ h \in Queued => h \in Queued'
    BY <1>1 DEF Awaits, Active, Queued, InQueue
  <2>2. ToPush(h) => ToPush(h)'
    BY <1>1, <1>2, <1>3, OthersPush DEF Pushes
  <2>. QED
    BY <2>1, <2>2 DEF InReach
<1>8. \A h : Unsignalled(h)' = Unsignalled(h)
  BY <1>1 DEF Unsignalled
<1>9. \A h \in AtSync' : \A g \in Unsignalled(h)' : InReach(g)'
  <2>. SUFFICES ASSUME NEW h \in AtSync', NEW g \in Unsignalled(h) PROVE InReach(g)'
    BY <1>8
  <2>1. g \in Frame \ {Root} /\ Parent[g] = h
    BY DEF Unsignalled, SyncFrames
  <2>. QED
    BY <1>5, <1>6, <1>7, <2>1, NothingLostReach
<1>. QED
  BY <1>9, NothingLostNext

\* a push to a queue that has room
LEMMA PushStores ==
  ASSUME TypeOK, NEW p \in Thread, NEW g \in Frame, PushIgnoringStatus(p, g),
         Len(queue[p]) < Capacity
  PROVE  Queued \union {g} \subseteq Queued'
<1>1. queue[p] \in Seq(Frame) /\ queue \in [Thread -> Seq(Frame)]
  BY DEF TypeOK
<1>2. queue' = [queue EXCEPT ![p] = Append(queue[p], g)]
  BY DEF PushIgnoringStatus
<1>3. /\ \A q \in Thread \ {p} : queue'[q] = queue[q]
      /\ queue'[p] = Append(queue[p], g)
  BY <1>1, <1>2
<1>4. /\ \A i \in DOMAIN queue[p] : i \in DOMAIN queue'[p] /\ queue'[p][i] = queue[p][i]
      /\ \E i \in DOMAIN queue'[p] : queue'[p][i] = g
  BY <1>1, <1>3, Pushed
<1>5. Held(queue) \union {g} \subseteq Held(queue')
  BY <1>3, <1>4 DEF Held
<1>6. Queued' = Held(queue')
  BY DEF Queued, InQueue, Held, Range
<1>. QED
  BY <1>5, <1>6, QueuedHeld

LEMMA PushSpawnedReach ==
  ASSUME TypeInv, RoomToPush, NothingLost, AtSync' \subseteq AtSync,
         NEW p \in Thread, PushSpawned(p)
  PROVE  NothingLost'
<1>. USE DEF TypeInv
<1>0. PICK f : f = Current(p)
  OBVIOUS
<1>1. /\ pc[p] = "push" /\ stack[p] # <<>> /\ Len(queue[p]) < Capacity
      /\ UNCHANGED <<stack, signalled>>
  BY DEF PushSpawned, TypeOK, data, history, RoomToPush
<1>2. f \in Frame /\ next[p] \in DOMAIN Spawned[f]
  BY <1>0, <1>1, InnermostCell DEF Pushing
<1>3. DOMAIN Spawned[f] = {1, 2} /\ Len(Spawned[f]) = 2 /\ next[p] \in {1, 2}
  BY <1>2, SpawnedFrames
<1>4. \/ next[p] = 1 /\ next' = [next EXCEPT ![p] = 2] /\ pc' = pc
      \/ next[p] = 2 /\ next' = [next EXCEPT ![p] = 0] /\ Goto(p, "check")
  BY <1>0, <1>3 DEF PushSpawned
<1>5. /\ \A q \in Thread \ {p} : pc'[q] = pc[q] /\ stack'[q] = stack[q] /\ next'[q] = next[q]
      /\ next[p] = 1 => pc'[p] = "push" /\ next'[p] = 2
  <2>1. \A q \in Thread \ {p} : pc'[q] = pc[q]
    BY <1>4, GotoMoves DEF Label
  <2>2. next[p] = 1 => next' = [next EXCEPT ![p] = 2] /\ pc' = pc
    BY <1>4
  <2>3. next[p] = 1 => pc'[p] = "push" /\ next'[p] = 2
    BY <1>1, <2>2 DEF TypeOK
  <2>4. \A q \in Thread \ {p} : next'[q] = next[q]
    BY <1>4 DEF TypeOK
  <2>. QED
    BY <1>1, <2>1, <2>3, <2>4
<1>6. PICK g \in Frame : g = Spawned[f][next[p]]
  BY <1>2, SpawnedFrames
<1>7. Queued \union {g} \subseteq Queued'
  BY <1>0, <1>1, <1>6, PushStores DEF PushSpawned
<1>8. \A q \in Thread : Current(q)' = Current(q)
  BY <1>1 DEF Current
<1>9. ASSUME NEW h \in Frame, ToPush(h) PROVE InReach(h)'
  <2>1. PICK q \in Thread :
          \/ /\ pc[q] = "push"
             /\ \E i \in next[q] .. Len(Spawned[Current(q)]) : Spawned[Current(q)][i] = h
          \/ pc[q] \in {"signal_deps", "test_deps", "push_dep"} /\ Dependent[Current(q)] = h
    BY <1>9 DEF ToPush
  <2>2. CASE q # p
    <3>1. ToPush(h)'
      BY <1>5, <1>8, <2>1, <2>2 DEF ToPush
    <3>. QED
      BY <3>1 DEF InReach
  <2>3. CASE q = p
    <3>1. PICK i \in next[p] .. 2 : Spawned[f][i] = h
      BY <1>0, <1>1, <1>3, <2>1, <2>3
    <3>2. CASE i = next[p]
      BY <1>6, <1>7, <3>1, <3>2 DEF InReach
    <3>3. CASE i # next[p]
      <4>1. next[p] = 1 /\ i = 2
        BY <1>3, <3>1, <3>3
      <4>2. ToPush(h)'
        BY <1>0, <1>3, <1>5, <1>8, <3>1, <4>1 DEF ToPush
      <4>. QED
        BY <4>2 DEF InReach
    <3>. QED
      BY <3>2, <3>3
  <2>. QED
    BY <2>2, <2>3
<1>. QED
  BY <1>1, <1>7, <1>9, KeepsReach

\* the last input of a frame: from its signal on, its thread has to push it
LEMMA SignalSyncReach ==
  ASSUME TypeInv, NothingLost, AtSync' \subseteq AtSync, NEW p \in Thread, SignalSync(p)
  PROVE  NothingLost'
<1>. USE DEF TypeInv
<1>0. PICK f : f = Current(p)
  OBVIOUS
<1>1. /\ pc[p] = "signal_sync" /\ signalled' = signalled \union {f}
      /\ UNCHANGED <<queue, stack, next>>
  BY <1>0 DEF SignalSync, TypeOK, work, locals
<1>2. pc'[p] = "signal_deps" /\ \A q \in Thread \ {p} : pc'[q] = pc[q] /\ stack'[q] = stack[q]
  BY <1>1, GotoMoves DEF SignalSync, Label
<1>3. \A h \in Frame : InReach(h) => InReach(h)'
  <2>. SUFFICES ASSUME NEW h \in Frame, InReach(h) PROVE InReach(h)'
    OBVIOUS
  <2>1. (h \in Active => h \in Active') /\ (h \in Queued => h \in Queued')
    BY <1>1 DEF Active, Queued, InQueue
  <2>2. ToPush(h) => ToPush(h)'
    BY <1>1, <1>2, OthersPush DEF Pushes
  <2>3. Awaits(h) => Awaits(h)' \/ ToPush(h)'
    <3>1. CASE Dependent[f] = h
      BY <1>0, <1>1, <1>2, <3>1, SignallerPushes
    <3>2. CASE Dependent[f] # h
      BY <1>1, <3>2 DEF Awaits, Inputs
    <3>. QED
      BY <3>1, <3>2
  <2>. QED
    BY <2>1, <2>2, <2>3 DEF InReach
<1>. QED
  BY <1>1, <1>3, StaysInReach

LEMMA SignalDependenciesReach ==
  ASSUME TypeInv, NothingLost, AtSync' \subseteq AtSync,
         NEW p \in Thread, SignalDependencies(p)
  PROVE  NothingLost'
<1>. USE DEF TypeInv
<1>0. PICK f : f = Current(p)
  OBVIOUS
<1>1. pc[p] = "signal_deps" /\ UNCHANGED <<queue, stack, signalled, next>>
  BY DEF SignalDependencies, work, locals, history
<1>2. /\ Dependent[f] # None => pc'[p] = "test_deps"
      /\ \A q \in Thread \ {p} : pc'[q] = pc[q] /\ stack'[q] = stack[q]
  <2>1. (Dependent[f] = None /\ Goto(p, "frame_done")) \/ Goto(p, "test_deps")
    BY <1>0 DEF SignalDependencies
  <2>. QED
    BY <1>1, <2>1, GotoMoves DEF Label
<1>3. ASSUME NEW h \in Frame, ToPush(h) PROVE ToPush(h)'
  <2>1. CASE Dependent[f] = h
    <3>1. h # None
      BY SchedulerAssumption
    <3>. QED
      BY <1>0, <1>1, <1>2, <2>1, <3>1, SignallerPushes
  <2>2. CASE Dependent[f] # h
    BY <1>0, <1>1, <1>2, <1>3, <2>2, OthersPushOn DEF Pushes
  <2>. QED
    BY <2>1, <2>2
<1>4. Queued' = Queued
  BY <1>1 DEF Queued, InQueue
<1>. QED
  BY <1>1, <1>3, <1>4, KeepsReach DEF InReach

\* who finds the counter above zero leaves the push to another thread
LEMMA TestDependenciesReach ==
  ASSUME TypeInv, FlowInv, NoCrash, NothingLost, AtSync' \subseteq AtSync,
         NEW p \in Thread, TestDependencies(p)
  PROVE  NothingLost'
<1>. USE DEF TypeInv, FlowInv
<1>0. PICK f : f = Current(p)
  OBVIOUS
<1>1. /\ pc[p] = "test_deps" /\ stack[p] # <<>>
      /\ UNCHANGED <<queue, stack, signalled, next>>
  BY DEF TestDependencies, TypeOK, work, locals, history
<1>2. /\ dependenciesNo[Dependent[f]] = 0 => pc'[p] = "push_dep"
      /\ \A q \in Thread \ {p} : pc'[q] = pc[q] /\ stack'[q] = stack[q]
  <2>1. PICK label \in {"frame_done", "push_dep"} :
          Goto(p, label) /\ (dependenciesNo[Dependent[f]] = 0 => label = "push_dep")
    BY <1>0 DEF TestDependencies, DependenciesMet
  <2>. QED
    BY <1>1, <2>1, GotoMoves DEF Label
<1>3. f \in Frame /\ f \in Active
  BY <1>0, <1>1, InnermostCell
<1>4. PICK d \in Frame : d = Dependent[f]
  BY <1>0, <1>1, <1>3, SchedulerAssumption DEF Pushing
<1>5. dependenciesNo[d] # 0 => Awaits(d)' \/ ToPush(d)'
  <2>. SUFFICES ASSUME dependenciesNo[d] # 0 PROVE Awaits(d)' \/ ToPush(d)'
    OBVIOUS
  <2>1. f \in Inputs(d) /\ d \in Frame \ Plain
    BY <1>3, <1>4 DEF Inputs, Plain
  <2>2. f \in Plain \ {Root} /\ Parent[f] = Parent[d] /\ Parent[d] \in Frame
    BY <2>1, InputsArePlain
  <2>3. runs[f] > 0 /\ runs[f] \in Nat /\ runs[Parent[d]] \in Nat
    BY <1>3, <2>2 DEF PlainOnce, TypeOK
  <2>4. runs[Parent[d]] > 0 /\ Parent[d] \notin InStep({"run"})
    BY <2>2, <2>3 DEF PlainOnce, Fresh
  <2>5. Cardinality(Missing(d)) # 0
    BY <2>1, <2>4 DEF CounterInv
  <2>6. PICK g : g \in Missing(d)
    BY <2>5, FS_EmptySet
  <2>7. CASE g \notin signalled
    BY <1>1, <2>6, <2>7 DEF Missing, Awaits
  <2>8. CASE g \in InStep(Decreasing)
    <3>1. PICK q \in Thread : pc[q] \in Decreasing /\ Current(q) = g
      BY <2>8 DEF InStep
    <3>2. pc[q] = "signal_deps" /\ q # p
      BY <1>1, <3>1 DEF NoCrash, Decreasing
    <3>3. pc'[q] = "signal_deps" /\ Dependent[Current(q)] = d
      BY <1>2, <2>6, <3>1, <3>2 DEF Missing, Inputs
    <3>. QED
      BY <1>1, <3>3, SignallerPushes
  <2>. QED
    BY <2>6, <2>7, <2>8 DEF Missing
<1>6. ASSUME NEW h \in Frame, ToPush(h) PROVE InReach(h)'
  <2>1. CASE h = d /\ dependenciesNo[d] = 0
    BY <1>0, <1>1, <1>2, <1>4, <2>1, SignallerPushes DEF InReach
  <2>2. CASE h = d /\ dependenciesNo[d] # 0
    BY <1>5, <2>2 DEF InReach
  <2>3. CASE h # d
    <3>1. ToPush(h)'
      BY <1>0, <1>1, <1>2, <1>4, <1>6, <2>3, OthersPushOn DEF Pushes
    <3>. QED
      BY <3>1 DEF InReach
  <2>. QED
    BY <2>1, <2>2, <2>3
<1>7. Queued' = Queued
  BY <1>1 DEF Queued, InQueue
<1>. QED
  BY <1>1, <1>6, <1>7, KeepsReach

LEMMA PushDependentReach ==
  ASSUME TypeInv, RoomForDependents, NothingLost, AtSync' \subseteq AtSync,
         NEW p \in Thread, PushDependent(p)
  PROVE  NothingLost'
<1>. USE DEF TypeInv
<1>0. PICK f : f = Current(p)
  OBVIOUS
<1>1. /\ pc[p] = "push_dep" /\ stack[p] # <<>> /\ Len(queue[p]) < Capacity
      /\ UNCHANGED <<stack, signalled, next>>
  BY DEF PushDependent, TypeOK, locals, history, RoomForDependents
<1>2. \A q \in Thread \ {p} : pc'[q] = pc[q] /\ stack'[q] = stack[q]
  BY <1>1, GotoMoves DEF PushDependent, Label
<1>3. f \in Frame
  BY <1>0, <1>1, InnermostCell
<1>4. PICK d \in Frame : d = Dependent[f]
  BY <1>0, <1>1, <1>3, SchedulerAssumption DEF Pushing
<1>5. Queued \union {d} \subseteq Queued'
  BY <1>0, <1>1, <1>4, PushStores DEF PushDependent
<1>6. ASSUME NEW h \in Frame, ToPush(h), h # d PROVE ToPush(h)'
  BY <1>0, <1>1, <1>2, <1>4, <1>6, OthersPushOn DEF Pushes
<1>7. \A h \in Frame : ToPush(h) => InReach(h)'
  BY <1>5, <1>6 DEF InReach
<1>. QED
  BY <1>1, <1>5, <1>7, KeepsReach

\* only frames on the stack of a closure go away before their thread is done
LEMMA NeverCrashes ==
  ASSUME ~StackFrames, TypeInv, NoCrash, [Next]_vars
  PROVE  NoCrash'
<1>. USE DEF TypeInv
<1>1. CASE pc' = pc
  BY <1>1 DEF NoCrash
<1>2. ASSUME NEW p \in Thread, NEW label \in Label \ {"crashed"}, Goto(p, label) PROVE NoCrash'
  BY <1>2, GotoMoves DEF NoCrash
<1>3. CASE MainStep
  <2>1. pc' = pc \/ \E label \in {"check", "failed"} : Goto(main.at, label)
    BY <1>3 DEF MainStep, StartThread, JoinThread, JoinFailed
  <2>2. main.at \in Thread
    BY DEF TypeOK
  <2>. QED
    BY <1>1, <1>2, <2>1, <2>2 DEF Label
<1>4. ASSUME NEW p \in Thread, ThreadStep(p) PROVE NoCrash'
  <2>1. ~ReadGone(p)
    BY DEF ReadGone, Gone
  <2>2. CASE ThreadLoop(p) \/ SyncLoop(p) \/ Inform(p) \/ GetFrame(p)
    <3>1. pc' = pc \/ \E label \in Label \ {"crashed"} : Goto(p, label)
      BY <2>2 DEF ThreadLoop, SyncLoop, Inform, GetFrame, PopFrame, PopEmpty, StealRead,
                  StealEmpty, StealSuccess, StealAbort, Enter, Label
    <3>. QED
      BY <1>1, <1>2, <3>1
  <2>3. CASE Closure(p) \/ FrameEnd(p)
    <3>1. pc' = pc \/ \E label \in Label \ {"crashed"} : Goto(p, label)
      BY <2>1, <2>3 DEF Closure, RunLeaf, RunSpawn, PushSpawned, Finish, FrameEnd, SignalSync,
                        SignalDependencies, TestDependencies, PushDependent, FrameDone, Label
    <3>. QED
      BY <1>1, <1>2, <3>1
  <2>. QED
    BY <1>4, <2>2, <2>3 DEF ThreadStep
<1>. QED
  BY <1>1, <1>3, <1>4 DEF Next, Terminated, vars

LEMMA ReachStep ==
  ASSUME SumsAreLeaves, ~StackFrames, FlowIInv, FlowIInv', NoCrash, RoomToPush, RoomForDependents,
         NothingLost, [Next]_vars
  PROVE  NothingLost'
<1>. USE DEF FlowIInv
<1>1. CASE \E p \in Thread : PopFrame(p) \/ StealSuccess(p)
  BY <1>1, EnterReach
<1>2. CASE \E p \in Thread : RunSpawn(p)
  BY <1>2, RunSpawnReach
<1>3. CASE \E p \in Thread : FrameDone(p)
  BY <1>3, FrameDoneReach
<1>4. CASE \A p \in Thread : ~PopFrame(p) /\ ~StealSuccess(p) /\ ~RunSpawn(p) /\ ~FrameDone(p)
  <2>1. AtSync' \subseteq AtSync
    BY <1>4, OthersWaitLess, WaitsLessAtSync
  <2>2. CASE MainStep \/ UNCHANGED vars
    BY <2>1, <2>2, MainReach
  <2>3. ASSUME NEW p \in Thread, ThreadStep(p) PROVE NothingLost'
    <3>1. CASE \/ ThreadLoop(p) \/ SyncLoop(p) \/ Inform(p) \/ Finish(p) \/ RunLeaf(p)
               \/ PopEmpty(p) \/ StealRead(p) \/ StealEmpty(p) \/ StealAbort(p)
      BY <2>1, <3>1, LookForWorkReach
    <3>2. CASE PushSpawned(p)
      BY <2>1, <3>2, PushSpawnedReach
    <3>3. CASE SignalSync(p)
      BY <2>1, <3>3, SignalSyncReach
    <3>4. CASE SignalDependencies(p)
      BY <2>1, <3>4, SignalDependenciesReach
    <3>5. CASE TestDependencies(p)
      BY <2>1, <3>5, TestDependenciesReach
    <3>6. CASE PushDependent(p)
      BY <2>1, <3>6, PushDependentReach
    <3>7. ~ReadGone(p)
      BY DEF ReadGone, Gone
    <3>. QED
      BY <1>4, <2>3, <3>1, <3>2, <3>3, <3>4, <3>5, <3>6, <3>7
         DEF ThreadStep, GetFrame, Closure, FrameEnd
  <2>. QED
    BY <2>2, <2>3 DEF Next, Terminated
<1>. QED
  BY <1>1, <1>2, <1>3, <1>4

(***************************************************************************)
(* What a closure waits for is on a stack, in a queue, about to be pushed, *)
(* or awaits data that is, when no push finds its queue full: of the       *)
(* threads that signal the inputs of a frame one finds its counter at zero *)
(* and pushes it, whatever the order of their decrements and tests.  The   *)
(* frames are malloc-ed, as fibo's are: a thread that goes on with a frame *)
(* that is gone may crash before it pushes what awaits it.                 *)
(***************************************************************************)
THEOREM NothingLostInDataFlow ==
  SumsAreLeaves /\ ~StackFrames =>
    (Spec /\ []RoomToPush /\ []RoomForDependents => []NothingLost)
<1>. SUFFICES ASSUME SumsAreLeaves, ~StackFrames
              PROVE  Spec /\ []RoomToPush /\ []RoomForDependents => []NothingLost
  OBVIOUS
<1>1. Init => NothingLost /\ NoCrash
  <2>1. Init => AtSync = {}
    BY DEF Init, AtSync
  <2>. QED
    BY <2>1 DEF NothingLost, NoCrash, Init
<1>2. FlowIInv /\ FlowIInv' /\ NoCrash /\ NothingLost /\ RoomToPush /\ RoomForDependents
      /\ [Next]_vars => NoCrash' /\ NothingLost'
  <2>. SUFFICES ASSUME FlowIInv, FlowIInv', NoCrash, NothingLost, RoomToPush, RoomForDependents,
                       [Next]_vars
                PROVE  NoCrash' /\ NothingLost'
    OBVIOUS
  <2>1. NoCrash'
    BY NeverCrashes DEF FlowIInv
  <2>2. NothingLost'
    BY ReachStep
  <2>. QED
    BY <2>1, <2>2
<1>. QED
  BY <1>1, <1>2, FlowInductive, PTL DEF Spec

-----------------------------------------------------------------------------
(***************************************************************************)
(* How many frames a queue may have to hold                                *)
(***************************************************************************)
\* the cells that hold frames that await data, of which there may be several
SumCells(place) ==
  {c \in Thread \X Nat : c[2] \in DOMAIN place[c[1]] /\ place[c[1]][c[2]] \notin Plain}

\* the frames that somebody awaits, and those that are done with their push
Suppliers == {g \in Frame : Dependent[g] # None}
Signalling == {"signal_deps", "test_deps", "push_dep"}
Supplied == {g \in Suppliers : g \in signalled /\ g \notin InStep(Signalling)}

\* every supplier puts at most one frame in a queue
RoomInv == IsFiniteSet(SumCells(queue)) /\ Cardinality(SumCells(queue)) <= Cardinality(Supplied)

LEMMA SuppliersFit ==
  /\ Suppliers \subseteq Plain \ {Root}
  /\ IsFiniteSet(Suppliers) /\ Cardinality(Suppliers) \in Nat
  /\ IsFiniteSet(Plain) /\ Cardinality(Plain) \in Nat
  /\ IsFiniteSet(Supplied) /\ Cardinality(Supplied) \in Nat
<1>1. Suppliers \subseteq Plain \ {Root}
  <2>. SUFFICES ASSUME NEW g \in Frame, Dependent[g] # None PROVE g \in Plain \ {Root}
    BY DEF Suppliers
  <2>1. Dependent[g] \in Frame /\ g \in Inputs(Dependent[g])
    BY SchedulerAssumption DEF Inputs
  <2>2. Dependent[g] \in Frame \ Plain
    BY <2>1 DEF Plain
  <2>. QED
    BY <2>1, <2>2, InputsArePlain
<1>2. Plain \subseteq Frame /\ Suppliers \subseteq Frame /\ Supplied \subseteq Frame
  BY DEF Plain, Suppliers, Supplied
<1>3. \A T \in SUBSET Frame : IsFiniteSet(T) /\ Cardinality(T) \in Nat
  BY CountAssumption, FS_Subset, FS_CardinalityType
<1>. QED
  BY <1>1, <1>2, <1>3

LEMMA SumCellsFewer ==
  ASSUME NEW place, NEW after, SumCells(after) \subseteq SumCells(place),
         IsFiniteSet(SumCells(place))
  PROVE  /\ IsFiniteSet(SumCells(after))
         /\ Cardinality(SumCells(after)) <= Cardinality(SumCells(place))
BY FS_Subset

LEMMA SumCellsTail ==
  ASSUME NEW place \in [Thread -> Seq(Frame)], NEW after, NEW p \in Thread, place[p] # <<>>,
         after[p] = Tail(place[p]), \A q \in Thread \ {p} : after[q] = place[q],
         IsFiniteSet(SumCells(place))
  PROVE  /\ IsFiniteSet(SumCells(after))
         /\ Cardinality(SumCells(after)) <= Cardinality(SumCells(place))
<1>. DEFINE from(c) == IF c[1] = p THEN <<p, c[2] + 1>> ELSE c
            back == [c \in SumCells(after) |-> from(c)]
<1>1. place[p] \in Seq(Frame)
  OBVIOUS
<1>2. \A i \in DOMAIN after[p] : i + 1 \in DOMAIN place[p] /\ after[p][i] = place[p][i + 1]
  BY <1>1, Stolen
<1>3. \A c \in SumCells(after) : from(c) \in SumCells(place)
  <2>. TAKE c \in SumCells(after)
  <2>1. c \in Thread \X Nat /\ c[2] \in DOMAIN after[c[1]] /\ after[c[1]][c[2]] \notin Plain
    BY DEF SumCells
  <2>2. CASE c[1] = p
    <3>1. <<p, c[2] + 1>> \in Thread \X Nat
      BY <2>1
    <3>2. c[2] + 1 \in DOMAIN place[p] /\ place[p][c[2] + 1] \notin Plain
      BY <1>2, <2>1, <2>2
    <3>3. <<p, c[2] + 1>> \in SumCells(place)
      BY <3>1, <3>2 DEF SumCells
    <3>. QED
      BY <2>2, <3>3
  <2>3. CASE c[1] # p
    BY <2>1, <2>3 DEF SumCells
  <2>. QED
    BY <2>2, <2>3
<1>4. \A c, d \in SumCells(after) : from(c) = from(d) => c = d
  <2>. SUFFICES ASSUME NEW c \in Thread \X Nat, NEW d \in Thread \X Nat, from(c) = from(d)
                PROVE  c = d
    BY DEF SumCells
  <2>. QED
    OBVIOUS
<1>5. back \in Injection(SumCells(after), SumCells(place))
  <2>. HIDE DEF from
  <2>. QED
    BY <1>3, <1>4 DEF Injection, IsInjective
<1>. QED
  BY <1>5, FS_Injection

LEMMA SumCellsPop ==
  ASSUME NEW place \in [Thread -> Seq(Frame)], NEW after, NEW p \in Thread, place[p] # <<>>,
         after[p] = SubSeq(place[p], 1, Len(place[p]) - 1),
         \A q \in Thread \ {p} : after[q] = place[q]
  PROVE  SumCells(after) \subseteq SumCells(place)
<1>1. place[p] \in Seq(Frame)
  OBVIOUS
<1>2. \A i \in DOMAIN after[p] : i \in DOMAIN place[p] /\ after[p][i] = place[p][i]
  BY <1>1, Popped
<1>3. \A q \in Thread : \A i \in DOMAIN after[q] : i \in DOMAIN place[q] /\ after[q][i] = place[q][i]
  BY <1>2
<1>. QED
  BY <1>3 DEF SumCells

\* a push adds a cell of its own kind
LEMMA SumCellsPush ==
  ASSUME NEW place \in [Thread -> Seq(Frame)], NEW after, NEW p \in Thread, NEW g \in Frame,
         after[p] = Append(place[p], g), \A q \in Thread \ {p} : after[q] = place[q],
         IsFiniteSet(SumCells(place))
  PROVE  /\ IsFiniteSet(SumCells(after))
         /\ g \in Plain => Cardinality(SumCells(after)) <= Cardinality(SumCells(place))
         /\ Cardinality(SumCells(after)) <= Cardinality(SumCells(place)) + 1
<1>. DEFINE n == Len(place[p]) + 1
<1>1. place[p] \in Seq(Frame)
  OBVIOUS
<1>2. /\ DOMAIN after[p] = DOMAIN place[p] \union {n}
      /\ \A i \in DOMAIN place[p] : after[p][i] = place[p][i]
      /\ after[p][n] = g
  BY <1>1, Pushed
<1>. HIDE DEF n
<1>3. SumCells(after) \subseteq SumCells(place) \union {<<p, n>>}
  <2>. SUFFICES ASSUME NEW c \in SumCells(after), c # <<p, n>> PROVE c \in SumCells(place)
    OBVIOUS
  <2>1. c \in Thread \X Nat /\ c[2] \in DOMAIN after[c[1]] /\ after[c[1]][c[2]] \notin Plain
    BY DEF SumCells
  <2>2. c[2] \in DOMAIN place[c[1]] /\ after[c[1]][c[2]] = place[c[1]][c[2]]
    <3>1. CASE c[1] = p
      <4>1. c[2] # n
        BY <2>1, <3>1
      <4>. QED
        BY <1>2, <2>1, <3>1, <4>1
    <3>2. CASE c[1] # p
      BY <2>1, <3>2
    <3>. QED
      BY <3>1, <3>2
  <2>. QED
    BY <2>1, <2>2 DEF SumCells
<1>4. g \in Plain => <<p, n>> \notin SumCells(after)
  BY <1>2 DEF SumCells
<1>5. CASE g \in Plain
  <2>1. SumCells(after) \subseteq SumCells(place)
    BY <1>3, <1>4, <1>5
  <2>2. /\ IsFiniteSet(SumCells(after))
        /\ Cardinality(SumCells(after)) <= Cardinality(SumCells(place))
    BY <2>1, SumCellsFewer
  <2>3. Cardinality(SumCells(place)) \in Nat /\ Cardinality(SumCells(after)) \in Nat
    BY <2>2, FS_CardinalityType
  <2>. QED
    BY <2>2, <2>3
<1>6. CASE g \notin Plain
  <2>. DEFINE T == SumCells(place) \union {<<p, n>>}
  <2>1. IsFiniteSet(T) /\ Cardinality(T) <= Cardinality(SumCells(place)) + 1
    <3>1. Cardinality(SumCells(place)) \in Nat
      BY FS_CardinalityType
    <3>2. /\ IsFiniteSet(T)
          /\ Cardinality(T) = IF <<p, n>> \in SumCells(place) THEN Cardinality(SumCells(place))
                              ELSE Cardinality(SumCells(place)) + 1
      BY FS_AddElement
    <3>. HIDE DEF T
    <3>. QED
      BY <3>1, <3>2
  <2>2. IsFiniteSet(SumCells(after)) /\ Cardinality(SumCells(after)) <= Cardinality(T)
    BY <1>3, <2>1, FS_Subset
  <2>. HIDE DEF T
  <2>3. Cardinality(SumCells(after)) \in Nat /\ Cardinality(T) \in Nat
        /\ Cardinality(SumCells(place)) \in Nat
    BY <2>1, <2>2, FS_CardinalityType
  <2>. QED
    BY <1>6, <2>1, <2>2, <2>3
<1>. QED
  BY <1>5, <1>6

\* the steps that put nothing in a queue: who is done with its push stays so
LEMMA SuppliedStays ==
  ASSUME signalled \subseteq signalled',
         \A q \in Thread : pc'[q] \in Signalling => pc[q] \in Signalling /\ stack'[q] = stack[q]
  PROVE  Supplied \subseteq Supplied'
<1>1. \A q \in Thread : pc'[q] \in Signalling => Current(q)' = Current(q)
  BY DEF Current
<1>2. InStep(Signalling)' \subseteq InStep(Signalling)
  BY <1>1 DEF InStep
<1>. QED
  BY <1>2 DEF Supplied

LEMMA RoomStays ==
  ASSUME RoomInv, Supplied \subseteq Supplied', IsFiniteSet(SumCells(queue)'),
         Cardinality(SumCells(queue)') <= Cardinality(SumCells(queue))
  PROVE  RoomInv'
<1>1. (IsFiniteSet(Supplied) /\ Cardinality(Supplied) \in Nat)'
  BY SuppliersFit, PTL
<1>2. Cardinality(Supplied) <= Cardinality(Supplied')
  BY <1>1, FS_Subset
<1>3. /\ Cardinality(SumCells(queue)) \in Nat /\ Cardinality(SumCells(queue)') \in Nat
      /\ Cardinality(Supplied) \in Nat
  BY SuppliersFit, FS_CardinalityType DEF RoomInv
<1>. QED
  BY <1>1, <1>2, <1>3 DEF RoomInv

LEMMA QuietRoom ==
  ASSUME RoomInv, queue' = queue, signalled \subseteq signalled',
         \A q \in Thread : pc'[q] \in Signalling => pc[q] \in Signalling /\ stack'[q] = stack[q]
  PROVE  RoomInv'
<1>1. SumCells(queue)' = SumCells(queue)
  BY DEF SumCells
<1>2. Supplied \subseteq Supplied'
  BY SuppliedStays
<1>3. Cardinality(SumCells(queue)) \in Nat
  BY FS_CardinalityType DEF RoomInv
<1>. QED
  BY <1>1, <1>2, <1>3, RoomStays DEF RoomInv

LEMMA OthersRoom ==
  ASSUME TypeInv, RoomInv, NEW p \in Thread, ThreadStep(p),
         \/ ThreadLoop(p) \/ SyncLoop(p) \/ Inform(p) \/ Finish(p) \/ RunLeaf(p) \/ RunSpawn(p)
         \/ PopEmpty(p) \/ StealRead(p) \/ StealEmpty(p) \/ StealAbort(p)
         \/ SignalDependencies(p) \/ ReadGone(p) \/ TestDependencies(p) \/ FrameDone(p)
  PROVE  RoomInv'
<1>1. queue' = queue /\ signalled' = signalled
  BY DEF ThreadLoop, SyncLoop, Inform, PopEmpty, StealRead, StealEmpty, StealAbort, Finish,
         RunLeaf, RunSpawn, SignalDependencies, ReadGone, TestDependencies, FrameDone,
         work, history
<1>2. \A q \in Thread \ {p} : pc'[q] = pc[q] /\ stack'[q] = stack[q]
  BY ThreadMoves
<1>3. pc'[p] \in Signalling => pc[p] \in Signalling /\ stack'[p] = stack[p]
  <2>1. CASE SignalDependencies(p) \/ TestDependencies(p)
    BY <2>1 DEF SignalDependencies, TestDependencies, work, Signalling
  <2>2. CASE Inform(p)
    <3>1. pc[p] = "inform" /\ (pc' = pc \/ Goto(p, "exited"))
      BY <2>2 DEF Inform
    <3>. QED
      BY <3>1, GotoMoves DEF TypeInv, Label, Signalling
  <2>3. CASE \/ ThreadLoop(p) \/ SyncLoop(p) \/ Finish(p) \/ RunLeaf(p) \/ RunSpawn(p)
             \/ PopEmpty(p) \/ StealRead(p) \/ StealEmpty(p) \/ StealAbort(p)
             \/ ReadGone(p) \/ FrameDone(p)
    <3>1. PICK label \in Label \ Signalling : Goto(p, label)
      BY <2>3 DEF ThreadLoop, SyncLoop, PopEmpty, StealRead, StealEmpty, StealAbort, Finish,
                  RunLeaf, RunSpawn, ReadGone, FrameDone, Label, Signalling
    <3>. QED
      BY <3>1, GotoMoves DEF TypeInv
  <2>. QED
    BY <2>1, <2>2, <2>3
<1>. QED
  BY <1>1, <1>2, <1>3, QuietRoom

LEMMA MainRoom ==
  ASSUME TypeInv, MainInv, RoomInv, MainStep \/ UNCHANGED vars
  PROVE  RoomInv'
<1>1. UNCHANGED <<queue, stack, signalled>>
  BY DEF MainStep, StartThread, JoinThread, JoinFailed, vars, work, history
<1>2. \A q \in Thread : pc'[q] \in Signalling => pc[q] = pc'[q]
  <2>1. main.at \in Thread
    BY DEF TypeInv, TypeOK
  <2>2. pc' = pc \/ \E label \in Label \ Signalling : Goto(main.at, label)
    BY DEF MainStep, StartThread, JoinThread, JoinFailed, vars, Label, Signalling
  <2>. QED
    BY <2>1, <2>2, GotoMoves DEF TypeInv
<1>. QED
  BY <1>1, <1>2, QuietRoom

LEMMA EnterRoom ==
  ASSUME TypeInv, RoomInv, NEW p \in Thread, PopFrame(p) \/ StealSuccess(p), ThreadStep(p)
  PROVE  RoomInv'
<1>0. queue \in [Thread -> Seq(Frame)] /\ roundRobin[p] \in Thread
  BY DEF TypeInv, TypeOK
<1>1. IsFiniteSet(SumCells(queue)) /\ Cardinality(SumCells(queue)) \in Nat
  BY FS_CardinalityType DEF RoomInv
<1>2. IsFiniteSet(SumCells(queue')) /\ Cardinality(SumCells(queue')) <= Cardinality(SumCells(queue))
  <2>1. CASE PopFrame(p)
    <3>1. /\ queue[p] # <<>> /\ queue'[p] = SubSeq(queue[p], 1, Len(queue[p]) - 1)
          /\ \A q \in Thread \ {p} : queue'[q] = queue[q]
      BY <1>0, <2>1 DEF PopFrame
    <3>. QED
      BY <1>0, <1>1, <3>1, SumCellsPop, SumCellsFewer
  <2>2. CASE StealSuccess(p)
    <3>1. PICK r \in Thread : r = roundRobin[p]
      BY <1>0
    <3>2. /\ queue[r] # <<>> /\ queue'[r] = Tail(queue[r])
          /\ \A q \in Thread \ {r} : queue'[q] = queue[q]
      BY <1>0, <2>2, <3>1 DEF StealSuccess, TopUnchanged
    <3>. QED
      BY <1>0, <1>1, <3>2, SumCellsTail
  <2>. QED
    BY <2>1, <2>2
<1>3. SumCells(queue)' = SumCells(queue')
  BY DEF SumCells
<1>4. pc'[p] = "run"
  <2>1. Goto(p, "run")
    BY DEF PopFrame, StealSuccess, Enter
  <2>. QED
    BY <2>1, GotoMoves DEF TypeInv, Label
<1>5. Supplied \subseteq Supplied'
  <2>1. signalled' = signalled
    BY DEF PopFrame, StealSuccess
  <2>2. \A q \in Thread \ {p} : pc'[q] = pc[q] /\ stack'[q] = stack[q]
    BY ThreadMoves
  <2>. QED
    BY <1>4, <2>1, <2>2, SuppliedStays DEF Signalling
<1>. QED
  BY <1>2, <1>3, <1>5, RoomStays

LEMMA PushSpawnedRoom ==
  ASSUME SumsAreLeaves, TypeInv, RoomInv, NEW p \in Thread, PushSpawned(p), ThreadStep(p)
  PROVE  RoomInv'
<1>. USE DEF TypeInv
<1>0. PICK f : f = Current(p)
  OBVIOUS
<1>1. pc[p] = "push" /\ stack[p] # <<>> /\ signalled' = signalled
  BY DEF PushSpawned, TypeOK, history
<1>2. f \in Frame /\ next[p] \in DOMAIN Spawned[f]
  BY <1>0, <1>1, InnermostCell DEF Pushing
<1>3. PICK g \in Frame : g = Spawned[f][next[p]] /\ g \in Plain
  BY <1>2, SpawnedFrames, SpawnersArePlain
<1>4. \/ queue' = queue
      \/ queue'[p] = Append(queue[p], g) /\ \A q \in Thread \ {p} : queue'[q] = queue[q]
  BY <1>0, <1>3, PushMoves DEF PushSpawned
<1>5. IsFiniteSet(SumCells(queue)) /\ Cardinality(SumCells(queue)) \in Nat
      /\ queue \in [Thread -> Seq(Frame)]
  BY FS_CardinalityType DEF RoomInv, TypeOK
<1>6. IsFiniteSet(SumCells(queue')) /\ Cardinality(SumCells(queue')) <= Cardinality(SumCells(queue))
  <2>1. CASE queue' = queue
    BY <1>5, <2>1
  <2>2. CASE queue'[p] = Append(queue[p], g) /\ \A q \in Thread \ {p} : queue'[q] = queue[q]
    BY <1>3, <1>5, <2>2, SumCellsPush
  <2>. QED
    BY <1>4, <2>1, <2>2
<1>7. SumCells(queue)' = SumCells(queue')
  BY DEF SumCells
<1>8. pc'[p] \notin Signalling
  <2>1. pc' = pc \/ Goto(p, "check")
    BY DEF PushSpawned
  <2>. QED
    BY <1>1, <2>1, GotoMoves DEF Label, Signalling
<1>9. Supplied \subseteq Supplied'
  <2>1. \A q \in Thread \ {p} : pc'[q] = pc[q] /\ stack'[q] = stack[q]
    BY ThreadMoves
  <2>. QED
    BY <1>1, <1>8, <2>1, SuppliedStays
<1>. QED
  BY <1>6, <1>7, <1>9, RoomStays

LEMMA SignalSyncRoom ==
  ASSUME TypeInv, FlowInv, RoomInv, NEW p \in Thread, SignalSync(p)
  PROVE  RoomInv'
<1>. USE DEF TypeInv, FlowInv
<1>0. PICK f : f = Current(p)
  OBVIOUS
<1>1. /\ pc[p] = "signal_sync" /\ stack[p] # <<>>
      /\ signalled' = signalled \union {f} /\ UNCHANGED <<queue, stack>>
  BY <1>0 DEF SignalSync, TypeOK, work
<1>2. pc'[p] = "signal_deps" /\ \A q \in Thread \ {p} : pc'[q] = pc[q]
  BY GotoMoves DEF SignalSync, Label
<1>3. f \in Plain => f \notin signalled
  <2>1. f \in Plain => f \notin InStep(After)
    BY <1>0, <1>1, CurrentInStep DEF PlainOnce, After
  <2>2. f \in Active
    BY <1>0, <1>1, InnermostCell
  <2>. QED
    BY <2>1, <2>2 DEF SignalInv
<1>4. InStep(Signalling)' \subseteq InStep(Signalling) \union {f}
  <2>1. \A q \in Thread : Current(q)' = Current(q)
    BY <1>1 DEF Current
  <2>. QED
    BY <1>0, <1>1, <1>2, <2>1 DEF InStep
<1>5. f \notin Supplied
  BY <1>3, SuppliersFit DEF Supplied
<1>6. Supplied \subseteq Supplied'
  BY <1>1, <1>4, <1>5 DEF Supplied
<1>7. SumCells(queue)' = SumCells(queue)
  BY <1>1 DEF SumCells
<1>8. Cardinality(SumCells(queue)) \in Nat
  BY FS_CardinalityType DEF RoomInv
<1>. QED
  BY <1>6, <1>7, <1>8, RoomStays DEF RoomInv

\* the push of a frame that awaits data is the last thing its supplier does for it
LEMMA PushDependentRoom ==
  ASSUME TypeInv, FlowInv, RoomInv, NEW p \in Thread, PushDependent(p)
  PROVE  RoomInv'
<1>. USE DEF TypeInv, FlowInv
<1>0. PICK f : f = Current(p)
  OBVIOUS
<1>1. pc[p] = "push_dep" /\ stack[p] # <<>> /\ stack' = stack /\ signalled' = signalled
  BY DEF PushDependent, TypeOK, history
<1>2. pc'[p] = "frame_done" /\ \A q \in Thread \ {p} : pc'[q] = pc[q]
  BY GotoMoves DEF PushDependent, Label
<1>3. f \in Frame /\ f \in Suppliers /\ f \in Plain
  <2>1. f \in Frame /\ Dependent[f] # None
    BY <1>0, <1>1, InnermostCell DEF Pushing
  <2>. QED
    BY <2>1, SuppliersFit DEF Suppliers
<1>4. f \in InStep(Signalling) /\ f \in InStep(After)
  BY <1>0, <1>1, <1>3 DEF InStep, Signalling, After
<1>5. f \notin InStep(Signalling)'
  <2>1. \A q \in Thread : stack[q] # <<>> /\ Current(q) = f => q = p
    BY <1>0, <1>1, <1>3, CurrentInStep DEF PlainOnce
  <2>2. \A q \in Thread : Current(q)' = Current(q)
    BY <1>1 DEF Current
  <2>. QED
    BY <1>1, <1>2, <2>1, <2>2 DEF InStep, Signalling
<1>6. InStep(Signalling)' \subseteq InStep(Signalling)
  <2>1. \A q \in Thread : Current(q)' = Current(q)
    BY <1>1 DEF Current
  <2>. QED
    BY <1>1, <1>2, <2>1 DEF InStep, Signalling
<1>7. Supplied \union {f} \subseteq Supplied' /\ f \notin Supplied
  BY <1>1, <1>3, <1>4, <1>5, <1>6 DEF Supplied, SignalInv
<1>8. (IsFiniteSet(Supplied) /\ Cardinality(Supplied) \in Nat)'
  BY SuppliersFit, PTL
<1>9. Cardinality(Supplied) + 1 <= Cardinality(Supplied')
  <2>. DEFINE T == Supplied \union {f}
  <2>1. Cardinality(T) = Cardinality(Supplied) + 1
    BY <1>7, SuppliersFit, FS_AddElement
  <2>2. Cardinality(T) <= Cardinality(Supplied')
    BY <1>7, <1>8, FS_Subset
  <2>. QED
    BY <2>1, <2>2
<1>10. PICK d \in Frame : d = Dependent[f]
  BY <1>3, SchedulerAssumption DEF Suppliers
<1>11. \/ queue' = queue
       \/ queue'[p] = Append(queue[p], d) /\ \A q \in Thread \ {p} : queue'[q] = queue[q]
  BY <1>0, <1>10, PushMoves DEF PushDependent
<1>12. IsFiniteSet(SumCells(queue)) /\ Cardinality(SumCells(queue)) \in Nat
       /\ queue \in [Thread -> Seq(Frame)]
  BY FS_CardinalityType DEF RoomInv, TypeOK
<1>13. /\ IsFiniteSet(SumCells(queue'))
       /\ Cardinality(SumCells(queue')) <= Cardinality(SumCells(queue)) + 1
  <2>1. CASE queue' = queue
    BY <1>12, <2>1
  <2>2. CASE queue'[p] = Append(queue[p], d) /\ \A q \in Thread \ {p} : queue'[q] = queue[q]
    BY <1>12, <2>2, SumCellsPush
  <2>. QED
    BY <1>11, <2>1, <2>2
<1>14. SumCells(queue)' = SumCells(queue')
  BY DEF SumCells
<1>15. Cardinality(SumCells(queue')) \in Nat /\ Cardinality(Supplied) \in Nat
  BY <1>13, SuppliersFit, FS_CardinalityType
<1>16. Cardinality(SumCells(queue')) <= Cardinality(Supplied')
  BY <1>8, <1>9, <1>12, <1>13, <1>15 DEF RoomInv
<1>. QED
  BY <1>13, <1>14, <1>16 DEF RoomInv

LEMMA RoomInductive == SumsAreLeaves => (Spec => []RoomInv)
<1>. SUFFICES ASSUME SumsAreLeaves PROVE Spec => []RoomInv
  OBVIOUS
<1>1. Init => RoomInv
  <2>. SUFFICES ASSUME Init PROVE RoomInv
    OBVIOUS
  <2>1. Root \in Plain
    BY InputsArePlain, SchedulerAssumption DEF Plain
  <2>2. \A q \in Thread : \A i \in DOMAIN queue[q] : queue[q][i] = Root
    BY DEF Init
  <2>3. SumCells(queue) = {}
    BY <2>1, <2>2 DEF SumCells
  <2>4. Cardinality(Supplied) \in Nat
    BY SuppliersFit
  <2>. QED
    BY <2>3, <2>4, FS_EmptySet DEF RoomInv
<1>2. FlowIInv /\ RoomInv /\ [Next]_vars => RoomInv'
  <2>. SUFFICES ASSUME FlowIInv, RoomInv, [Next]_vars PROVE RoomInv'
    OBVIOUS
  <2>. USE DEF FlowIInv
  <2>1. CASE MainStep \/ UNCHANGED vars
    BY <2>1, MainRoom
  <2>2. ASSUME NEW p \in Thread, ThreadStep(p) PROVE RoomInv'
    <3>1. CASE PopFrame(p) \/ StealSuccess(p)
      BY <2>2, <3>1, EnterRoom
    <3>2. CASE PushSpawned(p)
      BY <2>2, <3>2, PushSpawnedRoom
    <3>3. CASE SignalSync(p)
      BY <3>3, SignalSyncRoom
    <3>4. CASE PushDependent(p)
      BY <3>4, PushDependentRoom
    <3>5. CASE \/ ThreadLoop(p) \/ SyncLoop(p) \/ Inform(p) \/ Finish(p) \/ RunLeaf(p)
               \/ RunSpawn(p) \/ PopEmpty(p) \/ StealRead(p) \/ StealEmpty(p) \/ StealAbort(p)
               \/ SignalDependencies(p) \/ ReadGone(p) \/ TestDependencies(p) \/ FrameDone(p)
      BY <2>2, <3>5, OthersRoom
    <3>. QED
      BY <2>2, <3>1, <3>2, <3>3, <3>4, <3>5 DEF ThreadStep, GetFrame, Closure, FrameEnd
  <2>. QED
    BY <2>1, <2>2 DEF Next, Terminated
<1>. QED
  BY <1>1, <1>2, FlowInductive, PTL DEF Spec

\* a queue holds a plain frame once, and a sum for each supplier done with it
LEMMA QueueFits ==
  ASSUME TypeOK, PlainApart(queue), RoomInv, NEW p \in Thread,
         NEW F \in SUBSET Frame, Queued \intersect Plain \subseteq F
  PROVE  Len(queue[p]) <= Cardinality(F) + Cardinality(Supplied)
<1>. DEFINE n == Len(queue[p])
            A == {i \in 1 .. n : queue[p][i] \in Plain}
            B == {i \in 1 .. n : queue[p][i] \notin Plain}
            plain == [i \in A |-> queue[p][i]]
            sums == [i \in B |-> <<p, i>>]
<1>1. queue[p] \in Seq(Frame)
  BY DEF TypeOK
<1>2. n \in Nat /\ DOMAIN queue[p] = 1 .. n
  BY <1>1, LenProperties
<1>3. \A i \in 1 .. n : queue[p][i] \in Frame
  BY <1>1, <1>2, ElementOfSeq
<1>. HIDE DEF n
<1>4. IsFiniteSet(1 .. n) /\ Cardinality(1 .. n) = n
  BY <1>2, FS_Interval
<1>5. plain \in Injection(A, F)
  <2>1. \A i \in A : queue[p][i] \in F
    BY <1>2, <1>3 DEF Queued, InQueue, Range
  <2>2. \A i, j \in A : queue[p][i] = queue[p][j] => i = j
    BY <1>2 DEF PlainApart
  <2>. QED
    BY <2>1, <2>2 DEF Injection, IsInjective
<1>6. sums \in Injection(B, SumCells(queue))
  <2>1. \A i \in B : <<p, i>> \in SumCells(queue)
    BY <1>2 DEF SumCells
  <2>. QED
    BY <2>1 DEF Injection, IsInjective
<1>7. IsFiniteSet(F) /\ IsFiniteSet(SumCells(queue))
  BY CountAssumption, FS_Subset DEF RoomInv
<1>8. /\ IsFiniteSet(A) /\ Cardinality(A) <= Cardinality(F)
      /\ IsFiniteSet(B) /\ Cardinality(B) <= Cardinality(SumCells(queue))
  BY <1>5, <1>6, <1>7, FS_Injection
<1>9. n <= Cardinality(A) + Cardinality(B)
  <2>1. A \union B = 1 .. n /\ A \intersect B = {}
    OBVIOUS
  <2>. HIDE DEF A, B
  <2>2. Cardinality(A \union B) = Cardinality(A) + Cardinality(B) - Cardinality(A \intersect B)
    BY <1>8, FS_Union
  <2>3. Cardinality(A \intersect B) = 0
    BY <2>1, FS_EmptySet
  <2>4. Cardinality(A) \in Nat /\ Cardinality(B) \in Nat
    BY <1>8, FS_CardinalityType
  <2>5. Cardinality(A \union B) = n
    BY <1>4, <2>1
  <2>. QED
    BY <1>2, <2>2, <2>3, <2>4, <2>5
<1>. HIDE DEF A, B
<1>10. /\ Cardinality(A) \in Nat /\ Cardinality(B) \in Nat /\ Cardinality(F) \in Nat
       /\ Cardinality(SumCells(queue)) \in Nat /\ Cardinality(Supplied) \in Nat
  BY <1>7, <1>8, SuppliersFit, FS_CardinalityType
<1>11. n <= Cardinality(F) + Cardinality(Supplied)
  BY <1>2, <1>8, <1>9, <1>10 DEF RoomInv
<1>. QED
  BY <1>11 DEF n

\* the program's frames fit in a queue, however often its sums are pushed
QueuesSuffice == Cardinality(Plain) + Cardinality(Suppliers) <= Capacity

LEMMA RoomForAll ==
  ASSUME SumsAreLeaves, QueuesSuffice, TypeInv, FlowInv, RoomInv
  PROVE  RoomToPush /\ RoomForDependents
<1>. USE DEF TypeInv
<1>1. ASSUME NEW p \in Thread, pc[p] = "push" PROVE Len(queue[p]) < Capacity
  <2>1. stack[p] # <<>> /\ Current(p) \in Frame /\ next[p] \in DOMAIN Spawned[Current(p)]
    BY <1>1, InnermostCell DEF TypeOK, Pushing
  <2>2. PICK g \in Plain : g = Spawned[Current(p)][next[p]]
    BY <2>1, SpawnersArePlain
  <2>3. next[p] >= next[p]
    BY DEF TypeOK
  <2>4. g \notin Queued
    BY <1>1, <2>1, <2>2, <2>3 DEF FlowInv, PlainOnce, Fresh
  <2>. DEFINE F == Plain \ {g}
  <2>5. F \in SUBSET Frame /\ Queued \intersect Plain \subseteq F
    BY <2>4 DEF Plain
  <2>6. Cardinality(F) = Cardinality(Plain) - 1
    BY <2>2, SuppliersFit, FS_RemoveElement
  <2>. HIDE DEF F
  <2>7. Len(queue[p]) <= Cardinality(F) + Cardinality(Supplied)
    BY <2>5, QueueFits DEF FlowInv, PlainOnce
  <2>8. Cardinality(Supplied) <= Cardinality(Suppliers)
    BY SuppliersFit, FS_Subset DEF Supplied
  <2>9. Len(queue[p]) \in Nat /\ Capacity \in Nat
    BY LenProperties, SchedulerAssumption DEF TypeOK
  <2>. QED
    BY <2>6, <2>7, <2>8, <2>9, SuppliersFit DEF QueuesSuffice
<1>2. ASSUME NEW p \in Thread, pc[p] = "push_dep" PROVE Len(queue[p]) < Capacity
  <2>1. stack[p] # <<>>
    BY <1>2 DEF TypeOK
  <2>2. PICK f \in Frame : f = Current(p) /\ f \in InStep(Signalling)
    BY <1>2, <2>1, InnermostCell DEF InStep, Signalling
  <2>3. f \in Suppliers /\ f \notin Supplied
    BY <1>2, <2>2 DEF Suppliers, Supplied, Pushing
  <2>4. Supplied \subseteq Suppliers \ {f}
    BY <2>3 DEF Supplied
  <2>5. /\ IsFiniteSet(Suppliers \ {f})
        /\ Cardinality(Suppliers \ {f}) = Cardinality(Suppliers) - 1
    BY <2>3, SuppliersFit, FS_RemoveElement
  <2>6. Cardinality(Supplied) <= Cardinality(Suppliers) - 1
    BY <2>4, <2>5, FS_Subset
  <2>7. Len(queue[p]) <= Cardinality(Plain) + Cardinality(Supplied)
    <3>1. Plain \in SUBSET Frame
      BY DEF Plain
    <3>. QED
      BY <3>1, QueueFits DEF FlowInv, PlainOnce
  <2>8. Len(queue[p]) \in Nat /\ Capacity \in Nat
    BY LenProperties, SchedulerAssumption DEF TypeOK
  <2>. QED
    BY <2>6, <2>7, <2>8, SuppliersFit DEF QueuesSuffice
<1>. QED
  BY <1>1, <1>2 DEF RoomToPush, RoomForDependents

(***************************************************************************)
(* No push finds its queue full if a queue could hold every frame that     *)
(* awaits nothing, and each sum once for every input it has.               *)
(***************************************************************************)
THEOREM RoomInDataFlow ==
  SumsAreLeaves /\ QueuesSuffice => (Spec => [](RoomToPush /\ RoomForDependents))
<1>. SUFFICES ASSUME SumsAreLeaves, QueuesSuffice
              PROVE  Spec => [](RoomToPush /\ RoomForDependents)
  OBVIOUS
<1>1. FlowIInv /\ RoomInv => RoomToPush /\ RoomForDependents
  BY RoomForAll DEF FlowIInv
<1>. QED
  BY <1>1, FlowInductive, RoomInductive, PTL

(***************************************************************************)
(* So nothing is lost in programs such as fibo, with queues of that size.  *)
(***************************************************************************)
THEOREM NothingLostWithRoom ==
  SumsAreLeaves /\ ~StackFrames /\ QueuesSuffice => (Spec => []NothingLost)
BY RoomInDataFlow, NothingLostInDataFlow, PTL
=============================================================================
