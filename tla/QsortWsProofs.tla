---------------------------- MODULE QsortWsProofs ----------------------------
(***************************************************************************)
(* Proofs about QsortWs, for arrays of any size and any values: the scans  *)
(* of partition() stay in their range, closures that run at the same time  *)
(* work on different parts of the array, and a frame that signals leaves   *)
(* its range sorted, with the elements that were given.                    *)
(***************************************************************************)
EXTENDS QsortWs, FiniteSetTheorems, FunctionTheorems, TLAPS

(***************************************************************************)
(* What the entries of a frame are, and its range as two numbers           *)
(***************************************************************************)
LEMMA FrameFacts ==
  ASSUME FrameInv, NEW f \in Pushed
  PROVE  /\ frame[f].l \in Nat /\ frame[f].r \in Int
         /\ frame[f].l <= frame[f].r + 1 /\ frame[f].l <= size /\ frame[f].r <= size - 1
         /\ frame[f].i \in Int /\ frame[f].j \in Int /\ frame[f].pivot \in Int
         /\ frame[f].tmp \in Int /\ frame[f].sync_frames_remaining \in Int
         /\ frame[f].parent \in Pushed /\ frame[f] \in Closures
         /\ f[1] = frame[f].l /\ f[2] = frame[f].r /\ f = <<frame[f].l, frame[f].r>>
         /\ pc[f] \in Labels
<1>1. frame[f] \in Closures
  BY DEF FrameInv
<1>2. /\ f = <<frame[f].l, frame[f].r>>
      /\ frame[f].l \in 0 .. size /\ frame[f].r \in -1 .. size - 1
      /\ frame[f].l <= frame[f].r + 1 /\ size \in Nat /\ pc[f] \in Labels
  BY DEF FrameInv
<1>3. f[1] = frame[f].l /\ f[2] = frame[f].r
  BY <1>2
<1>. QED
  BY <1>1, <1>2, <1>3 DEF Closures

\* The elements of a range, and the one behind it, are in memory.
LEMMA ElementFacts ==
  ASSUME FrameInv, NEW f \in Pushed
  PROVE  \A k \in frame[f].l .. (frame[f].r + 1) : k \in 0 .. size /\ a[k] \in Value /\ a[k] \in Int
<1>1. /\ frame[f].l \in Nat /\ frame[f].r \in Int /\ frame[f].r <= size - 1
      /\ size \in Nat /\ a \in [0 .. size -> Value] /\ Value \subseteq Int
  BY FrameFacts, QsortAssumption DEF FrameInv
<1>2. ASSUME NEW k \in frame[f].l .. (frame[f].r + 1) PROVE k \in 0 .. size
  BY <1>1
<1>3. \A k \in 0 .. size : a[k] \in Value /\ a[k] \in Int
  BY <1>1
<1>. QED
  BY <1>2, <1>3

LEMMA RangeFacts ==
  ASSUME FrameInv, NEW f \in Pushed, NEW g \in Pushed
  PROVE  /\ Covers(Left(f), g) <=> frame[f].l <= frame[g].l /\ frame[g].r <= frame[f].j - 1
         /\ Covers(Right(f), g) <=> frame[f].j + 1 <= frame[g].l /\ frame[g].r <= frame[f].r
         /\ Apart(f, g) <=> (frame[f].r + 1 < frame[g].l \/ frame[g].r + 1 < frame[f].l)
         /\ f = g <=> (frame[f].l = frame[g].l /\ frame[f].r = frame[g].r)
<1>1. /\ Left(f)[1] = frame[f].l /\ Left(f)[2] = frame[f].j - 1
      /\ Right(f)[1] = frame[f].j + 1 /\ Right(f)[2] = frame[f].r
  BY DEF Left, Right
<1>2. /\ f[1] = frame[f].l /\ f[2] = frame[f].r /\ f = <<frame[f].l, frame[f].r>>
      /\ g[1] = frame[g].l /\ g[2] = frame[g].r /\ g = <<frame[g].l, frame[g].r>>
  BY FrameFacts
<1>. QED
  BY <1>1, <1>2 DEF Covers, Apart

(***************************************************************************)
(* A closure that has not come to its wait, and what lies above it         *)
(***************************************************************************)
Early == {"pushed", "up", "down", "swap", "swap_second", "spawn"}

\* It has its range to itself: another frame is beside it, or above it and
\* waiting, with its pivot elsewhere.
LEMMA AloneInRange ==
  ASSUME FrameInv, NestingInv, WaitInv, NEW f \in Pushed, pc[f] \in Early,
         NEW g \in Pushed, g # f, NEW k \in frame[f].l .. frame[f].r
  PROVE  \/ /\ k \notin frame[g].l .. frame[g].r
            /\ ~Below(f, g)
         \/ /\ pc[g] = "sync" /\ Below(f, g)
            /\ frame[g].j \in frame[g].l .. frame[g].r
            /\ \/ k \in frame[g].l .. (frame[g].j - 1) /\ Covers(Left(g), f) /\ ~Covers(Right(g), f)
               \/ k \in (frame[g].j + 1) .. frame[g].r /\ Covers(Right(g), f) /\ ~Covers(Left(g), f)
<1>1. ~Spawned(f)
  BY DEF Early, Spawned
<1>2. Below(f, g) \/ Apart(f, g)
  BY <1>1 DEF NestingInv, Below, Apart
<1>3. /\ frame[f].l \in Int /\ frame[f].r \in Int /\ frame[f].l <= frame[f].r + 1
      /\ frame[g].l \in Int /\ frame[g].r \in Int /\ frame[g].l <= frame[g].r + 1
      /\ frame[g].j \in Int
  BY FrameFacts
<1>4. CASE Below(f, g)
  <2>1. pc[g] = "sync"
    BY <1>4 DEF NestingInv, Early
  <2>2. Spawned(g) /\ frame[g].j \in frame[g].l .. frame[g].r
    BY <1>4 DEF Below, WaitInv
  <2>3. CASE Covers(Left(g), f)
    BY <1>3, <1>4, <2>1, <2>2, <2>3, RangeFacts
  <2>4. CASE Covers(Right(g), f)
    BY <1>3, <1>4, <2>1, <2>2, <2>4, RangeFacts
  <2>. QED
    BY <1>4, <2>3, <2>4 DEF Below
<1>5. CASE Apart(f, g) /\ ~Below(f, g)
  BY <1>3, <1>5, RangeFacts
<1>. QED
  BY <1>2, <1>4, <1>5

(***************************************************************************)
(* A step of a closure before it spawns: only its own locals change.       *)
(***************************************************************************)
Local(f) ==
  /\ UNCHANGED <<size, given>>
  /\ pc[f] \in Early
  /\ Pushed' = Pushed
  /\ pc' \in [Pushed -> Labels]
  /\ pc'[f] \in Early \/ (pc'[f] = "signal" /\ frame[f].l >= frame[f].r)
  /\ \A g \in Pushed \ {f} : pc'[g] = pc[g] /\ frame'[g] = frame[g]
  /\ frame' \in [Pushed -> Closures]
  /\ frame'[f].l = frame[f].l /\ frame'[f].r = frame[f].r
  /\ frame'[f].parent = frame[f].parent
  /\ a' \in [0 .. size -> Value]

LEMMA LocalFrames ==
  ASSUME FrameInv, NEW f \in Pushed, Local(f)
  PROVE  FrameInv'
<1>1. Root' = Root /\ Closures' = Closures
  BY DEF Local, Root, Closures
<1>2. ASSUME NEW g \in Pushed
      PROVE  frame'[g].l = frame[g].l /\ frame'[g].r = frame[g].r /\ frame'[g].parent = frame[g].parent
  BY DEF Local
<1>. QED
  BY <1>1, <1>2 DEF FrameInv, Local

LEMMA LocalNesting ==
  ASSUME FrameInv, NestingInv, WaitInv, NEW f \in Pushed, Local(f)
  PROVE  /\ NestingInv' /\ WaitInv'
         /\ \A g \in Pushed : (Spawned(g)' <=> Spawned(g))
         /\ \A g, h \in Pushed : (Below(g, h)' <=> Below(g, h))
<1>1. ASSUME NEW g \in Pushed
      PROVE  /\ frame'[g].l = frame[g].l /\ frame'[g].r = frame[g].r
             /\ frame'[g].parent = frame[g].parent
             /\ Spawned(g)' <=> Spawned(g)
             /\ Spawned(g) => g # f /\ frame'[g] = frame[g] /\ pc'[g] = pc[g]
             /\ pc'[g] = "done" <=> pc[g] = "done"
             /\ Awaited(g)' = Awaited(g)
  <2>1. frame[g].l \in Int /\ frame[g].r \in Int
    BY FrameFacts
  <2>. QED
    BY <2>1 DEF Local, Spawned, Early, Awaited
<1>2. ASSUME NEW g \in Pushed, Spawned(g)
      PROVE  Left(g)' = Left(g) /\ Right(g)' = Right(g)
  BY <1>1, <1>2 DEF Left, Right
<1>3. ASSUME NEW g \in Pushed, NEW h \in Pushed
      PROVE  Below(g, h)' <=> Below(g, h)
  BY <1>1, <1>2 DEF Below, Covers
<1>4. NestingInv'
  <2>. SUFFICES ASSUME NEW g \in Pushed, NEW h \in Pushed, g # h
                PROVE  /\ Below(g, h)' \/ Below(h, g)' \/ Apart(g, h)
                       /\ Below(h, g)' /\ pc'[g] # "sync" => pc'[h] = "done"
    BY DEF NestingInv, Local, Apart
  <2>1. Below(h, g) => pc'[g] = pc[g]
    BY <1>1 DEF Below
  <2>. QED
    BY <1>1, <1>3, <2>1 DEF NestingInv
<1>5. WaitInv'
  <2>1. ASSUME NEW g \in Pushed, Spawned(g)
        PROVE  /\ frame'[g].j \in frame'[g].l .. frame'[g].r
               /\ {Left(g)', Right(g)'} \subseteq Pushed
               /\ frame'[Left(g)'].parent = g /\ frame'[Right(g)'].parent = g
               /\ IF pc'[g] = "sync"
                  THEN frame'[g].sync_frames_remaining = Awaited(Left(g))' + Awaited(Right(g))'
                  ELSE pc'[Left(g)'] = "done" /\ pc'[Right(g)'] = "done"
    <3>1. /\ frame[g].j \in frame[g].l .. frame[g].r
          /\ Left(g) \in Pushed /\ Right(g) \in Pushed
          /\ frame[Left(g)].parent = g /\ frame[Right(g)].parent = g
          /\ IF pc[g] = "sync"
             THEN frame[g].sync_frames_remaining = Awaited(Left(g)) + Awaited(Right(g))
             ELSE pc[Left(g)] = "done" /\ pc[Right(g)] = "done"
      BY <2>1 DEF WaitInv
    <3>2. Awaited(Left(g))' = Awaited(Left(g)) /\ Awaited(Right(g))' = Awaited(Right(g))
      BY <1>1, <1>2, <2>1, <3>1 DEF Awaited
    <3>. QED
      BY <1>1, <1>2, <2>1, <3>1, <3>2
  <2>2. ASSUME NEW g \in Pushed \ {Root}
        PROVE  \E p \in Pushed :
                 frame'[g].parent = p /\ Spawned(p)' /\ g \in {Left(p)', Right(p)'}
    <3>1. PICK p \in Pushed : frame[g].parent = p /\ Spawned(p) /\ g \in {Left(p), Right(p)}
      BY DEF WaitInv
    <3>2. frame'[g].parent = p /\ Spawned(p)' /\ Left(p)' = Left(p) /\ Right(p)' = Right(p)
      BY <1>1, <1>2, <3>1
    <3>. QED
      BY <3>1, <3>2
  <2>3. Pushed' = Pushed /\ Root' = Root
    BY DEF Local, Root
  <2>. QED
    BY <1>1, <2>1, <2>2, <2>3 DEF WaitInv
<1>. QED
  BY <1>1, <1>3, <1>4, <1>5

\* What a frame has established holds as long as its range is left alone.
LEMMA PartitionSame ==
  ASSUME FrameInv, NEW g \in Pushed, PartitionInv(g),
         pc'[g] = pc[g], frame'[g] = frame[g],
         \A k \in frame[g].l .. frame[g].r : a'[k] = a[k]
  PROVE  PartitionInv(g)'
<1>. DEFINE q == frame[g]
<1>1. /\ q.l \in Int /\ q.r \in Int /\ q.i \in Int /\ q.j \in Int
      /\ q.l <= q.r + 1
  BY FrameFacts
<1>. HIDE DEF q
<1>2. /\ pc[g] = "up" => UpInv(q)
      /\ pc[g] = "down" => DownInv(q)
      /\ pc[g] = "swap" => SwapInv(q)
      /\ pc[g] = "swap_second" => SwapSecondInv(q)
      /\ pc[g] \in {"spawn", "sync"} => SeparatedInv(q)
      /\ Partitioning(g) \/ pc[g] \in {"spawn", "sync"} => q.l < q.r
  BY DEF PartitionInv, q
<1>3. \A k \in q.l .. q.r : a'[k] = a[k]
  BY DEF q
<1>4. frame'[g] = q /\ pc'[g] = pc[g]
  BY DEF q
<1>5. CASE pc[g] = "up"
  <2>1. UpInv(q) /\ q.l < q.r
    BY <1>2, <1>5 DEF Partitioning
  <2>2. /\ q.l <= q.i /\ q.i < q.j /\ q.j <= q.r + 1
        /\ a'[q.l] = q.pivot
        /\ \A k \in q.l .. q.i : a'[k] <= q.pivot
        /\ \A k \in q.j .. q.r : a'[k] > q.pivot
    BY <1>1, <1>3, <2>1 DEF UpInv, AtMost, Above
  <2>. QED
    BY <1>4, <1>5, <2>1, <2>2 DEF PartitionInv, Partitioning, UpInv, AtMost, Above
<1>6. CASE pc[g] = "down"
  <2>1. DownInv(q) /\ q.l < q.r
    BY <1>2, <1>6 DEF Partitioning
  <2>2. /\ q.l < q.i /\ q.i <= q.j /\ q.j <= q.r + 1
        /\ a'[q.l] = q.pivot
        /\ \A k \in q.l .. q.i - 1 : a'[k] <= q.pivot
        /\ \A k \in q.j .. q.r : a'[k] > q.pivot
        /\ q.i <= q.r => a'[q.i] > q.pivot
    BY <1>1, <1>3, <2>1 DEF DownInv, AtMost, Above
  <2>. QED
    BY <1>4, <1>6, <2>1, <2>2 DEF PartitionInv, Partitioning, DownInv, AtMost, Above
<1>7. CASE pc[g] = "swap"
  <2>1. SwapInv(q) /\ q.l < q.r
    BY <1>2, <1>7 DEF Partitioning
  <2>2. /\ q.l < q.i /\ q.i <= q.j + 1 /\ q.j <= q.r
        /\ a'[q.l] = q.pivot
        /\ \A k \in q.l .. q.i - 1 : a'[k] <= q.pivot
        /\ \A k \in q.j + 1 .. q.r : a'[k] > q.pivot
        /\ a'[q.j] <= q.pivot /\ (q.i <= q.r => a'[q.i] > q.pivot)
    BY <1>1, <1>3, <2>1 DEF SwapInv, AtMost, Above
  <2>. QED
    BY <1>4, <1>7, <2>1, <2>2 DEF PartitionInv, Partitioning, SwapInv, AtMost, Above
<1>8. CASE pc[g] = "swap_second"
  <2>1. SwapSecondInv(q) /\ q.l < q.r
    BY <1>2, <1>8 DEF Partitioning
  <2>2. /\ q.l < q.i /\ q.i <= q.j + 1 /\ q.j <= q.r
        /\ \A k \in q.j + 1 .. q.r : a'[k] > q.pivot
        /\ q.tmp \in Value
        /\ \/ q.i < q.j /\ a'[q.l] = q.pivot /\ (\A k \in q.l .. q.i : a'[k] <= q.pivot)
                /\ q.tmp > q.pivot
           \/ q.i = q.j + 1 /\ (\A k \in q.l .. q.j : a'[k] <= q.pivot) /\ q.tmp = q.pivot
    BY <1>1, <1>3, <2>1 DEF SwapSecondInv, AtMost, Above
  <2>. QED
    BY <1>4, <1>8, <2>1, <2>2 DEF PartitionInv, Partitioning, SwapSecondInv, AtMost, Above
<1>9. CASE pc[g] \in {"spawn", "sync"}
  <2>1. SeparatedInv(q) /\ q.l < q.r
    BY <1>2, <1>9
  <2>2. /\ q.l <= q.j /\ q.j <= q.r
        /\ \A k \in q.l .. q.j - 1 : a'[k] <= a'[q.j]
        /\ \A k \in q.j + 1 .. q.r : a'[k] > a'[q.j]
    BY <1>1, <1>3, <2>1 DEF SeparatedInv
  <2>. QED
    BY <1>4, <1>9, <2>1, <2>2 DEF PartitionInv, Partitioning, SeparatedInv
<1>10. CASE pc[g] \notin {"up", "down", "swap", "swap_second", "spawn", "sync"}
  BY <1>4, <1>10 DEF PartitionInv, Partitioning
<1>. QED
  BY <1>5, <1>6, <1>7, <1>8, <1>9, <1>10

\* Nobody takes or puts down a value for a place that nobody writes.
LEMMA DueSame ==
  ASSUME NEW f, \A g \in Pushed \ {f} : frame'[g] = frame[g],
         NEW k, InHandFor(k)' = InHandFor(k), f \notin InHandFor(k), a'[k] = a[k]
  PROVE  Due(k)' = Due(k)
<1>1. CASE InHandFor(k) = {}
  BY <1>1 DEF Due
<1>2. CASE InHandFor(k) # {}
  <2>1. PICK S : S = InHandFor(k)
    OBVIOUS
  <2>2. One(S) \in S
    BY <1>2, <2>1 DEF One
  <2>3. One(S) \in Pushed \ {f}
    BY <2>1, <2>2 DEF InHandFor
  <2>4. Due(k)' = frame'[One(S)].tmp /\ Due(k) = frame[One(S)].tmp
    BY <1>2, <2>1 DEF Due
  <2>. QED
    BY <2>3, <2>4
<1>. QED
  BY <1>1, <1>2

(***************************************************************************)
(* A step of a closure that reads the array but does not write it          *)
(***************************************************************************)
LEMMA ReadStep ==
  ASSUME QsortInv, NEW f \in Pushed, Local(f), a' = a,
         pc[f] # "swap_second", pc'[f] # "swap_second", PartitionInv(f)'
  PROVE  QsortInv'
<1>1. FrameInv' /\ NestingInv' /\ WaitInv'
  BY LocalFrames, LocalNesting DEF QsortInv
<1>2. \A g \in Pushed' : PartitionInv(g)'
  BY PartitionSame DEF QsortInv, Local
<1>3. \A g, h \in Pushed : Below(g, h)' <=> Below(g, h)
  BY LocalNesting DEF QsortInv
<1>4. HandInv'
  <2>. SUFFICES ASSUME NEW g \in Pushed, NEW h \in Pushed, g # h, pc'[g] = "sync",
                       Below(h, g)', pc'[h] = "swap_second"
                PROVE  /\ Covers(Left(g)', h) => frame'[h].tmp <= a'[frame'[g].j]
                       /\ Covers(Right(g)', h) => frame'[h].tmp > a'[frame'[g].j]
    BY DEF HandInv, Local, Covers
  <2>1. g # f /\ h # f
    BY DEF Local, Early
  <2>2. frame'[g] = frame[g] /\ frame'[h] = frame[h] /\ pc[g] = "sync" /\ pc[h] = "swap_second"
    BY <2>1 DEF Local
  <2>. QED
    BY <1>3, <2>2 DEF QsortInv, HandInv, Left, Right
<1>5. SortedInv'
  <2>. SUFFICES ASSUME NEW g \in Pushed, pc'[g] \in {"signal", "done"} PROVE Sorted(g)'
    BY DEF SortedInv, Local
  <2>1. CASE g = f
    <3>1. g[1] = frame[g].l /\ g[2] = frame[g].r /\ frame[g].l \in Int /\ frame[g].r \in Int
      BY FrameFacts DEF QsortInv
    <3>2. frame[g].l >= frame[g].r
      BY <2>1 DEF Local, Early
    <3>3. \A k \in frame[g].l .. frame[g].r : a'[k] \in Int
      BY <1>1, <3>1, FrameFacts, ElementFacts DEF QsortInv
    <3>. QED
      BY <3>1, <3>2, <3>3 DEF Sorted
  <2>2. CASE g # f
    BY <2>2 DEF QsortInv, SortedInv, Local, Sorted
  <2>. QED
    BY <2>1, <2>2
<1>6. ElementsInv'
  <2>1. \A k : InHandFor(k)' = InHandFor(k) /\ f \notin InHandFor(k)
    BY DEF Local, InHandFor
  <2>2. ASSUME NEW k PROVE Due(k)' = Due(k)
    BY <2>1, DueSame DEF Local
  <2>3. Whole' = Whole
    BY <2>2 DEF Whole, Local
  <2>. QED
    BY <2>3 DEF QsortInv, ElementsInv, Occurrences, Local
<1>. QED
  BY <1>1, <1>2, <1>4, <1>5, <1>6 DEF QsortInv

LEMMA GotoEffect ==
  ASSUME FrameInv, NEW f \in Pushed, NEW l \in Labels, Goto(f, l)
  PROVE  /\ pc'[f] = l /\ \A g \in Pushed \ {f} : pc'[g] = pc[g]
         /\ pc' \in [Pushed -> Labels]
BY DEF FrameInv, Goto

LEMMA SetEffect ==
  ASSUME FrameInv, NEW f \in Pushed, NEW q \in Closures, Set(f, q)
  PROVE  /\ frame'[f] = q /\ \A g \in Pushed \ {f} : frame'[g] = frame[g]
         /\ frame' \in [Pushed -> Closures] /\ Pushed' = Pushed
BY DEF FrameInv, Set, Pushed

LEMMA RunStep ==
  ASSUME QsortInv, NEW f \in Pushed, Run(f)
  PROVE  QsortInv'
<1>. DEFINE q == frame[f]
<1>1. FrameInv /\ pc[f] = "pushed" /\ UNCHANGED <<size, given, a>>
  BY DEF QsortInv, Run
<1>2. CASE /\ q.l < q.r
           /\ Set(f, [q EXCEPT !.pivot = a[q.l], !.i = q.l, !.j = q.r + 1])
           /\ Goto(f, "up")
  <2>. DEFINE n == [q EXCEPT !.pivot = a[q.l], !.i = q.l, !.j = q.r + 1]
  <2>1. /\ q \in Closures /\ q.l \in Int /\ q.r \in Int /\ a[q.l] \in Int
    BY <1>1, <1>2, FrameFacts, ElementFacts
  <2>2. /\ n \in Closures /\ n.l = q.l /\ n.r = q.r /\ n.parent = q.parent
        /\ n.i = q.l /\ n.j = q.r + 1 /\ n.pivot = a[q.l]
    <3>1. q.r + 1 \in Int /\ n = [q EXCEPT !.pivot = a[q.l], !.i = q.l, !.j = q.r + 1]
      BY <2>1
    <3>. HIDE DEF n, q
    <3>. QED
      BY <2>1, <3>1 DEF Closures
  <2>. HIDE DEF n
  <2>3. /\ frame'[f] = n /\ \A g \in Pushed \ {f} : frame'[g] = frame[g]
        /\ frame' \in [Pushed -> Closures] /\ Pushed' = Pushed
    BY <1>1, <1>2, <2>2, SetEffect DEF n
  <2>4. /\ pc'[f] = "up" /\ \A g \in Pushed \ {f} : pc'[g] = pc[g]
        /\ pc' \in [Pushed -> Labels]
    BY <1>1, <1>2, GotoEffect DEF Labels
  <2>5. Local(f)
    BY <1>1, <2>2, <2>3, <2>4 DEF Local, Early, FrameInv
  <2>6. PartitionInv(f)'
    <3>1. UpInv(frame[f])'
      BY <1>1, <1>2, <2>1, <2>2, <2>3 DEF UpInv, AtMost, Above
    <3>. QED
      BY <1>2, <2>2, <2>3, <2>4, <3>1 DEF PartitionInv, Partitioning
  <2>. QED
    BY <1>1, <2>4, <2>5, <2>6, ReadStep
<1>3. CASE q.l >= q.r /\ Goto(f, "signal") /\ UNCHANGED frame
  <2>1. /\ pc'[f] = "signal" /\ \A g \in Pushed \ {f} : pc'[g] = pc[g]
        /\ pc' \in [Pushed -> Labels]
    BY <1>1, <1>3, GotoEffect DEF Labels
  <2>2. Local(f)
    BY <1>1, <1>3, <2>1 DEF Local, Early, FrameInv, Pushed
  <2>3. PartitionInv(f)'
    BY <2>1 DEF PartitionInv, Partitioning
  <2>. QED
    BY <1>1, <2>1, <2>2, <2>3, ReadStep
<1>. QED
  BY <1>2, <1>3 DEF Run

LEMMA UpStep ==
  ASSUME QsortInv, NEW f \in Pushed, Up(f)
  PROVE  QsortInv'
<1>. DEFINE q == frame[f]
            n == [q EXCEPT !.i = @ + 1]
<1>1. /\ FrameInv /\ pc[f] = "up" /\ UNCHANGED <<size, given, a>>
      /\ Set(f, n) /\ Goto(f, IF GoesUp(q, q.i + 1) THEN "up" ELSE "down")
  BY DEF QsortInv, Up
<1>2. /\ q \in Closures /\ q.l \in Int /\ q.r \in Int /\ q.i \in Int /\ q.j \in Int
      /\ q.pivot \in Int /\ q.l < q.r
      /\ \A k \in q.l .. (q.r + 1) : a[k] \in Int
  BY <1>1, FrameFacts, ElementFacts DEF QsortInv, PartitionInv, Partitioning
<1>3. /\ n \in Closures /\ n.l = q.l /\ n.r = q.r /\ n.parent = q.parent
      /\ n.i = q.i + 1 /\ n.j = q.j /\ n.pivot = q.pivot
  BY <1>2 DEF Closures
<1>4. UpInv(q)
  BY <1>1 DEF QsortInv, PartitionInv
<1>. HIDE DEF n
<1>5. /\ frame'[f] = n /\ \A g \in Pushed \ {f} : frame'[g] = frame[g]
      /\ frame' \in [Pushed -> Closures] /\ Pushed' = Pushed
  BY <1>1, <1>3, SetEffect
<1>6. /\ pc'[f] = IF GoesUp(q, q.i + 1) THEN "up" ELSE "down"
      /\ \A g \in Pushed \ {f} : pc'[g] = pc[g]
      /\ pc' \in [Pushed -> Labels]
  BY <1>1, GotoEffect DEF Labels
<1>7. Local(f)
  BY <1>1, <1>3, <1>5, <1>6 DEF Local, Early, FrameInv
<1>8. PartitionInv(f)'
  <2>. HIDE DEF q
  <2>1. CASE GoesUp(q, q.i + 1)
    <3>1. a[q.i + 1] <= q.pivot /\ q.i + 1 <= q.r
      BY <2>1 DEF GoesUp
    <3>2. q.i + 1 < q.j
      BY <1>2, <1>4, <3>1 DEF UpInv, Above
    <3>3. \A k \in q.l .. q.i + 1 : a[k] <= q.pivot
      BY <1>2, <1>4, <3>1 DEF UpInv, AtMost
    <3>4. UpInv(frame[f])'
      BY <1>1, <1>2, <1>3, <1>4, <1>5, <3>2, <3>3 DEF UpInv, AtMost, Above
    <3>. QED
      BY <1>2, <1>3, <1>5, <1>6, <2>1, <3>4 DEF PartitionInv, Partitioning
  <2>2. CASE ~GoesUp(q, q.i + 1)
    <3>1. q.i + 1 <= q.r => a[q.i + 1] > q.pivot
      BY <1>2, <1>4, <2>2 DEF GoesUp, UpInv
    <3>2. /\ q.l < q.i + 1 /\ q.i + 1 <= q.j /\ q.j <= q.r + 1
          /\ a[q.l] = q.pivot /\ (\A k \in q.l .. (q.i + 1) - 1 : a[k] <= q.pivot)
          /\ \A k \in q.j .. q.r : a[k] > q.pivot
      BY <1>2, <1>4 DEF UpInv, AtMost, Above
    <3>3. DownInv(frame[f])'
      BY <1>1, <1>3, <1>5, <3>1, <3>2 DEF DownInv, AtMost, Above
    <3>. QED
      BY <1>2, <1>3, <1>5, <1>6, <2>2, <3>3 DEF PartitionInv, Partitioning
  <2>. QED
    BY <2>1, <2>2
<1>. QED
  BY <1>1, <1>6, <1>7, <1>8, ReadStep

LEMMA DownStep ==
  ASSUME QsortInv, NEW f \in Pushed, Down(f)
  PROVE  QsortInv'
<1>. DEFINE q == frame[f]
            n == [q EXCEPT !.j = @ - 1]
<1>1. /\ FrameInv /\ pc[f] = "down" /\ UNCHANGED <<size, given, a>>
      /\ Set(f, n) /\ Goto(f, IF GoesDown(q, q.j - 1) THEN "down" ELSE "swap")
  BY DEF QsortInv, Down
<1>2. /\ q \in Closures /\ q.l \in Int /\ q.r \in Int /\ q.i \in Int /\ q.j \in Int
      /\ q.pivot \in Int /\ q.l < q.r
      /\ \A k \in q.l .. (q.r + 1) : a[k] \in Int
  BY <1>1, FrameFacts, ElementFacts DEF QsortInv, PartitionInv, Partitioning
<1>3. /\ n \in Closures /\ n.l = q.l /\ n.r = q.r /\ n.parent = q.parent
      /\ n.i = q.i /\ n.j = q.j - 1 /\ n.pivot = q.pivot
  BY <1>2 DEF Closures
<1>4. DownInv(q)
  BY <1>1 DEF QsortInv, PartitionInv
<1>. HIDE DEF n
<1>5. /\ frame'[f] = n /\ \A g \in Pushed \ {f} : frame'[g] = frame[g]
      /\ frame' \in [Pushed -> Closures] /\ Pushed' = Pushed
  BY <1>1, <1>3, SetEffect
<1>6. /\ pc'[f] = IF GoesDown(q, q.j - 1) THEN "down" ELSE "swap"
      /\ \A g \in Pushed \ {f} : pc'[g] = pc[g]
      /\ pc' \in [Pushed -> Labels]
  BY <1>1, GotoEffect DEF Labels
<1>7. Local(f)
  BY <1>1, <1>3, <1>5, <1>6 DEF Local, Early, FrameInv
<1>8. PartitionInv(f)'
  <2>. HIDE DEF q
  <2>1. /\ q.l < q.i /\ q.i <= (q.j - 1) + 1 /\ q.j - 1 <= q.r
        /\ a[q.l] = q.pivot /\ (\A k \in q.l .. q.i - 1 : a[k] <= q.pivot)
        /\ (\A k \in q.j .. q.r : a[k] > q.pivot)
        /\ (q.i <= q.r => a[q.i] > q.pivot)
    BY <1>2, <1>4 DEF DownInv, AtMost, Above
  <2>2. q.j - 1 \in q.l .. q.r + 1 /\ a[q.j - 1] \in Int
    BY <1>2, <2>1
  <2>3. CASE GoesDown(q, q.j - 1)
    <3>1. a[q.j - 1] > q.pivot
      BY <2>3 DEF GoesDown
    <3>2. q.j - 1 # q.i - 1
      BY <1>2, <2>1, <2>2, <3>1
    <3>3. \A k \in q.j - 1 .. q.r : a[k] > q.pivot
      BY <1>2, <2>1, <3>1
    <3>4. DownInv(frame[f])'
      BY <1>1, <1>2, <1>3, <1>5, <2>1, <3>2, <3>3 DEF DownInv, AtMost, Above
    <3>. QED
      BY <1>2, <1>3, <1>5, <1>6, <2>3, <3>4 DEF PartitionInv, Partitioning
  <2>4. CASE ~GoesDown(q, q.j - 1)
    <3>1. a[q.j - 1] <= q.pivot
      BY <1>2, <2>2, <2>4 DEF GoesDown
    <3>2. \A k \in (q.j - 1) + 1 .. q.r : a[k] > q.pivot
      BY <1>2, <2>1
    <3>3. SwapInv(frame[f])'
      BY <1>1, <1>2, <1>3, <1>5, <2>1, <3>1, <3>2 DEF SwapInv, AtMost, Above
    <3>. QED
      BY <1>2, <1>3, <1>5, <1>6, <2>4, <3>3 DEF PartitionInv, Partitioning
  <2>. QED
    BY <2>3, <2>4
<1>. QED
  BY <1>1, <1>6, <1>7, <1>8, ReadStep

(***************************************************************************)
(* A step of a closure that writes one element of its range                *)
(***************************************************************************)
\* A value that is on the right side of every pivot above f
Fits(f, v) ==
  \A g \in Pushed : g # f /\ pc[g] = "sync" /\ Below(f, g) =>
    /\ Covers(Left(g), f) => v <= a[frame[g].j]
    /\ Covers(Right(g), f) => v > a[frame[g].j]

\* What is in the range fits.
LEMMA ElementFits ==
  ASSUME QsortInv, NEW f \in Pushed, pc[f] \in Early, NEW k \in frame[f].l .. frame[f].r
  PROVE  Fits(f, a[k])
<1>. SUFFICES ASSUME NEW g \in Pushed, g # f, pc[g] = "sync", Below(f, g)
              PROVE  /\ Covers(Left(g), f) => a[k] <= a[frame[g].j]
                     /\ Covers(Right(g), f) => a[k] > a[frame[g].j]
  BY DEF Fits
<1>1. \/ k \in frame[g].l .. (frame[g].j - 1) /\ Covers(Left(g), f) /\ ~Covers(Right(g), f)
      \/ k \in (frame[g].j + 1) .. frame[g].r /\ Covers(Right(g), f) /\ ~Covers(Left(g), f)
  BY AloneInRange DEF QsortInv
<1>2. SeparatedInv(frame[g])
  BY DEF QsortInv, PartitionInv
<1>. QED
  BY <1>1, <1>2 DEF SeparatedInv

Write(f, x, v) ==
  /\ Local(f)
  /\ x \in frame[f].l .. frame[f].r
  /\ v \in Value /\ Fits(f, v)
  /\ a' = [a EXCEPT ![x] = v]

LEMMA WriteOthers ==
  ASSUME QsortInv, NEW f \in Pushed, NEW x, NEW v, Write(f, x, v), NEW g \in Pushed, g # f
  PROVE  /\ PartitionInv(g)'
         /\ Spawned(g) => a'[frame[g].j] = a[frame[g].j]
         /\ pc[g] \in {"signal", "done"} => \A k \in frame[g].l .. frame[g].r : a'[k] = a[k]
<1>1. /\ FrameInv /\ NestingInv /\ WaitInv /\ PartitionInv(g)
      /\ pc[f] \in Early /\ pc'[g] = pc[g] /\ frame'[g] = frame[g]
  BY DEF QsortInv, Write, Local
<1>2. /\ x \in 0 .. size /\ \A k \in 0 .. size : k # x => a'[k] = a[k]
      /\ a'[x] = v
  BY <1>1, ElementFacts, FrameFacts DEF Write, FrameInv
<1>3. /\ frame[g].l \in Nat /\ frame[g].r \in Int /\ frame[g].j \in Int
      /\ \A k \in frame[g].l .. frame[g].r : k \in 0 .. size
  BY <1>1, FrameFacts, ElementFacts
<1>4. Spawned(g) => frame[g].j \in frame[g].l .. frame[g].r
  BY <1>1 DEF WaitInv
<1>5. CASE x \notin frame[g].l .. frame[g].r
  <2>1. \A k \in frame[g].l .. frame[g].r : a'[k] = a[k]
    BY <1>2, <1>3, <1>5
  <2>. QED
    BY <1>1, <1>4, <2>1, PartitionSame
<1>6. CASE /\ pc[g] = "sync" /\ Below(f, g)
           /\ frame[g].j \in frame[g].l .. frame[g].r
           /\ \/ x \in frame[g].l .. (frame[g].j - 1) /\ Covers(Left(g), f)
              \/ x \in (frame[g].j + 1) .. frame[g].r /\ Covers(Right(g), f)
  <2>1. SeparatedInv(frame[g]) /\ frame[g].l < frame[g].r
    BY <1>1, <1>6 DEF PartitionInv
  <2>2. x # frame[g].j /\ a'[frame[g].j] = a[frame[g].j]
    BY <1>2, <1>3, <1>6
  <2>3. /\ Covers(Left(g), f) => v <= a[frame[g].j]
        /\ Covers(Right(g), f) => v > a[frame[g].j]
    BY <1>6 DEF Write, Fits
  <2>4. \A k \in frame[g].l .. frame[g].j - 1 : a'[k] <= a'[frame[g].j]
    BY <1>2, <1>3, <1>6, <2>1, <2>2, <2>3 DEF SeparatedInv
  <2>5. \A k \in frame[g].j + 1 .. frame[g].r : a'[k] > a'[frame[g].j]
    BY <1>2, <1>3, <1>6, <2>1, <2>2, <2>3 DEF SeparatedInv
  <2>6. SeparatedInv(frame[g])'
    BY <1>1, <2>1, <2>4, <2>5 DEF SeparatedInv
  <2>7. PartitionInv(g)'
    BY <1>1, <1>6, <2>1, <2>6 DEF PartitionInv, Partitioning
  <2>. QED
    BY <1>6, <2>2, <2>7
<1>. QED
  BY <1>1, <1>5, <1>6, AloneInRange DEF Write

LEMMA WriteStep ==
  ASSUME QsortInv, NEW f \in Pushed, NEW x, NEW v, Write(f, x, v),
         PartitionInv(f)', pc'[f] # "signal", ElementsInv',
         pc'[f] = "swap_second" => Fits(f, frame'[f].tmp)
  PROVE  QsortInv'
<1>1. FrameInv' /\ NestingInv' /\ WaitInv'
  BY LocalFrames, LocalNesting DEF QsortInv, Write
<1>2. \A g \in Pushed' : PartitionInv(g)'
  BY WriteOthers DEF Write, Local
<1>3. \A g, h \in Pushed : Below(g, h)' <=> Below(g, h)
  BY LocalNesting DEF QsortInv, Write
<1>4. HandInv'
  <2>. SUFFICES ASSUME NEW g \in Pushed, NEW h \in Pushed, g # h, pc'[g] = "sync",
                       Below(h, g)', pc'[h] = "swap_second"
                PROVE  /\ Covers(Left(g)', h) => frame'[h].tmp <= a'[frame'[g].j]
                       /\ Covers(Right(g)', h) => frame'[h].tmp > a'[frame'[g].j]
    BY DEF HandInv, Write, Local, Covers
  <2>1. g # f
    BY DEF Write, Local, Early
  <2>2. frame'[g] = frame[g] /\ pc[g] = "sync" /\ Below(h, g)
    BY <1>3, <2>1 DEF Write, Local
  <2>3. a'[frame'[g].j] = a[frame[g].j]
    BY <2>1, <2>2, WriteOthers DEF Below
  <2>4. Left(g)' = Left(g) /\ Right(g)' = Right(g)
    BY <2>2 DEF Left, Right
  <2>5. CASE h = f
    BY <2>1, <2>2, <2>3, <2>4, <2>5 DEF Fits
  <2>6. CASE h # f
    <3>1. frame'[h] = frame[h] /\ pc[h] = "swap_second"
      BY <2>6 DEF Write, Local
    <3>. QED
      BY <2>2, <2>3, <2>4, <3>1 DEF QsortInv, HandInv
  <2>. QED
    BY <2>5, <2>6
<1>5. SortedInv'
  <2>. SUFFICES ASSUME NEW g \in Pushed, pc'[g] \in {"signal", "done"} PROVE Sorted(g)'
    BY DEF SortedInv, Write, Local
  <2>1. g # f /\ pc[g] = pc'[g]
    BY DEF Write, Local, Early
  <2>2. \A k \in frame[g].l .. frame[g].r : a'[k] = a[k]
    BY <2>1, WriteOthers
  <2>3. g[1] = frame[g].l /\ g[2] = frame[g].r
    BY FrameFacts DEF QsortInv
  <2>. QED
    BY <2>1, <2>2, <2>3 DEF QsortInv, SortedInv, Sorted
<1>. QED
  BY <1>1, <1>2, <1>4, <1>5 DEF QsortInv

(***************************************************************************)
(* Exchanging two elements keeps the number of occurrences of every value. *)
(***************************************************************************)
Count(S, A, v) == Cardinality({k \in S : A[k] = v})

Exchanged(S, A, B, x, y) ==
  /\ IsFiniteSet(S) /\ x \in S /\ y \in S
  /\ \A k \in S : B[k] = IF k = x THEN A[y] ELSE IF k = y THEN A[x] ELSE A[k]

LEMMA ExchangeKeepsOccurrences ==
  ASSUME NEW S, NEW A, NEW B, NEW x, NEW y, Exchanged(S, A, B, x, y), NEW v
  PROVE  Count(S, B, v) = Count(S, A, v)
<1>. DEFINE T == {k \in S : A[k] = v}
            U == {k \in S : B[k] = v}
            h == [k \in T |-> IF k = x THEN y ELSE IF k = y THEN x ELSE k]
<1>. USE DEF Exchanged
<1>1. h \in [T -> U]
  OBVIOUS
<1>2. \A k, m \in T : h[k] = h[m] => k = m
  OBVIOUS
<1>3. \A m \in U : \E k \in T : h[k] = m
  <2>. SUFFICES ASSUME NEW m \in U PROVE \E k \in T : h[k] = m
    OBVIOUS
  <2>. DEFINE k == IF m = x THEN y ELSE IF m = y THEN x ELSE m
  <2>1. k \in T
    OBVIOUS
  <2>2. h[k] = m
    BY <2>1
  <2>. QED
    BY <2>1, <2>2
<1>4. IsFiniteSet(T)
  BY FS_Subset
<1>. HIDE DEF h, T, U
<1>5. h \in Bijection(T, U)
  BY <1>1, <1>2, <1>3, Fun_IsBij
<1>6. ExistsBijection(T, U)
  BY <1>5 DEF ExistsBijection
<1>7. Cardinality(U) = Cardinality(T)
  BY <1>4, <1>6, FS_Bijection
<1>. QED
  BY <1>7 DEF T, U, Count

\* Nobody else has a value in hand for a place in the range.
LEMMA InHandAlone ==
  ASSUME QsortInv, NEW f \in Pushed, pc[f] \in Early, NEW k \in frame[f].l .. frame[f].r
  PROVE  InHandFor(k) \subseteq {f}
<1>. SUFFICES ASSUME NEW g \in InHandFor(k), g # f PROVE FALSE
  OBVIOUS
<1>1. g \in Pushed /\ pc[g] = "swap_second" /\ frame[g].j = k
  BY DEF InHandFor
<1>2. SwapSecondInv(frame[g])
  BY <1>1 DEF QsortInv, PartitionInv
<1>3. /\ frame[g].l \in Int /\ frame[g].r \in Int /\ frame[g].i \in Int
      /\ frame[g].j \in Int
  BY <1>1, FrameFacts DEF QsortInv
<1>4. k \in frame[g].l .. frame[g].r
  BY <1>1, <1>2, <1>3 DEF SwapSecondInv
<1>. QED
  BY <1>1, <1>4, AloneInRange DEF QsortInv

\* The set that holds one frame
LEMMA OneOfOne == ASSUME NEW f, NEW S, S = {f} PROVE One(S) = f
BY DEF One

\* A closure has overwritten one element and has it in hand.
Takes(f, x, y) ==
  /\ pc[f] = "swap" /\ pc'[f] = "swap_second"
  /\ UNCHANGED <<size, given>> /\ Pushed' = Pushed
  /\ \A g \in Pushed \ {f} : pc'[g] = pc[g] /\ frame'[g] = frame[g]
  /\ x \in frame[f].l .. frame[f].r /\ y \in frame[f].l .. frame[f].r
  /\ frame[f].j = y /\ frame'[f].j = y /\ frame'[f].tmp = a[x]
  /\ a'[x] = a[y] /\ \A k \in 0 .. size : k # x => a'[k] = a[k]

LEMMA TakenInHand ==
  ASSUME QsortInv, NEW f \in Pushed, NEW x, NEW y, Takes(f, x, y)
  PROVE  ElementsInv'
<1>. USE DEF Takes
<1>1. /\ size \in Nat /\ frame[f].l \in Nat /\ frame[f].r \in Int /\ frame[f].r <= size - 1
  BY FrameFacts DEF QsortInv, FrameInv
<1>2. x \in 0 .. size - 1 /\ y \in 0 .. size - 1 /\ IsFiniteSet(0 .. size - 1)
  <2>1. x \in 0 .. size - 1 /\ y \in 0 .. size - 1
    BY <1>1
  <2>2. 0 \in Int /\ size - 1 \in Int
    BY <1>1
  <2>. QED
    BY <2>1, <2>2, FS_Interval
<1>3. InHandFor(x) = {} /\ InHandFor(y) = {}
  BY InHandAlone DEF Early, InHandFor
<1>4. InHandFor(y)' = {f}
  BY <1>3 DEF InHandFor
<1>5. \A k : k # y => InHandFor(k)' = InHandFor(k) /\ f \notin InHandFor(k)
  BY DEF InHandFor
<1>6. Due(y) = a[y] /\ Due(x) = a[x]
  BY <1>3 DEF Due
<1>7. Due(y)' = a[x]
  <2>1. PICK S : S = InHandFor(y)'
    OBVIOUS
  <2>2. One(S) = f
    BY <1>4, <2>1, OneOfOne
  <2>3. Due(y)' = frame'[One(S)].tmp
    BY <1>4, <2>1 DEF Due
  <2>. QED
    BY <2>2, <2>3
<1>8. x # y => Due(x)' = a[y]
  BY <1>3, <1>5 DEF Due
<1>9. ASSUME NEW k \in 0 .. size - 1, k # x, k # y PROVE Due(k)' = Due(k)
  <2>1. k \in 0 .. size
    BY <1>1
  <2>. QED
    BY <1>5, <1>9, <2>1, DueSame
<1>10. \A k \in 0 .. size - 1 :
         Whole'[k] = IF k = x THEN Whole[y] ELSE IF k = y THEN Whole[x] ELSE Whole[k]
  <2>1. /\ \A k \in 0 .. size - 1 : Whole[k] = Due(k)
        /\ \A k \in 0 .. size - 1 : Whole'[k] = Due(k)'
    BY DEF Whole
  <2>. QED
    BY <1>2, <1>6, <1>7, <1>8, <1>9, <2>1
<1>11. ASSUME NEW v \in Value
       PROVE  Count(0 .. size - 1, Whole', v) = Count(0 .. size - 1, Whole, v)
  <2>1. PICK A, B, S : A = Whole /\ B = Whole' /\ S = 0 .. size - 1
    OBVIOUS
  <2>2. Count(S, B, v) = Count(S, A, v)
    <3>1. Exchanged(S, A, B, x, y)
      BY <1>2, <1>10, <2>1 DEF Exchanged
    <3>. QED
      BY <3>1, ExchangeKeepsOccurrences
  <2>. QED
    BY <2>1, <2>2
<1>. QED
  BY <1>11 DEF QsortInv, ElementsInv, Occurrences, Count

LEMMA PutDown ==
  ASSUME QsortInv, NEW f \in Pushed, pc[f] = "swap_second",
         UNCHANGED <<size, given, frame>>, pc'[f] # "swap_second",
         \A g \in Pushed \ {f} : pc'[g] = pc[g],
         NEW y \in frame[f].l .. frame[f].r, frame[f].j = y,
         a'[y] = frame[f].tmp, \A k \in 0 .. size : k # y => a'[k] = a[k]
  PROVE  ElementsInv'
<1>1. size \in Nat /\ Pushed' = Pushed
  BY DEF QsortInv, FrameInv, Pushed
<1>2. InHandFor(y) = {f}
  BY InHandAlone DEF Early, InHandFor
<1>3. InHandFor(y)' = {}
  BY <1>1, <1>2 DEF InHandFor
<1>4. \A k : k # y => InHandFor(k)' = InHandFor(k) /\ f \notin InHandFor(k)
  BY <1>1 DEF InHandFor
<1>5. Due(y) = frame[f].tmp
  <2>1. PICK S : S = InHandFor(y)
    OBVIOUS
  <2>2. One(S) = f
    BY <1>2, <2>1, OneOfOne
  <2>. QED
    BY <1>2, <2>1, <2>2 DEF Due
<1>6. Due(y)' = frame[f].tmp
  BY <1>3 DEF Due
<1>7. ASSUME NEW k \in 0 .. size - 1, k # y PROVE Due(k)' = Due(k)
  <2>1. k \in 0 .. size
    BY <1>1
  <2>. QED
    BY <1>4, <1>7, <2>1, DueSame
<1>8. Whole' = Whole
  BY <1>5, <1>6, <1>7 DEF Whole
<1>. QED
  BY <1>8 DEF QsortInv, ElementsInv, Occurrences

LEMMA SwapFirstStep ==
  ASSUME QsortInv, NEW f \in Pushed, SwapFirst(f)
  PROVE  QsortInv'
<1>. DEFINE q == frame[f]
            at == IF q.i < q.j THEN q.i ELSE q.l
            n == [q EXCEPT !.tmp = a[at]]
<1>1. /\ FrameInv /\ pc[f] = "swap" /\ UNCHANGED <<size, given>>
      /\ Set(f, n) /\ Goto(f, "swap_second") /\ a' = [a EXCEPT ![at] = a[q.j]]
  BY DEF QsortInv, SwapFirst
<1>2. /\ q \in Closures /\ q.l \in Nat /\ q.r \in Int /\ q.i \in Int /\ q.j \in Int
      /\ q.pivot \in Int /\ q.l < q.r /\ q.r <= size - 1 /\ size \in Nat
      /\ \A k \in q.l .. (q.r + 1) : k \in 0 .. size /\ a[k] \in Int /\ a[k] \in Value
  BY <1>1, FrameFacts, ElementFacts DEF QsortInv, PartitionInv, Partitioning, FrameInv
<1>3. SwapInv(q)
  BY <1>1 DEF QsortInv, PartitionInv
<1>4. at \in q.l .. q.r /\ q.j \in q.l .. q.r
  BY <1>2, <1>3 DEF SwapInv
<1>5. /\ n \in Closures /\ n.l = q.l /\ n.r = q.r /\ n.parent = q.parent
      /\ n.i = q.i /\ n.j = q.j /\ n.pivot = q.pivot /\ n.tmp = a[at]
  BY <1>2, <1>4 DEF Closures
<1>. HIDE DEF n
<1>6. /\ frame'[f] = n /\ \A g \in Pushed \ {f} : frame'[g] = frame[g]
      /\ frame' \in [Pushed -> Closures] /\ Pushed' = Pushed
  BY <1>1, <1>5, SetEffect
<1>7. /\ pc'[f] = "swap_second" /\ \A g \in Pushed \ {f} : pc'[g] = pc[g]
      /\ pc' \in [Pushed -> Labels]
  BY <1>1, GotoEffect DEF Labels
<1>8. /\ a' \in [0 .. size -> Value] /\ a'[at] = a[q.j]
      /\ \A k \in 0 .. size : k # at => a'[k] = a[k]
  BY <1>1, <1>2, <1>4 DEF FrameInv
<1>9. Local(f)
  BY <1>1, <1>5, <1>6, <1>7, <1>8 DEF Local, Early
<1>10. Fits(f, a[q.j]) /\ Fits(f, a[at])
  BY <1>1, <1>4, ElementFits DEF Early
<1>. HIDE DEF at
<1>11. Write(f, at, a[q.j])
  BY <1>1, <1>2, <1>4, <1>9, <1>10 DEF Write
<1>12. PartitionInv(f)'
  <2>. HIDE DEF q
  <2>0. /\ q.l < q.i /\ q.i <= q.j + 1 /\ q.j <= q.r /\ a[q.l] = q.pivot
        /\ (\A k \in q.l .. q.i - 1 : a[k] <= q.pivot)
        /\ (\A k \in q.j + 1 .. q.r : a[k] > q.pivot)
        /\ a[q.j] <= q.pivot /\ (q.i <= q.r => a[q.i] > q.pivot)
        /\ \A k \in q.l .. q.r : k # at => a'[k] = a[k]
    BY <1>2, <1>3, <1>8 DEF SwapInv, Above, AtMost
  <2>1. \A k \in q.j + 1 .. q.r : a'[k] > q.pivot
    <3>1. \A k \in q.j + 1 .. q.r : k \in q.l .. q.r /\ k # at
      BY <1>2, <2>0 DEF at
    <3>. QED
      BY <2>0, <3>1
  <2>2. CASE q.i < q.j
    <3>1. a'[q.l] = q.pivot /\ a[at] > q.pivot
      BY <1>2, <1>3, <1>4, <1>8, <2>2 DEF SwapInv, at
    <3>2. \A k \in q.l .. q.i : a'[k] <= q.pivot
      <4>1. at = q.i /\ a'[q.i] <= q.pivot
        BY <1>8, <2>0, <2>2 DEF at
      <4>2. \A k \in q.l .. q.i : k = q.i \/ (k \in q.l .. q.i - 1 /\ k \in q.l .. q.r)
        BY <1>2, <2>0
      <4>. QED
        BY <1>2, <2>0, <4>1, <4>2
    <3>3. SwapSecondInv(frame[f])'
      BY <1>2, <1>3, <1>4, <1>5, <1>6, <2>1, <2>2, <3>1, <3>2
      DEF SwapSecondInv, SwapInv, AtMost, Above
    <3>. QED
      BY <1>2, <1>5, <1>6, <1>7, <3>3 DEF PartitionInv, Partitioning
  <2>3. CASE ~(q.i < q.j)
    <3>1. q.i = q.j + 1 /\ at = q.l
      BY <1>2, <1>3, <2>3 DEF SwapInv, at
    <3>2. \A k \in q.l .. q.j : a'[k] <= q.pivot
      BY <1>2, <1>3, <1>4, <1>8, <3>1 DEF SwapInv, AtMost
    <3>3. a[at] = q.pivot
      BY <1>3, <3>1 DEF SwapInv
    <3>4. SwapSecondInv(frame[f])'
      BY <1>2, <1>3, <1>4, <1>5, <1>6, <2>1, <3>1, <3>2, <3>3
      DEF SwapSecondInv, SwapInv, AtMost, Above
    <3>. QED
      BY <1>2, <1>5, <1>6, <1>7, <3>4 DEF PartitionInv, Partitioning
  <2>. QED
    BY <2>2, <2>3
<1>13. ElementsInv'
  <2>. HIDE DEF q
  <2>1. PICK x \in q.l .. q.r, y \in q.l .. q.r : x = at /\ y = q.j
    BY <1>4
  <2>2. /\ frame[f].l = q.l /\ frame[f].r = q.r /\ frame[f].j = y
        /\ frame'[f].j = y /\ frame'[f].tmp = a[x]
    BY <1>5, <1>6, <2>1 DEF q
  <2>3. Takes(f, x, y)
    BY <1>1, <1>6, <1>7, <1>8, <2>1, <2>2 DEF Takes
  <2>. QED
    BY <2>3, TakenInHand
<1>. QED
  BY <1>5, <1>6, <1>7, <1>10, <1>11, <1>12, <1>13, WriteStep

LEMMA SwapSecondStep ==
  ASSUME QsortInv, NEW f \in Pushed, SwapSecond(f)
  PROVE  QsortInv'
<1>. DEFINE q == frame[f]
<1>1. /\ FrameInv /\ pc[f] = "swap_second" /\ UNCHANGED <<size, given, frame>>
      /\ Goto(f, IF q.i < q.j THEN "up" ELSE "spawn") /\ a' = [a EXCEPT ![q.j] = q.tmp]
  BY DEF QsortInv, SwapSecond
<1>2. /\ q \in Closures /\ q.l \in Nat /\ q.r \in Int /\ q.i \in Int /\ q.j \in Int
      /\ q.pivot \in Int /\ q.l < q.r /\ q.r <= size - 1 /\ size \in Nat
      /\ \A k \in q.l .. (q.r + 1) : k \in 0 .. size /\ a[k] \in Int /\ a[k] \in Value
  BY <1>1, FrameFacts, ElementFacts DEF QsortInv, PartitionInv, Partitioning, FrameInv
<1>3. SwapSecondInv(q)
  BY <1>1 DEF QsortInv, PartitionInv
<1>4. q.j \in q.l .. q.r /\ q.tmp \in Value
  BY <1>2, <1>3 DEF SwapSecondInv
<1>5. /\ pc'[f] = IF q.i < q.j THEN "up" ELSE "spawn"
      /\ \A g \in Pushed \ {f} : pc'[g] = pc[g]
      /\ pc' \in [Pushed -> Labels]
  BY <1>1, GotoEffect DEF Labels
<1>6. /\ a' \in [0 .. size -> Value] /\ a'[q.j] = q.tmp
      /\ \A k \in 0 .. size : k # q.j => a'[k] = a[k]
  BY <1>1, <1>2, <1>4 DEF FrameInv
<1>7. Local(f)
  BY <1>1, <1>5, <1>6 DEF Local, Early, FrameInv, Pushed
<1>8. Fits(f, q.tmp)
  BY <1>1 DEF QsortInv, HandInv, Fits
<1>9. Write(f, q.j, q.tmp)
  BY <1>1, <1>4, <1>7, <1>8 DEF Write
<1>10. PartitionInv(f)'
  <2>0. frame'[f] = q
    BY <1>1
  <2>. HIDE DEF q
  <2>3. /\ q.l < q.i /\ q.i <= q.j + 1 /\ q.j <= q.r
        /\ (\A k \in q.j + 1 .. q.r : a[k] > q.pivot)
        /\ \A k \in q.l .. q.r : k # q.j => a'[k] = a[k]
    BY <1>2, <1>3, <1>6 DEF SwapSecondInv, Above
  <2>4. \A k \in q.j + 1 .. q.r : a'[k] > q.pivot
    <3>1. \A k \in q.j + 1 .. q.r : k \in q.l .. q.r /\ k # q.j
      BY <1>2, <2>3
    <3>. QED
      BY <2>3, <3>1
  <2>1. CASE q.i < q.j
    <3>1. a[q.l] = q.pivot /\ (\A k \in q.l .. q.i : a[k] <= q.pivot) /\ q.tmp > q.pivot
      BY <1>2, <1>3, <2>1 DEF SwapSecondInv, AtMost
    <3>2. a'[q.l] = q.pivot /\ \A k \in q.l .. q.i : a'[k] <= q.pivot
      <4>1. \A k \in q.l .. q.i : k \in q.l .. q.r /\ k # q.j
        BY <1>2, <2>1, <2>3
      <4>2. q.l \in q.l .. q.i
        BY <1>2, <2>3
      <4>. QED
        BY <2>3, <3>1, <4>1, <4>2
    <3>3. \A k \in q.j .. q.r : a'[k] > q.pivot
      <4>1. \A k \in q.j .. q.r : k = q.j \/ k \in q.j + 1 .. q.r
        BY <1>2
      <4>. QED
        BY <1>6, <2>4, <3>1, <4>1
    <3>4. UpInv(frame[f])'
      BY <1>2, <2>0, <2>1, <2>3, <3>2, <3>3 DEF UpInv, AtMost, Above
    <3>. QED
      BY <1>2, <1>5, <2>0, <2>1, <3>4 DEF PartitionInv, Partitioning
  <2>2. CASE ~(q.i < q.j)
    <3>1. q.tmp = q.pivot /\ AtMost(q, q.l, q.j) /\ Above(q, q.j + 1, q.r)
      BY <1>2, <1>3, <2>2 DEF SwapSecondInv
    <3>2. \A k \in q.l .. q.j - 1 : a'[k] <= a'[q.j]
      <4>1. \A k \in q.l .. q.j - 1 : k \in q.l .. q.r /\ k # q.j /\ k \in q.l .. q.j
        BY <1>2, <2>3
      <4>. QED
        BY <1>6, <2>3, <3>1, <4>1 DEF AtMost
    <3>3. \A k \in q.j + 1 .. q.r : a'[k] > a'[q.j]
      BY <1>6, <2>4, <3>1
    <3>4. SeparatedInv(frame[f])'
      BY <1>2, <1>4, <2>0, <3>2, <3>3 DEF SeparatedInv
    <3>. QED
      BY <1>2, <1>5, <2>0, <2>2, <3>4 DEF PartitionInv, Partitioning
  <2>. QED
    BY <2>1, <2>2
<1>11. ElementsInv'
  <2>1. PICK y \in q.l .. q.r : y = q.j
    BY <1>4
  <2>2. pc'[f] # "swap_second"
    BY <1>5
  <2>3. /\ a'[y] = frame[f].tmp /\ \A k \in 0 .. size : k # y => a'[k] = a[k]
        /\ frame[f].j = y /\ y \in frame[f].l .. frame[f].r
    BY <1>6, <2>1
  <2>4. /\ pc[f] = "swap_second" /\ UNCHANGED <<size, given, frame>>
        /\ \A g \in Pushed \ {f} : pc'[g] = pc[g]
    BY <1>1, <1>5
  <2>. HIDE DEF q
  <2>. QED
    BY <2>2, <2>3, <2>4, PutDown
<1>. QED
  BY <1>5, <1>9, <1>10, <1>11, WriteStep

(***************************************************************************)
(* The steps that spawn, wait and signal                                   *)
(***************************************************************************)
LEMMA StutterStep == ASSUME QsortInv, UNCHANGED vars PROVE QsortInv'
<1>1. /\ size' = size /\ given' = given /\ a' = a /\ frame' = frame /\ pc' = pc
      /\ Pushed' = Pushed
  BY DEF vars, Pushed
<1>2. \A f \in Pushed : /\ Spawned(f)' <=> Spawned(f)
                        /\ Left(f)' = Left(f) /\ Right(f)' = Right(f)
                        /\ Awaited(f)' = Awaited(f)
  BY <1>1 DEF Spawned, Left, Right, Awaited
<1>5. \A f, g \in Pushed : Below(g, f)' <=> Below(g, f)
  BY <1>2 DEF Below, Covers
<1>6. FrameInv'
  BY <1>1 DEF QsortInv, FrameInv, Root, Closures
<1>7. NestingInv'
  BY <1>1, <1>5 DEF QsortInv, NestingInv, Apart
<1>8. WaitInv'
  <2>1. Root' = Root
    BY <1>1 DEF Root
  <2>2. ASSUME NEW g \in Pushed, Spawned(g)
        PROVE  Awaited(Left(g))' = Awaited(Left(g)) /\ Awaited(Right(g))' = Awaited(Right(g))
    BY <1>1, <1>2, <2>2 DEF Awaited
  <2>. QED
    BY <1>1, <1>2, <2>1, <2>2 DEF QsortInv, WaitInv
<1>9. HandInv'
  BY <1>1, <1>2, <1>5 DEF QsortInv, HandInv, Covers
<1>10. SortedInv'
  BY <1>1 DEF QsortInv, SortedInv, Sorted
<1>3. \A f \in Pushed : PartitionInv(f)'
  BY <1>1, PartitionSame DEF QsortInv
<1>4. ElementsInv'
  <2>1. \A k : InHandFor(k)' = InHandFor(k)
    BY <1>1 DEF InHandFor
  <2>2. ASSUME NEW k PROVE Due(k)' = Due(k)
    BY <1>1, <2>1 DEF Due
  <2>3. Whole' = Whole
    BY <1>1, <2>2 DEF Whole
  <2>. QED
    BY <1>1, <2>3 DEF QsortInv, ElementsInv, Occurrences
<1>. QED
  BY <1>1, <1>3, <1>4, <1>6, <1>7, <1>8, <1>9, <1>10 DEF QsortInv

\* Whose range lies in a frame that is done is done.
LEMMA DoneBelow ==
  ASSUME FrameInv, NestingInv, WaitInv, NEW s \in Pushed, NEW g \in Pushed,
         pc[s] = "done", frame[s].l <= frame[g].l, frame[g].r <= frame[s].r
  PROVE  pc[g] = "done"
<1>. SUFFICES ASSUME g # s PROVE pc[g] = "done"
  OBVIOUS
<1>1. /\ frame[s].l \in Int /\ frame[s].r \in Int /\ frame[s].l <= frame[s].r + 1
      /\ frame[g].l \in Int /\ frame[g].r \in Int /\ frame[g].l <= frame[g].r + 1
      /\ frame[g].j \in Int
  BY FrameFacts
<1>2. ~Apart(s, g)
  BY <1>1, RangeFacts
<1>3. ~Below(s, g)
  <2>. SUFFICES ASSUME Below(s, g) PROVE FALSE
    OBVIOUS
  <2>1. frame[g].j \in frame[g].l .. frame[g].r
    BY DEF Below, WaitInv
  <2>2. Covers(Left(g), s) \/ Covers(Right(g), s)
    BY DEF Below
  <2>. QED
    BY <1>1, <2>1, <2>2, RangeFacts
<1>4. Below(g, s)
  BY <1>2, <1>3 DEF NestingInv
<1>. QED
  BY <1>4 DEF NestingInv

\* Two sorted sides and a pivot between them are a sorted range.
LEMMA SortedAtPivot ==
  ASSUME NEW l \in Int, NEW j \in Int, NEW r \in Int,
         \A k \in l .. r : a[k] \in Int,
         l <= j, j <= r,
         \A k \in l .. j - 1 : a[k] <= a[j],
         \A k \in j + 1 .. r : a[k] > a[j],
         \A k, m \in l .. j - 1 : k <= m => a[k] <= a[m],
         \A k, m \in j + 1 .. r : k <= m => a[k] <= a[m]
  PROVE  \A k, m \in l .. r : k <= m => a[k] <= a[m]
<1>. SUFFICES ASSUME NEW k \in l .. r, NEW m \in l .. r, k <= m PROVE a[k] <= a[m]
  OBVIOUS
<1>1. a[k] \in Int /\ a[m] \in Int /\ a[j] \in Int
  OBVIOUS
<1>2. k \in l .. j - 1 \/ k = j \/ k \in j + 1 .. r
  OBVIOUS
<1>3. m \in l .. j - 1 \/ m = j \/ m \in j + 1 .. r
  OBVIOUS
<1>4. (k \in l .. j - 1 => a[k] <= a[j]) /\ (k \in j + 1 .. r => m \in j + 1 .. r)
      /\ (k = j => m = j \/ m \in j + 1 .. r)
  OBVIOUS
<1>5. (m \in j + 1 .. r => a[m] > a[j])
  OBVIOUS
<1>. QED
  BY <1>1, <1>2, <1>3, <1>4, <1>5

LEMMA SyncStep ==
  ASSUME QsortInv, NEW f \in Pushed, Sync(f)
  PROVE  QsortInv'
<1>1. /\ FrameInv /\ NestingInv /\ WaitInv /\ PartitionInv(f)
      /\ pc[f] = "sync" /\ UNCHANGED <<size, given, a, frame>> /\ Pushed' = Pushed
      /\ Goto(f, IF frame[f].sync_frames_remaining = 0 THEN "signal" ELSE "sync")
  BY DEF QsortInv, Sync, Pushed
<1>2. CASE frame[f].sync_frames_remaining # 0
  <2>1. pc' = pc
    BY <1>1, <1>2 DEF Goto, FrameInv
  <2>. QED
    BY <1>1, <2>1, StutterStep DEF vars
<1>3. CASE frame[f].sync_frames_remaining = 0
  <2>1. /\ pc'[f] = "signal" /\ \A g \in Pushed \ {f} : pc'[g] = pc[g]
        /\ pc' \in [Pushed -> Labels]
    BY <1>1, <1>3, GotoEffect DEF Labels
  <2>2. Spawned(f) /\ SeparatedInv(frame[f])
    BY <1>1 DEF Spawned, PartitionInv
  <2>3. /\ Left(f) \in Pushed /\ Right(f) \in Pushed
        /\ pc[Left(f)] = "done" /\ pc[Right(f)] = "done"
        /\ frame[Left(f)].parent = f /\ frame[Right(f)].parent = f
        /\ frame[f].j \in frame[f].l .. frame[f].r
    BY <1>1, <1>3, <2>2 DEF WaitInv, Awaited
  <2>4. /\ frame[f].l \in Int /\ frame[f].r \in Int /\ frame[f].j \in Int
        /\ \A k \in frame[f].l .. frame[f].r : a[k] \in Int
        /\ f[1] = frame[f].l /\ f[2] = frame[f].r
    BY <1>1, FrameFacts, ElementFacts
  <2>5. FrameInv'
    BY <1>1, <2>1 DEF FrameInv, Root, Closures
  <2>6. \A g \in Pushed : /\ Spawned(g)' <=> Spawned(g)
                          /\ Left(g)' = Left(g) /\ Right(g)' = Right(g)
                          /\ pc'[g] = "done" <=> pc[g] = "done"
    BY <1>1, <2>1 DEF Spawned, Left, Right
  <2>7. \A g, h \in Pushed : Below(h, g)' <=> Below(h, g)
    BY <2>6 DEF Below, Covers
  <2>8. \A g \in Pushed : PartitionInv(g)'
    <3>1. PartitionInv(f)'
      BY <2>1 DEF PartitionInv, Partitioning
    <3>2. ASSUME NEW g \in Pushed, g # f PROVE PartitionInv(g)'
      BY <1>1, <2>1, <3>2, PartitionSame DEF QsortInv
    <3>. QED
      BY <3>1, <3>2
  <2>9. \A g \in Pushed : Below(g, f) => pc[g] = "done"
    <3>. SUFFICES ASSUME NEW g \in Pushed, Below(g, f) PROVE pc[g] = "done"
      OBVIOUS
    <3>1. /\ frame[Left(f)].l = frame[f].l /\ frame[Left(f)].r = frame[f].j - 1
          /\ frame[Right(f)].l = frame[f].j + 1 /\ frame[Right(f)].r = frame[f].r
      <4>1. /\ Left(f)[1] = frame[f].l /\ Left(f)[2] = frame[f].j - 1
            /\ Right(f)[1] = frame[f].j + 1 /\ Right(f)[2] = frame[f].r
        BY DEF Left, Right
      <4>. QED
        BY <1>1, <2>3, <4>1, FrameFacts
    <3>. QED
      BY <1>1, <2>3, <3>1, RangeFacts, DoneBelow DEF Below
  <2>10. NestingInv'
    BY <1>1, <2>1, <2>6, <2>7, <2>9 DEF NestingInv, Apart
  <2>11. WaitInv'
    <3>1. \A g \in Pushed : Awaited(g)' = Awaited(g)
      BY <2>6 DEF Awaited
    <3>2. Root' = Root
      BY <1>1 DEF Root
    <3>3. ASSUME NEW g \in Pushed, Spawned(g)
          PROVE  /\ frame'[g].j \in frame'[g].l .. frame'[g].r
                 /\ {Left(g)', Right(g)'} \subseteq Pushed
                 /\ frame'[Left(g)'].parent = g /\ frame'[Right(g)'].parent = g
                 /\ IF pc'[g] = "sync"
                    THEN frame'[g].sync_frames_remaining = Awaited(Left(g))' + Awaited(Right(g))'
                    ELSE pc'[Left(g)'] = "done" /\ pc'[Right(g)'] = "done"
      <4>1. /\ Left(g) \in Pushed /\ Right(g) \in Pushed
            /\ frame[Left(g)].parent = g /\ frame[Right(g)].parent = g
            /\ frame[g].j \in frame[g].l .. frame[g].r
        BY <1>1, <3>3 DEF WaitInv
      <4>2. Awaited(Left(g))' = Awaited(Left(g)) /\ Awaited(Right(g))' = Awaited(Right(g))
        BY <2>6, <4>1 DEF Awaited
      <4>3. CASE g = f
        BY <1>1, <2>1, <2>3, <2>6, <4>1, <4>3
      <4>4. CASE g # f
        BY <1>1, <2>1, <2>6, <3>3, <4>1, <4>2, <4>4 DEF WaitInv
      <4>. QED
        BY <4>3, <4>4
    <3>4. ASSUME NEW g \in Pushed \ {Root}
          PROVE  \E p \in Pushed :
                   frame'[g].parent = p /\ Spawned(p)' /\ g \in {Left(p)', Right(p)'}
      BY <1>1, <2>6 DEF WaitInv
    <3>. QED
      BY <1>1, <2>6, <3>2, <3>3, <3>4 DEF WaitInv
  <2>12. HandInv'
    <3>. SUFFICES ASSUME NEW g \in Pushed, NEW h \in Pushed, g # h, pc'[g] = "sync",
                         Below(h, g)', pc'[h] = "swap_second"
                  PROVE  /\ Covers(Left(g)', h) => frame'[h].tmp <= a'[frame'[g].j]
                         /\ Covers(Right(g)', h) => frame'[h].tmp > a'[frame'[g].j]
      BY <1>1 DEF HandInv, Covers
    <3>1. pc[g] = "sync" /\ pc[h] = "swap_second" /\ Below(h, g)
      BY <1>1, <2>1, <2>7
    <3>. QED
      BY <1>1, <2>6, <3>1 DEF QsortInv, HandInv
  <2>13. Sorted(f)
    <3>1. Sorted(Left(f)) /\ Sorted(Right(f))
      BY <2>3 DEF QsortInv, SortedInv
    <3>2. /\ \A k, m \in frame[f].l .. frame[f].j - 1 : k <= m => a[k] <= a[m]
          /\ \A k, m \in frame[f].j + 1 .. frame[f].r : k <= m => a[k] <= a[m]
      BY <3>1 DEF Sorted, Left, Right
    <3>3. /\ frame[f].l <= frame[f].j /\ frame[f].j <= frame[f].r
          /\ \A k \in frame[f].l .. frame[f].j - 1 : a[k] <= a[frame[f].j]
          /\ \A k \in frame[f].j + 1 .. frame[f].r : a[k] > a[frame[f].j]
      BY <2>2 DEF SeparatedInv
    <3>4. \A k, m \in frame[f].l .. frame[f].r : k <= m => a[k] <= a[m]
      BY <2>4, <3>2, <3>3, SortedAtPivot
    <3>. QED
      BY <2>4, <3>4 DEF Sorted
  <2>14. SortedInv'
    BY <1>1, <2>1, <2>13 DEF QsortInv, SortedInv, Sorted
  <2>15. ElementsInv'
    <3>1. \A k : InHandFor(k)' = InHandFor(k) /\ f \notin InHandFor(k)
      BY <1>1, <2>1 DEF InHandFor
    <3>2. ASSUME NEW k PROVE Due(k)' = Due(k)
      BY <1>1, <3>1, DueSame
    <3>3. Whole' = Whole
      BY <1>1, <3>2 DEF Whole
    <3>. QED
      BY <1>1, <3>3 DEF QsortInv, ElementsInv, Occurrences
  <2>. QED
    BY <1>1, <2>5, <2>8, <2>10, <2>11, <2>12, <2>14, <2>15 DEF QsortInv
<1>. QED
  BY <1>2, <1>3

LEMMA SignalStep ==
  ASSUME QsortInv, NEW f \in Pushed, Signal(f)
  PROVE  QsortInv'
<1>. PICK p : p = frame[f].parent
  OBVIOUS
<1>1. /\ FrameInv /\ NestingInv /\ WaitInv /\ HandInv /\ SortedInv
      /\ pc[f] = "signal" /\ UNCHANGED <<size, given, a>> /\ Goto(f, "done")
      /\ frame' = [frame EXCEPT ![p].sync_frames_remaining = @ - 1]
  BY DEF QsortInv, Signal
<1>2. p \in Pushed /\ frame[p] \in Closures /\ frame \in [Pushed -> Closures]
      /\ frame[p].sync_frames_remaining \in Int
  BY <1>1, FrameFacts DEF FrameInv
<1>3. /\ pc'[f] = "done" /\ pc' \in [Pushed -> Labels]
      /\ \A g \in Pushed \ {f} : pc'[g] = pc[g]
  BY <1>1, GotoEffect DEF Labels
<1>4. /\ Pushed' = Pushed /\ Closures' = Closures /\ Root' = Root
      /\ \A g \in Pushed \ {p} : frame'[g] = frame[g]
      /\ frame'[p] = [frame[p] EXCEPT !.sync_frames_remaining = @ - 1]
  <2>1. Pushed' = Pushed
    BY <1>1, <1>2 DEF Pushed
  <2>. QED
    BY <1>1, <1>2, <2>1 DEF Closures, Root
<1>5. frame'[p] \in Closures /\ frame'[p].sync_frames_remaining = frame[p].sync_frames_remaining - 1
  BY <1>2, <1>4 DEF Closures
<1>6. \A g \in Pushed : /\ frame'[g].l = frame[g].l /\ frame'[g].r = frame[g].r
                        /\ frame'[g].j = frame[g].j /\ frame'[g].tmp = frame[g].tmp
                        /\ frame'[g].parent = frame[g].parent
  BY <1>2, <1>4 DEF Closures
<1>7. \A g \in Pushed : /\ Spawned(g)' <=> Spawned(g)
                        /\ Left(g)' = Left(g) /\ Right(g)' = Right(g)
                        /\ pc[g] = "done" => pc'[g] = "done"
                        /\ pc'[g] = "sync" <=> pc[g] = "sync"
                        /\ pc'[g] = "swap_second" <=> pc[g] = "swap_second"
  BY <1>1, <1>3, <1>6 DEF Spawned, Left, Right
<1>8. \A g, h \in Pushed : Below(h, g)' <=> Below(h, g)
  BY <1>7 DEF Below, Covers
<1>9. FrameInv'
  <2>1. frame' \in [Pushed -> Closures]
    BY <1>1, <1>2, <1>4, <1>5
  <2>. QED
    BY <1>1, <1>3, <1>4, <1>6, <2>1 DEF FrameInv
<1>10. f # Root => Spawned(p) /\ f \in {Left(p), Right(p)}
  BY <1>1 DEF WaitInv
<1>11. f = Root => p = f
  BY <1>1 DEF FrameInv
<1>12. ASSUME NEW g \in Pushed PROVE PartitionInv(g)'
  <2>1. CASE g # f /\ g # p
    BY <1>1, <1>3, <1>4, <2>1, PartitionSame DEF QsortInv
  <2>2. CASE g = f
    BY <1>3, <2>2 DEF PartitionInv, Partitioning
  <2>3. CASE g = p /\ g # f
    <3>1. Spawned(g)
      BY <1>10, <1>11, <2>3
    <3>2. CASE pc[g] = "sync"
      <4>1. SeparatedInv(frame[g]) /\ frame[g].l < frame[g].r
        BY <3>2 DEF QsortInv, PartitionInv
      <4>2. SeparatedInv(frame[g])'
        BY <1>1, <1>6, <4>1 DEF SeparatedInv
      <4>. QED
        BY <1>6, <1>7, <3>2, <4>1, <4>2 DEF PartitionInv, Partitioning
    <3>3. CASE pc[g] # "sync"
      BY <1>3, <2>3, <3>1, <3>3 DEF PartitionInv, Partitioning, Spawned
    <3>. QED
      BY <3>2, <3>3
  <2>. QED
    BY <2>1, <2>2, <2>3
<1>13. NestingInv'
  BY <1>1, <1>4, <1>7, <1>8 DEF NestingInv, Apart
<1>14. ASSUME NEW g \in Pushed, Spawned(g)
       PROVE  /\ frame'[g].j \in frame'[g].l .. frame'[g].r
              /\ {Left(g)', Right(g)'} \subseteq Pushed
              /\ frame'[Left(g)'].parent = g /\ frame'[Right(g)'].parent = g
              /\ IF pc'[g] = "sync"
                 THEN frame'[g].sync_frames_remaining = Awaited(Left(g))' + Awaited(Right(g))'
                 ELSE pc'[Left(g)'] = "done" /\ pc'[Right(g)'] = "done"
  <2>1. /\ frame[g].j \in frame[g].l .. frame[g].r
        /\ Left(g) \in Pushed /\ Right(g) \in Pushed
        /\ frame[Left(g)].parent = g /\ frame[Right(g)].parent = g
        /\ IF pc[g] = "sync"
           THEN frame[g].sync_frames_remaining = Awaited(Left(g)) + Awaited(Right(g))
           ELSE pc[Left(g)] = "done" /\ pc[Right(g)] = "done"
    BY <1>1, <1>14 DEF WaitInv
  <2>2. /\ frame'[g].j \in frame'[g].l .. frame'[g].r
        /\ {Left(g)', Right(g)'} \subseteq Pushed
        /\ frame'[Left(g)'].parent = g /\ frame'[Right(g)'].parent = g
    BY <1>6, <1>7, <2>1
  <2>3. ASSUME pc[g] # "sync"
        PROVE  pc'[g] # "sync" /\ pc'[Left(g)'] = "done" /\ pc'[Right(g)'] = "done"
    BY <1>7, <2>1, <2>3
  <2>4. ASSUME pc[g] = "sync"
        PROVE  /\ pc'[g] = "sync"
               /\ frame'[g].sync_frames_remaining = Awaited(Left(g))' + Awaited(Right(g))'
    <3>1. PICK x : x = Left(g)
      OBVIOUS
    <3>2. PICK y : y = Right(g)
      OBVIOUS
    <3>3. /\ x \in Pushed /\ y \in Pushed /\ frame[x].parent = g /\ frame[y].parent = g
          /\ frame[g].sync_frames_remaining = Awaited(x) + Awaited(y)
      BY <2>1, <2>4, <3>1, <3>2
    <3>4. x # y
      <4>1. frame[g].l \in Int /\ frame[g].j \in Int /\ frame[g].l <= frame[g].j
        BY <1>1, <2>1, FrameFacts
      <4>2. x[1] = frame[g].l /\ y[1] = frame[g].j + 1
        BY <3>1, <3>2 DEF Left, Right
      <4>. QED
        BY <4>1, <4>2
    <3>5. Left(g)' = x /\ Right(g)' = y
      BY <1>7, <3>1, <3>2
    <3>6. Awaited(f) = 1 /\ Awaited(f)' = 0
      BY <1>1, <1>3 DEF Awaited
    <3>7. \A h \in Pushed \ {f} : Awaited(h)' = Awaited(h)
      BY <1>3 DEF Awaited
    <3>8. Awaited(x) \in Int /\ Awaited(y) \in Int
      BY DEF Awaited
    <3>9. CASE p = g
      <4>1. f \in {x, y}
        BY <1>1, <1>10, <1>11, <2>4, <3>1, <3>2, <3>9
      <4>2. frame'[g].sync_frames_remaining = frame[g].sync_frames_remaining - 1
        BY <1>5, <3>9
      <4>3. Awaited(x)' + Awaited(y)' = Awaited(x) + Awaited(y) - 1
        <5>1. CASE f = x
          BY <3>3, <3>4, <3>6, <3>7, <3>8, <5>1
        <5>2. CASE f = y
          BY <3>3, <3>4, <3>6, <3>7, <3>8, <5>2
        <5>. QED
          BY <4>1, <5>1, <5>2
      <4>. QED
        BY <1>7, <2>4, <3>3, <3>5, <3>8, <4>2, <4>3 DEF Awaited
    <3>10. CASE p # g
      <4>1. f # x /\ f # y
        BY <3>3, <3>10
      <4>. QED
        BY <1>4, <1>7, <2>4, <3>3, <3>5, <3>7, <3>10, <4>1 DEF Awaited
    <3>. QED
      BY <3>9, <3>10
  <2>. QED
    BY <2>2, <2>3, <2>4
<1>15. WaitInv'
  <2>1. ASSUME NEW g \in Pushed \ {Root}
        PROVE  \E q \in Pushed :
                 frame'[g].parent = q /\ Spawned(q)' /\ g \in {Left(q)', Right(q)'}
    BY <1>1, <1>6, <1>7 DEF WaitInv
  <2>. QED
    BY <1>4, <1>7, <1>14, <2>1 DEF WaitInv
<1>16. HandInv'
  <2>. SUFFICES ASSUME NEW g \in Pushed, NEW h \in Pushed, g # h, pc'[g] = "sync",
                       Below(h, g)', pc'[h] = "swap_second"
                PROVE  /\ Covers(Left(g)', h) => frame'[h].tmp <= a'[frame'[g].j]
                       /\ Covers(Right(g)', h) => frame'[h].tmp > a'[frame'[g].j]
    BY <1>4 DEF HandInv, Covers
  <2>. QED
    BY <1>1, <1>6, <1>7, <1>8 DEF HandInv
<1>17. SortedInv'
  BY <1>1, <1>3, <1>4 DEF SortedInv, Sorted
<1>18. ElementsInv'
  <2>1. \A k : InHandFor(k)' = InHandFor(k)
    BY <1>4, <1>6, <1>7 DEF InHandFor
  <2>2. ASSUME NEW k PROVE Due(k)' = Due(k)
    <3>1. CASE InHandFor(k) = {}
      BY <1>1, <2>1, <3>1 DEF Due
    <3>2. CASE InHandFor(k) # {}
      <4>1. PICK S : S = InHandFor(k)
        OBVIOUS
      <4>2. One(S) \in Pushed
        BY <3>2, <4>1 DEF One, InHandFor
      <4>3. Due(k)' = frame'[One(S)].tmp /\ Due(k) = frame[One(S)].tmp
        BY <2>1, <3>2, <4>1 DEF Due
      <4>. QED
        BY <1>6, <4>2, <4>3
    <3>. QED
      BY <3>1, <3>2
  <2>3. Whole' = Whole
    BY <1>1, <2>2 DEF Whole
  <2>. QED
    BY <1>1, <2>3 DEF QsortInv, ElementsInv, Occurrences
<1>. QED
  BY <1>4, <1>9, <1>12, <1>13, <1>15, <1>16, <1>17, <1>18 DEF QsortInv

(***************************************************************************)
(* The step that pushes the frames x and y of the two sides                *)
(***************************************************************************)
Spawns(f, x, y) ==
  /\ UNCHANGED <<size, given, a>>
  /\ x = <<frame[f].l, frame[f].j - 1>> /\ y = <<frame[f].j + 1, frame[f].r>>
  /\ x \notin Pushed /\ y \notin Pushed /\ x # y
  /\ Pushed' = Pushed \union {x, y}
  /\ pc' \in [Pushed \union {x, y} -> Labels]
  /\ pc'[f] = "sync" /\ pc'[x] = "pushed" /\ pc'[y] = "pushed"
  /\ \A g \in Pushed \ {f} : pc'[g] = pc[g] /\ frame'[g] = frame[g]
  /\ frame' = [g \in Pushed \union {x, y} |-> frame'[g]]
  /\ frame'[f] = [frame[f] EXCEPT !.sync_frames_remaining = 2]
  /\ frame'[x] = NewFrame(x, f) /\ frame'[y] = NewFrame(y, f)

LEMMA PushEffect ==
  ASSUME QsortInv, NEW f \in Pushed, Push(f)
  PROVE  \E x, y : Spawns(f, x, y)
<1>. DEFINE q == frame[f]
<1>. PICK x : x = <<q.l, q.j - 1>>
  OBVIOUS
<1>. PICK y : y = <<q.j + 1, q.r>>
  OBVIOUS
<1>1. /\ FrameInv /\ NestingInv /\ WaitInv /\ pc[f] = "spawn" /\ UNCHANGED <<size, given, a>>
      /\ q.l \in Int /\ q.r \in Int /\ q.j \in Int /\ f = <<q.l, q.r>>
  BY FrameFacts DEF QsortInv, Push
<1>2. q.l <= q.j /\ q.j <= q.r
  BY <1>1 DEF QsortInv, PartitionInv, SeparatedInv
<1>3. Sides(q) = {x, y} /\ FramesToAwait = 2
  BY DEF Sides, FramesToAwait
<1>4. x # y /\ x # f /\ y # f
  <2>1. x[1] = q.l /\ x[2] = q.j - 1 /\ y[1] = q.j + 1 /\ y[2] = q.r /\ f[1] = q.l /\ f[2] = q.r
    BY <1>1
  <2>. QED
    BY <1>1, <1>2, <2>1
<1>5. ASSUME NEW s \in {x, y} PROVE s \notin Pushed
  <2>. SUFFICES ASSUME s \in Pushed PROVE FALSE
    OBVIOUS
  <2>1. /\ frame[s].l \in Int /\ frame[s].r \in Int /\ frame[s].j \in Int
        /\ s[1] = frame[s].l /\ s[2] = frame[s].r
    BY <1>1, FrameFacts
  <2>2. \/ frame[s].l = q.l /\ frame[s].r = q.j - 1
        \/ frame[s].l = q.j + 1 /\ frame[s].r = q.r
    BY <1>1, <2>1
  <2>3. ~Spawned(f) /\ pc[f] # "done"
    BY <1>1 DEF Spawned
  <2>4. Below(f, s) \/ Apart(f, s)
    BY <1>1, <1>4, <2>3 DEF NestingInv, Below, Apart
  <2>5. ~Apart(f, s)
    BY <1>1, <1>2, <2>1, <2>2, RangeFacts
  <2>6. Below(f, s)
    BY <2>4, <2>5
  <2>7. frame[s].j \in frame[s].l .. frame[s].r
    BY <1>1, <2>6 DEF Below, WaitInv
  <2>8. Covers(Left(s), f) \/ Covers(Right(s), f)
    BY <2>6 DEF Below
  <2>. QED
    BY <1>1, <1>2, <2>1, <2>2, <2>7, <2>8, RangeFacts
<1>6. /\ frame' = [g \in Pushed \union {x, y} |->
                     CASE g = f        -> [q EXCEPT !.sync_frames_remaining = 2]
                       [] g \in {x, y} -> NewFrame(g, f)
                       [] OTHER        -> frame[g]]
      /\ pc' = [g \in Pushed \union {x, y} |->
                  CASE g = f        -> "sync"
                    [] g \in {x, y} -> "pushed"
                    [] OTHER        -> pc[g]]
  BY <1>3 DEF Push
<1>. HIDE DEF q
<1>7. Pushed' = Pushed \union {x, y}
  BY <1>6 DEF Pushed
<1>8. /\ frame'[f] = [q EXCEPT !.sync_frames_remaining = 2] /\ pc'[f] = "sync"
      /\ frame'[x] = NewFrame(x, f) /\ pc'[x] = "pushed"
      /\ frame'[y] = NewFrame(y, f) /\ pc'[y] = "pushed"
  BY <1>4, <1>6
<1>9. ASSUME NEW g \in Pushed \ {f}
      PROVE  pc'[g] = pc[g] /\ frame'[g] = frame[g]
  BY <1>5, <1>6
<1>10. pc' \in [Pushed \union {x, y} -> Labels]
  <2>1. pc \in [Pushed -> Labels]
    BY <1>1 DEF FrameInv
  <2>2. \A g \in Pushed \union {x, y} : pc'[g] \in Labels
    BY <1>8, <1>9, <2>1 DEF Labels
  <2>. QED
    BY <1>6, <2>2
<1>11. frame' = [g \in Pushed \union {x, y} |-> frame'[g]]
  BY <1>6
<1>. QED
  BY <1>1, <1>4, <1>5, <1>7, <1>8, <1>9, <1>10, <1>11 DEF Spawns, q

\* What the new frames are, and what is old stays as it was.
LEMMA SpawnedFrames ==
  ASSUME QsortInv, NEW f \in Pushed, pc[f] = "spawn", NEW x, NEW y, Spawns(f, x, y)
  PROVE  /\ FrameInv'
         /\ \A g \in Pushed :
              /\ frame'[g].l = frame[g].l /\ frame'[g].r = frame[g].r
              /\ frame'[g].j = frame[g].j /\ frame'[g].tmp = frame[g].tmp
              /\ frame'[g].parent = frame[g].parent
              /\ Left(g)' = Left(g) /\ Right(g)' = Right(g)
         /\ \A g \in Pushed \ {f} : Spawned(g)' <=> Spawned(g)
         /\ Spawned(f)' /\ ~Spawned(f) /\ ~Spawned(x)' /\ ~Spawned(y)'
         /\ Left(f)' = x /\ Right(f)' = y
         /\ frame'[x].parent = f /\ frame'[y].parent = f
         /\ frame[f].l <= frame[f].j /\ frame[f].j <= frame[f].r
<1>1. /\ FrameInv /\ frame[f] \in Closures
      /\ frame[f].l \in Nat /\ frame[f].r \in Int /\ frame[f].j \in Int
      /\ frame[f].r <= size - 1 /\ size \in Nat
  BY FrameFacts DEF QsortInv, FrameInv
<1>2. /\ frame[f].l <= frame[f].j /\ frame[f].j <= frame[f].r /\ frame[f].l < frame[f].r
  BY DEF QsortInv, PartitionInv, SeparatedInv
<1>3. /\ UNCHANGED <<size, given, a>> /\ Pushed' = Pushed \union {x, y}
      /\ x \notin Pushed /\ y \notin Pushed
      /\ x[1] = frame[f].l /\ x[2] = frame[f].j - 1
      /\ y[1] = frame[f].j + 1 /\ y[2] = frame[f].r
      /\ x = <<x[1], x[2]>> /\ y = <<y[1], y[2]>>
      /\ frame'[x] = NewFrame(x, f) /\ frame'[y] = NewFrame(y, f)
      /\ pc'[f] = "sync" /\ pc'[x] = "pushed" /\ pc'[y] = "pushed"
      /\ pc' \in [Pushed \union {x, y} -> Labels]
      /\ frame' = [g \in Pushed \union {x, y} |-> frame'[g]]
  BY DEF Spawns
<1>4. /\ \A g \in Pushed \ {f} : pc'[g] = pc[g] /\ frame'[g] = frame[g]
      /\ frame'[f] = [frame[f] EXCEPT !.sync_frames_remaining = 2]
  BY DEF Spawns
<1>5. /\ frame'[x].l = x[1] /\ frame'[x].r = x[2] /\ frame'[x].parent = f
      /\ frame'[y].l = y[1] /\ frame'[y].r = y[2] /\ frame'[y].parent = f
  BY <1>3 DEF NewFrame
<1>6. \A g \in Pushed :
        /\ frame'[g].l = frame[g].l /\ frame'[g].r = frame[g].r
        /\ frame'[g].j = frame[g].j /\ frame'[g].tmp = frame[g].tmp
        /\ frame'[g].parent = frame[g].parent
  BY <1>1, <1>4 DEF Closures
<1>7. \A g \in Pushed : Left(g)' = Left(g) /\ Right(g)' = Right(g)
  BY <1>6 DEF Left, Right
<1>8. Left(f)' = x /\ Right(f)' = y
  BY <1>7 DEF Left, Right, Spawns
<1>9. \A g \in Pushed \ {f} : Spawned(g)' <=> Spawned(g)
  BY <1>4 DEF Spawned
<1>10. Spawned(f)' /\ ~Spawned(f) /\ ~Spawned(x)' /\ ~Spawned(y)'
  BY <1>2, <1>3, <1>6 DEF Spawned
<1>11. FrameInv'
  <2>1. Root' = Root /\ \A g \in Closures : g \in Closures'
    BY <1>3 DEF Root, Closures
  <2>2. frame'[x] \in Closures' /\ frame'[y] \in Closures'
    <3>1. x[1] \in Int /\ x[2] \in Int /\ y[1] \in Int /\ y[2] \in Int
      BY <1>1, <1>3
    <3>2. f \in Pushed'
      BY <1>3
    <3>. QED
      BY <1>3, <3>1, <3>2 DEF NewFrame, Closures
  <2>3. frame'[f] \in Closures
    BY <1>1, <1>4 DEF Closures
  <2>4. \A g \in Pushed \ {f} : frame'[g] \in Closures
    BY <1>1, <1>4 DEF FrameInv
  <2>5. \A g \in Pushed' : frame'[g] \in Closures'
    BY <1>3, <2>1, <2>2, <2>3, <2>4
  <2>6. frame' \in [Pushed' -> Closures']
    BY <1>3, <2>5
  <2>7. \A g \in Pushed :
          /\ g = <<frame[g].l, frame[g].r>>
          /\ frame[g].l \in 0 .. size /\ frame[g].r \in -1 .. size - 1
          /\ frame[g].l <= frame[g].r + 1
    BY <1>1 DEF FrameInv
  <2>8. ASSUME NEW g \in {x, y}
        PROVE  /\ g = <<frame'[g].l, frame'[g].r>>
               /\ frame'[g].l \in 0 .. size /\ frame'[g].r \in -1 .. size - 1
               /\ frame'[g].l <= frame'[g].r + 1
    BY <1>1, <1>2, <1>3, <1>5
  <2>9. \A g \in Pushed' :
          /\ g = <<frame'[g].l, frame'[g].r>>
          /\ frame'[g].l \in 0 .. size /\ frame'[g].r \in -1 .. size - 1
          /\ frame'[g].l <= frame'[g].r + 1
    BY <1>3, <1>6, <2>7, <2>8
  <2>10. Root \in Pushed' /\ frame'[Root].parent = Root
    BY <1>1, <1>3, <1>6 DEF FrameInv
  <2>. QED
    BY <1>1, <1>3, <2>1, <2>6, <2>9, <2>10 DEF FrameInv
<1>. QED
  BY <1>2, <1>5, <1>6, <1>7, <1>8, <1>9, <1>10, <1>11

\* How the ranges lie after the push
LEMMA SpawnedNesting ==
  ASSUME QsortInv, NEW f \in Pushed, pc[f] = "spawn", NEW x, NEW y, Spawns(f, x, y)
  PROVE  /\ NestingInv'
         /\ \A g \in Pushed \ {f} : \A h : Below(h, g)' <=> Below(h, g)
         /\ \A h \in Pushed \ {f} : pc[h] = "swap_second" => ~Below(h, f)'
         /\ \A h : ~Below(h, x)' /\ ~Below(h, y)'
<1>1. FrameInv /\ NestingInv /\ WaitInv
  BY DEF QsortInv
<1>2. /\ \A g \in Pushed : Left(g)' = Left(g) /\ Right(g)' = Right(g)
      /\ \A g \in Pushed \ {f} : Spawned(g)' <=> Spawned(g)
      /\ Spawned(f)' /\ ~Spawned(f) /\ ~Spawned(x)' /\ ~Spawned(y)'
      /\ Left(f)' = x /\ Right(f)' = y
      /\ frame[f].l <= frame[f].j /\ frame[f].j <= frame[f].r
  BY SpawnedFrames
<1>3. /\ Pushed' = Pushed \union {x, y}
      /\ x[1] = frame[f].l /\ x[2] = frame[f].j - 1
      /\ y[1] = frame[f].j + 1 /\ y[2] = frame[f].r
      /\ pc'[f] = "sync" /\ \A g \in Pushed \ {f} : pc'[g] = pc[g]
  BY DEF Spawns
<1>4. /\ frame[f].l \in Int /\ frame[f].r \in Int /\ frame[f].j \in Int
      /\ f[1] = frame[f].l /\ f[2] = frame[f].r
  BY <1>1, FrameFacts
<1>5. \A g \in Pushed \ {f} : \A h : Below(h, g)' <=> Below(h, g)
  BY <1>2 DEF Below, Covers
<1>6. \A h : ~Below(h, x)' /\ ~Below(h, y)'
  BY <1>2 DEF Below
<1>7. \A h : Below(h, f)' <=> (Covers(x, h) \/ Covers(y, h))
  BY <1>2 DEF Below, Covers
<1>8. ASSUME NEW g \in Pushed \ {f}
      PROVE  /\ g[1] \in Int /\ g[2] \in Int /\ g[1] <= g[2] + 1
             /\ (Below(f, g) /\ pc[g] = "sync") \/ Apart(f, g)
             /\ Left(g)[1] = g[1] /\ Left(g)[2] \in Int /\ Right(g)[1] \in Int /\ Right(g)[2] = g[2]
             /\ Spawned(g) => Left(g)[2] < g[2] /\ g[1] < Right(g)[1]
  <2>1. g[1] = frame[g].l /\ g[2] = frame[g].r /\ frame[g].j \in Int
        /\ g[1] \in Int /\ g[2] \in Int /\ g[1] <= g[2] + 1
    BY <1>1, FrameFacts
  <2>2. Below(f, g) \/ Apart(f, g)
    BY <1>1, <1>2 DEF NestingInv, Below, Apart
  <2>3. Below(f, g) => pc[g] = "sync"
    <3>1. pc[f] # "done" /\ f # g
      OBVIOUS
    <3>. QED
      BY <1>1, <3>1 DEF NestingInv
  <2>4. Spawned(g) => frame[g].l <= frame[g].j /\ frame[g].j <= frame[g].r
    BY <1>1, <2>1 DEF WaitInv
  <2>5. /\ Left(g)[1] = frame[g].l /\ Left(g)[2] = frame[g].j - 1
        /\ Right(g)[1] = frame[g].j + 1 /\ Right(g)[2] = frame[g].r
    BY DEF Left, Right
  <2>6. (Below(f, g) /\ pc[g] = "sync") \/ Apart(f, g)
    BY <2>2, <2>3
  <2>. QED
    BY <2>1, <2>4, <2>5, <2>6
<1>9. ASSUME NEW g \in Pushed \ {f}, NEW s \in {x, y}
      PROVE  /\ Below(s, g)' \/ Apart(s, g)
             /\ Below(s, g)' => pc'[g] = "sync"
  <2>1. /\ s[1] \in Int /\ s[2] \in Int /\ s[1] <= s[2] + 1
        /\ f[1] <= s[1] /\ s[2] <= f[2] /\ f[1] \in Int /\ f[2] \in Int
    BY <1>2, <1>3, <1>4
  <2>2. CASE Below(f, g) /\ pc[g] = "sync"
    <3>1. Covers(Left(g), s) \/ Covers(Right(g), s)
      BY <1>8, <2>1, <2>2 DEF Below, Covers
    <3>2. Below(s, g)'
      BY <1>5, <2>2, <3>1 DEF Below
    <3>. QED
      BY <1>3, <2>2, <3>2
  <2>3. CASE Apart(f, g)
    <3>1. Apart(s, g)
      BY <1>8, <2>1, <2>3 DEF Apart
    <3>2. ~Below(s, g)
      BY <1>8, <2>1, <3>1 DEF Apart, Below, Covers
    <3>. QED
      BY <1>5, <3>1, <3>2
  <2>. QED
    BY <1>8, <2>2, <2>3
<1>10. ASSUME NEW s \in {x, y}
       PROVE  Below(s, f)'
  BY <1>3, <1>4, <1>7, <1>10 DEF Covers
<1>11. Apart(x, y) /\ Apart(y, x)
  BY <1>3, <1>4 DEF Apart
<1>12. ASSUME NEW h \in Pushed \ {f}, pc[h] = "swap_second"
       PROVE  ~Below(h, f)'
  <2>1. Apart(f, h)
    BY <1>8, <1>12 DEF Below, Spawned
  <2>. QED
    BY <1>2, <1>3, <1>4, <1>7, <1>8, <2>1 DEF Apart, Covers
<1>13. ASSUME NEW g \in Pushed, NEW h \in Pushed, g # h
       PROVE  /\ Below(g, h)' \/ Below(h, g)' \/ Apart(g, h)
              /\ Below(h, g)' /\ pc'[g] # "sync" => pc'[h] = "done"
  <2>1. CASE g # f /\ h # f
    BY <1>1, <1>3, <1>5, <1>13, <2>1 DEF NestingInv
  <2>2. CASE g = f
    <3>1. Below(f, h)' \/ Apart(f, h)
      BY <1>5, <1>8, <1>13, <2>2
    <3>. QED
      BY <1>3, <2>2, <3>1
  <2>3. CASE h = f
    <3>1. Below(f, g)' \/ Apart(f, g)
      BY <1>5, <1>8, <1>13, <2>3
    <3>2. Apart(f, g) => Apart(g, f)
      BY <1>4, <1>8, <1>13, <2>3 DEF Apart
    <3>3. Below(f, g)' => pc'[g] = "sync"
      <4>1. Below(f, g)' => Below(f, g)
        BY <1>5, <1>13, <2>3
      <4>2. Below(f, g) => pc[g] = "sync"
        BY <1>1, <1>13, <2>3 DEF NestingInv
      <4>. QED
        BY <1>3, <1>13, <2>3, <4>1, <4>2
    <3>. QED
      BY <2>3, <3>1, <3>2, <3>3
  <2>. QED
    BY <2>1, <2>2, <2>3
<1>14. ASSUME NEW g \in Pushed, NEW s \in {x, y}
       PROVE  /\ Below(s, g)' \/ (Apart(s, g) /\ Apart(g, s))
              /\ Below(s, g)' => pc'[g] = "sync"
              /\ ~Below(g, s)'
  <2>1. CASE g = f
    BY <1>3, <1>6, <1>10, <2>1
  <2>2. CASE g # f
    <3>1. Apart(s, g) => Apart(g, s)
      BY DEF Apart
    <3>2. /\ Below(s, g)' \/ Apart(s, g)
          /\ Below(s, g)' => pc'[g] = "sync"
      BY <1>9, <2>2
    <3>. QED
      BY <1>6, <3>1, <3>2
  <2>. QED
    BY <2>1, <2>2
<1>15. NestingInv'
  <2>. SUFFICES ASSUME NEW g \in Pushed \union {x, y}, NEW h \in Pushed \union {x, y}, g # h
                PROVE  /\ Below(g, h)' \/ Below(h, g)' \/ Apart(g, h)
                       /\ Below(h, g)' /\ pc'[g] # "sync" => pc'[h] = "done"
    BY <1>3 DEF NestingInv, Apart
  <2>1. CASE g \in Pushed /\ h \in Pushed
    BY <1>13, <2>1
  <2>2. CASE g \in Pushed /\ h \in {x, y}
    BY <1>14, <2>2
  <2>3. CASE g \in {x, y} /\ h \in Pushed
    BY <1>14, <2>3
  <2>4. CASE g \in {x, y} /\ h \in {x, y}
    BY <1>6, <1>11, <2>4
  <2>. QED
    BY <2>1, <2>2, <2>3, <2>4
<1>. QED
  BY <1>5, <1>6, <1>12, <1>15

LEMMA PushStep ==
  ASSUME QsortInv, NEW f \in Pushed, Push(f)
  PROVE  QsortInv'
<1>. PICK x, y : Spawns(f, x, y)
  BY PushEffect
<1>1. FrameInv /\ NestingInv /\ WaitInv /\ HandInv /\ SortedInv /\ pc[f] = "spawn"
  BY DEF QsortInv, Push
<1>2. /\ FrameInv'
      /\ \A g \in Pushed :
           /\ frame'[g].l = frame[g].l /\ frame'[g].r = frame[g].r
           /\ frame'[g].j = frame[g].j /\ frame'[g].tmp = frame[g].tmp
           /\ frame'[g].parent = frame[g].parent
           /\ Left(g)' = Left(g) /\ Right(g)' = Right(g)
      /\ \A g \in Pushed \ {f} : Spawned(g)' <=> Spawned(g)
      /\ Spawned(f)' /\ ~Spawned(f) /\ ~Spawned(x)' /\ ~Spawned(y)'
      /\ Left(f)' = x /\ Right(f)' = y
      /\ frame'[x].parent = f /\ frame'[y].parent = f
      /\ frame[f].l <= frame[f].j /\ frame[f].j <= frame[f].r
  BY <1>1, SpawnedFrames
<1>3. /\ NestingInv'
      /\ \A g \in Pushed \ {f} : \A h : Below(h, g)' <=> Below(h, g)
      /\ \A h \in Pushed \ {f} : pc[h] = "swap_second" => ~Below(h, f)'
      /\ \A h : ~Below(h, x)' /\ ~Below(h, y)'
  BY <1>1, SpawnedNesting
<1>4. /\ UNCHANGED <<size, given, a>> /\ Pushed' = Pushed \union {x, y} /\ Root' = Root
      /\ x \notin Pushed /\ y \notin Pushed
      /\ pc'[f] = "sync" /\ pc'[x] = "pushed" /\ pc'[y] = "pushed"
      /\ \A g \in Pushed \ {f} : pc'[g] = pc[g] /\ frame'[g] = frame[g]
      /\ frame'[f] = [frame[f] EXCEPT !.sync_frames_remaining = 2]
  BY DEF Spawns, Root
<1>5. ASSUME NEW g \in Pushed' PROVE PartitionInv(g)'
  <2>1. CASE g \in Pushed \ {f}
    <3>1. \A k \in frame[g].l .. frame[g].r : a'[k] = a[k]
      BY <1>4
    <3>. QED
      BY <1>1, <1>4, <2>1, <3>1, PartitionSame DEF QsortInv
  <2>2. CASE g = f
    <3>1. SeparatedInv(frame[f]) /\ frame[f].l < frame[f].r
      BY <1>1 DEF QsortInv, PartitionInv
    <3>2. SeparatedInv(frame[f])'
      BY <1>2, <1>4, <3>1 DEF SeparatedInv
    <3>. QED
      BY <1>2, <1>4, <2>2, <3>1, <3>2 DEF PartitionInv, Partitioning
  <2>3. CASE g \in {x, y}
    BY <1>4, <2>3 DEF PartitionInv, Partitioning
  <2>. QED
    BY <1>4, <2>1, <2>2, <2>3
<1>6. WaitInv'
  <2>1. ASSUME NEW g \in Pushed \ {f}, Spawned(g)
        PROVE  /\ frame'[g].j \in frame'[g].l .. frame'[g].r
               /\ {Left(g)', Right(g)'} \subseteq Pushed'
               /\ frame'[Left(g)'].parent = g /\ frame'[Right(g)'].parent = g
               /\ IF pc'[g] = "sync"
                  THEN frame'[g].sync_frames_remaining = Awaited(Left(g))' + Awaited(Right(g))'
                  ELSE pc'[Left(g)'] = "done" /\ pc'[Right(g)'] = "done"
    <3>1. /\ frame[g].j \in frame[g].l .. frame[g].r
          /\ Left(g) \in Pushed /\ Right(g) \in Pushed
          /\ frame[Left(g)].parent = g /\ frame[Right(g)].parent = g
          /\ IF pc[g] = "sync"
             THEN frame[g].sync_frames_remaining = Awaited(Left(g)) + Awaited(Right(g))
             ELSE pc[Left(g)] = "done" /\ pc[Right(g)] = "done"
      BY <1>1, <2>1 DEF WaitInv
    <3>2. \A h \in Pushed : pc'[h] = "done" <=> pc[h] = "done"
      BY <1>1, <1>4
    <3>3. Awaited(Left(g))' = Awaited(Left(g)) /\ Awaited(Right(g))' = Awaited(Right(g))
      BY <1>2, <3>1, <3>2 DEF Awaited
    <3>. QED
      BY <1>2, <1>4, <3>1, <3>2, <3>3
  <2>2. /\ frame'[f].j \in frame'[f].l .. frame'[f].r
        /\ {Left(f)', Right(f)'} \subseteq Pushed'
        /\ frame'[Left(f)'].parent = f /\ frame'[Right(f)'].parent = f
        /\ pc'[f] = "sync"
        /\ frame'[f].sync_frames_remaining = Awaited(Left(f))' + Awaited(Right(f))'
    <3>1. frame'[f].sync_frames_remaining = 2
      <4>1. frame[f] \in Closures
        BY <1>1, FrameFacts
      <4>. QED
        BY <1>4, <4>1 DEF Closures
    <3>2. Awaited(Left(f))' = 1 /\ Awaited(Right(f))' = 1
      BY <1>2, <1>4 DEF Awaited
    <3>3. frame[f].l \in Int /\ frame[f].r \in Int /\ frame[f].j \in Int
      BY <1>1, FrameFacts
    <3>. QED
      BY <1>2, <1>4, <3>1, <3>2, <3>3
  <2>3. ASSUME NEW g \in Pushed' \ {Root}
        PROVE  \E p \in Pushed' :
                 frame'[g].parent = p /\ Spawned(p)' /\ g \in {Left(p)', Right(p)'}
    <3>1. CASE g \in Pushed
      <4>1. PICK p \in Pushed : frame[g].parent = p /\ Spawned(p) /\ g \in {Left(p), Right(p)}
        BY <1>1, <3>1 DEF WaitInv
      <4>. QED
        BY <1>2, <1>4, <3>1, <4>1
    <3>2. CASE g \in {x, y}
      BY <1>2, <1>4, <3>2
    <3>. QED
      BY <1>4, <3>1, <3>2
  <2>4. ASSUME NEW g \in Pushed', Spawned(g)'
        PROVE  /\ frame'[g].j \in frame'[g].l .. frame'[g].r
               /\ {Left(g)', Right(g)'} \subseteq Pushed'
               /\ frame'[Left(g)'].parent = g /\ frame'[Right(g)'].parent = g
               /\ IF pc'[g] = "sync"
                  THEN frame'[g].sync_frames_remaining = Awaited(Left(g))' + Awaited(Right(g))'
                  ELSE pc'[Left(g)'] = "done" /\ pc'[Right(g)'] = "done"
    <3>1. CASE g = f
      BY <2>2, <3>1
    <3>2. CASE g \in Pushed \ {f}
      BY <1>2, <2>1, <2>4, <3>2
    <3>. QED
      BY <1>2, <1>4, <2>4, <3>1, <3>2
  <2>. QED
    BY <1>4, <2>3, <2>4 DEF WaitInv
<1>7. HandInv'
  <2>. SUFFICES ASSUME NEW g \in Pushed', NEW h \in Pushed', g # h, pc'[g] = "sync",
                       Below(h, g)', pc'[h] = "swap_second"
                PROVE  /\ Covers(Left(g)', h) => frame'[h].tmp <= a'[frame'[g].j]
                       /\ Covers(Right(g)', h) => frame'[h].tmp > a'[frame'[g].j]
    BY DEF HandInv, Covers
  <2>1. h \in Pushed \ {f} /\ pc[h] = "swap_second"
    BY <1>4
  <2>2. g \in Pushed \ {f}
    BY <1>3, <1>4, <2>1
  <2>3. pc[g] = "sync" /\ Below(h, g)
    BY <1>3, <1>4, <2>2
  <2>. QED
    BY <1>1, <1>2, <1>4, <2>1, <2>2, <2>3 DEF HandInv
<1>8. SortedInv'
  BY <1>1, <1>4 DEF SortedInv, Sorted
<1>9. ElementsInv'
  <2>1. \A k : InHandFor(k)' = InHandFor(k) /\ f \notin InHandFor(k)
    <3>. SUFFICES ASSUME NEW k PROVE InHandFor(k)' = InHandFor(k) /\ f \notin InHandFor(k)
      OBVIOUS
    <3>1. \A g \in Pushed' : pc'[g] = "swap_second" => g \in Pushed /\ pc[g] = "swap_second"
      BY <1>4
    <3>2. \A g \in Pushed : pc'[g] = "swap_second" <=> pc[g] = "swap_second"
      BY <1>1, <1>4
    <3>. QED
      BY <1>1, <1>2, <1>4, <3>1, <3>2 DEF InHandFor
  <2>2. ASSUME NEW k PROVE Due(k)' = Due(k)
    BY <1>4, <2>1, DueSame
  <2>3. Whole' = Whole
    BY <1>4, <2>2 DEF Whole
  <2>. QED
    BY <1>4, <2>3 DEF QsortInv, ElementsInv, Occurrences
<1>. QED
  BY <1>2, <1>3, <1>5, <1>6, <1>7, <1>8, <1>9 DEF QsortInv

(***************************************************************************)
(* The inductive invariant, and what follows from it                       *)
(***************************************************************************)
\* With no value in hand the array is whole.
LEMMA WholeAtRest ==
  ASSUME \A f \in Pushed : pc[f] # "swap_second", NEW v
  PROVE  Occurrences(Whole, v) = Occurrences(a, v)
<1>1. \A k : InHandFor(k) = {}
  BY DEF InHandFor
<1>2. \A k : Due(k) = a[k]
  BY <1>1 DEF Due
<1>3. \A k \in 0 .. size - 1 : Whole[k] = a[k]
  BY <1>2 DEF Whole
<1>. QED
  BY <1>3 DEF Occurrences

LEMMA InitQsortInv == Init => QsortInv
<1>. SUFFICES ASSUME Init PROVE QsortInv
  OBVIOUS
<1>1. /\ size \in Nat /\ a \in [0 .. size -> Value] /\ given = a
      /\ frame = [f \in {Root} |-> NewFrame(f, f)]
      /\ pc = [f \in {Root} |-> "pushed"]
  BY QsortAssumption DEF Init
<1>2. Pushed = {Root} /\ frame[Root] = NewFrame(Root, Root) /\ pc[Root] = "pushed"
  BY <1>1 DEF Pushed
<1>3. /\ frame[Root].l = 0 /\ frame[Root].r = size - 1 /\ frame[Root].parent = Root
      /\ Root = <<0, size - 1>>
  BY <1>2 DEF NewFrame, Root
<1>4. frame[Root] \in Closures
  BY <1>1, <1>2 DEF NewFrame, Closures, Root
<1>5. FrameInv
  <2>1. frame \in [Pushed -> Closures] /\ pc \in [Pushed -> Labels]
    BY <1>1, <1>2, <1>4 DEF Labels
  <2>2. 0 \in 0 .. size /\ size - 1 \in -1 .. size - 1 /\ 0 <= (size - 1) + 1
    BY <1>1
  <2>. QED
    BY <1>1, <1>2, <1>3, <2>1, <2>2 DEF FrameInv
<1>6. ~Spawned(Root)
  BY <1>2 DEF Spawned
<1>7. \A f \in Pushed : PartitionInv(f)
  BY <1>2 DEF PartitionInv, Partitioning
<1>8. NestingInv /\ WaitInv /\ HandInv /\ SortedInv
  BY <1>2, <1>6 DEF NestingInv, WaitInv, HandInv, SortedInv
<1>9. ElementsInv
  BY <1>1, <1>2, WholeAtRest DEF ElementsInv
<1>. QED
  BY <1>5, <1>7, <1>8, <1>9 DEF QsortInv

LEMMA NextQsortInv == QsortInv /\ [Next]_vars => QsortInv'
<1>. SUFFICES ASSUME QsortInv, [Next]_vars PROVE QsortInv'
  OBVIOUS
<1>1. ASSUME NEW f \in Pushed, Run(f) PROVE QsortInv'
  BY <1>1, RunStep
<1>2. ASSUME NEW f \in Pushed, Up(f) PROVE QsortInv'
  BY <1>2, UpStep
<1>3. ASSUME NEW f \in Pushed, Down(f) PROVE QsortInv'
  BY <1>3, DownStep
<1>4. ASSUME NEW f \in Pushed, SwapFirst(f) PROVE QsortInv'
  BY <1>4, SwapFirstStep
<1>5. ASSUME NEW f \in Pushed, SwapSecond(f) PROVE QsortInv'
  BY <1>5, SwapSecondStep
<1>6. ASSUME NEW f \in Pushed, Push(f) PROVE QsortInv'
  BY <1>6, PushStep
<1>7. ASSUME NEW f \in Pushed, Sync(f) PROVE QsortInv'
  BY <1>7, SyncStep
<1>8. ASSUME NEW f \in Pushed, Signal(f) PROVE QsortInv'
  BY <1>8, SignalStep
<1>9. ASSUME UNCHANGED vars PROVE QsortInv'
  BY <1>9, StutterStep
<1>10. CASE Terminated
  BY <1>9, <1>10 DEF Terminated
<1>. QED
  BY <1>1, <1>2, <1>3, <1>4, <1>5, <1>6, <1>7, <1>8, <1>9, <1>10 DEF Next, Closure, Partition

\* The ranges of the frames are nested with a gap, every scan has established
\* what its place in partition() says, every wait counts the frames it waits
\* for, and the array with the values in hand is a permutation of the given one.
THEOREM QsortInvariant == Spec => []QsortInv
<1>. QED
  BY InitQsortInv, NextQsortInv, PTL DEF Spec

LEMMA TypeFromInv == QsortInv => TypeOK
<1>. SUFFICES ASSUME QsortInv PROVE TypeOK
  OBVIOUS
<1>1. FrameInv
  BY DEF QsortInv
<1>2. a \in [0 .. size -> Value] /\ Pushed = DOMAIN pc /\ size \in Nat
  BY <1>1 DEF FrameInv
<1>3. ASSUME NEW f \in Pushed
      PROVE  /\ pc[f] \in Labels
             /\ f[1] \in 0 .. size /\ f[2] \in -1 .. size - 1
             /\ Partitioning(f) => {frame[f].i, frame[f].j} \subseteq f[1] .. f[2] + 1
  <2>1. /\ frame[f].l \in Nat /\ frame[f].r \in Int /\ frame[f].i \in Int /\ frame[f].j \in Int
        /\ frame[f].l <= size /\ frame[f].l <= frame[f].r + 1 /\ frame[f].r <= size - 1
        /\ f[1] = frame[f].l /\ f[2] = frame[f].r /\ pc[f] \in Labels
    BY <1>1, FrameFacts
  <2>2. Partitioning(f) => /\ frame[f].l <= frame[f].i /\ frame[f].i <= frame[f].r + 1
                           /\ frame[f].l <= frame[f].j /\ frame[f].j <= frame[f].r + 1
    BY <2>1 DEF QsortInv, PartitionInv, Partitioning, UpInv, DownInv, SwapInv, SwapSecondInv
  <2>. QED
    BY <1>2, <2>1, <2>2
<1>. QED
  BY <1>2, <1>3 DEF TypeOK, Labels

\* The scans of partition() never leave the range of their frame but for the
\* element behind it, although nothing but the pivot stops the downward one.
THEOREM ScansInRange == Spec => []TypeOK
<1>. QED
  BY QsortInvariant, TypeFromInv, PTL

\* Whatever the order in which closures of different frames take their steps,
\* none reads or writes what another is rearranging.
THEOREM NoRaceCorrect == Spec => []NoRace
<1>1. QsortInv => NoRace
  <2>. SUFFICES ASSUME QsortInv, NEW f \in Pushed, NEW g \in Pushed, f # g,
                       Partitioning(f), Partitioning(g)
                PROVE  (f[1] .. f[2] + 1) \intersect (g[1] .. g[2]) = {}
    BY DEF NoRace
  <2>1. ~Spawned(f) /\ ~Spawned(g)
    BY DEF Partitioning, Spawned
  <2>2. Apart(f, g)
    BY <2>1 DEF QsortInv, NestingInv, Below
  <2>3. f[1] \in Int /\ f[2] \in Int /\ g[1] \in Int /\ g[2] \in Int
    BY FrameFacts DEF QsortInv
  <2>. QED
    BY <2>2, <2>3 DEF Apart
<1>. QED
  BY <1>1, QsortInvariant, PTL

\* The pivot of a closure that has partitioned separates its range until the
\* closure goes on, while the frames below it exchange elements.
THEOREM SeparatedCorrect == Spec => []Separated
<1>1. QsortInv => Separated
  <2>. SUFFICES ASSUME QsortInv, NEW f \in Pushed, pc[f] \in {"spawn", "sync"},
                       NEW k \in f[1] .. f[2]
                PROVE  IF k < frame[f].j THEN a[k] <= a[frame[f].j]
                                         ELSE k = frame[f].j \/ a[k] > a[frame[f].j]
    BY DEF Separated
  <2>1. /\ frame[f].l \in Int /\ frame[f].r \in Int /\ frame[f].j \in Int
        /\ f[1] = frame[f].l /\ f[2] = frame[f].r
    BY FrameFacts DEF QsortInv
  <2>2. SeparatedInv(frame[f])
    BY DEF QsortInv, PartitionInv
  <2>3. k < frame[f].j \/ k = frame[f].j \/ frame[f].j < k
    BY <2>1
  <2>. QED
    BY <2>1, <2>2, <2>3 DEF SeparatedInv
<1>. QED
  BY <1>1, QsortInvariant, PTL

\* What a frame has when it signals is sorted and stays so, and whenever no
\* exchange is half done the array has the elements that were given.
THEOREM SortedWhenDoneCorrect == Spec => []SortedWhenDone
<1>1. QsortInv => SortedWhenDone
  BY WholeAtRest DEF QsortInv, SortedInv, ElementsInv, SortedWhenDone
<1>. QED
  BY <1>1, QsortInvariant, PTL
=============================================================================
