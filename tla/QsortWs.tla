-------------------------------- MODULE QsortWs --------------------------------
(***************************************************************************)
(* The parallel quicksort of test/qsort_ws.c: what its closures do to the  *)
(* array they share.  A frame is the range it sorts.  Of the scheduler     *)
(* only the promise of ForkJoin is kept: a frame that was pushed starts at *)
(* any time, on any thread, and a closure goes on after its wait when both *)
(* its frames have signalled.                                              *)
(*                                                                         *)
(* An action makes at most one write to the array.  Closures of different  *)
(* frames take their steps in any order, as if every frame had a thread of *)
(* its own; fewer threads have fewer of these behaviours.                  *)
(***************************************************************************)
EXTENDS Integers, FiniteSets

CONSTANTS
  MaxSize,  \* bound: the largest array to sort
  Value     \* the numbers in it, and what may be in memory behind it

ASSUME QsortAssumption == MaxSize \in Nat /\ Value \subseteq Int

VARIABLES
  size,   \* the argument of quicksort()
  given,  \* history: the array as it was given
  a,      \* a[0 .. size - 1] is the array, a[size] the memory behind it
  frame,  \* frame[<<l, r>>]: the frame that sorts a[l .. r], once it is pushed
  pc      \* pc[f]: where the closure of f is

vars == <<size, given, a, frame, pc>>

Root   == <<0, size - 1>>
Pushed == DOMAIN frame
Goto(f, label) == pc' = [pc EXCEPT ![f] = label]
Set(f, record) == frame' = [frame EXCEPT ![f] = record]

\* a frame with the data of its closure, and the locals of partition()
NewFrame(f, parent) ==
  [l |-> f[1], r |-> f[2], parent |-> parent, sync_frames_remaining |-> 0,
   pivot |-> 0, i |-> 0, j |-> 0, tmp |-> 0]

\* quicksort(): the first frame is pushed
Init ==
  /\ size \in 0 .. MaxSize
  /\ a \in [0 .. size -> Value]
  /\ given = a
  /\ frame = [f \in {Root} |-> NewFrame(f, f)]
  /\ pc = [f \in {Root} |-> "pushed"]

(***************************************************************************)
(* The closure qs_ws is called.                                            *)
(***************************************************************************)
Run(f) ==
  LET q == frame[f] IN
  /\ pc[f] = "pushed"
  /\ \/ /\ q.l < q.r
        /\ Set(f, [q EXCEPT !.pivot = a[q.l], !.i = q.l, !.j = q.r + 1])
        /\ Goto(f, "up")
     \/ /\ q.l >= q.r
        /\ Goto(f, "signal")
        /\ UNCHANGED frame
  /\ UNCHANGED <<size, given, a>>

(***************************************************************************)
(* partition(): the two inner loops, the exchange, and the exit.           *)
(***************************************************************************)
\* Faulty: the end of the range does not stop the loop.
GoesUpOn(q, i) == a[i] <= q.pivot /\ i < size
GoesUp(q, i)   == a[i] <= q.pivot /\ i <= q.r

\* Faulty: the downward scan stops where it meets the upward one.
GoesDownBounded(q, j) == a[j] > q.pivot /\ j > q.i
GoesDown(q, j)        == a[j] > q.pivot

Up(f) ==
  LET q == frame[f] IN
  /\ pc[f] = "up"
  /\ Set(f, [q EXCEPT !.i = @ + 1])
  /\ Goto(f, IF GoesUp(q, q.i + 1) THEN "up" ELSE "down")
  /\ UNCHANGED <<size, given, a>>

Down(f) ==
  LET q == frame[f] IN
  /\ pc[f] = "down"
  /\ Set(f, [q EXCEPT !.j = @ - 1])
  /\ Goto(f, IF GoesDown(q, q.j - 1) THEN "down" ELSE "swap")
  /\ UNCHANGED <<size, given, a>>

\* Faulty: *a = *b; tmp = *a.
SwapFirstLate(f) ==
  LET q  == frame[f]
      at == IF q.i < q.j THEN q.i ELSE q.l
  IN /\ pc[f] = "swap"
     /\ Set(f, [q EXCEPT !.tmp = a[q.j]])
     /\ a' = [a EXCEPT ![at] = a[q.j]]
     /\ Goto(f, "swap_second")
     /\ UNCHANGED <<size, given>>

\* swap(&a[i], &a[j]), or swap(&a[l], &a[j]) when the loop is left: tmp = *a; *a = *b
SwapFirst(f) ==
  LET q  == frame[f]
      at == IF q.i < q.j THEN q.i ELSE q.l
  IN /\ pc[f] = "swap"
     /\ Set(f, [q EXCEPT !.tmp = a[at]])
     /\ a' = [a EXCEPT ![at] = a[q.j]]
     /\ Goto(f, "swap_second")
     /\ UNCHANGED <<size, given>>

\* *b = tmp, then around the loop again or out of it
SwapSecond(f) ==
  LET q == frame[f] IN
  /\ pc[f] = "swap_second"
  /\ a' = [a EXCEPT ![q.j] = q.tmp]
  /\ Goto(f, IF q.i < q.j THEN "up" ELSE "spawn")
  /\ UNCHANGED <<size, given, frame>>

(***************************************************************************)
(* The frames for both sides of a[j] are pushed, and waited for.           *)
(***************************************************************************)
\* Faulty: the pivot is given to the left side.
SidesOverlap(q) == {<<q.l, q.j>>, <<q.j + 1, q.r>>}
Sides(q)        == {<<q.l, q.j - 1>>, <<q.j + 1, q.r>>}

\* Faulty: the wait is for one of the two, or for three.
FramesToAwaitShort == 1
FramesToAwaitLong  == 3
FramesToAwait      == 2

Push(f) ==
  LET q == frame[f] IN
  /\ pc[f] = "spawn"
  /\ frame' = [g \in Pushed \union Sides(q) |->
                 CASE g = f        -> [q EXCEPT !.sync_frames_remaining = FramesToAwait]
                   [] g \in Sides(q) -> NewFrame(g, f)
                   [] OTHER        -> frame[g]]
  /\ pc' = [g \in Pushed \union Sides(q) |->
              CASE g = f        -> "sync"
                [] g \in Sides(q) -> "pushed"
                [] OTHER        -> pc[g]]
  /\ UNCHANGED <<size, given, a>>

\* one turn of the loop that waits; it executes other frames, which is their step
Sync(f) ==
  /\ pc[f] = "sync"
  /\ Goto(f, IF frame[f].sync_frames_remaining = 0 THEN "signal" ELSE "sync")
  /\ UNCHANGED <<size, given, a, frame>>

\* swift_signal_frame_done: the parent's counter; the root's is its own, which
\* nobody reads any more
Signal(f) ==
  /\ pc[f] = "signal"
  /\ frame' = [frame EXCEPT ![frame[f].parent].sync_frames_remaining = @ - 1]
  /\ Goto(f, "done")
  /\ UNCHANGED <<size, given, a>>

-----------------------------------------------------------------------------
Partition(f) == Up(f) \/ Down(f) \/ SwapFirst(f) \/ SwapSecond(f)
Closure(f)   == Run(f) \/ Partition(f) \/ Push(f) \/ Sync(f) \/ Signal(f)

Terminated == pc[Root] = "done" /\ UNCHANGED vars

Next == (\E f \in Pushed : Closure(f)) \/ Terminated

Spec == Init /\ [][Next]_vars

\* some thread goes on; nothing is assumed of which
FairSpec == Spec /\ WF_vars(\E f \in Pushed : Closure(f))

-----------------------------------------------------------------------------
(***************************************************************************)
(* Properties                                                              *)
(***************************************************************************)
Partitioning(f) == pc[f] \in {"up", "down", "swap", "swap_second"}

(***************************************************************************)
(* Types; the scans stay inside the range they partition, but for the one  *)
(* element behind it that the upward scan may look at.  Nothing but the    *)
(* pivot at a[l] stops the downward scan.                                  *)
(***************************************************************************)
TypeOK ==
  /\ a \in [0 .. size -> Value]
  /\ Pushed = DOMAIN pc
  /\ \A f \in Pushed :
       /\ pc[f] \in {"pushed", "up", "down", "swap", "swap_second", "spawn",
                     "sync", "signal", "done"}
       /\ f[1] \in 0 .. size /\ f[2] \in -1 .. size - 1
       /\ Partitioning(f) => {frame[f].i, frame[f].j} \subseteq f[1] .. f[2] + 1

(***************************************************************************)
(* No data race on the array: what one closure reads or writes while it    *)
(* partitions, the element behind its range included, no other closure is  *)
(* rearranging.                                                            *)
(***************************************************************************)
NoRace ==
  \A f, g \in Pushed : f # g /\ Partitioning(f) /\ Partitioning(g) =>
    (f[1] .. f[2] + 1) \intersect (g[1] .. g[2]) = {}

(***************************************************************************)
(* From the end of its partition on, a frame's pivot separates its range,  *)
(* whatever the frames below it are doing to the two sides.                *)
(***************************************************************************)
Separated ==
  \A f \in Pushed : pc[f] \in {"spawn", "sync"} =>
    \A k \in f[1] .. f[2] :
      IF k < frame[f].j THEN a[k] <= a[frame[f].j]
                        ELSE k = frame[f].j \/ a[k] > a[frame[f].j]

(***************************************************************************)
(* A closure that has finished its wait leaves its range sorted, to which  *)
(* its parent's correctness and check_array (test/qsort_common.c:84) hold  *)
(* it, and while nobody exchanges elements the array has the elements that *)
(* were given.                                                             *)
(***************************************************************************)
Sorted(f)        == \A k, m \in f[1] .. f[2] : k <= m => a[k] <= a[m]
Occurrences(b, v) == Cardinality({k \in 0 .. size - 1 : b[k] = v})

SortedWhenDone ==
  /\ \A f \in Pushed : pc[f] \in {"signal", "done"} => Sorted(f)
  /\ (\A f \in Pushed : pc[f] # "swap_second") =>
       \A v \in Value : Occurrences(a, v) = Occurrences(given, v)

\* Every array is sorted in the end: the scans, the recursion and the waits end.
Sorts == <>(pc[Root] = "done")

(***************************************************************************)
(* The inductive invariant behind the properties above.                    *)
(***************************************************************************)
Labels == {"pushed", "up", "down", "swap", "swap_second", "spawn", "sync",
           "signal", "done"}

Closures == [l : Int, r : Int, parent : Pushed, sync_frames_remaining : Int,
             pivot : Int, i : Int, j : Int, tmp : Int]

\* what a frame is: the range it was pushed with, possibly an empty one
FrameInv ==
  /\ size \in Nat
  /\ a \in [0 .. size -> Value]
  /\ frame \in [Pushed -> Closures]
  /\ pc \in [Pushed -> Labels]
  /\ Root \in Pushed /\ frame[Root].parent = Root
  /\ \A f \in Pushed :
       /\ f = <<frame[f].l, frame[f].r>>
       /\ frame[f].l \in 0 .. size /\ frame[f].r \in -1 .. size - 1
       /\ frame[f].l <= frame[f].r + 1

\* What partition() has established when it comes to each of its steps: up to
\* i nothing is above the pivot, and from j on everything is.
AtMost(q, first, last) == \A k \in first .. last : a[k] <= q.pivot
Above(q, first, last)  == \A k \in first .. last : a[k] > q.pivot

UpInv(q) ==
  /\ q.l <= q.i /\ q.i < q.j /\ q.j <= q.r + 1
  /\ a[q.l] = q.pivot /\ AtMost(q, q.l, q.i) /\ Above(q, q.j, q.r)

DownInv(q) ==
  /\ q.l < q.i /\ q.i <= q.j /\ q.j <= q.r + 1
  /\ a[q.l] = q.pivot /\ AtMost(q, q.l, q.i - 1) /\ Above(q, q.j, q.r)
  /\ q.i <= q.r => a[q.i] > q.pivot

SwapInv(q) ==
  /\ q.l < q.i /\ q.i <= q.j + 1 /\ q.j <= q.r
  /\ a[q.l] = q.pivot /\ AtMost(q, q.l, q.i - 1) /\ Above(q, q.j + 1, q.r)
  /\ a[q.j] <= q.pivot /\ (q.i <= q.r => a[q.i] > q.pivot)

SwapSecondInv(q) ==
  /\ q.l < q.i /\ q.i <= q.j + 1 /\ q.j <= q.r /\ Above(q, q.j + 1, q.r)
  /\ q.tmp \in Value
  /\ \/ q.i < q.j /\ a[q.l] = q.pivot /\ AtMost(q, q.l, q.i) /\ q.tmp > q.pivot
     \/ q.i = q.j + 1 /\ AtMost(q, q.l, q.j) /\ q.tmp = q.pivot

SeparatedInv(q) ==
  /\ q.l <= q.j /\ q.j <= q.r
  /\ \A k \in q.l .. q.j - 1 : a[k] <= a[q.j]
  /\ \A k \in q.j + 1 .. q.r : a[k] > a[q.j]

PartitionInv(f) ==
  /\ Partitioning(f) \/ pc[f] \in {"spawn", "sync"} => frame[f].l < frame[f].r
  /\ pc[f] = "up" => UpInv(frame[f])
  /\ pc[f] = "down" => DownInv(frame[f])
  /\ pc[f] = "swap" => SwapInv(frame[f])
  /\ pc[f] = "swap_second" => SwapSecondInv(frame[f])
  /\ pc[f] \in {"spawn", "sync"} => SeparatedInv(frame[f])

\* Two ranges are nested or have at least one element between them, and what
\* is below a frame that has finished its wait has signalled.
Left(f)   == <<frame[f].l, frame[f].j - 1>>
Right(f)  == <<frame[f].j + 1, frame[f].r>>
Spawned(f) == pc[f] \in {"sync", "signal", "done"} /\ frame[f].l < frame[f].r
Covers(s, g) == s[1] <= g[1] /\ g[2] <= s[2]
Below(g, f)  == Spawned(f) /\ (Covers(Left(f), g) \/ Covers(Right(f), g))
Apart(f, g)  == f[2] + 1 < g[1] \/ g[2] + 1 < f[1]

NestingInv ==
  \A f, g \in Pushed : f # g =>
    /\ Below(f, g) \/ Below(g, f) \/ Apart(f, g)
    /\ Below(g, f) /\ pc[f] # "sync" => pc[g] = "done"

\* The counter of a closure that waits is the number of its two frames that
\* have not signalled.
Awaited(g) == IF pc[g] = "done" THEN 0 ELSE 1

WaitInv ==
  /\ \A f \in Pushed : Spawned(f) =>
       /\ frame[f].j \in frame[f].l .. frame[f].r
       /\ {Left(f), Right(f)} \subseteq Pushed
       /\ frame[Left(f)].parent = f /\ frame[Right(f)].parent = f
       /\ IF pc[f] = "sync"
          THEN frame[f].sync_frames_remaining = Awaited(Left(f)) + Awaited(Right(f))
          ELSE pc[Left(f)] = "done" /\ pc[Right(f)] = "done"
  /\ \A g \in Pushed \ {Root} : \E f \in Pushed :
       frame[g].parent = f /\ Spawned(f) /\ g \in {Left(f), Right(f)}

\* The value that a closure has in hand between the two writes of an exchange
\* is on the side of every pivot above it where it came from.
HandInv ==
  \A f, g \in Pushed :
    f # g /\ pc[f] = "sync" /\ Below(g, f) /\ pc[g] = "swap_second" =>
      /\ Covers(Left(f), g) => frame[g].tmp <= a[frame[f].j]
      /\ Covers(Right(f), g) => frame[g].tmp > a[frame[f].j]

SortedInv == \A f \in Pushed : pc[f] \in {"signal", "done"} => Sorted(f)

\* The array with the values in hand put where they are going has the
\* elements that were given.
InHandFor(k) == {f \in Pushed : pc[f] = "swap_second" /\ frame[f].j = k}
One(S) == CHOOSE f \in S : TRUE
Due(k) == IF InHandFor(k) = {} THEN a[k] ELSE frame[One(InHandFor(k))].tmp
Whole  == [k \in 0 .. size - 1 |-> Due(k)]

ElementsInv == \A v \in Value : Occurrences(Whole, v) = Occurrences(given, v)

QsortInv ==
  /\ FrameInv
  /\ \A f \in Pushed : PartitionInv(f)
  /\ NestingInv
  /\ WaitInv
  /\ HandInv
  /\ SortedInv
  /\ ElementsInv
=============================================================================
