# Verification of swift-scheduler

swift-scheduler is a work-stealing scheduler for fork-join and data-flow
programs, written in C (`src/` and `include/`, about 1100 lines), with the
programs that use it under `test/`.  This directory holds TLA+ models of it,
the TLC configurations that check them on small instances, and proofs checked
by TLAPS.

## 1. The system

| component | code | state | operations |
|---|---|---|---|
| work-stealing deque | `src/swift_deque.c`, `include/swift_deque.h`, `include/swift_atomic.h` | `top`, `top_cached`, `bottom`, `elements`, `size_mask` | `swift_deque_init`, `push`, `pop` (owner), `steal` (any other thread) |
| memory order | `include/swift_memory.h` | the processor's store buffer | the barriers between the accesses of the deque |
| scheduler | `src/swift_scheduler.c` | `round_robin_id`, the threads' queues | `swift_get_steal_target`, `swift_get_frame`, `swift_scheduler_execute`, `swift_signal_frame_done`, `swift_frame_done` |
| frames, data flow | `include/swift_dfg.h`, `src/swift_dfg.c` | `flags`, `*sync_frames_remaining`, `dependencies_no`, `dependencies_frame` | initialised by closures, counted down by the scheduler |
| context and threads | `src/swift_context.c`, `src/swift_thread.c` | `threads[]`, `id`, `stop`, `parallel_finished` | init, destroy, start (which may fail), wait |
| programs | `test/fibo_stack_2spawns.c`, `test/qsort_ws.c`, `test/fibo.c` | their spawn trees, on the stacks of the threads; the array being sorted | closures, `partition`, `thread_start`, `main` |
| allocator | `src/swift_allocator.c` | `heap_top`, `buckets[]` of every thread | `swift_malloc`, `swift_free`, `swift_retire_frame` |
| backoff | `src/swift_backoff.c` | `last_sleep_time` | `swift_backoff`, which nothing calls |
| deque stress test | `test/test_deque.c` | | a pusher and a popper on one deque (`NUM_THREADS` is 2, so the two stealers of its table are never started) |

How they interact.  `main` initialises the context, pushes the root frame
(flag `SWIFT_FRAME_END_PARALLEL`) on the queue of thread 0, starts the threads
and joins them.  A thread calls `swift_scheduler_execute` in a loop: it pops a
frame from its own queue or else steals one from the next thread in its round
robin, and calls the frame's closure.  The closure pushes frames for its
children on the queue of its thread, then waits for a counter of its own to
reach zero, and while it waits it executes other frames on top of its own stack.
When it is done it decrements the counter of its parent, and the counter of the
frame that depends on its result, which it pushes when that one reaches zero.
Threads share the indices and slots of the queues, the counters and the stop
flags; there are no locks.

What is hard here, and what has to hold:

- *the deque*: the owner and the thieves race for the last frame with nothing
  but a CAS on `top`; a thief reads a slot before it owns it; push trusts a
  stale copy of `top`; a pop lowers `bottom` before it knows what it gets.  A
  frame must be handed out exactly once, never lost, and the oldest to thieves;
- *memory order*: `pop` needs its store of `bottom` to be visible before its
  load of `top`;
- *the scheduler*: a closure may go on only when all it waits for has run; the
  counter must count exactly what is left; help-while-waiting must not wait in
  a circle; a frame with dependencies must be pushed once, after its inputs; a
  frame on the stack of a closure must not be touched after the closure returns;
- *quicksort*: closures rearrange one array in any order and read one element
  beyond their range; no two may touch the same element, the scans must stay
  inside, and the halves must add up to the whole;
- *termination*: threads spin until a flag is set; it must be set, and only
  when nothing is left to do, also when some of the threads could not be created;
- *numeric edges*: the width of the CAS and of a thread id, the rounding of the
  size of a queue, the sleep time of a backoff, the word in which sizes of blocks
  are rounded;
- *the allocator*: a frame that was stolen is freed by the thread that executed it
  into a bucket of the thread that allocated it, without a lock; every block has
  to stay in one place, in its own bucket, and apart from the others.

## 2. The modules

Each module names its code at its head, and definitions keep the names of the
source.  Definitions introduced by `\* Faulty:` are plausible bugs, used to
show that the properties notice them; no specification uses them.

**WorkQueue** - abstract: what a queue promises.  `push`, `pop` and `steal` in
one step each, with their status codes.  EMPTY is answered to a thief only when
at most one frame waits, ABORT at any time.

**SwiftDeque** - `swift_deque.c` access by access.  `pc[p]` is the place of
caller p in its call; `t`, `b`, `frame` and `ret` are the locals.  An action
makes at most one access to a location that another thread may be writing.

| code | actions |
|---|---|
| `swift_deque_push` | `PushBegin` (reads `bottom`, `top_cached`, first test), `PushReload` (real `top`, FULL), `PushStore`, `PushPublish` |
| `swift_deque_pop` | `PopBegin` (lowers `bottom`), `PopNothing`/`PopOne`/`PopLast` (reads `top`, by the sign of the size), `PopRestore`, `PopCas`, `PopAdjust` |
| `swift_deque_steal` | `StealReadTop`, `StealReadBottom`, `StealReadElement`, `StealCas` |

The 64-bit indices are integers; the CAS has its real, smaller width
(`CasRange`): `SWIFT_CAS` casts the address of `top` to `int *`.  `pushed` and
`taken` are history.

**SwiftDequeTSO** - the same under total store order.  The barriers are empty
asm statements, which bind the compiler only, so the owner's stores wait in a
buffer that drains in order; a CAS waits for it to be empty.  The owner sees its
own stores at once: `bottom` and `elements` of SwiftDeque are what it sees, and its
actions are those of SwiftDeque with a store added to the buffer; thieves run
`StealTest` and `StealLoad` on `memory`.  `FenceInPop` chooses between the code as
built (FALSE) and a barrier in pop that binds the processor too (TRUE).

**DequeInit** - the rounding of the size in `swift_deque_init`, test by test and
turn by turn, in unsigned integers of `WordRange` values; a component of
SwiftContext.

**StealTarget** - `swift_get_steal_target` as an operator, with the width of a
thread id.

**SwiftContext** - `swift_context_init`: one thread record after the other, each
with its deque (the steps of DequeInit); then one of the threads, any of them,
looks for work: it takes steal targets in the order `swift_get_frame` does
(`TrySteal`) and backs off between them (`Backoff`, `swift_backoff`).  `me` is
that thread and `tried` the targets it has had.

**QsortWs** - the closures of `qsort_ws.c` on the array they share: the two scans,
the two halves of an exchange, the frames for the two sides, the wait.  A frame
is the range it sorts.  Of the scheduler only the promise of ForkJoin is used: a
pushed frame runs at any time, as if on a thread of its own.

**ForkJoin** - abstract: what the scheduler promises a program.  A frame starts
once, after the frame that spawned it and after its inputs; it completes after
all the frames it waits for; the region ends after the root's.

**SwiftScheduler** - the scheduler, the context's threads and a program, i.e. a
tree of frames given by `Spawned`, `Parent` and `Dependent`.  What the closures of
the test programs do is assumed of it by name: a closure spawns two frames of its
own or none, every frame descends from the root and is pushed by its parent unless
it awaits data (`TreeAssumption`), the inputs of a frame are spawned by the closure
that spawns it, and the frames can be counted by a `swift_size_t`
(`CountAssumption`).  `stack[p]` is the
closures that thread p has entered, innermost last; `pc[p]` is where the
innermost one is, or the scheduler function it has called.  A queue is a
sequence and an operation on it one step, as WorkQueue (which SwiftDeque
implements) has it, except that a steal is two: reading the oldest frame, and
the CAS that may fail.  Every other action makes at most one access to memory
that threads share.  The accesses of SwiftDeque are sequentially consistent, which
those of the build are not on x86 (`deque_tso_taken_twice`): what is shown of a
region holds on a processor that keeps them in order.  With a fence in pop the deque
hands out frames rightly on x86 too (`deque_tso_fence`), but a region on top of it,
whose thieves may be told EMPTY while a push is still in the buffer, is not modelled.

| code | actions |
|---|---|
| `main`, `swift_thread_start`, `swift_thread_wait` | `StartThread`, `JoinThread`, `JoinFailed` |
| `thread_start`: loop, then stopping the others | `ThreadLoop`, `Inform` |
| `swift_get_frame` | `PopFrame`, `PopEmpty` (picks the target), `StealRead`, `StealEmpty`, `StealSuccess`, `StealAbort` |
| the closure | `RunLeaf`, `RunSpawn`, `PushSpawned`, `SyncLoop`, `Finish` (adds up the results, sets `stop`) |
| `swift_signal_frame_done` | `SignalSync`, `SignalDependencies`, `TestDependencies`, `PushDependent` |
| `swift_frame_done` | `FrameDone` |

`StackFrames`, `LeafStops` and `StopFlag` are the differences between the
programs: frames are locals of the closure that spawns them
(`fibo_stack_2spawns`, `qsort_ws`) or allocated and never freed (`fibo`); the
root stops its thread even when it spawns nothing (`fibo_stack_2spawns`) or only
when it does (`qsort_ws`: `LeafStops` FALSE; the theorems hold for both, the roots
of the runs all spawn); threads watch `thread->stop` or
`context->parallel_finished` (`fibo`).  `result[f]` is `*data->r`, the number that
fibo computes: leaves return `Value[f]`, the others add up.  With `CreateFails`
`pthread_create` may fail for any of the threads: nobody notices, the thread
never runs, and `pthread_join` of it returns an error or takes the process down.
A thief is told EMPTY only when there is nothing, or when the last frame is being
popped at that moment.  A read of a frame whose memory is gone is
undefined: `ReadGone` lets the thread crash, `FrameDone` lets the flags be
anything (as it does for the frames of `fibo`, which never sets them), and `SignalDependencies` lets the old contents still be there.

**SwiftAllocator** - `swift_allocator.c` as SWIFT_USE_CUSTOM_ALLOCATOR compiles it
(the build leaves it out).  `head[b]` is the list of a bucket, `next[x]` the one
pointer in the header of a block, which is a link while the block is free and
names its bucket while it is in use.  `MallocBegin`, `MallocReuse`,
`MallocCarve`, `MallocTag` are `swift_malloc`; `FreeBegin`, `FreeLink`, `FreePut`
are `swift_free`, of any block in use by any thread, as `swift_frame_done` calls it
for a frame that was stolen.  Each action makes at most one access to a bucket.  The
header of a block is written only by who has it in hand, until two calls overlap on
a bucket between their read and their write of it (`clashed`, history).  What
follows then is modelled up to the first use of a pointer that is not what the code
takes it for: a bucket used as a block or the other way round, or a block handed
out that is in use already (`pc` is "undefined", and nothing more happens; "aborted"
is the assertion on the limit of the heap).

`Word` is the cast to the 32-bit `swift_size_t` in SWIFT_MEM_ALIGN, `MemAlign`.  A
request of more than half a word, header included, gets a block of `WordRange` bytes
or more, for which `Room`, the step of `heap_top`, is zero; one of nearly a word or
more is cut off before its bucket is looked for.  Both are in the model; the caller
has then too few bytes, and as it writes over those of others the rest is
undefined too (`Usable`).  `WordAssumption`: a word has a power of two of values, and
there are buckets for blocks of that many bytes (there are 32, for up to 2^34, and 2^32
is the size of the 30th), so the loop that looks for a bucket needs no bound of its
own.  `MaxHeld` bounds the blocks in use at a time, `Requests` the sizes.

**MCSwiftDeque**, **MCSwiftDequeTSO**, **MCSwiftContext**, **MCSwiftAllocator**,
**MCSwiftScheduler** and **MCQsortWs** define the values of the constants for TLC.
**SwiftDequeProofs**, **SwiftDequeTSOProofs**, **SwiftContextProofs**,
**SwiftSchedulerProofs**, **SwiftDataFlowProofs**, **SwiftAllocatorProofs** and
**QsortWsProofs** hold the theorems.

## 3. The runs

| run | shows | bounds |
|---|---|---|
| `deque` | every frame is handed out at most once and none is lost, a thief about to succeed holds the oldest frame, `top` never falls, ABORT means that somebody else got a frame, the deque implements WorkQueue; the inductive invariant holds | 5 frames, 2 thieves, 4 slots, indices to 7 |
| `deque_narrow_cas` | **violated**: `top` is "only incremented" | CAS of 4 values, indices beyond it |
| `deque_tso_fence` | with a fence in pop the deque is correct on x86: no frame is handed out twice or lost, and the inductive invariant holds | 4 frames, 2 thieves, 4 slots, buffer of 3 |
| `deque_tso_taken_twice` | **violated**: as built a frame is popped and stolen | 2 frames, 1 thief, buffer of 2 |
| `context` | every deque gets the next power of two as its size and the initialisation ends; one turn of the round robin tries every other thread and never the thread itself; no sleep is of length zero | sizes of 1 to half of a word of 64 values, 12 threads, each of them |
| `allocator` | whichever thread frees a block: it is in one place and none is lost until two calls clash on a bucket; whatever clashes, a bucket has blocks of its own only, blocks do not overlap, a caller has the bytes it asked for exactly up to half a word, and only the last block of a heap can reach beyond its limit; the inductive invariant holds | 2 threads, 2 blocks in use, 4 sizes, words of 128 values, 5 buckets, a heap of 64 bytes |
| `allocator_clash` | **violated**: a block that is freed returns to its bucket, and stays in one place | the same |
| `region_fibo` | frames run once, counters are exact, nothing is lost, no push meets a full queue, no circular wait, threads are stopped only when all is done, the region ends, `main` sees the right result, ForkJoin is implemented, the inductive invariant holds; any of the threads may fail to start | fibo(3), 5 frames, 3 threads, queues of 2 |
| `region_sum` | a sum is in reach of a thread only after its inputs, none is lost, no circular wait | fibo(4) with data-flow frames, 13 frames, 2 threads |
| `qsort` | every array is sorted in the end, in whatever order frames run; no two closures touch one element; the scans stay inside; a pivot separates its sides from then on; the inductive invariant holds | arrays of up to 5 elements, 3 values |
| `region_sum_twice` | **violated**: a data-flow frame is pushed once | the same |
| `region_outlived` | **violated**: a closure returns after everybody is done with its frames | fibo(3), 2 threads |

Why the bounds are enough.  In the deque the cases are an empty queue, one
frame, a full queue, a stale `top_cached`, and a slot that is used again while a
thief holds what it read from it: with four slots and five frames one slot is, three frames fill the queue and a fourth meets a full one, and two thieves race each other and the owner
at once.  A buffer of three holds more than any single operation stores.  In the
scheduler three threads and queues of two let a thread wait, help with a frame
that was stolen back, fail a CAS and be stopped by another; the nine-frame tree
of fibo(4) has closures waiting several deep on one stack.  The allocator's sizes
are the least, the two on either side of half the word (header included) and one
that is cut off; two buckets are in use for the sizes that fit, the one of 128 bytes
is where `heap_top` stops, and the heap is small enough for the assertion on its
limit to fail.  Two blocks in use, and those in the buckets, are what it takes for two
frees, or a free and a malloc, to meet in one bucket.  `Capacity` is the
least that the program needs: SWIFT_DEQUE_SIZE (30000) has the same role there.
Five elements are the least for which two closures partition at the same time
with elements left over on both sides; three values make runs of equal elements
and both kinds of neighbours of a pivot.  A word of 64 values
has sizes below, at and above powers of two; the sizes checked are all those
whose next power of two fits in a word, the only ones the code can round.  The
first sleep of thread p is 10p + 1, so that twelve threads have one of every
residue modulo 100 that a first sleep can have, and two are beyond 100.

What the violated runs say:

- `deque_tso_taken_twice`: `swift_deque.c:73` wants `top` read after `bottom` is
  written.  The barrier does not stop the processor; the load of `top` passes
  the buffered store, the owner sees two frames and takes one without a CAS,
  while a thief steals it.  `deque_tso_fence` shows that one fence repairs it.
- `deque_narrow_cas`: after 2^32 frames through one queue its `top` falls back.
- `region_sum_twice`: the decrement of `dependencies_no` and the test for zero
  are two atomic operations; two threads may both find zero.
- `region_outlived`: `swift_signal_frame_done` reads the frame after the
  decrement that allows the closure that owns it to return.
- `allocator_clash`: `swift_free` reads the first block of the bucket and then
  replaces it; of two threads that free at the same time the second undoes what the
  first did, and the block of the first is in no list.

Seen while modelling and not given a run: `include/swift_deque.h:31` says that
`top` is written by the owner only, where a steal writes it (it is `bottom` that
is private to write); a requested size of zero, or above half the range of a
`swift_size_t`, is rounded to zero; with more than 256 threads the `unsigned
char` id of a thread is no longer its number, and it steals from itself; with the
custom allocator the heap's limit is tested for the first byte of a block only (the
last block may reach beyond it: `OverhangIsLast`), a request above 2^31 bytes gets a
block that does not move `heap_top`, so that the next one begins at the same
address (`RoomForRequest`), and a frame that lives on a stack is given to
`swift_free`, which reads a header that is not there.  `qsort_ws` looks at
END_PARALLEL only in the branch that sorts, so that with at most one element no flag
is ever set and the region does not end (`test/qsort_ws.c:160`; a root that
spawns nothing with `LeafStops` FALSE).  The upward scan of the partition tests `a[i]` before `i`, and so reads
the element behind the array, which does no harm to the result.  An array that is
sorted already leaves one frame per level in the queue: with more elements than
the queue has room for, and thieves that do not keep up, a push is FULL, the frame
is dropped and its closure waits for ever (`Capacity` below the need of a tree
violates `NothingLost`).  If no thread at all can be created, `main` prints a
result that nobody has computed (`MainSeesResult` asks for one thread).  The
flags of the frames that `fibo.c` allocates are never set, so any of them may end
its region; the program is commented out in `test/CMakeLists.txt`.

**Fairness.**  `SwiftScheduler!FairSpec` assumes weak fairness of `main` and of
every thread, i.e. that the operating system runs each thread again and again
(they yield and never block).  Nothing is assumed of who wins a CAS: one fails
only when another succeeded, and a region has finitely many frames.  `SwiftContext`
assumes that the thread that initialises the context goes on, and nothing of the
search for work; `QsortWs` that some closure goes on that can (the region's
`RegionEnds` is what justifies it).  The deque modules assume no fairness; all
their properties are about steps.

Deadlock is checked in every run; `Terminated` is the stuttering of a program
that has ended, and so is the last disjunct of the allocator's `Next` (`Stopped`: the
process has been ended by an assertion, or what it does is undefined).

## 4. The proofs

All of them are for any number of frames, thieves, threads and slots.

**SwiftDequeProofs.**  `TypeOK` and `TakenOnce` are not inductive: that a pop
with `size > 0` needs no CAS depends on where every thief is.  The inductive
invariant `IndInv` is a conjunction of `TypeOK` and

- `IndexInv`: `top_cached <= top`, the window `top .. LogicalBottom - 1` has at
  most `size_mask` frames (`LogicalBottom` puts back what a pop has taken off
  `bottom` before it knows);
- `OwnerInv`: what the owner's locals say at each of its labels;
- `ThiefInv`: a thief whose `t` still equals `top` saw a queue that is still
  non-empty, and what it read is still in that slot; this is the claim that
  the owner neither overwrites nor pops without a CAS what a thief can get;
- `WindowInv`: the window holds the frames pushed and not taken, each once.

`DequeInvariant` proves it by one lemma per action.  From it follow
`TypeCorrect`, `TakenAtMostOnce`, `FramesAreKept`, `StolenFrameIsOldest` and
`TopIncreases`.  `OvertakenWhenAborted` shows in addition that
`AbortMeansProgress`: a steal is answered with ABORT, and so retried, only when
`top` has moved since, i.e. somebody has got a frame.

`WorkQueueImplemented` is the refinement: the window, read from `top` on, is the
abstract queue, and every access of the code is a step of WorkQueue or changes
nothing it shows.  A push takes effect when it publishes `bottom`; a pop of one
of several frames when it reads `top` (`PopOne`), not when it lowers `bottom`, and of
the last one at its CAS; a steal
at its CAS.  The lemmas `QueueAppend`, `QueueWithoutLast` and `QueueWithoutFirst`
say what an index does to that sequence.

All of them assume `NoWrap == MaxIndex < CasRange`: indices stay
below the width of the CAS (without it they are false, as `deque_narrow_cas`
shows).  `MaxIndex` is the bound of the model on pushes, and may be any number
below 2^32.

**SwiftDequeTSOProofs.**  With the fence (`FenceInPop`), the deque is correct under
total store order, whatever the size of the buffer.  `FenceInv` says that what the
owner sees obeys `IndInv`, so that the lemmas of SwiftDequeProofs apply to the
owner's steps as they are, and how far memory may lag behind:

- `ViewInv`: the owner sees its newest pending store to a location, or else memory;
- `BottomInv`: no `bottom` in memory, or on its way there, is beyond the newest frame,
  so a thief that finds something to steal finds what the owner would;
- `ElementInv`: the store of a frame that is pending is for an index that is not
  below any `bottom` a thief can read before it drains (the order of the two stores of
  push), and less than a turn of the array ahead of `top`.  Hence `ReadInv`: the
  slot that a thief is about to read, and can still steal from, is in memory;
- `FencedInv`: once the owner has read `top` in a pop that may race, nothing is pending.
  This is where the fence is needed, and the only place.

`FencedTakenOnce`, `FencedNoFrameLost` and `FencedStolenIsOldest` follow.  The
refinement of WorkQueue does not carry over: a thief that cannot see pushes that
are still in the buffer is answered EMPTY.

**SwiftContextProofs.**  `TypeCorrect` holds for every size that is asked for and
whatever the ids are: the target is always a thread of the context.
`StealsFromOthers` and `SweepsEveryOther` (`NeverFromItself`, `SweepsAll`) need at
least two threads and ids that differ.  `SweepsAll` is not inductive; `SweepInv`
says which thread each of the remembered targets is, counted back from the
current one and leaving out the thread itself: the last `ThreadNum - 1` of them
are all the others.  `BackoffSleeps` (`SleepsSomewhat`) rests on `SleepInv`: a
first sleep is 1 modulo 10, so never a multiple of five, doubling and the
remainder by 100 keep it so, and zero is a multiple of five.  `SizesRoundedUp`
(`RoundedUp`) holds for sizes up to half the range of a word (`SizesFit`; beyond it
the code rounds to zero).  `RoundInv` says that in the loop `size` is the requested
size divided by `newSize`, a power of two; a requested size that is not one itself
leaves `newSize` room to double (`ShiftRounds`).

**SwiftSchedulerProofs.**  `TypeCorrect` holds for every program.  The rest is for
a `ForkJoinProgram`: no frame awaits data, frames are on the stacks of closures and
threads watch their own flags, as in `fibo_stack_2spawns` and `qsort_ws`; the tree,
the number of threads, the capacity of the queues and the threads that fail to
start are arbitrary.  None of the properties is inductive.  `RegionInv` adds

- `PlaceInv`: a frame is in one cell of one queue, or in one cell of one stack, or
  in neither; queued frames have not been run, and those that have been run and
  are on no stack have signalled;
- `SpawnInv`: a frame whose parent has not begun has not been pushed, one that is
  queued or running has a parent that waits for it, and a closure past its wait has
  only frames that have signalled;
- `StopInv`, `MainInv`: flags are set after the root's wait; how far `main` and the
  threads that have left are;
- `ResultInv`: what is read of a result has been written.

`Kind(p)` folds the places of a thread into what its innermost closure is doing,
so that most actions leave the sets `At(k)` alone (`QuietStep`, `KindsStay`) and the
others move one frame between two of them (`KindShifts`, `EnterView`, `LeaveView`).
The counter is the hard part: `SyncCounts` says that it is the number of frames
that have not signalled, so that a decrement never wraps, and with `SpawnInv` that
a zero means that all have; it needs that a frame is in one place, and `PlaceInv`
needs that a closure is not left before its frames are done.

From `RegionInv` follow `RunsOnceCorrect`, `SyncCountsCorrect`,
`StopMeansDoneCorrect` (the root's wait is over, so no frame can be left: the frames
that have not signalled would be a set all of whose parents are in itself) and
`MainSeesResultCorrect`.  `NoWaitCycleCorrect` proves that threads that help never
wait in a circle: a frame that has just been entered blocks nobody yet and nothing
else on a stack gains a frame to wait for but the one below it.
`ForkJoinImplemented` is the refinement: entering a closure is `Start`, its
decrement of the parent's counter is `Complete`, the first stop flag ends the
region, and everything else is a stutter.  `NothingLostCorrect` holds for every
behaviour in which no push finds its queue full (`RoomToPush`, as a hypothesis of
the theorem); `RoomForEveryFrame` proves that this is so when `Capacity` is at
least the number of frames.  That is what the code relies on, with
SWIFT_DEQUE_SIZE for a queue; smaller queues do for most programs, and TLC checks
`RoomToPush` for one of them.

**SwiftDataFlowProofs.**  For programs with frames that await data and spawn
nothing themselves (`SumsAreLeaves`, as in `fibo`), any tree of them, any number
of threads and any capacity; how closures wait, where frames live and how threads
are told to stop does not matter.  Such a frame may be pushed twice
(`region_sum_twice`), so the invariants above are false of these programs.
`FlowInv` restricts them to the frames that await nothing (`Plain`):

- `PlainOnce`: a plain frame is in one cell of a queue or of a stack, and it is
  `Fresh`, neither run nor queued, until its parent pushes it;
- `SignalInv`: a closure is past its signal exactly if the frame is in `signalled`;
- `CounterInv`: once the parent has set it, the counter of a frame that awaits data
  is the number of its `Missing` inputs, those that have not decremented it yet;
  an input between its signal and that decrement is still missing, so the
  counter may lag behind but never reads zero early;
- `ReadyInv`: a thread that has found the counter at zero pushes a frame all of
  whose inputs are there, and they stay there, so that it does no harm that
  the decrement and the test are two steps.

`InputsComeFirstCorrect` follows, and so does `PlainRunsOnce`.

`DataFlowNoWaitCycle`: frames that wait are plain (`WaitersArePlain`), so each is in
one cell of one stack.  A sum that two threads execute at a time waits for nobody
and blocks nobody that it did not block before, and what a thread enters on top of a
closure blocks only that closure, as in fork-join programs.

`NothingLostInDataFlow`: what a closure waits for is on a stack, in a queue, about to
be pushed, or awaits data.  The argument turns on the last input of a frame.  From
its signal on (`SignalSyncReach`) its thread is one that may have to push the frame;
a thread that finds the counter above zero (`TestDependenciesReach`) knows by
`CounterInv` that some input is missing, which either has not signalled, so that the
frame still awaits it, or is between its signal and its decrement in another thread,
which then has the frame to push.  The hypotheses: no push finds its queue full, that
of a spawned frame (`RoomToPush`) or of one whose data has come
(`RoomForDependents`), both true of `region_sum`'s program with its capacity; and
frames are malloc-ed (`~StackFrames`), as `fibo`'s are, so that no thread crashes
between its signal and its push on memory that is gone.

`RoomInDataFlow` discharges the first hypothesis for queues that are large enough
(`QueuesSuffice`).  A sum may be in several cells, so that counting frames, as
`RoomForEveryFrame` does for fork-join programs, bounds nothing here.  `RoomInv`
counts pushes instead: the cells that hold sums are at most as many as there are
inputs that are done with their push, and each of them is done once.  With one place
for every plain frame and one for every input, no push finds its queue full, and
`NothingLostWithRoom` needs no hypothesis about behaviours at all.

**SwiftAllocatorProofs.**  For any number of threads, buckets and blocks, any limit
of the heap, any width of a word (`WordAssumption`) and any sizes; any thread frees
what any other has allocated, and the theorems have no hypothesis.  Which blocks hang
on a bucket (`FreeIn`) is the least set that has the first block and is closed under
links (`ListsAreLeast`).  The properties are not inductive by themselves.  `AllocInv`
has two parts.  `AlwaysInv` holds whatever calls overlap:

- `CallInv`: what the locals of a call say of its bucket and of the block in hand;
- `HeldInv`: a block in use is of the bucket that its size calls for, and begins
  below the limit;
- `LinkInv`: neither a bucket nor a link names anything but blocks of one bucket, or
  that bucket; clashes mix up a list, but no list with another one;
- `LayoutInv`: blocks lie one behind the other below `heap_top`, so that a block that is
  carved is new, and no block begins beyond the limit unless it ended the process.  A
  block that does not move `heap_top` is the last thing its process gets.

`UntilClashInv` holds until two calls clash:

- `FreshInv`: what a call has read of a bucket is still there, and a block in use
  names its own bucket, which is where `swift_free` will put it;
- `ListInv`: no link leads to the first block of a list and no two links to the same
  one, so that taking a block off takes nothing else off;
- `InOnePlace`.

Each part has one lemma per action (`...Always`, `...UntilClash`).  A call that writes
a bucket is the only one between its read and its write, or `clashed` is set
(`AloneOnBucket`), which is what keeps `FreshInv`.  What the sizes need is in
`AlignIs`, `BucketForRequest` and `RoomOfBucket`: the cast changes nothing for a
request that fits half a word, and leaves less than was asked for of any other.
`AllocInvariant`, and from it `AllocInOnePlace` (`InOnePlaceUntilClash`),
`AllocOwnBucketOnly`, `AllocRoomForRequest` and `AllocOverhangIsLast`.

**QsortWsProofs.**  The arrays have any length and the values are any integers.
Each of the four properties needs the others, and all need to know where frames
are: `QsortInv` is a conjunction of

- `PartitionInv`: at each of its labels, what `partition()` has established (up to
  `i` nothing is above the pivot and from `j` on everything is, and what stops each
  scan is still where it was);
- `NestingInv`: the ranges of two frames are nested, the inner one to one side of
  the pivot of the outer one, which waits; or at least one element is between
  them, the one behind the range that the upward scan may read.  This gives
  `NoRace`;
- `WaitInv`: the counter of a closure that waits is the number of its two frames
  that have not signalled, so that a zero means that both sides are sorted;
- `HandInv`: between the two writes of an exchange the value in hand is missing
  from the array; it is on the side of every pivot above where it came from, so
  that putting it down does not break `Separated` of a frame further up;
- `ElementsInv`: the array with every value in hand put where it is going
  (`Whole`) has the elements that were given.  An exchange keeps
  `Whole` as a bag (`ExchangeKeepsOccurrences`).

`AloneInRange` is the lemma that most steps rest on: a closure that has not spawned
has its range to itself, so that what it writes is inside one side of every frame
above and outside the range of every other.  `QsortInvariant`, and from it
`ScansInRange` (`TypeOK`), `NoRaceCorrect`, `SeparatedCorrect` and
`SortedWhenDoneCorrect`.

**Only model-checked**, and why:

- liveness (`RegionEnds`, `BecomesReady`, `Sorts`), which TLAPS cannot prove;

## 5. What is not modelled

- Frames of SwiftAllocator inside SwiftScheduler: the build uses `malloc`, and
  `swift_free` does nothing, so memory of allocated frames is never reused there.
- `test_deque.c`.  Its popper is not the thread that pushes, which the deque does
  not allow: both write `bottom`, and nothing that SwiftDeque states holds then.
  What it asserts (every frame was taken) is false already when the popper ends
  before the pusher starts.
- Failures of `malloc`: `swift_malloc_system` asserts that there are none, and
  `swift_malloc`, as built, does not look (`src/swift_allocator.c:70`); overflow of the
  stacks by closures that help while they wait.  Of `pthread_create` and
  `pthread_join` only the outcomes are modelled.
- `swift_context_destroy` and `swift_deque_destroy` beyond their place in `main`:
  they free memory after the last thread is joined.
- Reordering by the compiler: `elements` is not volatile, but the barriers hold
  the compiler back.
- Statistics, logging, the OpenMP and serial programs, variants of fibo that are
  not built, the input generator.
- The vendored allocator `lib/hoard-371`, about 18000 lines of C++ that no target
  of the build links and that nothing in `src/`, `include/` or `test/` calls.
  It is not this project's code and its behaviour is not part of the program's.

## 6. Plan

1. done: WorkQueue, SwiftDeque, its invariant and its refinement proved;
   SwiftDequeTSO, proved with the fence; StealTarget, DequeInit and SwiftContext, its
   invariants proved;
   ForkJoin, SwiftScheduler with threads that fail to start and the numbers of
   fibo, its invariant, its refinement and the absence of circular waits proved
   for fork-join programs, and for data-flow programs that inputs come first, that
   nothing is lost, that queues have room and that nobody waits in a circle;
   SwiftAllocator and QsortWs, their invariants and their safety properties proved.
2. to come: a bound on the value of a sum at the time it is executed
   (`InputsComeFirst` says only that its inputs have signalled), and a lower bound on
   `Capacity` for fork-join programs that is closer to what they use.
