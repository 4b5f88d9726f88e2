---------------------------- MODULE SwiftScheduler ----------------------------
(***************************************************************************)
(* A parallel region of the work-stealing scheduler: src/swift_scheduler.c *)
(* together with the program that uses it, i.e. the closures, the thread   *)
(* entry point and the main function of test/fibo_stack_2spawns.c,         *)
(* test/qsort_ws.c and test/fibo.c.                                        *)
(*                                                                         *)
(* A frame's closure spawns frames, pushes them on the queue of the thread *)
(* that runs it and then waits for them; while it waits the thread runs    *)
(* other frames on top of it.  So a thread has a stack of closures, and pc *)
(* says where the innermost one is, or the scheduler function it called.   *)
(*                                                                         *)
(* The queues are those of WorkQueue, which SwiftDeque is shown to         *)
(* implement: an operation on a queue is one step, but for a steal, which  *)
(* reads the top and then tries to advance it.  Every other action makes   *)
(* at most one access to memory that threads share.                        *)
(***************************************************************************)
EXTENDS StealTarget, Sequences, FiniteSets, Functions

CONSTANTS
  Frame,       \* the frames of the region
  Root,        \* the frame main pushes, flagged SWIFT_FRAME_END_PARALLEL
  None,        \* a NULL frame
  Spawned,     \* Spawned[f]: the frames f's closure pushes, in order
  Parent,      \* Parent[f]: f->sync_frames_remaining is in the data of this frame
  Dependent,   \* Dependent[f]: f->dependencies_frame
  Value,       \* Value[f]: the number that is to be the result of f: data->n of
               \* a frame that spawns nothing, else fibo(n - 1) + fibo(n - 2)
  Capacity,    \* how many frames a queue holds
  StackFrames, \* TRUE: a frame is a local variable of the closure that spawns
               \* it (fibo_stack_2spawns, qsort_ws); FALSE: malloc-ed (fibo)
  LeafStops,   \* FALSE: a frame that spawns nothing does not look at its
               \* END_PARALLEL flag (qsort_ws)
  StopFlag,    \* TRUE: threads loop until thread->stop; FALSE: until
               \* context->parallel_finished (fibo)
  CreateFails, \* TRUE: pthread_create may fail
  SizeRange    \* number of values of a swift_size_t: 2^32

\* the frames that decrement f's counter, and those f waits for as its inputs
SyncFrames(f) == {g \in Frame \ {Root} : Parent[g] = f}
Inputs(d)     == {g \in Frame : Dependent[g] = d}

ASSUME SchedulerAssumption ==
  /\ Root \in Frame /\ None \notin Frame
  /\ Spawned \in [Frame -> Seq(Frame \ {Root})]
  /\ Parent \in [Frame -> Frame] /\ Parent[Root] = Root
  /\ Dependent \in [Frame -> Frame \union {None}]
  /\ \A f \in Frame : \A i \in DOMAIN Spawned[f] :
       Parent[Spawned[f][i]] = f /\ Inputs(Spawned[f][i]) = {}
  /\ \A f \in Frame : \A d \in {Dependent[f]} \ {None} :
       d # Root /\ \E i \in DOMAIN Spawned[Parent[d]] : Spawned[Parent[d]][i] = f
  /\ Value \in [Frame -> Nat]
  /\ Capacity \in Nat
  /\ {StackFrames, LeafStops, StopFlag, CreateFails} \subseteq BOOLEAN
  /\ SizeRange \in Nat \ {0}

(***************************************************************************)
(* A closure spawns two frames of its own or none, every frame descends    *)
(* from the root (no set of frames has all its parents in itself), and is  *)
(* pushed by its parent unless it awaits data.                             *)
(***************************************************************************)
ASSUME TreeAssumption ==
  /\ \A f \in Frame : \/ Spawned[f] = <<>>
                      \/ Len(Spawned[f]) = 2 /\ Spawned[f][1] # Spawned[f][2]
  /\ \A F \in (SUBSET (Frame \ {Root})) \ {{}} : \E f \in F : Parent[f] \notin F
  /\ \A f \in Frame \ {Root} :
       Inputs(f) # {} \/ \E i \in DOMAIN Spawned[Parent[f]] : Spawned[Parent[f]][i] = f
  /\ \A f \in Frame : Spawned[f] # <<>> =>
       Value[f] = Value[Spawned[f][1]] + Value[Spawned[f][2]]

\* The frames of a region can be counted by a swift_size_t.
ASSUME CountAssumption == IsFiniteSet(Frame) /\ Cardinality(Frame) < SizeRange

VARIABLES
  queue,       \* queue[p]: p's workque, the oldest frame first
  stack,       \* stack[p]: the frames whose closures p has entered, innermost last
  pc,          \* pc[p]: where p is
  next,        \* next[p]: the frame to push next, or the thread to stop next
  roundRobin,  \* roundRobin[p]: p->round_robin_id, the last steal target
  seen,        \* seen[p]: the frame p has read at the top of its target
  syncRemaining,  \* syncRemaining[f]: data->sync_frames_remaining of f
  dependenciesNo, \* dependenciesNo[f]: f->dependencies_no
  result,      \* result[f]: *data->r of f
  stop,        \* stop[p]: p->stop
  parallelFinished,  \* context->parallel_finished
  main,        \* where main is: the threads it has started and joined
  runs,        \* history: runs[f] counts the executions of f's closure
  signalled    \* history: the frames that have signalled their sync

work     == <<queue, stack>>
locals   == <<next, roundRobin, seen>>
data     == <<syncRemaining, dependenciesNo, result>>
region   == <<stop, parallelFinished, main>>
history  == <<runs, signalled>>

vars == <<work, pc, locals, data, region, history>>

\* what a result is before the closure has written it; no number of a program
Unwritten == -1

Goto(p, label) == pc' = [pc EXCEPT ![p] = label]
Current(p)     == stack[p][Len(stack[p])]
Enter(p, f)    ==
  /\ stack' = [stack EXCEPT ![p] = Append(@, f)]
  /\ runs' = [runs EXCEPT ![f] = @ + 1]
  /\ Goto(p, "run")
Leave(p) == stack' = [stack EXCEPT ![p] = SubSeq(@, 1, Len(@) - 1)]

\* SWIFT_ATOMIC_DECR on an unsigned counter
Decrement(counter, f) == [counter EXCEPT ![f] = (@ - 1) % SizeRange]

\* Faulty: the last free place of a queue is not used.
PushShort(p, f) ==
  queue' = IF Len(queue[p]) < Capacity - 1
           THEN [queue EXCEPT ![p] = Append(@, f)]
           ELSE queue

\* swift_deque_push whose status nobody looks at: a full queue drops the frame
PushIgnoringStatus(p, f) ==
  queue' = IF Len(queue[p]) < Capacity
           THEN [queue EXCEPT ![p] = Append(@, f)]
           ELSE queue

\* the frames whose closures have been entered and not left
Active == UNION {{stack[p][i] : i \in DOMAIN stack[p]} : p \in Thread}

\* f's memory is gone: it was on the stack of a closure that has returned
Gone(f) == StackFrames /\ f # Root /\ Parent[f] \notin Active

(***************************************************************************)
(* main: push the first frame, start the threads, join them, destroy.      *)
(***************************************************************************)
Init ==
  /\ queue = [p \in Thread |-> IF p = 0 /\ Capacity > 0 THEN <<Root>> ELSE <<>>]
  /\ stack = [p \in Thread |-> <<>>]
  /\ pc = [p \in Thread |-> "created"]
  /\ next = [p \in Thread |-> 0]
  /\ roundRobin = [p \in Thread |-> p]
  /\ seen = [p \in Thread |-> None]
  /\ syncRemaining = [f \in Frame |-> 0]
  /\ dependenciesNo = [f \in Frame |-> 0]
  /\ result = [f \in Frame |-> Unwritten]
  /\ stop = [p \in Thread |-> FALSE]
  /\ parallelFinished = FALSE
  /\ main = [phase |-> "start", at |-> 0]
  /\ runs = [f \in Frame |-> 0]
  /\ signalled = {}

\* main goes on to the next thread, or to the next phase after the last one
MainAdvance(phase) ==
  main' = IF main.at + 1 < ThreadNum
          THEN [main EXCEPT !.at = @ + 1]
          ELSE [phase |-> phase, at |-> 0]

\* pthread_create; nobody looks at its status
StartThread ==
  /\ main.phase = "start"
  /\ \/ Goto(main.at, "check")
     \/ CreateFails /\ Goto(main.at, "failed")
  /\ MainAdvance("join")
  /\ UNCHANGED <<work, locals, data, stop, parallelFinished, history>>

\* Faulty: main does not wait for the thread.
JoinThreadAtOnce ==
  /\ main.phase = "join"
  /\ MainAdvance("destroyed")
  /\ UNCHANGED <<work, pc, locals, data, stop, parallelFinished, history>>

JoinThread ==
  /\ main.phase = "join"
  /\ pc[main.at] = "exited"
  /\ MainAdvance("destroyed")
  /\ UNCHANGED <<work, pc, locals, data, stop, parallelFinished, history>>

\* pthread_join of a handle that was never set: it reports an error, which
\* nobody looks at either, or takes the process down
JoinFailed ==
  /\ main.phase = "join"
  /\ pc[main.at] = "failed"
  /\ MainAdvance("destroyed") \/ main' = [main EXCEPT !.phase = "crashed"]
  /\ UNCHANGED <<work, pc, locals, data, stop, parallelFinished, history>>

(***************************************************************************)
(* The two loops that call swift_scheduler_execute: thread_start, and the  *)
(* wait of a closure for the frames it has spawned.                        *)
(***************************************************************************)
ThreadLoop(p) ==
  /\ pc[p] = "check" /\ stack[p] = <<>>
  /\ \/ /\ StopFlag /\ stop[p]
        /\ Goto(p, "inform")
     \/ /\ ~StopFlag /\ parallelFinished
        /\ Goto(p, "exited")
     \/ /\ IF StopFlag THEN ~stop[p] ELSE ~parallelFinished
        /\ Goto(p, "pop")
  /\ UNCHANGED <<work, locals, data, region, history>>

\* Faulty: the wait ends one frame early.
SyncDoneEarly(f) == syncRemaining[f] <= 1
SyncDone(f)      == syncRemaining[f] = 0

SyncLoop(p) ==
  /\ pc[p] = "check" /\ stack[p] # <<>>
  /\ Goto(p, IF SyncDone(Current(p)) THEN "finish" ELSE "pop")
  /\ UNCHANGED <<work, locals, data, region, history>>

\* Faulty: a thread that leaves its loop tells nobody.
InformNobody(p) ==
  /\ pc[p] = "inform"
  /\ Goto(p, "exited")
  /\ UNCHANGED <<work, locals, data, region, history>>

\* a thread that leaves its loop stops the others, one after the other
Inform(p) ==
  /\ pc[p] = "inform"
  /\ stop' = [stop EXCEPT ![next[p]] = TRUE]
  /\ IF next[p] + 1 < ThreadNum
     THEN next' = [next EXCEPT ![p] = @ + 1] /\ UNCHANGED pc
     ELSE next' = [next EXCEPT ![p] = 0] /\ Goto(p, "exited")
  /\ UNCHANGED <<work, roundRobin, seen, data, parallelFinished, main, history>>

(***************************************************************************)
(* swift_scheduler_execute, swift_get_frame, swift_get_steal_target        *)
(***************************************************************************)
\* Faulty: the frame stays in the queue.
PopFrameKeeps(p) ==
  /\ pc[p] = "pop" /\ queue[p] # <<>>
  /\ Enter(p, queue[p][Len(queue[p])])
  /\ UNCHANGED <<queue, locals, data, region, signalled>>

PopFrame(p) ==
  /\ pc[p] = "pop" /\ queue[p] # <<>>
  /\ Enter(p, queue[p][Len(queue[p])])
  /\ queue' = [queue EXCEPT ![p] = SubSeq(@, 1, Len(@) - 1)]
  /\ UNCHANGED <<locals, data, region, signalled>>

PopEmpty(p) ==
  /\ pc[p] = "pop" /\ queue[p] = <<>>
  /\ roundRobin' = [roundRobin EXCEPT ![p] = StealTarget(p, @)]
  /\ Goto(p, "steal")
  /\ UNCHANGED <<work, next, seen, data, region, history>>

StealRead(p) ==
  /\ pc[p] = "steal" /\ queue[roundRobin[p]] # <<>>
  /\ seen' = [seen EXCEPT ![p] = Head(queue[roundRobin[p]])]
  /\ Goto(p, "steal_cas")
  /\ UNCHANGED <<work, next, roundRobin, data, region, history>>

\* EMPTY, which a thief is told of the last frame while its owner is in a pop,
\* with the bottom lowered already; back to the caller's loop
StealEmpty(p) ==
  /\ pc[p] = "steal"
  /\ \/ queue[roundRobin[p]] = <<>>
     \/ Len(queue[roundRobin[p]]) = 1 /\ pc[roundRobin[p]] = "pop"
  /\ Goto(p, "check")
  /\ UNCHANGED <<work, locals, data, region, history>>

\* Faulty: any frame at the top will do.
TopPresent(p) == queue[roundRobin[p]] # <<>>

\* the CAS on the target's top is going to succeed
TopUnchanged(p) ==
  queue[roundRobin[p]] # <<>> /\ Head(queue[roundRobin[p]]) = seen[p]

StealSuccess(p) ==
  /\ pc[p] = "steal_cas"
  /\ TopUnchanged(p)
  /\ Enter(p, seen[p])
  /\ queue' = [queue EXCEPT ![roundRobin[p]] = Tail(@)]
  /\ seen' = [seen EXCEPT ![p] = None]
  /\ UNCHANGED <<next, roundRobin, data, region, signalled>>

\* somebody else got it: steal again from the same target
StealAbort(p) ==
  /\ pc[p] = "steal_cas"
  /\ ~TopUnchanged(p)
  /\ seen' = [seen EXCEPT ![p] = None]
  /\ Goto(p, "steal")
  /\ UNCHANGED <<work, next, roundRobin, data, region, history>>

(***************************************************************************)
(* The closure of the current frame                                        *)
(***************************************************************************)
\* r1 + r2, the results of the two frames that f has spawned
Total(f) ==
  LET r1 == result[Spawned[f][1]]
      r2 == result[Spawned[f][2]]
  IN  IF Unwritten \in {r1, r2} THEN Unwritten ELSE r1 + r2

\* a leaf of fibo returns its own number; fibo's sum, a frame that awaits
\* data, returns the result of the frame that has spawned it
RunLeaf(p) ==
  LET f == Current(p) IN
  /\ pc[p] = "run" /\ Spawned[f] = <<>>
  /\ syncRemaining' = [syncRemaining EXCEPT ![f] = 0]
  /\ result' = IF Inputs(f) = {} THEN [result EXCEPT ![f] = Value[f]]
               ELSE [result EXCEPT ![Parent[f]] = Total(Parent[f])]
  /\ Goto(p, "finish")
  /\ UNCHANGED <<work, locals, dependenciesNo, region, history>>

\* Faulty: one of the frames is not counted.
FramesToAwaitShort(f) == Cardinality(SyncFrames(f)) - 1
FramesToAwait(f)      == Cardinality(SyncFrames(f))

\* Faulty: one input too many is awaited.
InputsToAwaitLong(d) == Cardinality(Inputs(d)) + 1
InputsToAwait(d)     == Cardinality(Inputs(d))

RunSpawn(p) ==
  LET f == Current(p) IN
  /\ pc[p] = "run" /\ Spawned[f] # <<>>
  /\ syncRemaining' = [syncRemaining EXCEPT ![f] = FramesToAwait(f)]
  /\ dependenciesNo' =
       [d \in Frame |-> IF d \in SyncFrames(f) THEN InputsToAwait(d) ELSE dependenciesNo[d]]
  /\ next' = [next EXCEPT ![p] = 1]
  /\ Goto(p, "push")
  /\ UNCHANGED <<work, roundRobin, seen, result, region, history>>

PushSpawned(p) ==
  LET spawned == Spawned[Current(p)] IN
  /\ pc[p] = "push"
  /\ PushIgnoringStatus(p, spawned[next[p]])
  /\ IF next[p] < Len(spawned)
     THEN next' = [next EXCEPT ![p] = @ + 1] /\ UNCHANGED pc
     ELSE next' = [next EXCEPT ![p] = 0] /\ Goto(p, "check")
  /\ UNCHANGED <<stack, roundRobin, seen, data, region, history>>

\* Faulty: every frame stops its thread.
EveryFrameEndsRegion(f) == StopFlag
EndsRegion(f) == StopFlag /\ f = Root /\ (LeafStops \/ Spawned[f] # <<>>)

\* after the wait: the sum of the results, unless a frame of its own computes
\* it; and the frame that ends the parallel region stops its thread
Finish(p) ==
  LET f == Current(p) IN
  /\ pc[p] = "finish"
  /\ result' = IF StackFrames /\ Spawned[f] # <<>>
               THEN [result EXCEPT ![f] = Total(f)] ELSE result
  /\ stop' = [stop EXCEPT ![p] = @ \/ EndsRegion(f)]
  /\ Goto(p, "signal_sync")
  /\ UNCHANGED <<work, locals, syncRemaining, dependenciesNo, parallelFinished, main, history>>

(***************************************************************************)
(* swift_signal_frame_done                                                 *)
(***************************************************************************)
SignalSync(p) ==
  LET f == Current(p) IN
  /\ pc[p] = "signal_sync"
  /\ syncRemaining' = Decrement(syncRemaining, Parent[f])
  /\ signalled' = signalled \union {f}
  /\ Goto(p, "signal_deps")
  /\ UNCHANGED <<work, locals, dependenciesNo, result, region, runs>>

SignalDependencies(p) ==
  LET f == Current(p) IN
  /\ pc[p] = "signal_deps"
  /\ \/ /\ Dependent[f] = None
        /\ Goto(p, "frame_done")
        /\ UNCHANGED dependenciesNo
     \/ /\ Dependent[f] # None
        /\ dependenciesNo' = Decrement(dependenciesNo, Dependent[f])
        /\ Goto(p, "test_deps")
  /\ UNCHANGED <<work, locals, syncRemaining, result, region, history>>

\* frame->dependencies_frame was read from memory that is in use for something
\* else by now: if it is not NULL the thread goes through a wild pointer
ReadGone(p) ==
  /\ pc[p] = "signal_deps" /\ Gone(Current(p))
  /\ Goto(p, "crashed")
  /\ UNCHANGED <<work, locals, data, region, history>>

\* Faulty: the frame is pushed while an input is missing.
DependenciesMetEarly(d) == dependenciesNo[d] <= 1
DependenciesMet(d)      == dependenciesNo[d] = 0

TestDependencies(p) ==
  /\ pc[p] = "test_deps"
  /\ Goto(p, IF DependenciesMet(Dependent[Current(p)]) THEN "push_dep" ELSE "frame_done")
  /\ UNCHANGED <<work, locals, data, region, history>>

PushDependent(p) ==
  /\ pc[p] = "push_dep"
  /\ PushIgnoringStatus(p, Dependent[Current(p)])
  /\ Goto(p, "frame_done")
  /\ UNCHANGED <<stack, locals, data, region, history>>

(***************************************************************************)
(* swift_frame_done, then the closure returns to whoever called execute.   *)
(* The flags of a frame that is gone are whatever its memory holds now,    *)
(* and so are those that were never set: fibo allocates the frames that it *)
(* spawns and leaves their flags alone (test/fibo.c:74).  Its sums do not  *)
(* call swift_frame_done.                                                  *)
(***************************************************************************)
FlagsUnset(f) == ~StackFrames /\ f # Root /\ Inputs(f) = {}

FrameDone(p) ==
  LET f == Current(p) IN
  /\ pc[p] = "frame_done"
  /\ \E endParallel \in IF Gone(f) \/ FlagsUnset(f) THEN BOOLEAN ELSE {f = Root} :
       parallelFinished' = (parallelFinished \/ endParallel)
  /\ Leave(p)
  /\ Goto(p, "check")
  /\ UNCHANGED <<queue, locals, data, stop, main, history>>

-----------------------------------------------------------------------------
Crashed == main.phase = "crashed" \/ \E p \in Thread : pc[p] = "crashed"

GetFrame(p) ==
  \/ PopFrame(p) \/ PopEmpty(p)
  \/ StealRead(p) \/ StealEmpty(p) \/ StealSuccess(p) \/ StealAbort(p)

Closure(p) == RunLeaf(p) \/ RunSpawn(p) \/ PushSpawned(p) \/ Finish(p)

FrameEnd(p) ==
  \/ SignalSync(p) \/ SignalDependencies(p) \/ ReadGone(p)
  \/ TestDependencies(p) \/ PushDependent(p) \/ FrameDone(p)

ThreadStep(p) ==
  /\ ~Crashed
  /\ ThreadLoop(p) \/ SyncLoop(p) \/ Inform(p) \/ GetFrame(p) \/ Closure(p) \/ FrameEnd(p)

MainStep == ~Crashed /\ (StartThread \/ JoinThread \/ JoinFailed)

\* main has returned, or the process was killed
Terminated == (main.phase = "destroyed" \/ Crashed) /\ UNCHANGED vars

Next == MainStep \/ (\E p \in Thread : ThreadStep(p)) \/ Terminated

Spec == Init /\ [][Next]_vars

\* Every thread is scheduled again and again by the operating system.
FairSpec == Spec /\ WF_vars(MainStep) /\ \A p \in Thread : WF_vars(ThreadStep(p))

-----------------------------------------------------------------------------
(***************************************************************************)
(* Properties                                                              *)
(***************************************************************************)
Label ==
  {"created", "failed", "check", "inform", "exited", "pop", "steal", "steal_cas", "run",
   "push", "finish", "signal_sync", "signal_deps", "test_deps", "push_dep",
   "frame_done", "crashed"}

\* Every variable keeps its type; a thread that is inside a closure has one.
TypeOK ==
  /\ queue \in [Thread -> Seq(Frame)]
  /\ stack \in [Thread -> Seq(Frame)]
  /\ pc \in [Thread -> Label]
  /\ next \in [Thread -> Nat]
  /\ roundRobin \in [Thread -> Thread]
  /\ seen \in [Thread -> Frame \union {None}]
  /\ syncRemaining \in [Frame -> 0 .. SizeRange - 1]
  /\ dependenciesNo \in [Frame -> 0 .. SizeRange - 1]
  /\ result \in [Frame -> Nat \union {Unwritten}]
  /\ stop \in [Thread -> BOOLEAN]
  /\ parallelFinished \in BOOLEAN
  /\ main \in [phase : {"start", "join", "destroyed", "crashed"}, at : Thread]
  /\ runs \in [Frame -> Nat]
  /\ signalled \in SUBSET Frame
  /\ \A p \in Thread :
       pc[p] \in {"run", "push", "finish", "signal_sync", "signal_deps", "test_deps",
                  "push_dep", "frame_done"} => stack[p] # <<>>

\* the closures that are waiting for the frames they spawned, or pushing them
Waiting(p) == pc[p] \in {"push", "check", "pop", "steal", "steal_cas"}
AtSync == {f \in Frame : \E p \in Thread : \E i \in DOMAIN stack[p] :
             stack[p][i] = f /\ (i < Len(stack[p]) \/ Waiting(p))}
Unsignalled(f) == SyncFrames(f) \ signalled

\* No frame is executed twice, whatever steals and pops compete for it.
RunsOnce == \A f \in Frame : runs[f] <= 1

(***************************************************************************)
(* The counter a closure waits on counts what it waits for: the frames     *)
(* that have not signalled yet, wherever they are.  A counter that is too  *)
(* low lets a closure read results that are not there; one too high makes  *)
(* it wait for ever.                                                       *)
(***************************************************************************)
SyncCounts == \A f \in AtSync : syncRemaining[f] = Cardinality(Unsignalled(f))

(***************************************************************************)
(* Every frame that a closure waits for and that is not being executed is  *)
(* where a thread will find it: in a queue, about to be pushed, or held    *)
(* back until its inputs have been computed.                               *)
(***************************************************************************)
InQueue(f) == \E p \in Thread : f \in Range(queue[p])
ToPush(f) ==
  \E p \in Thread :
    \/ /\ pc[p] = "push"
       /\ \E i \in next[p] .. Len(Spawned[Current(p)]) : Spawned[Current(p)][i] = f
    \/ pc[p] \in {"signal_deps", "test_deps", "push_dep"} /\ Dependent[Current(p)] = f
Awaits(f) == \E g \in Inputs(f) : g \notin signalled

NothingLost ==
  \A f \in AtSync : \A g \in Unsignalled(f) :
    g \in Active \/ InQueue(g) \/ ToPush(g) \/ Awaits(g)

(***************************************************************************)
(* No closure finds its queue full when it pushes a frame; nobody looks at *)
(* the status of the push, and what waits for the frame would wait for     *)
(* ever (swift_deque_push in test/fibo_stack_2spawns.c, test/qsort_ws.c).  *)
(***************************************************************************)
RoomToPush == \A p \in Thread : pc[p] = "push" => Len(queue[p]) < Capacity

(***************************************************************************)
(* A frame that needs the results of others is not in reach of any thread  *)
(* before the last of them has been computed (fibo's sum).                 *)
(***************************************************************************)
InputsComeFirst == \A f \in Frame : InQueue(f) \/ f \in Active => ~Awaits(f)

(***************************************************************************)
(* Threads that help while they wait never wait for each other in a        *)
(* circle: from every closure on a stack there is a way, through the frame *)
(* run on top of it or a frame it waits for, to one that can go on or to a *)
(* frame in a queue.  "Blocks" is this one-step relation; no set of frames *)
(* is closed under being blocked by itself.                                *)
(***************************************************************************)
OnTopOf(f) == {g \in Frame : \E p \in Thread : \E i \in 1 .. Len(stack[p]) - 1 :
                 stack[p][i] = f /\ stack[p][i + 1] = g}
Blocks(f) == OnTopOf(f) \union (IF f \in AtSync THEN Unsignalled(f) \intersect Active ELSE {})

NoWaitCycle ==
  \A S \in (SUBSET Active) \ {{}} : \E f \in S : Blocks(f) \intersect S = {}

(***************************************************************************)
(* When a thread is told to stop, through the flag its loop looks at, no   *)
(* work is left anywhere: every other frame has signalled, the queues are  *)
(* empty, and no thread is waiting in a closure.                           *)
(***************************************************************************)
RegionOver == IF StopFlag THEN \E p \in Thread : stop[p] ELSE parallelFinished
StopMeansDone ==
  RegionOver =>
    /\ Frame \ {Root} \subseteq signalled
    /\ \A p \in Thread : queue[p] = <<>>
    /\ AtSync = {}

(***************************************************************************)
(* When main has joined the threads and prints the result, it is the right *)
(* one, all frames have been executed, and no thread is left that could    *)
(* use the context or the frames on main's stack, however many of the      *)
(* threads could not be created, as long as one was.                       *)
(***************************************************************************)
MainSeesResult ==
  main.phase = "destroyed" /\ (\E p \in Thread : pc[p] # "failed") =>
    /\ signalled = Frame
    /\ result[Root] = Value[Root]
    /\ \A p \in Thread : pc[p] \in {"exited", "failed"}

(***************************************************************************)
(* A closure that returns leaves nobody behind that is still working on a  *)
(* frame it has spawned: "wait for 1,2 to finish"                          *)
(* (test/fibo_stack_2spawns.c:81, test/qsort_ws.c:142).                    *)
(***************************************************************************)
ParentOutlivesChild == \A f \in Active \ {Root} : Parent[f] \in Active

\* The frame that awaits data is pushed when the last input arrives, once.
DependentPushedOnce == \A f \in Frame : Inputs(f) # {} => runs[f] <= 1

\* The region terminates: main comes back from joining all the threads, or the
\* process dies on the way, in pthread_join of a thread that was never started
\* or in reading a frame whose memory is gone (Crashed).
RegionEnds == <>(main.phase = "destroyed" \/ Crashed)

(***************************************************************************)
(* The inductive invariant behind these properties, for programs such as   *)
(* fibo_stack_2spawns and qsort_ws (in fibo a frame may be pushed twice,   *)
(* and any frame may end the region).  Kind(p) is what p's innermost       *)
(* closure is doing, whatever scheduler function it has called.            *)
(***************************************************************************)
ForkJoinProgram == StackFrames /\ StopFlag /\ \A f \in Frame : Dependent[f] = None

Kind(p) ==
  IF stack[p] = <<>> THEN "none"
  ELSE IF pc[p] \in {"check", "pop", "steal", "steal_cas"} THEN "wait"
  ELSE IF pc[p] \in {"signal_deps", "frame_done", "crashed"} THEN "after"
  ELSE pc[p]

\* the frames whose closures are the innermost of their thread, and in step k
At(k) == {f \in Frame : \E p \in Thread : Kind(p) = k /\ Current(p) = f}

Queued  == {f \in Frame : InQueue(f)}
Pending == {f \in Frame : \E p \in Thread : Kind(p) = "push" /\
              \E i \in next[p] .. Len(Spawned[Current(p)]) : Spawned[Current(p)][i] = f}
NotYet  == {f \in Frame : runs[f] = 0} \union At("run")

\* a frame is in one place of one queue, or in one place of one stack
Apart(place) ==
  \A p, q \in Thread : \A i \in DOMAIN place[p] : \A j \in DOMAIN place[q] :
    place[p][i] = place[q][j] => p = q /\ i = j

\* what has been run how often, and is still being run
PlaceInv ==
  /\ Apart(queue) /\ Apart(stack)
  /\ \A f \in Queued : runs[f] = 0
  /\ \A f \in Active : runs[f] = 1
  /\ \A f \in Frame : runs[f] \in {0, 1}
  /\ \A f \in Frame \ Active : runs[f] = 1 => f \in signalled
  /\ \A f \in signalled : runs[f] = 1
  /\ signalled \intersect Active = At("after")
  /\ \A p \in Thread :
       Kind(p) \in {"none", "wait", "run", "push", "finish", "signal_sync", "after"}

\* a frame is spawned by a closure that has begun, run while that one waits
\* for it, and everything it waits for has signalled when its wait is over
SpawnInv ==
  /\ \A f \in Frame \ {Root} : Parent[f] \in NotYet => runs[f] = 0 /\ f \notin Queued
  /\ \A f \in Frame \ {Root} :
       f \in Queued \/ f \in Active \ signalled => Parent[f] \in AtSync
  /\ \A f \in AtSync : Spawned[f] # <<>>
  /\ \A f \in Pending : runs[f] = 0 /\ f \notin Queued
  /\ \A p \in Thread : Kind(p) = "push" => next[p] \in DOMAIN Spawned[Current(p)]
  /\ \A f \in At("finish") \union At("signal_sync") \union signalled :
       SyncFrames(f) \subseteq signalled

\* the region is over when the root's wait is, and threads leave after that
StopInv ==
  /\ \A p \in Thread : pc[p] \in {"inform", "exited"} => stop[p]
  /\ (\E p \in Thread : stop[p]) =>
       Root \in At("signal_sync") \union signalled

\* main has started the threads before main.at, or joined them
MainInv ==
  /\ \A p \in Thread :
       pc[p] \in {"created", "failed", "inform", "exited"} => stack[p] = <<>>
  /\ \A p \in Thread :
       (main.phase = "join" /\ p < main.at) \/ main.phase = "destroyed"
         => pc[p] \in {"exited", "failed"}
  /\ \A p \in Thread : main.phase = "start" /\ main.at <= p => pc[p] = "created"

\* what a frame's result is when others may read it
ResultInv ==
  /\ \A f \in signalled \union At("signal_sync") : result[f] = Value[f]
  /\ \A f \in At("finish") : Spawned[f] = <<>> => result[f] = Value[f]

RegionInv ==
  TypeOK /\ PlaceInv /\ SpawnInv /\ SyncCounts /\ StopInv /\ MainInv /\ ResultInv

(***************************************************************************)
(* The region as a program sees it.                                        *)
(***************************************************************************)
FJ == INSTANCE ForkJoin WITH
        Children  <- [f \in Frame |-> SyncFrames(f)],
        Awaited   <- [f \in Frame |-> Inputs(f)],
        started   <- {f \in Frame : runs[f] > 0},
        completed <- signalled,
        ended     <- RegionOver

ImplementsForkJoin == FJ!Spec
=============================================================================
