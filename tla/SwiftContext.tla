----------------------------- MODULE SwiftContext -----------------------------
(***************************************************************************)
(* A context from swift_context_init on: the loop that initialises the     *)
(* threads, each with a deque of its own, and then what a thread that      *)
(* finds no work does with the fields it was given: it goes round the      *)
(* other threads (swift_get_frame) and may sleep (swift_backoff).          *)
(*                                                                         *)
(* A thread writes only its own round_robin_id and last_sleep_time, so     *)
(* that one idle thread, whichever it is, stands for all.                  *)
(***************************************************************************)
EXTENDS DequeInit, StealTarget, Sequences

CONSTANT Second  \* in nanoseconds: 10^9, the limit of a tv_nsec

ASSUME SecondAssumption == Second \in Nat

VARIABLES
  threads,  \* context->threads, as far as it is initialised
  me,       \* the idle thread
  tried     \* history: its last ThreadNum - 1 targets, the latest last

vars == <<requested, size, newSize, pc, threads, me, tried>>

Initialised == DOMAIN threads
Ready       == Initialised = Thread

\* Faulty: a thread number in tens leaves nothing of it after a few turns.
FirstSleepTens(p) == p * 10
FirstSleep(p)     == p * 10 + 1

\* the fields of the p-th thread
NewThread(p) ==
  [size |-> size, round_robin_id |-> p, last_sleep_time |-> FirstSleep(p)]

Init ==
  /\ requested \in Requested
  /\ Begin
  /\ threads = [p \in {} |-> 0]
  /\ me \in Thread
  /\ tried = <<>>

DequeStep == ~Ready /\ RoundStep /\ UNCHANGED <<threads, me, tried>>

\* swift_deque_init has returned; the loop goes on to the next thread's deque
InitThread ==
  /\ ~Ready /\ pc = "done"
  /\ \E p \in Thread :
       /\ Initialised = 0 .. p - 1
       /\ threads' = [q \in 0 .. p |-> IF q = p THEN NewThread(p) ELSE threads[q]]
  /\ BeginNext
  /\ UNCHANGED <<requested, me, tried>>

\* bounded history: one turn of the round robin
Remember(s) == IF Len(s) < ThreadNum THEN s ELSE Tail(s)

\* a pop found nothing: swift_get_steal_target picks the next thread
TrySteal ==
  LET target == StealTarget(me, threads[me].round_robin_id) IN
  /\ Ready
  /\ threads' = [threads EXCEPT ![me].round_robin_id = target]
  /\ tried' = Remember(Append(tried, target))
  /\ UNCHANGED <<requested, size, newSize, pc, me>>

\* swift_backoff: sleep, as often as it takes until the time has passed, and
\* sleep twice as long the next time, or less than 100 ns
Backoff ==
  /\ Ready
  /\ threads' = [threads EXCEPT ![me].last_sleep_time = (@ * 2) % 100]
  /\ UNCHANGED <<requested, size, newSize, pc, me, tried>>

Next == DequeStep \/ InitThread \/ TrySteal \/ Backoff

Spec == Init /\ [][Next]_vars

\* the thread that calls swift_context_init goes on
FairSpec == Spec /\ WF_vars(DequeStep \/ InitThread)

-----------------------------------------------------------------------------
(***************************************************************************)
(* Types.  The sizes stay within a word, and a target is a thread of the   *)
(* context.                                                                *)
(***************************************************************************)
ThreadRecord ==
  [size : 0 .. WordRange - 1, round_robin_id : Thread, last_sleep_time : Nat]

TypeOK ==
  /\ requested \in Requested
  /\ size \in 0 .. WordRange - 1
  /\ newSize \in 0 .. WordRange - 1
  /\ pc \in {"test", "round", "done"}
  /\ Initialised \subseteq Thread
  /\ threads \in [Initialised -> ThreadRecord]
  /\ me \in Thread
  /\ tried \in Seq(Thread)

(***************************************************************************)
(* The size of every deque is the smallest power of two that is not below  *)
(* the size asked for ("automatically resized to a power of two",          *)
(* src/swift_deque.c:12), so that size_mask selects a slot and the array   *)
(* has room for what the caller counts on.                                 *)
(***************************************************************************)
RoundedUp ==
  \A p \in Initialised :
    /\ threads[p].size \in PowersOfTwo
    /\ threads[p].size >= requested
    /\ threads[p].size = 1 \/ threads[p].size \div 2 < requested

\* The loops of swift_context_init and swift_deque_init end, for every size of at
\* most half the range of a word.
BecomesReady == <>Ready

(***************************************************************************)
(* A thread tries to get a frame "either from own workque or from another  *)
(* thread" (include/swift_scheduler.h:20): it never steals from itself.    *)
(***************************************************************************)
NeverFromItself == tried # <<>> => threads[me].round_robin_id # me

(***************************************************************************)
(* One turn of the round robin, starting where swift_context_init put it   *)
(* or anywhere later, tries every other thread: no queue is out of reach   *)
(* of a thread that looks for work.                                        *)
(***************************************************************************)
SweepsAll ==
  Len(tried) = ThreadNum - 1 =>
    \A p \in Thread \ {me} : \E i \in DOMAIN tried : tried[i] = p

(***************************************************************************)
(* The sleep of swift_backoff never runs down to nothing, which would turn *)
(* it into a busy wait for good (zero doubles to zero), and is at every    *)
(* time a number of nanoseconds that nanosleep takes: below a second.      *)
(***************************************************************************)
SleepsSomewhat ==
  \A p \in Initialised : threads[p].last_sleep_time \in 1 .. Second - 1
=============================================================================
