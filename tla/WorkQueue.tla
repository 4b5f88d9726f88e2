------------------------------ MODULE WorkQueue ------------------------------
(***************************************************************************)
(* What a thread's work queue (include/swift_deque.h) promises to the      *)
(* scheduler: a bounded double-ended queue of frames whose owner pushes    *)
(* and pops at the bottom and from whose top any other thread steals.      *)
(* Every operation takes effect in one step.  SwiftDeque is the concurrent *)
(* implementation, and it is shown to implement this module.               *)
(***************************************************************************)
EXTENDS Naturals, Sequences

CONSTANTS
  Frame,     \* the frames that may be pushed, each of them at most once
  Thieves,   \* the threads that steal
  Owner,     \* the thread that pushes and pops
  Capacity   \* how many frames the queue holds

VARIABLES
  queue,     \* the frames in the queue, the oldest (the top) first
  pushed,    \* the frames pushed so far
  taken,     \* taken[f]: how many times f was handed to a caller
  status     \* status[p]: the status code last written for the caller p

vars == <<queue, pushed, taken, status>>

Reply(p, s) == status' = [status EXCEPT ![p] = s]
Take(f)     == taken' = [taken EXCEPT ![f] = @ + 1]

(***************************************************************************)
(* The owner's operations.  A pop that succeeds leaves the status alone.   *)
(***************************************************************************)
Push(f) ==
  /\ f \notin pushed
  /\ Len(queue) < Capacity
  /\ queue' = Append(queue, f)
  /\ pushed' = pushed \union {f}
  /\ Reply(Owner, "SUCCESS")
  /\ UNCHANGED taken

PushFull ==
  /\ Len(queue) = Capacity
  /\ Reply(Owner, "FULL")
  /\ UNCHANGED <<queue, pushed, taken>>

Pop ==
  /\ queue # <<>>
  /\ Take(queue[Len(queue)])
  /\ queue' = SubSeq(queue, 1, Len(queue) - 1)
  /\ UNCHANGED <<pushed, status>>

PopEmpty ==
  /\ queue = <<>>
  /\ Reply(Owner, "EMPTY")
  /\ UNCHANGED <<queue, pushed, taken>>

(***************************************************************************)
(* A thief's operation.  EMPTY may be reported while one last frame is     *)
(* left, for the owner or another thief may be about to take it; it is     *)
(* never reported while two or more frames wait.  ABORT says nothing.      *)
(***************************************************************************)
Steal(p) ==
  /\ queue # <<>>
  /\ Take(Head(queue))
  /\ queue' = Tail(queue)
  /\ Reply(p, "SUCCESS")
  /\ UNCHANGED pushed

StealEmpty(p) ==
  /\ Len(queue) <= 1
  /\ Reply(p, "EMPTY")
  /\ UNCHANGED <<queue, pushed, taken>>

StealAbort(p) ==
  /\ Reply(p, "ABORT")
  /\ UNCHANGED <<queue, pushed, taken>>

Init ==
  /\ queue = <<>>
  /\ pushed = {}
  /\ taken = [f \in Frame |-> 0]
  /\ status = [p \in Thieves \union {Owner} |-> "UNSET"]

Next ==
  \/ \E f \in Frame : Push(f)
  \/ PushFull
  \/ Pop
  \/ PopEmpty
  \/ \E p \in Thieves : Steal(p) \/ StealEmpty(p) \/ StealAbort(p)

Spec == Init /\ [][Next]_vars
=============================================================================
