----------------------------- MODULE StealTarget -----------------------------
(***************************************************************************)
(* swift_get_steal_target: the round robin by which a thread that has no   *)
(* work picks the thread it tries to steal from.                           *)
(*                                                                         *)
(* A thread is known to the round robin by its id, which is an unsigned    *)
(* char (swift_id_t) while thread numbers and targets are unsigned ints.   *)
(***************************************************************************)
EXTENDS Integers

CONSTANTS
  ThreadNum,  \* context->thread_num
  IdRange     \* number of values of a swift_id_t: 256

ASSUME ThreadAssumption ==
  /\ ThreadNum \in Nat \ {0}
  /\ IdRange \in Nat \ {0}

Thread == 0 .. ThreadNum - 1

\* thread->id, as swift_context_init sets it for the p-th thread
Id(p) == p % IdRange

\* Faulty: the thread itself is not skipped.
StealTargetNoSkip(p, last) == (last + 1) % ThreadNum

\* the target after last, for thread p
StealTarget(p, last) ==
  LET r == (last + 1) % ThreadNum
  IN  IF r = Id(p) THEN (r + 1) % ThreadNum ELSE r
=============================================================================
