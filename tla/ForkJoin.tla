------------------------------- MODULE ForkJoin -------------------------------
(***************************************************************************)
(* What the scheduler promises to a program: a tree of frames in which a   *)
(* frame starts once, after the frame that spawned it and, if it awaits    *)
(* data, after the frames that compute it; and in which a frame is         *)
(* complete only after every frame that it synchronises with.  No word of  *)
(* threads, queues or counters.                                            *)
(***************************************************************************)
EXTENDS Naturals

CONSTANTS
  Frame,     \* the frames of the parallel region
  Root,      \* the first one
  Children,  \* Children[f]: the frames f waits for
  Awaited     \* Awaited[f]: the frames whose results f awaits before it starts

VARIABLES
  started,   \* the frames that some thread has begun to execute
  completed, \* the frames that have been executed, with all they wait for
  ended      \* TRUE once the region is declared finished

vars == <<started, completed, ended>>

MayStart(f) ==
  /\ f \notin started
  /\ f = Root \/ \E g \in started \ completed : f \in Children[g]
  /\ Awaited[f] \subseteq completed

Start(f) ==
  /\ MayStart(f)
  /\ started' = started \union {f}
  /\ UNCHANGED <<completed, ended>>

Complete(f) ==
  /\ f \in started \ completed
  /\ Children[f] \subseteq completed
  /\ completed' = completed \union {f}
  /\ UNCHANGED <<started, ended>>

\* the region ends once everything but the root itself is known to be complete
End ==
  /\ Children[Root] \subseteq completed
  /\ Root \in started
  /\ ended' = TRUE
  /\ UNCHANGED <<started, completed>>

Init ==
  /\ started = {}
  /\ completed = {}
  /\ ended = FALSE

Next == (\E f \in Frame : Start(f) \/ Complete(f)) \/ End

Spec == Init /\ [][Next]_vars
=============================================================================
