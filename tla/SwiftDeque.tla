------------------------------ MODULE SwiftDeque ------------------------------
(***************************************************************************)
(* The work-stealing deque of src/swift_deque.c: one owner that pushes and *)
(* pops at the bottom, any number of thieves that steal from the top,      *)
(* synchronised by nothing but a compare-and-swap on q->top.               *)
(*                                                                         *)
(* An action performs at most one access to a location that another thread *)
(* may be writing (top for the owner; top, bottom and elements for a       *)
(* thief), so every interleaving of the shared accesses is a behaviour.    *)
(* Accesses take effect in program order, which is what the barriers of    *)
(* the source ask for; SwiftDequeTSO has the machine reorder them.         *)
(*                                                                         *)
(* The 64-bit indices never wrap and are integers here.  The CAS does not  *)
(* have their width: SWIFT_CAS casts q->top to int* and exchanges the low  *)
(* CasRange (2^32) values of it only.                                      *)
(***************************************************************************)
EXTENDS Integers, Sequences

CONSTANTS
  Frame,     \* the frames the owner may push, each of them at most once
  Uninit,    \* what a slot of q->elements holds before it is first written
  Thieves,   \* the threads that steal
  Owner,     \* the thread that pushes and pops
  Size,      \* q->size; a power of two, so i & q->size_mask is i % Size
  CasRange,  \* number of values SWIFT_CAS tells apart and stores: 2^32
  MaxIndex   \* bound: no push starts once the bottom has reached this index

ASSUME DequeAssumption ==
  /\ Size \in Nat \ {0}
  /\ CasRange \in Nat \ {0}
  /\ MaxIndex \in Nat
  /\ Uninit \notin Frame
  /\ Owner \notin Thieves

VARIABLES
  top, topCached, bottom, elements,  \* the fields of swift_deque
  pc,       \* pc[p]: where caller p is in its call, "idle" between calls
  t,        \* t[p]: the local t of p's call
  b,        \* the local b of the owner's call
  frame,    \* the owner's frame: the argument of push, the result of pop
  ret,      \* ret[p]: the element thief p has read
  status,   \* status[p]: the status code last written for the caller p
  pushed,   \* history: the frames whose push has been published
  taken     \* history: taken[f] counts the pops and steals that returned f

vars == <<top, topCached, bottom, elements, pc, t, b, frame, ret, status,
          pushed, taken>>

Callers  == Thieves \union {Owner}
Element  == Frame \union {Uninit}
SizeMask == Size - 1
Slots    == 0 .. SizeMask

Index(i) == i % Size

(***************************************************************************)
(* SWIFT_CAS(q->top, old, new) on the low CasRange values of top.          *)
(***************************************************************************)
\* Faulty: a plain store in place of the compare-and-swap.
CasAlways(x, old)  == TRUE
\* Faulty: a compare-and-swap that is let fail, as a load-linked/store-conditional.
CasFails(x, old)   == FALSE
CasMatches(x, old) == x % CasRange = old % CasRange
CasStored(x, new)  == x - (x % CasRange) + (new % CasRange)

\* Faulty: one frame too many is let in.
NoRoomLate(bot, tp) == bot < tp \/ bot - tp > SizeMask

\* Faulty: the size is tested, and one off.
NoRoomOverflow(bot, tp) == bot < tp \/ bot - tp > Size

\* b - t >= q->size_mask in unsigned arithmetic: a negative difference is huge
NoRoom(bot, tp) == bot < tp \/ bot - tp >= SizeMask

Goto(p, label)    == pc' = [pc EXCEPT ![p] = label]
Reply(p, s)       == status' = [status EXCEPT ![p] = s]
Take(f)           == taken' = [taken EXCEPT ![f] = @ + 1]
SetTop(p, i)      == t' = [t EXCEPT ![p] = i]
SetRet(p, f)      == ret' = [ret EXCEPT ![p] = f]

\* the call returns and its locals go out of scope
OwnerReturns ==
  /\ Goto(Owner, "idle")
  /\ SetTop(Owner, 0)
  /\ b' = 0
  /\ frame' = Uninit

ThiefReturns(p) ==
  /\ Goto(p, "idle")
  /\ SetTop(p, 0)
  /\ SetRet(p, Uninit)

(***************************************************************************)
(* swift_deque_init                                                        *)
(***************************************************************************)
Init ==
  /\ top = 0
  /\ topCached = 0
  /\ bottom = 0
  /\ elements = [i \in Slots |-> Uninit]
  /\ pc = [p \in Callers |-> "idle"]
  /\ t = [p \in Callers |-> 0]
  /\ b = 0
  /\ frame = Uninit
  /\ ret = [p \in Thieves |-> Uninit]
  /\ status = [p \in Callers |-> "UNSET"]
  /\ pushed = {}
  /\ taken = [f \in Element |-> 0]

(***************************************************************************)
(* swift_deque_push, by the owner                                          *)
(***************************************************************************)
PushBegin(f) ==
  /\ pc[Owner] = "idle"
  /\ f \notin pushed
  /\ bottom < MaxIndex
  /\ b' = bottom
  /\ SetTop(Owner, topCached)
  /\ frame' = f
  /\ Goto(Owner, IF NoRoom(bottom, topCached) THEN "push_reload" ELSE "push_store")
  /\ UNCHANGED <<top, topCached, bottom, elements, ret, status, pushed, taken>>

\* Faulty: the real top is read and the stale one tested.
PushReloadStale ==
  /\ pc[Owner] = "push_reload"
  /\ topCached' = top
  /\ Reply(Owner, "FULL")
  /\ OwnerReturns
  /\ UNCHANGED <<top, bottom, elements, ret, pushed, taken>>

\* the cached top says full: look at the real one
PushReload ==
  /\ pc[Owner] = "push_reload"
  /\ topCached' = top
  /\ \/ /\ NoRoom(b, top)
        /\ Reply(Owner, "FULL")
        /\ OwnerReturns
     \/ /\ ~NoRoom(b, top)
        /\ SetTop(Owner, top)
        /\ Goto(Owner, "push_store")
        /\ UNCHANGED <<b, frame, status>>
  /\ UNCHANGED <<top, bottom, elements, ret, pushed, taken>>

PushStore ==
  /\ pc[Owner] = "push_store"
  /\ elements' = [elements EXCEPT ![Index(b)] = frame]
  /\ Goto(Owner, "push_publish")
  /\ UNCHANGED <<top, topCached, bottom, t, b, frame, ret, status, pushed, taken>>

PushPublish ==
  /\ pc[Owner] = "push_publish"
  /\ bottom' = b + 1
  /\ pushed' = pushed \union {frame}
  /\ Reply(Owner, "SUCCESS")
  /\ OwnerReturns
  /\ UNCHANGED <<top, topCached, elements, ret, taken>>

(***************************************************************************)
(* swift_deque_pop, by the owner                                           *)
(***************************************************************************)
PopBegin ==
  /\ pc[Owner] = "idle"
  /\ b' = bottom - 1
  /\ bottom' = bottom - 1
  /\ Goto(Owner, "pop_read_top")
  /\ UNCHANGED <<top, topCached, elements, t, frame, ret, status, pushed, taken>>

PopReadTop ==
  /\ pc[Owner] = "pop_read_top"
  /\ topCached' = top
  /\ UNCHANGED <<top, bottom, elements, ret, status, pushed>>

\* size < 0
PopNothing ==
  /\ PopReadTop
  /\ b < top
  /\ SetTop(Owner, top)
  /\ Goto(Owner, "pop_restore")
  /\ UNCHANGED <<b, frame, taken>>

\* Faulty: the last element is taken without the CAS.
PopOneUnguarded ==
  /\ PopReadTop
  /\ b >= top
  /\ Take(elements[Index(b)])
  /\ OwnerReturns

\* size > 0: no thief can reach this element, and *status is not written
PopOne ==
  /\ PopReadTop
  /\ b > top
  /\ Take(elements[Index(b)])
  /\ OwnerReturns

\* size = 0: the last element, thieves may be racing for it
PopLast ==
  /\ PopReadTop
  /\ b = top
  /\ SetTop(Owner, top)
  /\ frame' = elements[Index(b)]
  /\ Goto(Owner, "pop_cas")
  /\ UNCHANGED <<b, taken>>

PopRestore ==
  /\ pc[Owner] = "pop_restore"
  /\ bottom' = t[Owner]
  /\ Reply(Owner, "EMPTY")
  /\ OwnerReturns
  /\ UNCHANGED <<top, topCached, elements, ret, pushed, taken>>

PopCas ==
  /\ pc[Owner] = "pop_cas"
  /\ \/ /\ CasMatches(top, t[Owner])
        /\ top' = CasStored(top, t[Owner] + 1)
        /\ Take(frame)
        /\ UNCHANGED status
     \/ /\ ~CasMatches(top, t[Owner])
        /\ Reply(Owner, "EMPTY")
        /\ UNCHANGED <<top, taken>>
  /\ Goto(Owner, "pop_adjust")
  /\ UNCHANGED <<topCached, bottom, elements, t, b, frame, ret, pushed>>

PopAdjust ==
  /\ pc[Owner] = "pop_adjust"
  /\ bottom' = t[Owner] + 1
  /\ topCached' = t[Owner] + 1
  /\ OwnerReturns
  /\ UNCHANGED <<top, elements, ret, status, pushed, taken>>

(***************************************************************************)
(* swift_deque_steal, by thief p                                           *)
(***************************************************************************)
StealReadTop(p) ==
  /\ pc[p] = "idle"
  /\ SetTop(p, top)
  /\ Goto(p, "steal_read_bottom")
  /\ UNCHANGED <<top, topCached, bottom, elements, b, frame, ret, status, pushed, taken>>

\* Faulty: an empty queue passes for one with an element.
NothingToStealStrict(p, bot) == bot - t[p] < 0
NothingToSteal(p, bot)       == bot - t[p] <= 0

\* bot and f are what the loads of bottom and of the element return
StealTest(p, bot) ==
  /\ pc[p] = "steal_read_bottom"
  /\ \/ /\ NothingToSteal(p, bot)
        /\ Reply(p, "EMPTY")
        /\ ThiefReturns(p)
     \/ /\ ~NothingToSteal(p, bot)
        /\ Goto(p, "steal_read_element")
        /\ UNCHANGED <<t, ret, status>>
  /\ UNCHANGED <<top, topCached, bottom, elements, b, frame, pushed, taken>>

StealLoad(p, f) ==
  /\ pc[p] = "steal_read_element"
  /\ SetRet(p, f)
  /\ Goto(p, "steal_cas")
  /\ UNCHANGED <<top, topCached, bottom, elements, t, b, frame, status, pushed, taken>>

StealReadBottom(p)  == StealTest(p, bottom)
StealReadElement(p) == StealLoad(p, elements[Index(t[p])])

StealCas(p) ==
  /\ pc[p] = "steal_cas"
  /\ \/ /\ CasMatches(top, t[p])
        /\ top' = CasStored(top, t[p] + 1)
        /\ Take(ret[p])
        /\ Reply(p, "SUCCESS")
     \/ /\ ~CasMatches(top, t[p])
        /\ Reply(p, "ABORT")
        /\ UNCHANGED <<top, taken>>
  /\ ThiefReturns(p)
  /\ UNCHANGED <<topCached, bottom, elements, b, frame, pushed>>

-----------------------------------------------------------------------------
Push == (\E f \in Frame : PushBegin(f)) \/ PushReload \/ PushStore \/ PushPublish

Pop == PopBegin \/ PopNothing \/ PopOne \/ PopLast \/ PopRestore \/ PopCas \/ PopAdjust

Steal(p) ==
  StealReadTop(p) \/ StealReadBottom(p) \/ StealReadElement(p) \/ StealCas(p)

Next == Push \/ Pop \/ \E p \in Thieves : Steal(p)

Spec == Init /\ [][Next]_vars

-----------------------------------------------------------------------------
(***************************************************************************)
(* Properties                                                              *)
(***************************************************************************)
OwnerLabels ==
  {"idle", "push_reload", "push_store", "push_publish", "pop_read_top",
   "pop_restore", "pop_cas", "pop_adjust"}
ThiefLabels == {"idle", "steal_read_bottom", "steal_read_element", "steal_cas"}
StatusCode  == {"UNSET", "SUCCESS", "EMPTY", "FULL", "ABORT"}

\* Every variable keeps its type: in particular the bottom never falls more
\* than one below the first index, whatever number of pops find nothing.
TypeOK ==
  /\ top \in Nat
  /\ topCached \in Nat
  /\ bottom \in Nat \union {-1}
  /\ elements \in [Slots -> Element]
  /\ pc \in [Callers -> OwnerLabels \union ThiefLabels]
  /\ t \in [Callers -> Nat]
  /\ b \in Nat \union {-1}
  /\ frame \in Element
  /\ ret \in [Thieves -> Element]
  /\ status \in [Callers -> StatusCode]
  /\ pushed \in SUBSET Frame
  /\ taken \in [Element -> Nat]

\* One past the newest frame that is still in the queue.  A pop lowers the
\* bottom before it knows whether it gets anything, so until it does the
\* frame at the bottom still counts.
LogicalBottom ==
  IF pc[Owner] \in {"pop_read_top", "pop_restore", "pop_cas", "pop_adjust"}
  THEN bottom + 1
  ELSE bottom

\* The frames in the queue, the oldest first
Queue == [i \in 1 .. (LogicalBottom - top) |-> elements[Index(top + i - 1)]]

\* The indices stay below the width of the CAS
NoWrap == MaxIndex < CasRange

(***************************************************************************)
(* No frame is handed out twice, whoever races for it: not to two thieves, *)
(* not to a thief and the owner popping the last element, not after its    *)
(* slot was used again.  And no slot is handed out that was never written. *)
(***************************************************************************)
TakenOnce == (\A f \in Frame : taken[f] <= 1) /\ taken[Uninit] = 0

(***************************************************************************)
(* No frame is lost: a frame that was pushed and that nobody got is in the *)
(* window between top and bottom, where a later pop or steal finds it, and *)
(* a frame that somebody got has left it.                                  *)
(***************************************************************************)
NoFrameLost ==
  \A f \in pushed : taken[f] = 0 <=> \E i \in DOMAIN Queue : Queue[i] = f

(***************************************************************************)
(* The element a thief holds when it comes to its CAS is the oldest frame  *)
(* of the queue if the CAS is going to succeed: the owner has not reused   *)
(* the slot and has not popped the element (the comment in                 *)
(* swift_deque_steal on reading the element before the CAS).               *)
(***************************************************************************)
StolenIsOldest ==
  \A p \in Thieves :
    pc[p] = "steal_cas" /\ CasMatches(top, t[p])
      => Queue # <<>> /\ ret[p] = Head(Queue)

\* The queue never holds more than size_mask frames, so that the slot a push
\* writes is never one that a thief may still be reading successfully.
WithinCapacity == top <= LogicalBottom /\ LogicalBottom - top <= SizeMask

(***************************************************************************)
(* The inductive invariant behind the properties above, for indices that   *)
(* stay below the width of the CAS.                                        *)
(***************************************************************************)
Window == top .. (LogicalBottom - 1)
Slot(i) == elements[Index(i)]

IndexInv ==
  /\ topCached <= top
  /\ WithinCapacity
  /\ LogicalBottom <= MaxIndex

\* what the owner's locals say of the shared fields, at each of its labels
OwnerInv ==
  /\ pc[Owner] \in OwnerLabels
  /\ t[Owner] <= top
  /\ pc[Owner] \in {"push_reload", "push_store", "push_publish"} =>
       b = bottom /\ b < MaxIndex /\ frame \in Frame \ pushed
  /\ pc[Owner] \in {"push_store", "push_publish"} => b - top < SizeMask
  /\ pc[Owner] = "push_publish" => frame = Slot(b)
  /\ pc[Owner] = "pop_read_top" => b = bottom
  /\ pc[Owner] = "pop_restore" => t[Owner] = bottom + 1
  /\ pc[Owner] = "pop_cas" => b = bottom /\ t[Owner] = bottom /\ frame = Slot(b)
  /\ pc[Owner] = "pop_adjust" => t[Owner] = bottom /\ top = bottom + 1

\* a thief whose CAS can still succeed has seen a frame that is still there
ThiefOK(p) ==
  /\ pc[p] \in ThiefLabels
  /\ t[p] <= top
  /\ pc[p] \in {"steal_read_element", "steal_cas"} /\ t[p] = top => top < LogicalBottom
  /\ pc[p] = "steal_cas" /\ t[p] = top => ret[p] = Slot(top)

ThiefInv == \A p \in Thieves : ThiefOK(p)

\* the window holds the frames pushed and not taken, each of them once
WindowInv ==
  /\ \A i \in Window : Slot(i) \in pushed /\ taken[Slot(i)] = 0
  /\ \A i, j \in Window : i # j => Slot(i) # Slot(j)
  /\ \A f \in pushed : taken[f] <= 1 /\ (taken[f] = 0 => \E i \in Window : Slot(i) = f)
  /\ \A f \in Element \ pushed : taken[f] = 0

IndInv == TypeOK /\ IndexInv /\ OwnerInv /\ ThiefInv /\ WindowInv

\* q->top only ever increases ("only incremented", include/swift_deque.h:31).
TopOnlyIncremented == [][top' >= top]_top

(***************************************************************************)
(* A steal that is answered with ABORT was overtaken: since it read the    *)
(* top somebody else has taken a frame.  So the loop of swift_get_frame    *)
(* that steals again after ABORT (src/swift_scheduler.c:45) goes round     *)
(* once for every frame that others take, and the deque is lock-free.      *)
(***************************************************************************)
AbortMeansProgress ==
  [][\A p \in Thieves :
       pc[p] = "steal_cas" /\ pc'[p] = "idle" /\ status'[p] = "ABORT" => t[p] < top]_vars

\* Every behaviour of the deque is one of the abstract work queue: the owner
\* pops the newest frame, thieves take the oldest, FULL is reported only when
\* Size - 1 frames wait and EMPTY to the owner only when none does.
WQ == INSTANCE WorkQueue WITH
        queue    <- Queue,
        taken    <- [f \in Frame |-> taken[f]],
        Capacity <- SizeMask

ImplementsWorkQueue == WQ!Spec
=============================================================================
