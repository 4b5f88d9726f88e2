---------------------------- MODULE SwiftDequeTSO ----------------------------
(***************************************************************************)
(* The deque of SwiftDeque as an x86 processor runs it.  The barriers of   *)
(* include/swift_memory.h are empty asm statements: they hold back the     *)
(* compiler and not the processor, whose stores wait in a store buffer     *)
(* while later loads are served from memory (total store order).           *)
(*                                                                         *)
(* Only the owner stores to bottom and elements, so there is one buffer.   *)
(* It drains in order, at any time, and it must be empty when a CAS (a     *)
(* locked instruction) executes; top is written by nothing else.  The      *)
(* owner sees its own buffered stores: the variables bottom and elements   *)
(* of SwiftDeque are what it sees, and memory is what the thieves see.     *)
(***************************************************************************)
EXTENDS SwiftDeque

CONSTANTS
  FenceInPop,  \* FALSE: the code as built; TRUE: swift_memory_write_barrier
               \* in swift_deque_pop waits for the buffer to drain
  BufferSize   \* bound: stores the buffer holds

ASSUME BufferAssumption ==
  /\ FenceInPop \in BOOLEAN
  /\ BufferSize \in Nat \ {0}

VARIABLES
  memory,  \* memory[l]: what memory holds at location l
  buffer   \* the owner's stores that memory has not seen, oldest first

varsTSO == <<vars, memory, buffer>>

\* q->bottom; the location of q->elements[i] is i
AtBottom == -1
Location == Slots \union {AtBottom}

\* what the owner sees at a location
View(l) == IF l = AtBottom THEN bottom ELSE elements[l]

Store(l, v) ==
  /\ Len(buffer) < BufferSize
  /\ buffer' = Append(buffer, [at |-> l, value |-> v])
  /\ UNCHANGED memory

NoStore == UNCHANGED <<memory, buffer>>

\* the oldest store reaches memory
Drain ==
  /\ buffer # <<>>
  /\ memory' = [memory EXCEPT ![Head(buffer).at] = Head(buffer).value]
  /\ buffer' = Tail(buffer)
  /\ UNCHANGED vars

(***************************************************************************)
(* swift_deque_push and swift_deque_pop, with the stores buffered          *)
(***************************************************************************)
PushBeginTSO(f) == PushBegin(f) /\ NoStore
PushReloadTSO   == PushReload /\ NoStore
PushStoreTSO    == PushStore /\ Store(Index(b), frame)
PushPublishTSO  == PushPublish /\ Store(AtBottom, b + 1)

PopBeginTSO == PopBegin /\ Store(AtBottom, bottom - 1)

\* swift_memory_write_barrier; as built it holds nothing back
WriteBarrier == FenceInPop => buffer = <<>>

\* Faulty: the load is not held back (what the code does).
PopReadTopUnfenced == (PopNothing \/ PopOne \/ PopLast) /\ NoStore

\* the load of top: ordered after the store of bottom only by a real fence
PopReadTopTSO ==
  /\ WriteBarrier
  /\ PopNothing \/ PopOne \/ PopLast
  /\ NoStore

\* Faulty: a pop that finds nothing leaves the bottom one lower.
PopRestoreForgotten ==
  /\ pc[Owner] = "pop_restore"
  /\ Reply(Owner, "EMPTY")
  /\ OwnerReturns
  /\ UNCHANGED <<top, topCached, bottom, elements, ret, pushed, taken>>
  /\ NoStore

PopRestoreTSO == PopRestore /\ Store(AtBottom, t[Owner])

\* the locked instruction waits for the buffer
PopCasTSO == PopCas /\ buffer = <<>> /\ NoStore

PopAdjustTSO == PopAdjust /\ Store(AtBottom, t[Owner] + 1)

(***************************************************************************)
(* swift_deque_steal: a thief stores nothing but through its CAS           *)
(***************************************************************************)
StealTSO(p) ==
  /\ \/ StealReadTop(p)
     \/ StealTest(p, memory[AtBottom])
     \/ StealLoad(p, memory[Index(t[p])])
     \/ StealCas(p)
  /\ NoStore

-----------------------------------------------------------------------------
InitTSO ==
  /\ Init
  /\ memory = [l \in Location |-> View(l)]
  /\ buffer = <<>>

PushTSO ==
  \/ \E f \in Frame : PushBeginTSO(f)
  \/ PushReloadTSO
  \/ PushStoreTSO
  \/ PushPublishTSO

PopTSO == PopBeginTSO \/ PopReadTopTSO \/ PopRestoreTSO \/ PopCasTSO \/ PopAdjustTSO

NextTSO == PushTSO \/ PopTSO \/ Drain \/ \E p \in Thieves : StealTSO(p)

SpecTSO == InitTSO /\ [][NextTSO]_varsTSO

-----------------------------------------------------------------------------
(***************************************************************************)
(* The invariant that makes the deque correct on such a processor once pop *)
(* has its fence.  What the owner sees obeys the invariant of SwiftDeque;  *)
(* the rest says how far memory may lag behind it.                         *)
(***************************************************************************)
ValueAt(l) == IF l = AtBottom THEN Nat \union {-1} ELSE Element
Pending    == 1 .. Len(buffer)

StoresOK ==
  /\ memory \in [Location -> Int \union Element]
  /\ \A l \in Location : memory[l] \in ValueAt(l)
  /\ buffer \in Seq([at : Location, value : Int \union Element])
  /\ \A j \in Pending : buffer[j].value \in ValueAt(buffer[j].at)
  /\ Len(buffer) <= BufferSize

\* the owner sees its newest pending store, or else what memory holds
ViewInv ==
  \A l \in Location :
    /\ (\A j \in Pending : buffer[j].at # l) => memory[l] = View(l)
    /\ \A j \in Pending :
         buffer[j].at = l /\ (\A i \in Pending : j < i => buffer[i].at # l)
           => buffer[j].value = View(l)

\* no thief ever sees a bottom beyond the newest frame
BottomInv ==
  /\ memory[AtBottom] <= LogicalBottom
  /\ \A j \in Pending : buffer[j].at = AtBottom => buffer[j].value <= LogicalBottom

\* The store of a frame that is pending is for an index k that no thief knows
\* of yet: every bottom it can read before that store drains is at most k.
ElementInv ==
  \A j \in Pending : buffer[j].at # AtBottom =>
    \E k \in 0 .. MaxIndex :
      /\ Index(k) = buffer[j].at
      /\ k - top < SizeMask
      /\ memory[AtBottom] <= k
      /\ \A i \in Pending : i < j /\ buffer[i].at = AtBottom => buffer[i].value <= k

\* the frame a thief is about to read has reached memory
ReadInv ==
  \A p \in Thieves :
    pc[p] = "steal_read_element" /\ t[p] = top => \A j \in Pending : buffer[j].at # Index(top)

\* the owner decides the fate of the last frame with everything in memory
FencedInv == pc[Owner] \in {"pop_restore", "pop_cas", "pop_adjust"} => buffer = <<>>

FenceInv == IndInv /\ StoresOK /\ ViewInv /\ BottomInv /\ ElementInv /\ ReadInv /\ FencedInv
=============================================================================
