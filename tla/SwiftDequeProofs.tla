--------------------------- MODULE SwiftDequeProofs ---------------------------
(***************************************************************************)
(* Proofs about SwiftDeque, for any number of thieves, any set of frames   *)
(* and any size of the deque, as long as the indices stay below the width  *)
(* of the CAS (NoWrap).                                                    *)
(***************************************************************************)
EXTENDS SwiftDeque, SequenceTheorems, TLAPS

(***************************************************************************)
(* Arithmetic of the circular array                                        *)
(***************************************************************************)
LEMMA DivMod ==
  ASSUME NEW n \in Nat \ {0}, NEW i \in Nat
  PROVE  /\ i \div n \in Nat
         /\ i = n * (i \div n) + (i % n)
OBVIOUS

LEMMA NoMultipleBetween ==
  ASSUME NEW n \in Nat \ {0}, NEW c \in Int, NEW d \in Int, n * c < n * d
  PROVE  n * d - n * c >= n
<1>1. d >= c + 1
  OBVIOUS
<1>2. n * (d - c) >= n * 1
  BY <1>1
<1>. QED
  BY <1>2

\* Two indices less than n apart are at different places modulo n.
LEMMA ModDistinct ==
  ASSUME NEW n \in Nat \ {0}, NEW i \in Nat, NEW j \in Nat, i < j, j - i < n
  PROVE  i % n # j % n
<1>. SUFFICES ASSUME i % n = j % n PROVE FALSE
  OBVIOUS
<1>. DEFINE c == i \div n
            d == j \div n
<1>1. c \in Nat /\ d \in Nat /\ i = n * c + (i % n) /\ j = n * d + (j % n)
  BY DivMod
<1>2. i % n \in Nat
  OBVIOUS
<1>. HIDE DEF c, d
<1>3. n * c \in Nat /\ n * d \in Nat
  BY <1>1
<1>4. n * d - n * c = j - i /\ n * c < n * d
  BY <1>1, <1>2, <1>3
<1>5. n * d - n * c >= n
  BY <1>1, <1>4, NoMultipleBetween
<1>. QED
  BY <1>4, <1>5

\* An index always denotes a slot.
LEMMA IndexInSlots == ASSUME NEW i \in Nat PROVE Index(i) \in Slots
BY DequeAssumption DEF Index, Slots, SizeMask

\* Indices of one window of the deque denote different slots.
LEMMA IndexDistinct ==
  ASSUME NEW i \in Nat, NEW j \in Nat, i # j, i - j < Size, j - i < Size
  PROVE  Index(i) # Index(j)
<1>1. CASE i < j
  BY <1>1, ModDistinct, DequeAssumption DEF Index
<1>2. CASE j < i
  BY <1>2, ModDistinct, DequeAssumption DEF Index
<1>. QED
  BY <1>1, <1>2

\* Below CasRange the 32-bit CAS is an exact one.
LEMMA CasExact ==
  ASSUME NoWrap, NEW x \in Nat, NEW y \in Nat, x <= MaxIndex, y <= MaxIndex
  PROVE  /\ CasMatches(x, y) <=> x = y
         /\ x < MaxIndex => CasStored(x, x + 1) = x + 1
<1>1. CasRange \in Nat \ {0} /\ MaxIndex \in Nat /\ MaxIndex < CasRange
  BY DequeAssumption DEF NoWrap
<1>2. x % CasRange = x /\ y % CasRange = y
  BY <1>1
<1>3. x < MaxIndex => (x + 1) % CasRange = x + 1
  BY <1>1
<1>. QED
  BY <1>2, <1>3 DEF CasMatches, CasStored

-----------------------------------------------------------------------------
(***************************************************************************)
(* What a step may do to the window of the deque                           *)
(***************************************************************************)
LEMMA IndicesAreIntegers ==
  ASSUME TypeOK
  PROVE  /\ LogicalBottom \in Int
         /\ Window \subseteq Nat
         /\ Size \in Nat \ {0} /\ SizeMask \in Nat /\ SizeMask < Size
BY DequeAssumption DEF TypeOK, LogicalBottom, Window, SizeMask

LEMMA SlotIsElement ==
  ASSUME TypeOK, NEW i \in Nat
  PROVE  Slot(i) \in Element
BY IndexInSlots DEF TypeOK, Slot

\* A slot outside the window may be written without disturbing the window.
LEMMA WriteOutsideWindow ==
  ASSUME TypeOK, NEW i \in Window, NEW j \in Nat, j >= LogicalBottom, j - top < Size
  PROVE  Index(i) # Index(j)
<1>1. i \in Nat /\ i < j /\ j - i < Size /\ i - j < Size
  BY IndicesAreIntegers DEF Window, TypeOK
<1>. QED
  BY <1>1, IndexDistinct

\* The window stays as it is.
LEMMA WindowSame ==
  ASSUME WindowInv, Window' = Window, pushed' = pushed, taken' = taken,
         \A i \in Window : Slot(i)' = Slot(i)
  PROVE  WindowInv'
BY DEF WindowInv

\* One frame leaves the window and is handed to whoever took it.
LEMMA WindowTake ==
  ASSUME TypeOK, WindowInv, NEW k \in Window, Window' = Window \ {k},
         elements' = elements, pushed' = pushed, Take(Slot(k))
  PROVE  WindowInv' /\ taken' \in [Element -> Nat]
<1>. DEFINE g == Slot(k)
<1>1. g \in pushed /\ g \in Element /\ taken[g] = 0
  BY DEF WindowInv, TypeOK, Element
<1>2. /\ taken' \in [Element -> Nat]
      /\ taken'[g] = 1
      /\ \A f \in Element : f # g => taken'[f] = taken[f]
  BY <1>1 DEF Take, TypeOK
<1>3. \A i : Slot(i)' = Slot(i)
  BY DEF Slot, Index
<1>4. \A i \in Window' : Slot(i) # g /\ i \in Window
  BY DEF WindowInv
<1>5. pushed \subseteq Element
  BY DEF TypeOK, Element
<1>. HIDE DEF g
<1>6. \A i \in Window' : Slot(i)' \in pushed' /\ taken'[Slot(i)'] = 0
  BY <1>2, <1>3, <1>4, <1>5 DEF WindowInv
<1>7. \A i, j \in Window' : i # j => Slot(i)' # Slot(j)'
  BY <1>3, <1>4 DEF WindowInv
<1>8. ASSUME NEW f \in pushed'
      PROVE  taken'[f] <= 1 /\ (taken'[f] = 0 => \E i \in Window' : Slot(i)' = f)
  <2>1. CASE f = g
    BY <2>1, <1>2
  <2>2. CASE f # g
    <3>1. taken'[f] = taken[f] /\ f \in pushed
      BY <2>2, <1>2, <1>5
    <3>2. taken[f] = 0 => \E i \in Window : Slot(i) = f /\ i # k
      BY <2>2, <3>1 DEF WindowInv, g
    <3>. QED
      BY <3>1, <3>2, <1>3 DEF WindowInv
  <2>. QED
    BY <2>1, <2>2
<1>9. \A f \in (Element \ pushed)' : taken'[f] = 0
  BY <1>1, <1>2 DEF WindowInv, Element
<1>. QED
  BY <1>2, <1>6, <1>7, <1>8, <1>9 DEF WindowInv

\* The frame that was stored above the window joins it.
LEMMA WindowPush ==
  ASSUME TypeOK, WindowInv, NEW k \in Nat, k \notin Window,
         Window' = Window \union {k}, Slot(k) \in Frame \ pushed,
         elements' = elements, pushed' = pushed \union {Slot(k)}, taken' = taken
  PROVE  WindowInv'
<1>1. \A i : Slot(i)' = Slot(i)
  BY DEF Slot, Index
<1>2. taken[Slot(k)] = 0
  BY DEF WindowInv, Element
<1>3. \A i \in Window' : Slot(i)' \in pushed' /\ taken'[Slot(i)'] = 0
  BY <1>1, <1>2 DEF WindowInv
<1>4. \A i, j \in Window' : i # j => Slot(i)' # Slot(j)'
  BY <1>1 DEF WindowInv
<1>5. \A f \in pushed' :
        taken'[f] <= 1 /\ (taken'[f] = 0 => \E i \in Window' : Slot(i)' = f)
  BY <1>1, <1>2 DEF WindowInv
<1>6. \A f \in (Element \ pushed)' : taken'[f] = 0
  BY DEF WindowInv, Element
<1>. QED
  BY <1>3, <1>4, <1>5, <1>6 DEF WindowInv

-----------------------------------------------------------------------------
(***************************************************************************)
(* What a step of one thread leaves alone in the invariants of the others  *)
(***************************************************************************)
\* The owner moves and the oldest frame stays where it is.
LEMMA ThiefSame ==
  ASSUME ThiefInv, top' = top, ret' = ret,
         \A p \in Thieves : pc'[p] = pc[p] /\ t'[p] = t[p],
         top < LogicalBottom => top < LogicalBottom' /\ Slot(top)' = Slot(top)
  PROVE  ThiefInv'
BY DEF ThiefInv, ThiefOK

LEMMA CloserTop ==
  ASSUME NEW i \in Int, NEW j \in Int, NEW k \in Int, NEW n \in Int, j <= k
  PROVE  /\ i - j <= n => i - k <= n
         /\ i - j < n => i - k < n
OBVIOUS

\* A thief moves: the owner's fields stay and top can only go up by one, past
\* a frame that is in the queue.
ThiefStep(p) ==
  /\ UNCHANGED <<topCached, bottom, elements, b, frame, pushed>>
  /\ \A q \in Callers \ {p} :
       pc'[q] = pc[q] /\ t'[q] = t[q] /\ (q # Owner => ret'[q] = ret[q])
  /\ top' = top \/ (top' = top + 1 /\ top < LogicalBottom)

LEMMA OwnerSame ==
  ASSUME TypeOK, IndexInv, OwnerInv, NEW p \in Thieves, ThiefStep(p)
  PROVE  OwnerInv' /\ IndexInv' /\ LogicalBottom' = LogicalBottom
<1>1. pc'[Owner] = pc[Owner] /\ t'[Owner] = t[Owner]
  BY DequeAssumption DEF ThiefStep, Callers
<1>2. LogicalBottom' = LogicalBottom
  BY <1>1 DEF ThiefStep, LogicalBottom
<1>3. /\ top \in Nat /\ top' \in Nat /\ top <= top'
      /\ topCached \in Nat /\ topCached' = topCached
      /\ LogicalBottom \in Int /\ SizeMask \in Nat
  BY IndicesAreIntegers DEF ThiefStep, TypeOK
<1>. top \in Int /\ top' \in Int /\ SizeMask \in Int /\ b \in Int
  BY <1>3 DEF TypeOK
<1>4. IndexInv'
  <2>1. top' <= LogicalBottom
    BY <1>3 DEF IndexInv, WithinCapacity, ThiefStep
  <2>2. LogicalBottom - top' <= SizeMask
    BY <1>3, CloserTop DEF IndexInv, WithinCapacity
  <2>3. topCached' <= top'
    BY <1>3 DEF IndexInv
  <2>. QED
    BY <1>2, <2>1, <2>2, <2>3 DEF IndexInv, WithinCapacity
<1>5. t[Owner] \in Nat
  BY DEF TypeOK, Callers
<1>6. pc[Owner] = "pop_adjust" => top' = top
  BY <1>3 DEF OwnerInv, ThiefStep, LogicalBottom, TypeOK
<1>7. OwnerInv'
  <2>1. t'[Owner] <= top'
    BY <1>1, <1>3, <1>5 DEF OwnerInv
  <2>2. b - top < SizeMask => b - top' < SizeMask
    BY <1>3, CloserTop
  <2>3. Slot(b)' = Slot(b)
    BY DEF ThiefStep, Slot, Index
  <2>. QED
    BY <1>1, <1>6, <2>1, <2>2, <2>3 DEF OwnerInv, ThiefStep
<1>. QED
  BY <1>2, <1>4, <1>7

LEMMA OtherThieves ==
  ASSUME TypeOK, IndexInv, ThiefInv, NEW p \in Thieves, ThiefStep(p),
         LogicalBottom' = LogicalBottom, ThiefOK(p)'
  PROVE  ThiefInv'
<1>. SUFFICES ASSUME NEW q \in Thieves, q # p PROVE ThiefOK(q)'
  BY DEF ThiefInv
<1>1. pc'[q] = pc[q] /\ t'[q] = t[q] /\ ret'[q] = ret[q] /\ t[q] \in Nat
  BY DequeAssumption DEF ThiefStep, Callers, TypeOK
<1>2. CASE top' = top
  BY <1>1, <1>2 DEF ThiefInv, ThiefOK, ThiefStep, Slot, Index
<1>3. CASE top' = top + 1
  BY <1>1, <1>3 DEF ThiefInv, ThiefOK, TypeOK
<1>. QED
  BY <1>2, <1>3 DEF ThiefStep

-----------------------------------------------------------------------------
(***************************************************************************)
(* The steps of the owner                                                  *)
(***************************************************************************)
\* What the helpers do to the entries of the caller and of the others.
LEMMA GotoEffect ==
  ASSUME TypeOK, NEW p \in Callers, NEW l, Goto(p, l)
  PROVE  pc'[p] = l /\ \A q \in Callers \ {p} : pc'[q] = pc[q]
BY DEF TypeOK, Goto

LEMMA SetTopEffect ==
  ASSUME TypeOK, NEW p \in Callers, NEW i, SetTop(p, i)
  PROVE  t'[p] = i /\ \A q \in Callers \ {p} : t'[q] = t[q]
BY DEF TypeOK, SetTop

LEMMA Actors == Owner \in Callers /\ Thieves \subseteq Callers \ {Owner}
BY DequeAssumption DEF Callers

LEMMA OwnerReturnsEffect ==
  ASSUME TypeOK, OwnerReturns
  PROVE  /\ pc'[Owner] = "idle" /\ t'[Owner] = 0 /\ b' = 0 /\ frame' = Uninit
         /\ \A p \in Thieves : pc'[p] = pc[p] /\ t'[p] = t[p]
         /\ pc' \in [Callers -> OwnerLabels \union ThiefLabels]
         /\ t' \in [Callers -> Nat] /\ b' \in Nat /\ frame' \in Element
BY GotoEffect, SetTopEffect, Actors
DEF OwnerReturns, Goto, SetTop, TypeOK, Element, OwnerLabels

LEMMA PushBeginStep ==
  ASSUME IndInv, NEW f \in Frame, PushBegin(f)
  PROVE  IndInv'
<1>. USE DEF IndInv
<1>1. TypeOK'
  BY DEF PushBegin, TypeOK, Goto, SetTop, Callers, OwnerLabels, Element
<1>2. /\ pc[Owner] = "idle"
      /\ pc'[Owner] = IF NoRoom(bottom, topCached) THEN "push_reload" ELSE "push_store"
      /\ t'[Owner] = topCached
      /\ \A p \in Thieves : pc'[p] = pc[p] /\ t'[p] = t[p]
  BY GotoEffect, SetTopEffect, Actors DEF PushBegin
<1>3. LogicalBottom' = LogicalBottom /\ LogicalBottom = bottom
  BY <1>2 DEF PushBegin, LogicalBottom
<1>4. IndexInv'
  BY <1>3 DEF PushBegin, IndexInv, WithinCapacity
<1>5. OwnerInv'
  <2>1. ~NoRoom(bottom, topCached) => bottom - top < SizeMask
    BY IndicesAreIntegers DEF NoRoom, IndexInv, TypeOK
  <2>. QED
    BY <1>2, <2>1 DEF PushBegin, OwnerInv, IndexInv, OwnerLabels
<1>6. ThiefInv'
  BY <1>2, <1>3, ThiefSame DEF PushBegin, Slot, Index
<1>7. WindowInv'
  BY <1>3, WindowSame DEF PushBegin, Window, Slot, Index
<1>. QED
  BY <1>1, <1>4, <1>5, <1>6, <1>7

LEMMA PushReloadStep ==
  ASSUME IndInv, PushReload
  PROVE  IndInv'
<1>. USE DEF IndInv
<1>1. pc[Owner] = "push_reload" /\ topCached' = top
      /\ UNCHANGED <<top, bottom, elements, ret, pushed, taken>>
  BY DEF PushReload
<1>2. CASE Reply(Owner, "FULL") /\ OwnerReturns
  <2>1. TypeOK'
    BY <1>1, <1>2, OwnerReturnsEffect DEF TypeOK, Reply, StatusCode
  <2>2. LogicalBottom' = LogicalBottom
    BY <1>1, <1>2, OwnerReturnsEffect DEF LogicalBottom
  <2>3. IndexInv'
    BY <1>1, <2>2 DEF IndexInv, WithinCapacity, TypeOK
  <2>4. OwnerInv'
    BY <1>1, <1>2, OwnerReturnsEffect DEF OwnerInv, TypeOK, OwnerLabels
  <2>5. ThiefInv'
    BY <1>1, <1>2, <2>2, OwnerReturnsEffect, ThiefSame DEF Slot, Index
  <2>6. WindowInv'
    BY <1>1, <2>2, WindowSame DEF Window, Slot, Index
  <2>. QED
    BY <2>1, <2>3, <2>4, <2>5, <2>6
<1>3. CASE /\ ~NoRoom(b, top)
           /\ SetTop(Owner, top)
           /\ Goto(Owner, "push_store")
           /\ UNCHANGED <<b, frame, status>>
  <2>1. TypeOK'
    BY <1>1, <1>3 DEF TypeOK, SetTop, Goto, Callers, OwnerLabels
  <2>2. /\ pc'[Owner] = "push_store" /\ t'[Owner] = top
        /\ \A p \in Thieves : pc'[p] = pc[p] /\ t'[p] = t[p]
    BY <1>3, GotoEffect, SetTopEffect, Actors
  <2>3. LogicalBottom' = LogicalBottom
    BY <1>1, <2>2 DEF LogicalBottom
  <2>4. IndexInv'
    BY <1>1, <2>3 DEF IndexInv, WithinCapacity, TypeOK
  <2>5. OwnerInv'
    <3>1. b - top < SizeMask
      BY <1>3, IndicesAreIntegers DEF NoRoom, TypeOK
    <3>. QED
      BY <1>1, <1>3, <2>2, <3>1 DEF OwnerInv, OwnerLabels, TypeOK
  <2>6. ThiefInv'
    BY <1>1, <2>2, <2>3, ThiefSame DEF Slot, Index
  <2>7. WindowInv'
    BY <1>1, <2>3, WindowSame DEF Window, Slot, Index
  <2>. QED
    BY <2>1, <2>4, <2>5, <2>6, <2>7
<1>. QED
  BY <1>2, <1>3 DEF PushReload

LEMMA PushStoreStep ==
  ASSUME IndInv, PushStore
  PROVE  IndInv'
<1>. USE DEF IndInv
<1>1. /\ pc[Owner] = "push_store" /\ b = bottom /\ b \in Nat /\ frame \in Frame \ pushed
      /\ b - top < SizeMask
      /\ pc'[Owner] = "push_publish"
      /\ \A p \in Thieves : pc'[p] = pc[p]
      /\ LogicalBottom = bottom /\ top <= bottom
  BY GotoEffect, Actors DEF PushStore, OwnerInv, LogicalBottom, TypeOK, IndexInv, WithinCapacity
<1>2. TypeOK'
  BY <1>1, IndexInSlots DEF PushStore, TypeOK, Goto, Callers, OwnerLabels
<1>3. LogicalBottom' = LogicalBottom /\ Window' = Window
  BY <1>1 DEF PushStore, LogicalBottom, Window
<1>4. Slot(b)' = frame
  BY <1>1, IndexInSlots DEF PushStore, TypeOK, Slot, Index
<1>5. ASSUME NEW i \in Window PROVE Slot(i)' = Slot(i)
  <2>1. b - top < Size
    BY <1>1, IndicesAreIntegers DEF TypeOK
  <2>2. Index(i) # Index(b)
    BY <1>1, <2>1, WriteOutsideWindow
  <2>3. i \in Nat /\ Index(i) \in Slots
    BY IndicesAreIntegers, IndexInSlots
  <2>. QED
    BY <2>2, <2>3 DEF PushStore, TypeOK, Slot, Index
<1>6. IndexInv'
  BY <1>3 DEF PushStore, IndexInv, WithinCapacity
<1>7. OwnerInv'
  BY <1>1, <1>4 DEF PushStore, OwnerInv, OwnerLabels
<1>8. ThiefInv'
  <2>1. top < LogicalBottom => top \in Window
    BY IndicesAreIntegers DEF Window, TypeOK
  <2>2. top < LogicalBottom => Slot(top)' = Slot(top)
    BY <2>1, <1>5 DEF PushStore, Slot, Index
  <2>. QED
    BY <1>1, <1>3, <2>2, ThiefSame DEF PushStore
<1>9. WindowInv'
  BY <1>3, <1>5, WindowSame DEF PushStore
<1>. QED
  BY <1>2, <1>6, <1>7, <1>8, <1>9

LEMMA PushPublishStep ==
  ASSUME IndInv, PushPublish
  PROVE  IndInv'
<1>. USE DEF IndInv
<1>1. /\ pc[Owner] = "push_publish" /\ b = bottom /\ b \in Nat /\ bottom' = b + 1
      /\ b < MaxIndex /\ b - top < SizeMask /\ LogicalBottom = bottom
      /\ Slot(b) = frame /\ frame \in Frame \ pushed
      /\ top' = top /\ topCached' = topCached /\ top \in Nat
      /\ UNCHANGED <<elements, ret, taken>>
  BY DEF PushPublish, OwnerInv, TypeOK, LogicalBottom, IndexInv, WithinCapacity
<1>2. TypeOK'
  BY <1>1, OwnerReturnsEffect, Actors DEF PushPublish, TypeOK, Reply, StatusCode
<1>3. LogicalBottom' = b + 1
  BY <1>1, OwnerReturnsEffect DEF PushPublish, LogicalBottom
<1>4. IndexInv'
  <2>1. b + 1 - top <= SizeMask /\ top <= b + 1 /\ b + 1 <= MaxIndex
    BY <1>1, IndicesAreIntegers, DequeAssumption DEF IndexInv, WithinCapacity
  <2>. QED
    BY <1>1, <1>3, <2>1 DEF IndexInv, WithinCapacity
<1>5. OwnerInv'
  BY <1>1, OwnerReturnsEffect DEF PushPublish, OwnerInv, OwnerLabels
<1>6. ThiefInv'
  BY <1>1, <1>3, OwnerReturnsEffect, ThiefSame DEF PushPublish, Slot, Index
<1>7. WindowInv'
  <2>1. b \notin Window /\ Window' = Window \union {b}
    BY <1>1, <1>3 DEF Window, IndexInv, WithinCapacity
  <2>. QED
    BY <1>1, <2>1, WindowPush DEF PushPublish
<1>. QED
  BY <1>2, <1>4, <1>5, <1>6, <1>7

LEMMA PopBeginStep ==
  ASSUME IndInv, PopBegin
  PROVE  IndInv'
<1>. USE DEF IndInv
<1>1. /\ pc[Owner] = "idle" /\ bottom \in Nat /\ LogicalBottom = bottom
      /\ bottom' = bottom - 1 /\ b' = bottom - 1
      /\ pc'[Owner] = "pop_read_top"
      /\ \A p \in Thieves : pc'[p] = pc[p]
  BY GotoEffect, Actors DEF PopBegin, TypeOK, LogicalBottom, IndexInv, WithinCapacity
<1>2. TypeOK'
  BY <1>1 DEF PopBegin, TypeOK, Goto, Callers, OwnerLabels
<1>3. LogicalBottom' = LogicalBottom
  BY <1>1 DEF LogicalBottom
<1>4. IndexInv'
  BY <1>3 DEF PopBegin, IndexInv, WithinCapacity
<1>5. OwnerInv'
  BY <1>1 DEF PopBegin, OwnerInv, OwnerLabels
<1>6. ThiefInv'
  BY <1>1, <1>3, ThiefSame DEF PopBegin, Slot, Index
<1>7. WindowInv'
  BY <1>3, WindowSame DEF PopBegin, Window, Slot, Index
<1>. QED
  BY <1>2, <1>4, <1>5, <1>6, <1>7

\* What the three outcomes of reading top share.
LEMMA PopReadTopFacts ==
  ASSUME IndInv, PopReadTop
  PROVE  /\ pc[Owner] = "pop_read_top" /\ b = bottom /\ LogicalBottom = bottom + 1
         /\ top' = top /\ topCached' = top
         /\ bottom \in Int /\ top \in Nat /\ top <= bottom + 1
         /\ UNCHANGED <<bottom, elements, ret, status, pushed>>
BY DEF IndInv, PopReadTop, OwnerInv, TypeOK, LogicalBottom, IndexInv, WithinCapacity

LEMMA PopNothingStep ==
  ASSUME IndInv, PopNothing
  PROVE  IndInv'
<1>. USE DEF IndInv
<1>1. /\ pc'[Owner] = "pop_restore" /\ t'[Owner] = top
      /\ \A p \in Thieves : pc'[p] = pc[p] /\ t'[p] = t[p]
  BY GotoEffect, SetTopEffect, Actors DEF PopNothing
<1>2. TypeOK'
  BY PopReadTopFacts DEF PopNothing, TypeOK, Goto, SetTop, Callers, OwnerLabels
<1>3. LogicalBottom' = LogicalBottom
  BY <1>1, PopReadTopFacts DEF PopNothing, LogicalBottom
<1>4. IndexInv'
  BY <1>3, PopReadTopFacts DEF PopNothing, IndexInv, WithinCapacity
<1>5. OwnerInv'
  BY <1>1, PopReadTopFacts DEF PopNothing, OwnerInv, OwnerLabels
<1>6. ThiefInv'
  BY <1>1, <1>3, PopReadTopFacts, ThiefSame DEF PopNothing, Slot, Index
<1>7. WindowInv'
  BY <1>3, PopReadTopFacts, WindowSame DEF PopNothing, Window, Slot, Index
<1>. QED
  BY <1>2, <1>4, <1>5, <1>6, <1>7

LEMMA PopOneStep ==
  ASSUME IndInv, PopOne
  PROVE  IndInv'
<1>. USE DEF IndInv
<1>1. b \in Window /\ Take(Slot(b)) /\ OwnerReturns /\ top < b /\ PopReadTop
  BY PopReadTopFacts DEF PopOne, Window, Slot
<1>2. LogicalBottom' = bottom
  BY <1>1, OwnerReturnsEffect, PopReadTopFacts DEF LogicalBottom
<1>3. Window' = Window \ {b}
  BY <1>1, <1>2, PopReadTopFacts DEF Window
<1>4. WindowInv' /\ taken' \in [Element -> Nat]
  BY <1>1, <1>3, PopReadTopFacts, WindowTake
<1>5. TypeOK'
  BY <1>1, <1>4, OwnerReturnsEffect, PopReadTopFacts DEF TypeOK
<1>6. IndexInv'
  <2>1. bottom - top <= SizeMask /\ bottom <= MaxIndex /\ top <= bottom
    BY <1>1, PopReadTopFacts, IndicesAreIntegers, DequeAssumption DEF IndexInv, WithinCapacity
  <2>2. top' = top /\ topCached' = top /\ top <= top
    BY <1>1, PopReadTopFacts
  <2>. QED
    BY <1>2, <2>1, <2>2 DEF IndexInv, WithinCapacity
<1>7. OwnerInv'
  BY <1>1, OwnerReturnsEffect, PopReadTopFacts DEF OwnerInv, OwnerLabels
<1>8. ThiefInv'
  BY <1>1, <1>2, OwnerReturnsEffect, PopReadTopFacts, ThiefSame DEF Slot, Index
<1>. QED
  BY <1>4, <1>5, <1>6, <1>7, <1>8

LEMMA PopLastStep ==
  ASSUME IndInv, PopLast
  PROVE  IndInv'
<1>. USE DEF IndInv
<1>1. /\ pc'[Owner] = "pop_cas" /\ t'[Owner] = top /\ frame' = Slot(b) /\ b = top
      /\ \A p \in Thieves : pc'[p] = pc[p] /\ t'[p] = t[p]
  BY GotoEffect, SetTopEffect, Actors DEF PopLast, Slot
<1>2. frame' \in Element
  BY <1>1, PopReadTopFacts, SlotIsElement DEF PopLast
<1>3. TypeOK'
  BY <1>2, PopReadTopFacts DEF PopLast, TypeOK, Goto, SetTop, Callers, OwnerLabels
<1>4. LogicalBottom' = LogicalBottom
  BY <1>1, PopReadTopFacts DEF PopLast, LogicalBottom
<1>5. IndexInv'
  BY <1>4, PopReadTopFacts DEF PopLast, IndexInv, WithinCapacity
<1>6. OwnerInv'
  BY <1>1, PopReadTopFacts DEF PopLast, OwnerInv, OwnerLabels, Slot, Index
<1>7. ThiefInv'
  BY <1>1, <1>4, PopReadTopFacts, ThiefSame DEF PopLast, Slot, Index
<1>8. WindowInv'
  BY <1>4, PopReadTopFacts, WindowSame DEF PopLast, Window, Slot, Index
<1>. QED
  BY <1>3, <1>5, <1>6, <1>7, <1>8

LEMMA PopRestoreStep ==
  ASSUME IndInv, PopRestore
  PROVE  IndInv'
<1>. USE DEF IndInv
<1>1. /\ pc[Owner] = "pop_restore" /\ bottom' = bottom + 1 /\ bottom' \in Nat
      /\ LogicalBottom = bottom + 1
      /\ OwnerReturns
      /\ UNCHANGED <<top, topCached, elements, ret, pushed, taken>>
  BY Actors DEF PopRestore, OwnerInv, LogicalBottom, TypeOK
<1>2. TypeOK'
  BY <1>1, OwnerReturnsEffect, Actors DEF PopRestore, TypeOK, Reply, StatusCode
<1>3. LogicalBottom' = LogicalBottom
  BY <1>1, OwnerReturnsEffect DEF LogicalBottom
<1>4. IndexInv'
  BY <1>1, <1>3 DEF IndexInv, WithinCapacity
<1>5. OwnerInv'
  BY <1>1, OwnerReturnsEffect DEF OwnerInv, OwnerLabels, TypeOK
<1>6. ThiefInv'
  BY <1>1, <1>3, OwnerReturnsEffect, ThiefSame DEF Slot, Index
<1>7. WindowInv'
  BY <1>1, <1>3, WindowSame DEF Window, Slot, Index
<1>. QED
  BY <1>2, <1>4, <1>5, <1>6, <1>7

LEMMA PopCasStep ==
  ASSUME NoWrap, IndInv, PopCas
  PROVE  IndInv'
<1>. USE DEF IndInv
<1>1. /\ pc[Owner] = "pop_cas" /\ t[Owner] = bottom /\ b = bottom /\ frame = Slot(bottom)
      /\ LogicalBottom = bottom + 1 /\ bottom \in Nat /\ bottom < MaxIndex
      /\ top \in Nat /\ top <= bottom + 1
      /\ pc'[Owner] = "pop_adjust"
      /\ \A p \in Thieves : pc'[p] = pc[p]
      /\ UNCHANGED <<topCached, bottom, elements, t, b, frame, ret, pushed>>
  BY GotoEffect, Actors, DequeAssumption
  DEF PopCas, OwnerInv, LogicalBottom, TypeOK, IndexInv, WithinCapacity
<1>2. /\ CasMatches(top, t[Owner]) <=> top = bottom
      /\ CasStored(bottom, bottom + 1) = bottom + 1
  BY <1>1, CasExact, DequeAssumption DEF IndexInv
<1>3. LogicalBottom' = LogicalBottom
  BY <1>1 DEF LogicalBottom
<1>4. pc' \in [Callers -> OwnerLabels \union ThiefLabels]
  BY DEF PopCas, TypeOK, Goto, OwnerLabels
<1>5. CASE top = bottom /\ top' = bottom + 1 /\ Take(frame) /\ UNCHANGED status
  <2>1. bottom \in Window /\ Window' = Window \ {bottom}
    BY <1>1, <1>3, <1>5 DEF Window
  <2>2. WindowInv' /\ taken' \in [Element -> Nat]
    BY <1>1, <1>5, <2>1, WindowTake
  <2>3. TypeOK'
    BY <1>1, <1>4, <1>5, <2>2 DEF TypeOK
  <2>4. IndexInv'
    BY <1>1, <1>3, <1>5, IndicesAreIntegers DEF IndexInv, WithinCapacity, TypeOK
  <2>5. OwnerInv'
    BY <1>1, <1>5 DEF OwnerInv, OwnerLabels
  <2>6. ThiefInv'
    <3>. SUFFICES ASSUME NEW p \in Thieves PROVE ThiefOK(p)'
      BY DEF ThiefInv
    <3>1. t[p] \in Nat /\ t[p] <= bottom /\ pc[p] \in ThiefLabels
      BY <1>5, Actors DEF ThiefInv, ThiefOK, TypeOK
    <3>2. t'[p] <= top' /\ t'[p] # top'
      BY <1>1, <1>5, <3>1
    <3>. QED
      BY <1>1, <3>1, <3>2 DEF ThiefOK
  <2>. QED
    BY <2>2, <2>3, <2>4, <2>5, <2>6
<1>6. CASE top # bottom /\ Reply(Owner, "EMPTY") /\ UNCHANGED <<top, taken>>
  <2>1. TypeOK'
    BY <1>1, <1>4, <1>6, Actors DEF TypeOK, Reply, StatusCode
  <2>2. top = bottom + 1
    <3>1. t[Owner] <= top
      BY DEF OwnerInv
    <3>. QED
      BY <1>1, <1>6, <3>1
  <2>3. IndexInv'
    BY <1>1, <1>3, <1>6 DEF IndexInv, WithinCapacity
  <2>4. OwnerInv'
    BY <1>1, <1>6, <2>2 DEF OwnerInv, OwnerLabels
  <2>5. ThiefInv'
    BY <1>1, <1>3, <1>6, ThiefSame DEF Slot, Index
  <2>6. WindowInv'
    BY <1>1, <1>3, <1>6, WindowSame DEF Window, Slot, Index
  <2>. QED
    BY <2>1, <2>3, <2>4, <2>5, <2>6
<1>. QED
  BY <1>1, <1>2, <1>5, <1>6 DEF PopCas

LEMMA PopAdjustStep ==
  ASSUME IndInv, PopAdjust
  PROVE  IndInv'
<1>. USE DEF IndInv
<1>1. /\ pc[Owner] = "pop_adjust" /\ bottom' = bottom + 1 /\ topCached' = bottom + 1
      /\ top = bottom + 1 /\ bottom' \in Nat /\ LogicalBottom = bottom + 1
      /\ OwnerReturns
      /\ UNCHANGED <<top, elements, ret, status, pushed, taken>>
  BY Actors DEF PopAdjust, OwnerInv, LogicalBottom, TypeOK
<1>2. TypeOK'
  BY <1>1, OwnerReturnsEffect DEF TypeOK
<1>3. LogicalBottom' = LogicalBottom
  BY <1>1, OwnerReturnsEffect DEF LogicalBottom
<1>4. IndexInv'
  BY <1>1, <1>3 DEF IndexInv, WithinCapacity, TypeOK
<1>5. OwnerInv'
  BY <1>1, OwnerReturnsEffect DEF OwnerInv, OwnerLabels, TypeOK
<1>6. ThiefInv'
  BY <1>1, <1>3, OwnerReturnsEffect, ThiefSame DEF Slot, Index
<1>7. WindowInv'
  BY <1>1, <1>3, WindowSame DEF Window, Slot, Index
<1>. QED
  BY <1>2, <1>4, <1>5, <1>6, <1>7

-----------------------------------------------------------------------------
(***************************************************************************)
(* The steps of a thief                                                    *)
(***************************************************************************)
LEMMA ThiefReturnsEffect ==
  ASSUME TypeOK, NEW p \in Thieves, ThiefReturns(p)
  PROVE  /\ pc'[p] = "idle" /\ t'[p] = 0
         /\ \A q \in Callers \ {p} :
              pc'[q] = pc[q] /\ t'[q] = t[q] /\ (q # Owner => ret'[q] = ret[q])
         /\ pc' \in [Callers -> OwnerLabels \union ThiefLabels]
         /\ t' \in [Callers -> Nat] /\ ret' \in [Thieves -> Element]
<1>1. p \in Callers
  BY Actors
<1>2. \A q \in Callers \ {p} : q # Owner => ret'[q] = ret[q]
  BY DEF ThiefReturns, SetRet, TypeOK, Callers
<1>3. ret' \in [Thieves -> Element]
  BY DEF ThiefReturns, SetRet, TypeOK, Element
<1>4. pc' \in [Callers -> OwnerLabels \union ThiefLabels] /\ t' \in [Callers -> Nat]
  BY <1>1 DEF ThiefReturns, Goto, SetTop, TypeOK, OwnerLabels
<1>. QED
  BY <1>1, <1>2, <1>3, <1>4, GotoEffect, SetTopEffect DEF ThiefReturns

LEMMA StealReadTopStep ==
  ASSUME IndInv, NEW p \in Thieves, StealReadTop(p)
  PROVE  IndInv'
<1>. USE DEF IndInv
<1>1. /\ pc'[p] = "steal_read_bottom" /\ t'[p] = top
      /\ \A q \in Callers \ {p} : pc'[q] = pc[q] /\ t'[q] = t[q]
  BY GotoEffect, SetTopEffect, Actors DEF StealReadTop
<1>2. TypeOK'
  BY Actors DEF StealReadTop, TypeOK, Goto, SetTop, ThiefLabels
<1>3. ThiefStep(p)
  BY <1>1 DEF StealReadTop, ThiefStep
<1>4. OwnerInv' /\ IndexInv' /\ LogicalBottom' = LogicalBottom
  BY <1>3, OwnerSame
<1>5. ThiefOK(p)'
  BY <1>1 DEF StealReadTop, ThiefOK, ThiefLabels, TypeOK
<1>6. ThiefInv'
  BY <1>3, <1>4, <1>5, OtherThieves
<1>7. WindowInv'
  BY <1>4, WindowSame DEF StealReadTop, Window, Slot, Index
<1>. QED
  BY <1>2, <1>4, <1>6, <1>7

\* Whatever bottom the thief reads, it must not be beyond the newest frame.
LEMMA StealTestStep ==
  ASSUME IndInv, NEW p \in Thieves, NEW bot \in Int, bot <= LogicalBottom, StealTest(p, bot)
  PROVE  IndInv'
<1>. USE DEF IndInv
<1>1. /\ pc[p] = "steal_read_bottom"
      /\ UNCHANGED <<top, topCached, bottom, elements, b, frame, pushed, taken>>
  BY DEF StealTest
<1>2. CASE Reply(p, "EMPTY") /\ ThiefReturns(p)
  <2>1. TypeOK'
    BY <1>1, <1>2, ThiefReturnsEffect, Actors DEF TypeOK, Reply, StatusCode
  <2>2. ThiefStep(p)
    BY <1>1, <1>2, ThiefReturnsEffect DEF ThiefStep
  <2>3. OwnerInv' /\ IndexInv' /\ LogicalBottom' = LogicalBottom
    BY <2>2, OwnerSame
  <2>4. ThiefOK(p)'
    BY <1>1, <1>2, ThiefReturnsEffect DEF ThiefOK, ThiefLabels, TypeOK
  <2>5. ThiefInv'
    BY <2>2, <2>3, <2>4, OtherThieves
  <2>6. WindowInv'
    BY <1>1, <2>3, WindowSame DEF Window, Slot, Index
  <2>. QED
    BY <2>1, <2>3, <2>5, <2>6
<1>3. CASE /\ ~NothingToSteal(p, bot)
           /\ Goto(p, "steal_read_element")
           /\ UNCHANGED <<t, ret, status>>
  <2>1. /\ pc'[p] = "steal_read_element"
        /\ \A q \in Callers \ {p} : pc'[q] = pc[q]
    BY <1>3, GotoEffect, Actors
  <2>2. TypeOK'
    BY <1>1, <1>3, Actors DEF TypeOK, Goto, ThiefLabels
  <2>3. ThiefStep(p)
    BY <1>1, <1>3, <2>1 DEF ThiefStep
  <2>4. OwnerInv' /\ IndexInv' /\ LogicalBottom' = LogicalBottom
    BY <2>3, OwnerSame
  <2>5. ThiefOK(p)'
    <3>1. t[p] <= top /\ t[p] \in Nat
      BY Actors DEF ThiefInv, ThiefOK, TypeOK
    <3>2. LogicalBottom \in Int
      BY IndicesAreIntegers
    <3>3. t[p] = top => top < LogicalBottom
      BY <1>3, <3>1, <3>2 DEF NothingToSteal
    <3>. QED
      BY <1>1, <1>3, <2>1, <2>4, <3>1, <3>3 DEF ThiefOK, ThiefLabels
  <2>6. ThiefInv'
    BY <2>3, <2>4, <2>5, OtherThieves
  <2>7. WindowInv'
    BY <1>1, <2>4, WindowSame DEF Window, Slot, Index
  <2>. QED
    BY <2>2, <2>4, <2>6, <2>7
<1>. QED
  BY <1>2, <1>3 DEF StealTest

\* Whatever element the thief reads, it must be the oldest frame if top has
\* not moved.
LEMMA StealLoadStep ==
  ASSUME IndInv, NEW p \in Thieves, NEW f \in Element, t[p] = top => f = Slot(top),
         StealLoad(p, f)
  PROVE  IndInv'
<1>. USE DEF IndInv
<1>1. /\ pc[p] = "steal_read_element" /\ pc'[p] = "steal_cas"
      /\ \A q \in Callers \ {p} : pc'[q] = pc[q]
      /\ t[p] \in Nat /\ ret'[p] = f
      /\ \A q \in Thieves \ {p} : ret'[q] = ret[q]
      /\ UNCHANGED <<top, topCached, bottom, elements, t, b, frame, status, pushed, taken>>
  BY GotoEffect, Actors DEF StealLoad, SetRet, TypeOK
<1>2. TypeOK'
  <2>1. ret' \in [Thieves -> Element]
    BY DEF StealLoad, SetRet, TypeOK
  <2>. QED
    BY <1>1, <2>1, Actors DEF StealLoad, TypeOK, Goto, ThiefLabels
<1>3. ThiefStep(p)
  BY <1>1 DEF ThiefStep, Callers
<1>4. OwnerInv' /\ IndexInv' /\ LogicalBottom' = LogicalBottom
  BY <1>3, OwnerSame
<1>5. ThiefOK(p)'
  BY <1>1, <1>4 DEF ThiefInv, ThiefOK, ThiefLabels, Slot, Index
<1>6. ThiefInv'
  BY <1>3, <1>4, <1>5, OtherThieves
<1>7. WindowInv'
  BY <1>1, <1>4, WindowSame DEF Window, Slot, Index
<1>. QED
  BY <1>2, <1>4, <1>6, <1>7

\* In SwiftDeque the thief reads what the owner last wrote.
LEMMA StealReadBottomStep ==
  ASSUME IndInv, NEW p \in Thieves, StealReadBottom(p)
  PROVE  IndInv'
<1>1. bottom \in Int /\ bottom <= LogicalBottom
  BY DEF IndInv, TypeOK, LogicalBottom
<1>. QED
  BY <1>1, StealTestStep DEF StealReadBottom

LEMMA StealReadElementStep ==
  ASSUME IndInv, NEW p \in Thieves, StealReadElement(p)
  PROVE  IndInv'
<1>1. t[p] \in Nat
  BY Actors DEF IndInv, TypeOK
<1>2. Slot(t[p]) \in Element
  BY <1>1, SlotIsElement DEF IndInv
<1>. QED
  BY <1>2, StealLoadStep DEF StealReadElement, Slot

LEMMA StealCasStep ==
  ASSUME NoWrap, IndInv, NEW p \in Thieves, StealCas(p)
  PROVE  IndInv'
<1>. USE DEF IndInv
<1>1. /\ pc[p] = "steal_cas" /\ ThiefReturns(p)
      /\ UNCHANGED <<topCached, bottom, elements, b, frame, pushed>>
  BY DEF StealCas
<1>2. /\ top \in Nat /\ t[p] \in Nat /\ t[p] <= top /\ LogicalBottom \in Int
      /\ t[p] = top => top < LogicalBottom /\ ret[p] = Slot(top)
      /\ top <= LogicalBottom /\ LogicalBottom <= MaxIndex /\ MaxIndex \in Nat
  BY <1>1, Actors, IndicesAreIntegers, DequeAssumption
  DEF ThiefInv, ThiefOK, TypeOK, IndexInv, WithinCapacity
<1>3. /\ CasMatches(top, t[p]) <=> top = t[p]
      /\ top < LogicalBottom => CasStored(top, top + 1) = top + 1
  BY <1>2, CasExact
<1>4. CASE top = t[p] /\ top' = top + 1 /\ Take(ret[p]) /\ Reply(p, "SUCCESS")
  <2>1. ThiefStep(p)
    BY <1>1, <1>2, <1>4, ThiefReturnsEffect DEF ThiefStep
  <2>2. OwnerInv' /\ IndexInv' /\ LogicalBottom' = LogicalBottom
    BY <2>1, OwnerSame
  <2>3. top \in Window /\ Window' = Window \ {top}
    BY <1>2, <1>4, <2>2 DEF Window
  <2>4. WindowInv' /\ taken' \in [Element -> Nat]
    BY <1>1, <1>2, <1>4, <2>3, WindowTake
  <2>5. TypeOK'
    BY <1>1, <1>4, <2>4, ThiefReturnsEffect, Actors DEF TypeOK, Reply, StatusCode
  <2>6. ThiefOK(p)'
    BY <1>1, <1>2, <1>4, ThiefReturnsEffect DEF ThiefOK, ThiefLabels
  <2>7. ThiefInv'
    BY <2>1, <2>2, <2>6, OtherThieves
  <2>. QED
    BY <2>2, <2>4, <2>5, <2>7
<1>5. CASE top # t[p] /\ Reply(p, "ABORT") /\ UNCHANGED <<top, taken>>
  <2>1. ThiefStep(p)
    BY <1>1, <1>5, ThiefReturnsEffect DEF ThiefStep
  <2>2. OwnerInv' /\ IndexInv' /\ LogicalBottom' = LogicalBottom
    BY <2>1, OwnerSame
  <2>3. TypeOK'
    BY <1>1, <1>5, ThiefReturnsEffect, Actors DEF TypeOK, Reply, StatusCode
  <2>4. ThiefOK(p)'
    BY <1>1, <1>2, <1>5, ThiefReturnsEffect DEF ThiefOK, ThiefLabels
  <2>5. ThiefInv'
    BY <2>1, <2>2, <2>4, OtherThieves
  <2>6. WindowInv'
    BY <1>1, <1>5, <2>2, WindowSame DEF Window, Slot, Index
  <2>. QED
    BY <2>2, <2>3, <2>5, <2>6
<1>. QED
  BY <1>3, <1>2, <1>4, <1>5 DEF StealCas

-----------------------------------------------------------------------------
(***************************************************************************)
(* The invariant holds initially, and every step keeps it.                 *)
(***************************************************************************)
LEMMA InitIndInv == Init => IndInv
<1>. SUFFICES ASSUME Init PROVE IndInv
  OBVIOUS
<1>1. TypeOK
  BY DequeAssumption
  DEF Init, TypeOK, Slots, SizeMask, Element, Callers, OwnerLabels, ThiefLabels, StatusCode
<1>2. LogicalBottom = 0 /\ Window = {}
  BY Actors DEF Init, LogicalBottom, Window
<1>3. IndexInv
  BY <1>2, DequeAssumption DEF Init, IndexInv, WithinCapacity, SizeMask
<1>4. OwnerInv
  BY Actors DEF Init, OwnerInv, OwnerLabels
<1>5. ThiefInv
  BY Actors DEF Init, ThiefInv, ThiefOK, ThiefLabels
<1>6. WindowInv
  BY <1>2 DEF Init, WindowInv
<1>. QED
  BY <1>1, <1>3, <1>4, <1>5, <1>6 DEF IndInv

LEMMA NextIndInv == NoWrap /\ IndInv /\ [Next]_vars => IndInv'
<1>. SUFFICES ASSUME NoWrap, IndInv, [Next]_vars PROVE IndInv'
  OBVIOUS
<1>1. ASSUME Push PROVE IndInv'
  BY <1>1, PushBeginStep, PushReloadStep, PushStoreStep, PushPublishStep DEF Push
<1>2. ASSUME Pop PROVE IndInv'
  BY <1>2, PopBeginStep, PopNothingStep, PopOneStep, PopLastStep, PopRestoreStep,
     PopCasStep, PopAdjustStep DEF Pop
<1>3. ASSUME NEW p \in Thieves, Steal(p) PROVE IndInv'
  BY <1>3, StealReadTopStep, StealReadBottomStep, StealReadElementStep, StealCasStep
  DEF Steal
<1>4. CASE UNCHANGED vars
  BY <1>4 DEF vars, IndInv, TypeOK, IndexInv, WithinCapacity, OwnerInv, ThiefInv,
     ThiefOK, WindowInv, Window, LogicalBottom, Slot, Index
<1>. QED
  BY <1>1, <1>2, <1>3, <1>4 DEF Next

(***************************************************************************)
(* What the invariant says of the deque, whoever keeps it                  *)
(***************************************************************************)
LEMMA InvTakenOnce == IndInv => TakenOnce
<1>. SUFFICES ASSUME IndInv PROVE TakenOnce
  OBVIOUS
<1>1. Uninit \in Element \ pushed
  BY DequeAssumption DEF IndInv, TypeOK, Element
<1>2. \A f \in Frame : taken[f] <= 1
  BY DEF IndInv, TypeOK, Element, WindowInv
<1>. QED
  BY <1>1, <1>2 DEF TakenOnce, IndInv, WindowInv

LEMMA InvNoFrameLost == IndInv => NoFrameLost
<1>. SUFFICES ASSUME IndInv, NEW f \in pushed
              PROVE  taken[f] = 0 <=> \E k \in DOMAIN Queue : Queue[k] = f
  BY DEF NoFrameLost
<1>. LogicalBottom \in Int /\ top \in Nat
  BY IndicesAreIntegers DEF IndInv, TypeOK
<1>1. ASSUME NEW i \in Window PROVE i - top + 1 \in DOMAIN Queue /\ Queue[i - top + 1] = Slot(i)
  <2>1. i - top + 1 \in 1 .. (LogicalBottom - top)
    BY DEF Window
  <2>2. top + (i - top + 1) - 1 = i
    BY DEF Window
  <2>. QED
    BY <2>1, <2>2 DEF Queue, Slot
<1>2. ASSUME NEW k \in DOMAIN Queue PROVE top + k - 1 \in Window /\ Queue[k] = Slot(top + k - 1)
  BY DEF Queue, Window, Slot
<1>. QED
  BY <1>1, <1>2 DEF IndInv, WindowInv

LEMMA InvStolenIsOldest == NoWrap /\ IndInv => StolenIsOldest
<1>. SUFFICES ASSUME NoWrap, IndInv, NEW p \in Thieves, pc[p] = "steal_cas", CasMatches(top, t[p])
              PROVE  Queue # <<>> /\ ret[p] = Head(Queue)
  BY DEF StolenIsOldest
<1>1. /\ top \in Nat /\ t[p] \in Nat /\ t[p] <= top /\ top <= MaxIndex
      /\ LogicalBottom \in Int /\ MaxIndex \in Nat
  BY Actors, IndicesAreIntegers, DequeAssumption
  DEF IndInv, TypeOK, ThiefInv, ThiefOK, IndexInv, WithinCapacity
<1>2. t[p] = top
  BY <1>1, CasExact
<1>3. top < LogicalBottom /\ ret[p] = Slot(top)
  BY <1>2 DEF IndInv, ThiefInv, ThiefOK
<1>4. 1 \in DOMAIN Queue /\ Queue[1] = Slot(top)
  BY <1>1, <1>3 DEF Queue, Slot
<1>5. DOMAIN <<>> = {}
  OBVIOUS
<1>. QED
  BY <1>3, <1>4, <1>5

\* A compare-and-swap moves top by one, or not at all.
LEMMA PopCasTop ==
  ASSUME NoWrap, IndInv, PopCas
  PROVE  top' = top \/ top' = top + 1
<1>. SUFFICES ASSUME CasMatches(top, t[Owner]), top' = CasStored(top, t[Owner] + 1)
              PROVE  top' = top + 1
  BY DEF PopCas
<1>1. /\ top \in Nat /\ top <= MaxIndex /\ t[Owner] \in Nat /\ t[Owner] < MaxIndex
      /\ MaxIndex \in Nat
  BY Actors, IndicesAreIntegers, DequeAssumption
  DEF PopCas, IndInv, TypeOK, OwnerInv, IndexInv, WithinCapacity, LogicalBottom
<1>2. top = t[Owner]
  BY <1>1, CasExact
<1>. QED
  BY <1>1, <1>2, CasExact

LEMMA StealCasTop ==
  ASSUME NoWrap, IndInv, NEW p \in Thieves, StealCas(p)
  PROVE  top' = top \/ top' = top + 1
<1>. SUFFICES ASSUME CasMatches(top, t[p]), top' = CasStored(top, t[p] + 1)
              PROVE  top' = top + 1
  BY DEF StealCas
<1>1. /\ top \in Nat /\ t[p] \in Nat /\ t[p] <= top
      /\ t[p] = top => top < LogicalBottom
      /\ top <= MaxIndex /\ LogicalBottom <= MaxIndex /\ MaxIndex \in Nat
      /\ LogicalBottom \in Int
  BY Actors, IndicesAreIntegers, DequeAssumption
  DEF StealCas, IndInv, TypeOK, ThiefInv, ThiefOK, IndexInv, WithinCapacity
<1>2. t[p] = top /\ top < MaxIndex
  BY <1>1, CasExact
<1>. QED
  BY <1>1, <1>2, CasExact

-----------------------------------------------------------------------------
(***************************************************************************)
(* The inductive invariant is an invariant of the deque: whatever calls    *)
(* the owner and the thieves make, and however their accesses to top,      *)
(* bottom and elements interleave.                                         *)
(***************************************************************************)
THEOREM DequeInvariant == NoWrap => (Spec => []IndInv)
<1>. SUFFICES ASSUME NoWrap PROVE Spec => []IndInv
  OBVIOUS
<1>1. IndInv /\ [Next]_vars => IndInv'
  BY NextIndInv
<1>. QED
  BY InitIndInv, <1>1, PTL DEF Spec

(***************************************************************************)
(* Type correctness of swift_deque: the indices stay non-negative but for  *)
(* the bottom of a queue that pop finds empty before its first push.       *)
(***************************************************************************)
THEOREM TypeCorrect == NoWrap => (Spec => []TypeOK)
<1>1. IndInv => TypeOK
  BY DEF IndInv
<1>. QED
  BY <1>1, DequeInvariant, PTL

(***************************************************************************)
(* No frame is handed out twice by swift_deque_pop and swift_deque_steal.  *)
(***************************************************************************)
THEOREM TakenAtMostOnce == NoWrap => (Spec => []TakenOnce)
BY InvTakenOnce, DequeInvariant, PTL

(***************************************************************************)
(* No pushed frame is lost: as long as nobody got it it is in the queue.   *)
(***************************************************************************)
THEOREM FramesAreKept == NoWrap => (Spec => []NoFrameLost)
BY InvNoFrameLost, DequeInvariant, PTL

(***************************************************************************)
(* What a thief holds when its CAS is going to succeed is the oldest frame *)
(* of the queue, although it was read before the CAS and without a lock.   *)
(***************************************************************************)
THEOREM StolenFrameIsOldest == NoWrap => (Spec => []StolenIsOldest)
<1>. SUFFICES ASSUME NoWrap PROVE Spec => []StolenIsOldest
  OBVIOUS
<1>1. IndInv => StolenIsOldest
  BY InvStolenIsOldest
<1>. QED
  BY <1>1, DequeInvariant, PTL

(***************************************************************************)
(* q->top only ever increases, as include/swift_deque.h promises.          *)
(***************************************************************************)
THEOREM TopIncreases == NoWrap => (Spec => TopOnlyIncremented)
<1>. SUFFICES ASSUME NoWrap PROVE Spec => TopOnlyIncremented
  OBVIOUS
<1>1. IndInv /\ [Next]_vars => [top' >= top]_top
  <2>. SUFFICES ASSUME IndInv, [Next]_vars, top' # top PROVE top' >= top
    OBVIOUS
  <2>1. CASE PopCas
    BY <2>1, PopCasTop DEF IndInv, TypeOK
  <2>2. ASSUME NEW p \in Thieves, StealCas(p) PROVE top' >= top
    BY <2>2, StealCasTop DEF IndInv, TypeOK
  <2>. QED
    BY <2>1, <2>2
    DEF Next, Push, Pop, Steal, vars, PushBegin, PushReload, PushStore, PushPublish,
        PopBegin, PopReadTop, PopNothing, PopOne, PopLast, PopRestore, PopAdjust,
        StealReadTop, StealReadBottom, StealTest, StealReadElement, StealLoad
<1>. QED
  BY <1>1, DequeInvariant, PTL DEF Spec, TopOnlyIncremented

(***************************************************************************)
(* A steal that gives up was overtaken by another taker of a frame.        *)
(***************************************************************************)
THEOREM OvertakenWhenAborted == NoWrap => (Spec => AbortMeansProgress)
<1>. SUFFICES ASSUME NoWrap PROVE Spec => AbortMeansProgress
  OBVIOUS
<1>. DEFINE A == \A p \in Thieves :
       pc[p] = "steal_cas" /\ pc'[p] = "idle" /\ status'[p] = "ABORT" => t[p] < top
<1>1. IndInv /\ [Next]_vars => [A]_vars
  <2>. SUFFICES ASSUME IndInv, Next, NEW p \in Thieves,
                       pc[p] = "steal_cas", pc'[p] = "idle", status'[p] = "ABORT"
                PROVE  t[p] < top
    OBVIOUS
  <2>1. t[p] \in Nat /\ top \in Nat /\ t[p] <= top /\ pc \in [Callers -> OwnerLabels \union ThiefLabels]
        /\ status \in [Callers -> StatusCode] /\ p \in Callers /\ p # Owner
    BY Actors DEF IndInv, TypeOK, ThiefInv, ThiefOK
  <2>2. CASE Push
    BY <2>1, <2>2 DEF Push, PushBegin, PushReload, PushStore, PushPublish, Goto, OwnerReturns
  <2>3. CASE Pop
    BY <2>1, <2>3
    DEF Pop, PopBegin, PopReadTop, PopNothing, PopOne, PopLast, PopRestore, PopCas, PopAdjust,
        Goto, OwnerReturns
  <2>4. ASSUME NEW q \in Thieves, Steal(q), q # p PROVE FALSE
    <3>1. pc'[p] = pc[p]
      BY <2>1, <2>4
      DEF Steal, StealReadTop, StealReadBottom, StealTest, StealReadElement, StealLoad,
          StealCas, Goto, ThiefReturns
    <3>. QED
      BY <3>1
  <2>5. CASE Steal(p)
    <3>1. StealCas(p)
      BY <2>5
      DEF Steal, StealReadTop, StealReadBottom, StealTest, StealReadElement, StealLoad
    <3>2. status'[p] = "SUCCESS" \/ ~CasMatches(top, t[p])
      BY <2>1, <3>1 DEF StealCas, Reply
    <3>3. t[p] # top
      BY <3>2 DEF CasMatches
    <3>. QED
      BY <2>1, <3>3
  <2>. QED
    BY <2>2, <2>3, <2>4, <2>5 DEF Next
<1>. QED
  BY <1>1, DequeInvariant, PTL DEF Spec, AbortMeansProgress

-----------------------------------------------------------------------------
(***************************************************************************)
(* The deque implements the work queue of WorkQueue: a step that moves top *)
(* or the logical bottom is an operation of the work queue, and every      *)
(* other step leaves the queue as it is.                                   *)
(***************************************************************************)
QueueFacts ==
  /\ LogicalBottom \in Int /\ top \in Nat /\ top <= LogicalBottom
  /\ LogicalBottom - top <= SizeMask /\ SizeMask \in Nat
  /\ Queue \in Seq(Frame)
  /\ Len(Queue) = LogicalBottom - top
  /\ \A i \in 1 .. (LogicalBottom - top) : Queue[i] = Slot(top + i - 1)

LEMMA QueueOfWindow == IndInv => QueueFacts
<1>. SUFFICES ASSUME IndInv PROVE QueueFacts
  OBVIOUS
<1>1. /\ LogicalBottom \in Int /\ top \in Nat /\ top <= LogicalBottom
      /\ LogicalBottom - top <= SizeMask /\ SizeMask \in Nat
  BY IndicesAreIntegers DEF IndInv, TypeOK, IndexInv, WithinCapacity
<1>2. \A i \in 1 .. (LogicalBottom - top) : top + i - 1 \in Window
  BY <1>1 DEF Window
<1>3. \A i \in Window : Slot(i) \in Frame
  BY DEF IndInv, WindowInv, TypeOK
<1>4. LogicalBottom - top \in Nat
  BY <1>1
<1>5. Queue = [i \in 1 .. (LogicalBottom - top) |-> Slot(top + i - 1)]
  BY DEF Queue, Slot
<1>6. \A i \in 1 .. (LogicalBottom - top) : Queue[i] = Slot(top + i - 1)
  BY <1>5
<1>7. Queue \in Seq(Frame) /\ Len(Queue) = LogicalBottom - top
  <2>1. Queue \in [1 .. (LogicalBottom - top) -> Frame]
    BY <1>2, <1>3, <1>5
  <2>. QED
    BY <1>4, <2>1
<1>. QED
  BY <1>1, <1>6, <1>7 DEF QueueFacts

\* A step that keeps both ends and the slots between them keeps the queue.
LEMMA QueueSame ==
  ASSUME top' = top, LogicalBottom' = LogicalBottom,
         \A i \in Window : Slot(i)' = Slot(i), QueueFacts
  PROVE  Queue' = Queue
<1>1. \A i \in 1 .. (LogicalBottom - top) : top + i - 1 \in Window
  BY DEF Window, QueueFacts
<1>3. Queue = [i \in 1 .. (LogicalBottom - top) |-> elements[Index(top + i - 1)]]
  BY DEF Queue
<1>4. Queue' = [i \in 1 .. (LogicalBottom - top) |-> elements'[Index(top + i - 1)]]
  BY DEF Queue, Index
<1>5. \A i \in Window : elements'[Index(i)] = elements[Index(i)]
  BY DEF Slot, Index
<1>. QED
  BY <1>1, <1>3, <1>4, <1>5

\* The queue after a push, a pop and a steal
LEMMA QueueAppend ==
  ASSUME QueueFacts, QueueFacts', top' = top, LogicalBottom' = LogicalBottom + 1,
         elements' = elements, Slot(LogicalBottom) \in Frame
  PROVE  Queue' = Append(Queue, Slot(LogicalBottom))
<1>. DEFINE q == Append(Queue, Slot(LogicalBottom))
<1>1. /\ q \in Seq(Frame) /\ Len(q) = Len(Queue) + 1
      /\ \A i \in 1 .. Len(Queue) : q[i] = Queue[i]
      /\ q[Len(Queue) + 1] = Slot(LogicalBottom)
  BY AppendProperties DEF QueueFacts
<1>2. /\ Queue' \in Seq(Frame) /\ Len(Queue') = LogicalBottom + 1 - top
      /\ \A i \in 1 .. (LogicalBottom + 1 - top) : Queue'[i] = Slot(top + i - 1)'
  BY DEF QueueFacts
<1>3. \A i : Slot(i)' = Slot(i)
  BY DEF Slot, Index
<1>4. /\ LogicalBottom \in Int /\ top \in Nat /\ top <= LogicalBottom
      /\ Len(Queue) = LogicalBottom - top
      /\ \A i \in 1 .. (LogicalBottom - top) : Queue[i] = Slot(top + i - 1)
  BY DEF QueueFacts
<1>. HIDE DEF q
<1>5. ASSUME NEW i \in 1 .. Len(Queue') PROVE Queue'[i] = q[i]
  <2>1. CASE i \in 1 .. Len(Queue)
    BY <2>1, <1>1, <1>2, <1>3, <1>4
  <2>2. CASE i = Len(Queue) + 1
    <3>1. top + i - 1 = LogicalBottom
      BY <2>2, <1>4
    <3>. QED
      BY <2>2, <3>1, <1>1, <1>2, <1>3, <1>4
  <2>. QED
    BY <2>1, <2>2, <1>2, <1>4
<1>6. Len(Queue') = Len(q)
  BY <1>1, <1>2, <1>4
<1>. QED
  BY <1>1, <1>2, <1>5, <1>6, SeqEqual DEF q

LEMMA QueueWithoutLast ==
  ASSUME QueueFacts, QueueFacts', top' = top, LogicalBottom' = LogicalBottom - 1,
         elements' = elements
  PROVE  /\ Queue # <<>>
         /\ Queue[Len(Queue)] = Slot(LogicalBottom - 1)
         /\ Queue' = SubSeq(Queue, 1, Len(Queue) - 1)
<1>. DEFINE q == SubSeq(Queue, 1, Len(Queue) - 1)
<1>1. /\ Queue' \in Seq(Frame) /\ Len(Queue') = LogicalBottom - 1 - top
      /\ \A i \in 1 .. (LogicalBottom - 1 - top) : Queue'[i] = Slot(top + i - 1)'
      /\ top <= LogicalBottom - 1
  BY DEF QueueFacts
<1>2. \A i : Slot(i)' = Slot(i)
  BY DEF Slot, Index
<1>3. /\ LogicalBottom \in Int /\ top \in Nat /\ top <= LogicalBottom
      /\ Len(Queue) = LogicalBottom - top /\ Queue \in Seq(Frame)
      /\ \A i \in 1 .. (LogicalBottom - top) : Queue[i] = Slot(top + i - 1)
  BY DEF QueueFacts
<1>4. Len(Queue) \in Nat \ {0} /\ Queue # <<>>
  BY <1>1, <1>3
<1>5. Queue[Len(Queue)] = Slot(LogicalBottom - 1)
  <2>1. top + Len(Queue) - 1 = LogicalBottom - 1 /\ Len(Queue) \in 1 .. (LogicalBottom - top)
    BY <1>3, <1>4
  <2>. QED
    BY <1>3, <2>1
<1>6. \A i \in 1 .. (Len(Queue) - 1) : Queue[i] \in Frame
  BY <1>3, <1>4, ElementOfSeq
<1>7. /\ q \in Seq(Frame)
      /\ Len(q) = Len(Queue) - 1
      /\ \A i \in 1 .. (Len(Queue) - 1) : q[i] = Queue[i]
  <2>1. /\ q \in Seq(Frame)
        /\ Len(q) = IF 1 <= Len(Queue) - 1 THEN (Len(Queue) - 1) - 1 + 1 ELSE 0
        /\ \A i \in 1 .. ((Len(Queue) - 1) - 1 + 1) : q[i] = Queue[1 + i - 1]
    <3>. DEFINE m == Len(Queue) - 1
    <3>1. m \in Int /\ \A i \in 1 .. m : Queue[i] \in Frame
      BY <1>4, <1>6
    <3>. HIDE DEF m
    <3>2. /\ SubSeq(Queue, 1, m) \in Seq(Frame)
          /\ Len(SubSeq(Queue, 1, m)) = IF 1 <= m THEN m - 1 + 1 ELSE 0
          /\ \A i \in 1 .. (m - 1 + 1) : SubSeq(Queue, 1, m)[i] = Queue[1 + i - 1]
      BY <3>1, SubSeqProperties
    <3>. QED
      BY <3>2 DEF m
  <2>2. \A i \in 1 .. (Len(Queue) - 1) : 1 + i - 1 = i /\ i \in 1 .. ((Len(Queue) - 1) - 1 + 1)
    BY <1>4
  <2>. HIDE DEF q
  <2>3. Len(q) = Len(Queue) - 1
    <3>1. \A n \in Nat \ {0} : (IF 1 <= n - 1 THEN (n - 1) - 1 + 1 ELSE 0) = n - 1
      OBVIOUS
    <3>. QED
      BY <1>4, <2>1, <3>1
  <2>. QED
    BY <2>1, <2>2, <2>3
<1>. HIDE DEF q
<1>8. \A i \in 1 .. Len(Queue') : Queue'[i] = q[i]
  BY <1>1, <1>2, <1>3, <1>7
<1>. QED
  BY <1>1, <1>3, <1>4, <1>5, <1>7, <1>8, SeqEqual DEF q

LEMMA QueueWithoutFirst ==
  ASSUME QueueFacts, QueueFacts', top' = top + 1, LogicalBottom' = LogicalBottom,
         elements' = elements
  PROVE  /\ Queue # <<>>
         /\ Head(Queue) = Slot(top)
         /\ Queue' = Tail(Queue)
<1>1. /\ Queue' \in Seq(Frame) /\ Len(Queue') = LogicalBottom - (top + 1)
      /\ \A i \in 1 .. (LogicalBottom - (top + 1)) : Queue'[i] = elements[Index(top + 1 + i - 1)]
      /\ top + 1 <= LogicalBottom
  BY DEF QueueFacts, Slot, Index
<1>3. /\ LogicalBottom \in Int /\ top \in Nat /\ top <= LogicalBottom
      /\ Len(Queue) = LogicalBottom - top /\ Queue \in Seq(Frame)
      /\ \A i \in 1 .. (LogicalBottom - top) : Queue[i] = Slot(top + i - 1)
  BY DEF QueueFacts
<1>4. Len(Queue) \in Nat \ {0} /\ Queue # <<>>
  BY <1>1, <1>3
<1>5. Head(Queue) = Slot(top)
  <2>1. 1 \in 1 .. (LogicalBottom - top) /\ top + 1 - 1 = top
    BY <1>1, <1>3
  <2>. QED
    BY <1>3, <1>4, <2>1
<1>6. /\ Tail(Queue) \in Seq(Frame)
      /\ Len(Tail(Queue)) = Len(Queue) - 1
      /\ \A i \in 1 .. Len(Tail(Queue)) : Tail(Queue)[i] = Queue[i + 1]
  BY <1>3, <1>4, HeadTailProperties
<1>7. ASSUME NEW i \in 1 .. Len(Queue') PROVE Queue'[i] = Tail(Queue)[i]
  <2>1. i \in 1 .. (LogicalBottom - (top + 1)) /\ i + 1 \in 1 .. (LogicalBottom - top)
        /\ i \in 1 .. Len(Tail(Queue))
    BY <1>1, <1>3, <1>6
  <2>2. Queue'[i] = Slot(top + 1 + i - 1)
    BY <1>1, <2>1 DEF Slot
  <2>3. Tail(Queue)[i] = Slot(top + (i + 1) - 1)
    BY <1>3, <1>6, <2>1
  <2>4. top + 1 + i - 1 = top + (i + 1) - 1
    BY <1>3, <2>1
  <2>. QED
    BY <2>2, <2>3, <2>4
<1>8. Len(Queue') = Len(Tail(Queue))
  BY <1>1, <1>3, <1>6
<1>. QED
  BY <1>1, <1>4, <1>5, <1>6, <1>7, <1>8, SeqEqual

\* A frame handed out is handed out in the work queue.
LEMMA TakeIsAbstract ==
  ASSUME TypeOK, NEW f \in Frame, Take(f)
  PROVE  [g \in Frame |-> taken[g]]'
           = [[g \in Frame |-> taken[g]] EXCEPT ![f] = @ + 1]
<1>1. taken \in [Element -> Nat] /\ Frame \subseteq Element
  BY DEF TypeOK, Element
<1>2. taken' = [taken EXCEPT ![f] = @ + 1]
  BY DEF Take
<1>. QED
  BY <1>1, <1>2

\* Nothing that the work queue shows changes.
Stutter == UNCHANGED <<top, LogicalBottom, pushed, taken, status>>
             /\ \A i \in Window : Slot(i)' = Slot(i)

LEMMA StutterIsAbstract ==
  ASSUME QueueFacts, Stutter
  PROVE  UNCHANGED WQ!vars
BY QueueSame DEF Stutter, WQ!vars

\* The steps of a push: the one that publishes the frame is the push.
LEMMA PushImplements ==
  ASSUME IndInv, IndInv', QueueFacts, QueueFacts', Push
  PROVE  [WQ!Next]_(WQ!vars)
<1>. USE DEF IndInv
<1>1. ASSUME NEW f \in Frame, PushBegin(f) PROVE Stutter
  <2>1. LogicalBottom' = LogicalBottom
    BY <1>1, GotoEffect, Actors DEF PushBegin, LogicalBottom
  <2>. QED
    BY <1>1, <2>1 DEF PushBegin, Stutter, Slot, Index
<1>2. CASE PushReload
  <2>1. /\ pc[Owner] = "push_reload" /\ b = bottom
        /\ UNCHANGED <<top, bottom, elements, ret, pushed, taken>>
    BY <1>2 DEF PushReload, OwnerInv
  <2>2. CASE NoRoom(b, top) /\ Reply(Owner, "FULL") /\ OwnerReturns
    <3>1. LogicalBottom' = LogicalBottom /\ LogicalBottom = b
      BY <2>1, <2>2, OwnerReturnsEffect DEF LogicalBottom
    <3>2. Len(Queue) = SizeMask
      BY <2>2, <3>1 DEF NoRoom, QueueFacts
    <3>3. Queue' = Queue
      BY <2>1, <3>1, QueueSame DEF Slot, Index
    <3>4. WQ!Reply(Owner, "FULL")
      BY <2>2 DEF Reply, WQ!Reply
    <3>. QED
      BY <2>1, <3>2, <3>3, <3>4 DEF WQ!PushFull, WQ!Next
  <2>3. CASE Goto(Owner, "push_store") /\ UNCHANGED status
    <3>1. LogicalBottom' = LogicalBottom
      BY <2>1, <2>3, GotoEffect, Actors DEF LogicalBottom
    <3>. QED
      BY <2>1, <2>3, <3>1, StutterIsAbstract DEF Stutter, Slot, Index
  <2>. QED
    BY <1>2, <2>2, <2>3 DEF PushReload
<1>3. CASE PushStore
  <2>1. /\ pc[Owner] = "push_store" /\ b = bottom /\ b \in Nat /\ b - top < SizeMask
        /\ LogicalBottom = bottom
    BY <1>3 DEF PushStore, OwnerInv, LogicalBottom, TypeOK, IndexInv, WithinCapacity
  <2>2. LogicalBottom' = LogicalBottom
    BY <1>3, <2>1, GotoEffect, Actors DEF PushStore, LogicalBottom
  <2>3. b - top < Size
    BY <2>1, IndicesAreIntegers DEF TypeOK
  <2>4. ASSUME NEW i \in Window PROVE Slot(i)' = Slot(i)
    <3>1. Index(i) # Index(b)
      BY <2>1, <2>3, WriteOutsideWindow
    <3>2. i \in Nat /\ Index(i) \in Slots
      BY IndicesAreIntegers, IndexInSlots
    <3>. QED
      BY <1>3, <3>1, <3>2 DEF PushStore, TypeOK, Slot, Index
  <2>. QED
    BY <1>3, <2>2, <2>4, StutterIsAbstract DEF PushStore, Stutter
<1>4. CASE PushPublish
  <2>1. /\ pc[Owner] = "push_publish" /\ b = bottom /\ b - top < SizeMask
        /\ frame = Slot(b) /\ frame \in Frame \ pushed /\ LogicalBottom = bottom
        /\ bottom' = b + 1 /\ pushed' = pushed \union {frame}
        /\ UNCHANGED <<top, elements, taken>>
    BY <1>4 DEF PushPublish, OwnerInv, LogicalBottom
  <2>2. LogicalBottom' = LogicalBottom + 1
    BY <1>4, <2>1, OwnerReturnsEffect DEF PushPublish, LogicalBottom
  <2>3. Queue' = Append(Queue, frame)
    BY <2>1, <2>2, QueueAppend
  <2>4. Len(Queue) < SizeMask
    BY <2>1 DEF QueueFacts
  <2>5. WQ!Reply(Owner, "SUCCESS")
    BY <1>4 DEF PushPublish, Reply, WQ!Reply
  <2>6. WQ!Push(frame)
    BY <2>1, <2>3, <2>4, <2>5 DEF WQ!Push
  <2>. QED
    BY <2>1, <2>6 DEF WQ!Next
<1>. QED
  BY <1>1, <1>2, <1>3, <1>4, StutterIsAbstract DEF Push

\* The steps of a pop: it takes effect when the owner sees that two frames
\* are left, at its CAS, or when it sees an empty queue.
LEMMA PopImplements ==
  ASSUME NoWrap, IndInv, IndInv', QueueFacts, QueueFacts', Pop
  PROVE  [WQ!Next]_(WQ!vars)
<1>. USE DEF IndInv
<1>1. CASE PopBegin
  <2>1. LogicalBottom' = LogicalBottom
    BY <1>1, GotoEffect, Actors DEF PopBegin, LogicalBottom, TypeOK
  <2>. QED
    BY <1>1, <2>1, StutterIsAbstract DEF PopBegin, Stutter, Slot, Index
<1>2. CASE PopNothing
  <2>1. LogicalBottom' = LogicalBottom
    BY <1>2, PopReadTopFacts, GotoEffect, Actors DEF PopNothing, LogicalBottom
  <2>. QED
    BY <1>2, <2>1, PopReadTopFacts, StutterIsAbstract DEF PopNothing, Stutter, Slot, Index
<1>3. CASE PopOne
  <2>1. /\ Take(Slot(b)) /\ OwnerReturns /\ top < b /\ b = bottom
        /\ LogicalBottom = bottom + 1 /\ bottom \in Int
        /\ UNCHANGED <<top, bottom, elements, status, pushed>>
    BY <1>3, PopReadTopFacts DEF PopOne, Slot
  <2>2. LogicalBottom' = LogicalBottom - 1 /\ b = LogicalBottom - 1
    BY <2>1, OwnerReturnsEffect DEF LogicalBottom
  <2>3. /\ Queue # <<>> /\ Queue[Len(Queue)] = Slot(b)
        /\ Queue' = SubSeq(Queue, 1, Len(Queue) - 1)
    BY <2>1, <2>2, QueueWithoutLast
  <2>4. b \in Window /\ Slot(b) \in Frame
    BY <2>1 DEF Window, WindowInv, TypeOK
  <2>5. WQ!Take(Queue[Len(Queue)])
    BY <2>1, <2>3, <2>4, TakeIsAbstract DEF WQ!Take
  <2>6. WQ!Pop
    BY <2>1, <2>3, <2>5 DEF WQ!Pop
  <2>. QED
    BY <2>6 DEF WQ!Next
<1>4. CASE PopLast
  <2>1. LogicalBottom' = LogicalBottom
    BY <1>4, PopReadTopFacts, GotoEffect, Actors DEF PopLast, LogicalBottom
  <2>. QED
    BY <1>4, <2>1, PopReadTopFacts, StutterIsAbstract DEF PopLast, Stutter, Slot, Index
<1>5. CASE PopRestore
  <2>1. /\ pc[Owner] = "pop_restore" /\ bottom' = bottom + 1 /\ LogicalBottom = bottom + 1
        /\ t[Owner] = bottom + 1 /\ t[Owner] <= top /\ OwnerReturns /\ bottom \in Int
        /\ UNCHANGED <<top, elements, pushed, taken>>
    BY <1>5 DEF PopRestore, OwnerInv, LogicalBottom, TypeOK
  <2>2. LogicalBottom' = LogicalBottom
    BY <2>1, OwnerReturnsEffect DEF LogicalBottom
  <2>3. Len(Queue) = 0
    BY <2>1 DEF QueueFacts
  <2>4. Queue = <<>>
    BY <2>3, EmptySeq DEF QueueFacts
  <2>5. Queue' = Queue
    BY <2>1, <2>2, QueueSame DEF Slot, Index
  <2>6. WQ!Reply(Owner, "EMPTY")
    BY <1>5 DEF PopRestore, Reply, WQ!Reply
  <2>7. WQ!PopEmpty
    BY <2>1, <2>4, <2>5, <2>6 DEF WQ!PopEmpty
  <2>. QED
    BY <2>7 DEF WQ!Next
<1>6. CASE PopCas
  <2>1. /\ pc[Owner] = "pop_cas" /\ pc'[Owner] = "pop_adjust"
        /\ t[Owner] = bottom /\ frame = Slot(bottom) /\ LogicalBottom = bottom + 1
        /\ bottom \in Int /\ t[Owner] \in Nat /\ t[Owner] <= top
        /\ UNCHANGED <<bottom, elements, pushed>>
    BY <1>6, GotoEffect, Actors DEF PopCas, OwnerInv, LogicalBottom, TypeOK
  <2>2. LogicalBottom' = LogicalBottom
    BY <2>1 DEF LogicalBottom
  <2>3. top <= MaxIndex /\ t[Owner] < MaxIndex /\ top \in Nat /\ MaxIndex \in Nat
    BY <2>1, DequeAssumption DEF IndexInv, WithinCapacity, TypeOK
  <2>4. /\ CasMatches(top, t[Owner]) <=> top = t[Owner]
        /\ top = t[Owner] => CasStored(top, t[Owner] + 1) = top + 1
    BY <2>1, <2>3, CasExact
  <2>5. CASE top = t[Owner] /\ top' = top + 1 /\ Take(frame) /\ UNCHANGED status
    <3>1. Queue # <<>> /\ Head(Queue) = Slot(top) /\ Queue' = Tail(Queue)
      BY <2>1, <2>2, <2>5, QueueWithoutFirst
    <3>2. Len(Queue) = 1
      BY <2>1, <2>5 DEF QueueFacts
    <3>3. top + 1 - 1 = top /\ 1 \in 1 .. (LogicalBottom - top)
      BY <2>1, <2>5
    <3>4. Queue[Len(Queue)] = frame
      BY <2>1, <2>5, <3>2, <3>3 DEF QueueFacts
    <3>5. Queue' = SubSeq(Queue, 1, Len(Queue) - 1)
      <4>1. SubSeq(Queue, 1, 0) = <<>>
        BY SubSeqEmpty
      <4>2. Len(Queue') = 0
        BY <2>1, <2>2, <2>5 DEF QueueFacts
      <4>3. Queue' = <<>>
        BY <4>2, EmptySeq DEF QueueFacts
      <4>. QED
        BY <3>2, <4>1, <4>3
    <3>6. frame \in Frame
      <4>1. top \in Window
        BY <2>1, <2>5 DEF Window
      <4>. QED
        BY <2>1, <2>5, <4>1 DEF WindowInv, TypeOK
    <3>7. WQ!Take(Queue[Len(Queue)])
      BY <2>5, <3>4, <3>6, TakeIsAbstract DEF WQ!Take
    <3>8. WQ!Pop
      BY <2>1, <2>5, <3>1, <3>5, <3>7 DEF WQ!Pop
    <3>. QED
      BY <3>8 DEF WQ!Next
  <2>6. CASE top # t[Owner] /\ Reply(Owner, "EMPTY") /\ UNCHANGED <<top, taken>>
    <3>1. Len(Queue) = 0
      BY <2>1, <2>6 DEF QueueFacts
    <3>2. Queue = <<>>
      BY <3>1, EmptySeq DEF QueueFacts
    <3>3. Queue' = Queue
      BY <2>1, <2>2, <2>6, QueueSame DEF Slot, Index
    <3>4. WQ!Reply(Owner, "EMPTY")
      BY <2>6 DEF Reply, WQ!Reply
    <3>5. WQ!PopEmpty
      BY <2>1, <2>6, <3>2, <3>3, <3>4 DEF WQ!PopEmpty
    <3>. QED
      BY <3>5 DEF WQ!Next
  <2>. QED
    BY <1>6, <2>4, <2>5, <2>6 DEF PopCas
<1>7. CASE PopAdjust
  <2>1. LogicalBottom' = LogicalBottom
    BY <1>7, OwnerReturnsEffect DEF PopAdjust, LogicalBottom, OwnerInv, TypeOK
  <2>. QED
    BY <1>7, <2>1, StutterIsAbstract DEF PopAdjust, Stutter, Slot, Index
<1>. QED
  BY <1>1, <1>2, <1>3, <1>4, <1>5, <1>6, <1>7 DEF Pop

\* The steps of a steal: it takes effect when the thief sees that there is
\* nothing to steal, or at its CAS.
LEMMA StealImplements ==
  ASSUME NoWrap, IndInv, IndInv', QueueFacts, QueueFacts', NEW p \in Thieves, Steal(p)
  PROVE  [WQ!Next]_(WQ!vars)
<1>. USE DEF IndInv
<1>1. CASE StealReadTop(p)
  <2>1. LogicalBottom' = LogicalBottom
    BY <1>1, GotoEffect, Actors DEF StealReadTop, LogicalBottom
  <2>. QED
    BY <1>1, <2>1, StutterIsAbstract DEF StealReadTop, Stutter, Slot, Index
<1>2. CASE StealReadBottom(p)
  <2>1. /\ pc[p] = "steal_read_bottom"
        /\ UNCHANGED <<top, bottom, elements, pushed, taken>>
    BY <1>2 DEF StealReadBottom, StealTest
  <2>2. CASE NothingToSteal(p, bottom) /\ Reply(p, "EMPTY") /\ ThiefReturns(p)
    <3>1. LogicalBottom' = LogicalBottom
      BY <2>1, <2>2, ThiefReturnsEffect, Actors DEF LogicalBottom
    <3>2. t[p] <= top /\ t[p] \in Nat /\ bottom \in Int /\ LogicalBottom <= bottom + 1
      BY Actors DEF ThiefInv, ThiefOK, TypeOK, LogicalBottom
    <3>3. Len(Queue) <= 1
      BY <2>2, <3>2 DEF NothingToSteal, QueueFacts
    <3>4. Queue' = Queue
      BY <2>1, <3>1, QueueSame DEF Slot, Index
    <3>5. WQ!Reply(p, "EMPTY")
      BY <2>2 DEF Reply, WQ!Reply
    <3>6. WQ!StealEmpty(p)
      BY <2>1, <3>3, <3>4, <3>5 DEF WQ!StealEmpty
    <3>. QED
      BY <3>6 DEF WQ!Next
  <2>3. CASE Goto(p, "steal_read_element") /\ UNCHANGED <<t, ret, status>>
    <3>1. LogicalBottom' = LogicalBottom
      BY <2>1, <2>3, GotoEffect, Actors DEF LogicalBottom
    <3>. QED
      BY <2>1, <2>3, <3>1, StutterIsAbstract DEF Stutter, Slot, Index
  <2>. QED
    BY <1>2, <2>2, <2>3 DEF StealReadBottom, StealTest
<1>3. CASE StealReadElement(p)
  <2>1. LogicalBottom' = LogicalBottom
    BY <1>3, GotoEffect, Actors DEF StealReadElement, StealLoad, LogicalBottom
  <2>. QED
    BY <1>3, <2>1, StutterIsAbstract DEF StealReadElement, StealLoad, Stutter, Slot, Index
<1>4. CASE StealCas(p)
  <2>1. /\ pc[p] = "steal_cas" /\ ThiefReturns(p)
        /\ UNCHANGED <<bottom, elements, pushed>>
    BY <1>4 DEF StealCas
  <2>2. LogicalBottom' = LogicalBottom
    BY <2>1, ThiefReturnsEffect, Actors DEF LogicalBottom
  <2>3. /\ top \in Nat /\ t[p] \in Nat /\ t[p] <= top
        /\ t[p] = top => top < LogicalBottom /\ ret[p] = Slot(top)
        /\ top <= LogicalBottom /\ LogicalBottom <= MaxIndex /\ MaxIndex \in Nat
        /\ LogicalBottom \in Int
    BY <2>1, Actors, IndicesAreIntegers, DequeAssumption
    DEF ThiefInv, ThiefOK, TypeOK, IndexInv, WithinCapacity
  <2>4. /\ CasMatches(top, t[p]) <=> top = t[p]
        /\ top < LogicalBottom => CasStored(top, top + 1) = top + 1
    BY <2>3, CasExact
  <2>5. CASE top = t[p] /\ top' = top + 1 /\ Take(ret[p]) /\ Reply(p, "SUCCESS")
    <3>1. Queue # <<>> /\ Head(Queue) = Slot(top) /\ Queue' = Tail(Queue)
      BY <2>1, <2>2, <2>5, QueueWithoutFirst
    <3>2. ret[p] = Slot(top) /\ top \in Window
      BY <2>3, <2>5 DEF Window
    <3>3. ret[p] \in Frame
      BY <3>2 DEF WindowInv, TypeOK
    <3>4. WQ!Take(Head(Queue))
      BY <2>5, <3>1, <3>2, <3>3, TakeIsAbstract DEF WQ!Take
    <3>5. WQ!Reply(p, "SUCCESS")
      BY <2>5 DEF Reply, WQ!Reply
    <3>6. WQ!Steal(p)
      BY <2>1, <3>1, <3>4, <3>5 DEF WQ!Steal
    <3>. QED
      BY <3>6 DEF WQ!Next
  <2>6. CASE Reply(p, "ABORT") /\ UNCHANGED <<top, taken>>
    <3>1. Queue' = Queue
      BY <2>1, <2>2, <2>6, QueueSame DEF Slot, Index
    <3>2. WQ!Reply(p, "ABORT")
      BY <2>6 DEF Reply, WQ!Reply
    <3>3. WQ!StealAbort(p)
      BY <2>1, <2>6, <3>1, <3>2 DEF WQ!StealAbort
    <3>. QED
      BY <3>3 DEF WQ!Next
  <2>. QED
    BY <1>4, <2>3, <2>4, <2>5, <2>6 DEF StealCas
<1>. QED
  BY <1>1, <1>2, <1>3, <1>4 DEF Steal

(***************************************************************************)
(* The deque implements the work queue: its operations behave as if each   *)
(* took effect in one step.  The owner pops the newest frame and thieves   *)
(* take the oldest; FULL is answered only when size_mask frames wait,      *)
(* EMPTY to the owner only when none does, and EMPTY to a thief only when  *)
(* at most one does.                                                       *)
(***************************************************************************)
THEOREM WorkQueueImplemented == NoWrap => (Spec => ImplementsWorkQueue)
<1>. SUFFICES ASSUME NoWrap PROVE Spec => ImplementsWorkQueue
  OBVIOUS
<1>1. Init => WQ!Init
  <2>. SUFFICES ASSUME Init PROVE WQ!Init
    OBVIOUS
  <2>1. LogicalBottom = 0 /\ top = 0
    BY Actors DEF Init, LogicalBottom
  <2>2. Queue = <<>>
    <3>1. IndInv
      BY InitIndInv
    <3>2. QueueFacts
      BY <3>1, QueueOfWindow
    <3>3. Len(Queue) = 0
      BY <2>1, <3>2 DEF QueueFacts
    <3>. QED
      BY <3>2, <3>3, EmptySeq DEF QueueFacts
  <2>3. [f \in Frame |-> taken[f]] = [f \in Frame |-> 0]
    BY DEF Init, Element
  <2>. QED
    BY <2>2, <2>3 DEF Init, WQ!Init, Callers
<1>2. IndInv /\ IndInv' /\ [Next]_vars => [WQ!Next]_(WQ!vars)
  <2>. SUFFICES ASSUME IndInv, IndInv', [Next]_vars PROVE [WQ!Next]_(WQ!vars)
    OBVIOUS
  <2>1. QueueFacts
    BY QueueOfWindow
  <2>2. QueueFacts'
    BY QueueOfWindow, PTL
  <2>3. CASE UNCHANGED vars
    <3>1. LogicalBottom' = LogicalBottom
      BY <2>3 DEF vars, LogicalBottom
    <3>. QED
      BY <2>1, <2>3, <3>1, StutterIsAbstract DEF vars, Stutter, Slot, Index
  <2>. QED
    BY <2>1, <2>2, <2>3, PushImplements, PopImplements, StealImplements DEF Next
<1>. QED
  BY <1>1, <1>2, DequeInvariant, PTL DEF Spec, ImplementsWorkQueue, WQ!Spec
=============================================================================
