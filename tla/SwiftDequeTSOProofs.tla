------------------------- MODULE SwiftDequeTSOProofs -------------------------
(***************************************************************************)
(* Proofs about SwiftDequeTSO: with a fence in swift_deque_pop (FenceInPop)*)
(* the deque keeps its promises under total store order, for any number of *)
(* thieves, any size of the deque and of the store buffer, as long as the  *)
(* indices stay below the width of the CAS (NoWrap).                       *)
(***************************************************************************)
EXTENDS SwiftDequeTSO, SwiftDequeProofs

\* FenceInv without the part that speaks of the owner's view alone
LagInv == StoresOK /\ ViewInv /\ BottomInv /\ ElementInv /\ ReadInv /\ FencedInv

-----------------------------------------------------------------------------
(***************************************************************************)
(* Locations and the buffer                                                *)
(***************************************************************************)
LEMMA Locations ==
  /\ AtBottom \in Location /\ AtBottom \notin Slots
  /\ \A i \in Slots : i \in Location /\ i # AtBottom /\ View(i) = elements[i]
  /\ View(AtBottom) = bottom
  /\ \A l \in Location : l # AtBottom => l \in Slots
<1>1. Slots \subseteq Nat
  BY DequeAssumption DEF Slots, SizeMask
<1>. QED
  BY <1>1 DEF AtBottom, Location, View

Stores == [at : Location, value : Int \union Element]

\* Storing adds one store at the end of the buffer.
LEMMA StoreEffect ==
  ASSUME StoresOK, NEW l \in Location, NEW v \in Int \union Element, Store(l, v)
  PROVE  /\ buffer' \in Seq(Stores) /\ Len(buffer') = Len(buffer) + 1
         /\ Len(buffer) \in Nat /\ Len(buffer') <= BufferSize
         /\ \A j \in Pending : buffer'[j] = buffer[j]
         /\ buffer'[Len(buffer) + 1].at = l /\ buffer'[Len(buffer) + 1].value = v
         /\ Pending' = Pending \union {Len(buffer) + 1}
         /\ memory' = memory
<1>. DEFINE e == [at |-> l, value |-> v]
<1>1. buffer \in Seq(Stores) /\ e \in Stores
  BY DEF StoresOK, Stores
<1>2. buffer' = Append(buffer, e) /\ memory' = memory /\ Len(buffer) < BufferSize
  BY DEF Store
<1>3. e.at = l /\ e.value = v
  OBVIOUS
<1>. HIDE DEF e
<1>4. /\ buffer' \in Seq(Stores) /\ Len(buffer') = Len(buffer) + 1
      /\ \A j \in 1 .. Len(buffer) : buffer'[j] = buffer[j]
      /\ buffer'[Len(buffer) + 1] = e
  BY <1>1, <1>2, AppendProperties
<1>5. Len(buffer) \in Nat
  BY <1>1, LenProperties
<1>6. Pending' = Pending \union {Len(buffer) + 1}
  BY <1>4, <1>5 DEF Pending
<1>7. Len(buffer') <= BufferSize
  BY <1>2, <1>4, <1>5, BufferAssumption
<1>. QED
  BY <1>2, <1>3, <1>4, <1>5, <1>6, <1>7 DEF Pending

\* Draining moves every pending store one place forward.
LEMMA DrainEffect ==
  ASSUME StoresOK, Drain
  PROVE  /\ buffer' \in Seq(Stores) /\ Len(buffer') = Len(buffer) - 1
         /\ Len(buffer) \in Nat \ {0}
         /\ \A j \in Pending' : buffer'[j] = buffer[j + 1] /\ j + 1 \in Pending /\ j \in Nat
         /\ \A j \in Pending : j # 1 => j - 1 \in Pending'
         /\ 1 \in Pending /\ buffer[1].at \in Location
         /\ buffer[1].value \in ValueAt(buffer[1].at)
         /\ memory' = [memory EXCEPT ![buffer[1].at] = buffer[1].value]
<1>1. buffer \in Seq(Stores) /\ buffer # <<>> /\ buffer' = Tail(buffer)
  BY DEF StoresOK, Stores, Drain
<1>2. /\ buffer' \in Seq(Stores) /\ Len(buffer') = Len(buffer) - 1
      /\ \A j \in 1 .. Len(buffer') : buffer'[j] = buffer[j + 1]
  BY <1>1, HeadTailProperties
<1>3. Len(buffer) \in Nat \ {0}
  BY <1>1, LenProperties, EmptySeq
<1>4. 1 \in Pending /\ buffer[1] \in Stores
  BY <1>1, <1>3, ElementOfSeq DEF Pending
<1>5. Head(buffer) = buffer[1]
  BY <1>1
<1>. QED
  BY <1>1, <1>2, <1>3, <1>4, <1>5 DEF Pending, Drain, Stores, StoresOK

-----------------------------------------------------------------------------
(***************************************************************************)
(* A step that leaves memory and the buffer alone                          *)
(***************************************************************************)
LEMMA LagSame ==
  ASSUME LagInv, IndInv, NoStore, top' \in Nat, top <= top',
         bottom' = bottom, elements' = elements,
         buffer = <<>> \/ LogicalBottom' = LogicalBottom,
         bottom <= LogicalBottom', 
         FencedInv', ReadInv'
  PROVE  LagInv'
<1>. USE DEF LagInv
<1>1. memory' = memory /\ buffer' = buffer /\ Pending' = Pending
  BY DEF NoStore, Pending
<1>2. StoresOK'
  BY <1>1 DEF StoresOK, ValueAt, Element
<1>3. ViewInv'
  BY <1>1 DEF ViewInv, View
<1>4. BottomInv'
  <2>1. CASE buffer = <<>>
    <3>1. Pending = {}
      BY <2>1 DEF Pending
    <3>2. memory[AtBottom] = bottom
      BY <3>1, Locations DEF ViewInv
    <3>. QED
      BY <1>1, <3>1, <3>2 DEF BottomInv
  <2>2. CASE LogicalBottom' = LogicalBottom
    BY <1>1, <2>2 DEF BottomInv
  <2>. QED
    BY <2>1, <2>2
<1>5. ElementInv'
  <2>. SUFFICES ASSUME NEW j \in Pending, buffer[j].at # AtBottom
                PROVE  \E k \in 0 .. MaxIndex :
                         /\ Index(k) = buffer[j].at
                         /\ k - top' < SizeMask
                         /\ memory[AtBottom] <= k
                         /\ \A i \in Pending :
                              i < j /\ buffer[i].at = AtBottom => buffer[i].value <= k
    BY <1>1 DEF ElementInv, Index, SizeMask
  <2>1. PICK k \in 0 .. MaxIndex :
               /\ Index(k) = buffer[j].at
               /\ k - top < SizeMask
               /\ memory[AtBottom] <= k
               /\ \A i \in Pending : i < j /\ buffer[i].at = AtBottom => buffer[i].value <= k
    BY DEF ElementInv
  <2>2. k - top' < SizeMask
    <3>1. k \in Int /\ top \in Int /\ top' \in Int /\ SizeMask \in Int
      BY IndicesAreIntegers, DequeAssumption DEF IndInv, TypeOK
    <3>. QED
      BY <2>1, <3>1, CloserTop
  <2>. QED
    BY <2>1, <2>2
<1>. QED
  BY <1>2, <1>3, <1>4, <1>5

(***************************************************************************)
(* A store of the owner                                                    *)
(***************************************************************************)
\* The newest store to a location is the one the owner sees.
LEMMA ViewAfterStore ==
  ASSUME StoresOK, ViewInv, NEW l \in Location, NEW v \in Int \union Element, Store(l, v),
         View(l)' = v, \A m \in Location : m # l => View(m)' = View(m)
  PROVE  ViewInv'
<1>. SUFFICES ASSUME NEW m \in Location
              PROVE  /\ (\A j \in Pending' : buffer'[j].at # m) => memory'[m] = View(m)'
                     /\ \A j \in Pending' :
                          buffer'[j].at = m /\ (\A i \in Pending' : j < i => buffer'[i].at # m)
                            => buffer'[j].value = View(m)'
  BY DEF ViewInv, Location, Slots, SizeMask, AtBottom
<1>. DEFINE n == Len(buffer)
<1>1. /\ n \in Nat /\ Pending' = Pending \union {n + 1} /\ Pending = 1 .. n
      /\ \A j \in Pending : buffer'[j] = buffer[j]
      /\ buffer'[n + 1].at = l /\ buffer'[n + 1].value = v
      /\ memory' = memory
  BY StoreEffect DEF Pending
<1>. HIDE DEF n
<1>2. CASE m = l
  <2>1. n + 1 \in Pending'
    BY <1>1
  <2>2. \A j \in Pending : j < n + 1
    BY <1>1
  <2>. QED
    BY <1>1, <1>2, <2>1, <2>2
<1>3. CASE m # l
  <2>1. (\A j \in Pending : buffer[j].at # m) => memory[m] = View(m)
    BY DEF ViewInv
  <2>2. \A j \in Pending :
          buffer[j].at = m /\ (\A i \in Pending : j < i => buffer[i].at # m)
            => buffer[j].value = View(m)
    BY DEF ViewInv
  <2>3. View(m)' = View(m)
    BY <1>3
  <2>4. (\A j \in Pending' : buffer'[j].at # m) => memory'[m] = View(m)'
    BY <1>1, <2>1, <2>3
  <2>5. ASSUME NEW j \in Pending', buffer'[j].at = m,
               \A i \in Pending' : j < i => buffer'[i].at # m
        PROVE  buffer'[j].value = View(m)'
    <3>1. j \in Pending /\ buffer[j].at = m
      BY <1>1, <1>3, <2>5
    <3>2. \A i \in Pending : j < i => buffer[i].at # m
      BY <1>1, <2>5
    <3>. QED
      BY <1>1, <2>2, <2>3, <3>1, <3>2
  <2>. QED
    BY <2>4, <2>5
<1>. QED
  BY <1>2, <1>3

LEMMA StoresOKAfterStore ==
  ASSUME StoresOK, NEW l \in Location, NEW v \in ValueAt(l), v \in Int \union Element, Store(l, v)
  PROVE  StoresOK'
<1>. DEFINE n == Len(buffer)
<1>1. /\ n \in Nat /\ Pending' = Pending \union {n + 1}
      /\ \A j \in Pending : buffer'[j] = buffer[j]
      /\ buffer'[n + 1].at = l /\ buffer'[n + 1].value = v
      /\ memory' = memory /\ buffer' \in Seq(Stores) /\ Len(buffer') <= BufferSize
  BY StoreEffect
<1>. HIDE DEF n
<1>2. \A j \in Pending' : buffer'[j].value \in ValueAt(buffer'[j].at)
  BY <1>1 DEF StoresOK
<1>3. memory' \in [Location -> Int \union Element] /\ \A m \in Location : memory'[m] \in ValueAt(m)
  BY <1>1 DEF StoresOK
<1>. QED
  BY <1>1, <1>2, <1>3 DEF StoresOK, Stores, ValueAt, Location, Slots, SizeMask, AtBottom, Element

\* A store to bottom, of an index that is not beyond the newest frame
LEMMA LagStoreBottom ==
  ASSUME LagInv, IndInv, IndInv', NEW v \in Nat \union {-1}, Store(AtBottom, v),
         bottom' = v, elements' = elements, top' = top,
         LogicalBottom <= LogicalBottom', v <= LogicalBottom',
         \A p \in Thieves : pc'[p] = pc[p] /\ t'[p] = t[p],
         pc'[Owner] \notin {"pop_restore", "pop_cas", "pop_adjust"}
  PROVE  LagInv'
<1>. USE DEF LagInv
<1>. DEFINE n == Len(buffer)
<1>0. AtBottom \in Location /\ v \in ValueAt(AtBottom) /\ v \in Int \union Element
  BY Locations DEF ValueAt
<1>1. /\ n \in Nat /\ Pending' = Pending \union {n + 1} /\ Pending = 1 .. n
      /\ \A j \in Pending : buffer'[j] = buffer[j]
      /\ buffer'[n + 1].at = AtBottom /\ buffer'[n + 1].value = v
      /\ memory' = memory
  BY <1>0, StoreEffect DEF Pending
<1>. HIDE DEF n
<1>2. StoresOK'
  BY <1>0, StoresOKAfterStore
<1>3. ViewInv'
  <2>1. View(AtBottom)' = v
    BY DEF View, AtBottom
  <2>2. \A m \in Location : m # AtBottom => View(m)' = View(m)
    BY DEF View, AtBottom
  <2>. QED
    BY <1>0, <2>1, <2>2, ViewAfterStore
<1>4. BottomInv'
  <2>1. /\ LogicalBottom \in Int /\ LogicalBottom' \in Int
        /\ memory[AtBottom] \in Int
        /\ \A j \in Pending : buffer[j].at = AtBottom => buffer[j].value \in Int
    <3>1. LogicalBottom \in Int /\ LogicalBottom' \in Int
      BY DEF IndInv, TypeOK, LogicalBottom
    <3>. QED
      BY <3>1, <1>0 DEF StoresOK, ValueAt
  <2>2. memory'[AtBottom] <= LogicalBottom'
    BY <1>1, <2>1 DEF BottomInv
  <2>3. ASSUME NEW j \in Pending', buffer'[j].at = AtBottom
        PROVE  buffer'[j].value <= LogicalBottom'
    <3>1. CASE j \in Pending
      <4>1. buffer[j].value \in Int /\ buffer[j].value <= LogicalBottom
        BY <1>1, <2>1, <2>3, <3>1 DEF BottomInv
      <4>. QED
        BY <1>1, <2>1, <3>1, <4>1
    <3>2. CASE j = n + 1
      BY <1>1, <3>2
    <3>. QED
      BY <1>1, <3>1, <3>2
  <2>. QED
    BY <2>2, <2>3 DEF BottomInv, AtBottom
<1>5. ElementInv'
  <2>. SUFFICES ASSUME NEW j \in Pending', buffer'[j].at # AtBottom
                PROVE  \E k \in 0 .. MaxIndex :
                         /\ Index(k) = buffer'[j].at
                         /\ k - top < SizeMask
                         /\ memory[AtBottom] <= k
                         /\ \A i \in Pending' :
                              i < j /\ buffer'[i].at = AtBottom => buffer'[i].value <= k
    BY <1>1 DEF ElementInv, Index, SizeMask, AtBottom
  <2>1. j \in Pending /\ buffer[j].at # AtBottom
    BY <1>1
  <2>2. PICK k \in 0 .. MaxIndex :
               /\ Index(k) = buffer[j].at
               /\ k - top < SizeMask
               /\ memory[AtBottom] <= k
               /\ \A i \in Pending : i < j /\ buffer[i].at = AtBottom => buffer[i].value <= k
    BY <2>1 DEF ElementInv
  <2>3. \A i \in Pending' : i < j => i \in Pending
    BY <1>1, <2>1
  <2>4. \A i \in Pending' : i < j /\ buffer'[i].at = AtBottom => buffer'[i].value <= k
    BY <1>1, <2>2, <2>3
  <2>. QED
    BY <1>1, <2>1, <2>2, <2>4
<1>6. ReadInv'
  <2>. SUFFICES ASSUME NEW p \in Thieves, pc'[p] = "steal_read_element", t'[p] = top',
                       NEW j \in Pending'
                PROVE  buffer'[j].at # Index(top)
    BY DEF ReadInv, Index
  <2>1. CASE j \in Pending
    BY <1>1, <2>1 DEF ReadInv
  <2>2. CASE j = n + 1
    <3>1. Index(top) \in Slots
      BY IndexInSlots DEF IndInv, TypeOK
    <3>. QED
      BY <1>1, <2>2, <3>1, Locations
  <2>. QED
    BY <1>1, <2>1, <2>2
<1>7. FencedInv'
  BY DEF FencedInv
<1>. QED
  BY <1>2, <1>3, <1>4, <1>5, <1>6, <1>7

\* The store of a frame, at an index no thief has heard of
LEMMA LagStoreElement ==
  ASSUME LagInv, IndInv, PushStore, Store(Index(b), frame)
  PROVE  LagInv'
<1>. USE DEF LagInv
<1>. DEFINE n == Len(buffer)
<1>1. /\ b = bottom /\ b \in Nat /\ b < MaxIndex /\ b - top < SizeMask /\ top \in Nat
      /\ top <= b /\ frame \in Frame /\ LogicalBottom = b
      /\ pc[Owner] = "push_store" /\ pc'[Owner] = "push_publish"
      /\ \A p \in Thieves : pc'[p] = pc[p]
      /\ elements' = [elements EXCEPT ![Index(b)] = frame]
      /\ UNCHANGED <<top, bottom, t>>
  BY GotoEffect, Actors
  DEF PushStore, IndInv, OwnerInv, TypeOK, LogicalBottom, IndexInv, WithinCapacity
<1>2. /\ Index(b) \in Slots /\ Index(b) \in Location /\ Index(b) # AtBottom
      /\ frame \in ValueAt(Index(b)) /\ frame \in Int \union Element
  BY <1>1, IndexInSlots, Locations DEF ValueAt, Element
<1>3. /\ n \in Nat /\ Pending' = Pending \union {n + 1} /\ Pending = 1 .. n
      /\ \A j \in Pending : buffer'[j] = buffer[j]
      /\ buffer'[n + 1].at = Index(b) /\ buffer'[n + 1].value = frame
      /\ memory' = memory
  BY <1>2, StoreEffect DEF Pending
<1>. HIDE DEF n
<1>4. LogicalBottom' = LogicalBottom
  BY <1>1 DEF LogicalBottom
<1>5. StoresOK'
  BY <1>2, StoresOKAfterStore
<1>6. ViewInv'
  <2>. PICK l \in Location, v \in Int \union Element : l = Index(b) /\ v = frame
    BY <1>2
  <2>1. View(l)' = v
    BY <1>1, <1>2 DEF View, AtBottom, IndInv, TypeOK
  <2>2. \A m \in Location : m # l => View(m)' = View(m)
    BY <1>1, Locations DEF View, AtBottom, IndInv, TypeOK
  <2>3. Store(l, v)
    OBVIOUS
  <2>. QED
    BY <2>1, <2>2, <2>3, ViewAfterStore
<1>7. BottomInv'
  BY <1>2, <1>3, <1>4 DEF BottomInv, AtBottom
<1>8. ElementInv'
  <2>. SUFFICES ASSUME NEW j \in Pending', buffer'[j].at # AtBottom
                PROVE  \E k \in 0 .. MaxIndex :
                         /\ Index(k) = buffer'[j].at
                         /\ k - top < SizeMask
                         /\ memory[AtBottom] <= k
                         /\ \A i \in Pending' :
                              i < j /\ buffer'[i].at = AtBottom => buffer'[i].value <= k
    BY <1>1, <1>3 DEF ElementInv, Index, SizeMask, AtBottom
  <2>1. CASE j \in Pending
    <3>1. buffer[j].at # AtBottom
      BY <1>3, <2>1
    <3>2. PICK k \in 0 .. MaxIndex :
                 /\ Index(k) = buffer[j].at
                 /\ k - top < SizeMask
                 /\ memory[AtBottom] <= k
                 /\ \A i \in Pending : i < j /\ buffer[i].at = AtBottom => buffer[i].value <= k
      BY <2>1, <3>1 DEF ElementInv
    <3>3. \A i \in Pending' : i < j => i \in Pending
      BY <1>3, <2>1
    <3>. QED
      BY <1>3, <2>1, <3>2, <3>3
  <2>2. CASE j = n + 1
    <3>1. \A i \in Pending' : i < j => i \in Pending
      BY <1>3, <2>2
    <3>2. memory[AtBottom] <= b
      BY <1>1 DEF BottomInv
    <3>3. \A i \in Pending' : i < j /\ buffer'[i].at = AtBottom => buffer'[i].value <= b
      BY <1>1, <1>3, <3>1 DEF BottomInv
    <3>4. b \in 0 .. MaxIndex
      BY <1>1, DequeAssumption
    <3>. QED
      BY <1>1, <1>3, <2>2, <3>2, <3>3, <3>4
  <2>. QED
    BY <1>3, <2>1, <2>2
<1>9. ReadInv'
  <2>. SUFFICES ASSUME NEW p \in Thieves, pc[p] = "steal_read_element", t[p] = top,
                       NEW j \in Pending'
                PROVE  buffer'[j].at # Index(top)
    BY <1>1 DEF ReadInv, Index
  <2>1. CASE j \in Pending
    BY <1>3, <2>1 DEF ReadInv
  <2>2. CASE j = n + 1
    <3>1. top < LogicalBottom
      BY DEF IndInv, ThiefInv, ThiefOK
    <3>2. top < b /\ b - top < Size /\ top - b < Size
      BY <1>1, <3>1, IndicesAreIntegers, DequeAssumption DEF IndInv, SizeMask
    <3>3. Index(top) # Index(b)
      BY <1>1, <3>2, IndexDistinct
    <3>. QED
      BY <1>3, <2>2, <3>3
  <2>. QED
    BY <1>3, <2>1, <2>2
<1>10. FencedInv'
  BY <1>1 DEF FencedInv
<1>. QED
  BY <1>5, <1>6, <1>7, <1>8, <1>9, <1>10

-----------------------------------------------------------------------------
(***************************************************************************)
(* The oldest store reaches memory                                         *)
(***************************************************************************)
LEMMA LagDrain ==
  ASSUME LagInv, IndInv, Drain
  PROVE  LagInv'
<1>. USE DEF LagInv
<1>. DEFINE n == Len(buffer)
            s == buffer[1]
<1>1. /\ buffer' \in Seq(Stores) /\ Len(buffer') = n - 1 /\ n \in Nat \ {0}
      /\ \A j \in Pending' : buffer'[j] = buffer[j + 1] /\ j + 1 \in Pending /\ j \in Nat
      /\ \A j \in Pending : j # 1 => j - 1 \in Pending'
      /\ 1 \in Pending /\ s.at \in Location /\ s.value \in ValueAt(s.at)
      /\ memory' = [memory EXCEPT ![s.at] = s.value]
  BY DrainEffect
<1>2. Pending = 1 .. n
  BY DEF Pending
<1>. HIDE DEF n, s
<1>3. /\ memory' \in [Location -> Int \union Element] /\ memory'[s.at] = s.value
      /\ \A l \in Location : l # s.at => memory'[l] = memory[l]
  <2>1. s.value \in Int \union Element
    BY <1>1 DEF ValueAt
  <2>. QED
    BY <1>1, <2>1 DEF StoresOK
<1>4. UNCHANGED vars /\ LogicalBottom' = LogicalBottom
  BY DEF Drain, vars, LogicalBottom
<1>5. StoresOK'
  <2>1. \A l \in Location : memory'[l] \in ValueAt(l)
    BY <1>1, <1>3 DEF StoresOK
  <2>2. \A j \in Pending' : buffer'[j].value \in ValueAt(buffer'[j].at)
    BY <1>1 DEF StoresOK
  <2>3. Len(buffer') <= BufferSize
    BY <1>1, BufferAssumption DEF StoresOK, n
  <2>. QED
    BY <1>1, <1>3, <2>1, <2>2, <2>3
    DEF StoresOK, Stores, ValueAt, Location, Slots, SizeMask, AtBottom, Element
<1>6. ViewInv'
  <2>. SUFFICES ASSUME NEW l \in Location
                PROVE  /\ (\A j \in Pending' : buffer'[j].at # l) => memory'[l] = View(l)
                       /\ \A j \in Pending' :
                            buffer'[j].at = l /\ (\A i \in Pending' : j < i => buffer'[i].at # l)
                              => buffer'[j].value = View(l)
    BY <1>4 DEF ViewInv, View, vars, Location, Slots, SizeMask, AtBottom
  <2>1. /\ (\A j \in Pending : buffer[j].at # l) => memory[l] = View(l)
        /\ \A j \in Pending :
             buffer[j].at = l /\ (\A i \in Pending : j < i => buffer[i].at # l)
               => buffer[j].value = View(l)
    BY DEF ViewInv
  <2>2. ASSUME \A j \in Pending' : buffer'[j].at # l
        PROVE  memory'[l] = View(l)
    <3>1. \A i \in Pending : i # 1 => buffer[i].at # l
      <4>. SUFFICES ASSUME NEW i \in Pending, i # 1 PROVE buffer[i].at # l
        OBVIOUS
      <4>1. i - 1 \in Pending' /\ (i - 1) + 1 = i
        BY <1>1, <1>2
      <4>. QED
        BY <1>1, <2>2, <4>1
    <3>2. CASE s.at = l
      <4>1. \A i \in Pending : 1 < i => buffer[i].at # l
        BY <1>2, <3>1
      <4>2. buffer[1].value = View(l)
        BY <1>1, <2>1, <3>2, <4>1 DEF s
      <4>. QED
        BY <1>3, <3>2, <4>2 DEF s
    <3>3. CASE s.at # l
      BY <1>3, <2>1, <3>1, <3>3 DEF s
    <3>. QED
      BY <3>2, <3>3
  <2>3. ASSUME NEW j \in Pending', buffer'[j].at = l,
               \A i \in Pending' : j < i => buffer'[i].at # l
        PROVE  buffer'[j].value = View(l)
    <3>1. j + 1 \in Pending /\ buffer'[j] = buffer[j + 1] /\ j \in Nat
      BY <1>1
    <3>2. \A i \in Pending : j + 1 < i => buffer[i].at # l
      <4>. SUFFICES ASSUME NEW i \in Pending, j + 1 < i PROVE buffer[i].at # l
        OBVIOUS
      <4>1. i - 1 \in Pending' /\ (i - 1) + 1 = i /\ j < i - 1
        BY <1>1, <1>2, <3>1
      <4>. QED
        BY <1>1, <2>3, <4>1
    <3>. QED
      BY <2>1, <2>3, <3>1, <3>2
  <2>. QED
    BY <2>2, <2>3
<1>7. BottomInv'
  <2>1. memory'[AtBottom] <= LogicalBottom
    BY <1>1, <1>3, Locations DEF BottomInv, s
  <2>2. \A j \in Pending' : buffer'[j].at = AtBottom => buffer'[j].value <= LogicalBottom
    BY <1>1 DEF BottomInv
  <2>. QED
    BY <1>4, <2>1, <2>2 DEF BottomInv, AtBottom
<1>8. ElementInv'
  <2>. SUFFICES ASSUME NEW j \in Pending', buffer'[j].at # AtBottom
                PROVE  \E k \in 0 .. MaxIndex :
                         /\ Index(k) = buffer'[j].at
                         /\ k - top < SizeMask
                         /\ memory'[AtBottom] <= k
                         /\ \A i \in Pending' :
                              i < j /\ buffer'[i].at = AtBottom => buffer'[i].value <= k
    BY <1>4 DEF ElementInv, Index, SizeMask, AtBottom, vars
  <2>1. j + 1 \in Pending /\ buffer'[j] = buffer[j + 1] /\ j \in Nat /\ j \in Pending'
    BY <1>1
  <2>2. PICK k \in 0 .. MaxIndex :
               /\ Index(k) = buffer[j + 1].at
               /\ k - top < SizeMask
               /\ memory[AtBottom] <= k
               /\ \A i \in Pending :
                    i < j + 1 /\ buffer[i].at = AtBottom => buffer[i].value <= k
    BY <2>1 DEF ElementInv
  <2>3. memory'[AtBottom] <= k
    <3>1. 1 \in Pending /\ 1 < j + 1
      BY <1>1, <1>2, <2>1 DEF Pending
    <3>. QED
      BY <1>3, <2>2, <3>1, Locations DEF s
  <2>4. \A i \in Pending' : i < j /\ buffer'[i].at = AtBottom => buffer'[i].value <= k
    <3>. SUFFICES ASSUME NEW i \in Pending', i < j, buffer'[i].at = AtBottom
                  PROVE  buffer'[i].value <= k
      OBVIOUS
    <3>1. i + 1 \in Pending /\ buffer'[i] = buffer[i + 1] /\ i \in Nat /\ i + 1 < j + 1
      BY <1>1, <2>1
    <3>. QED
      BY <2>2, <3>1
  <2>. QED
    BY <2>1, <2>2, <2>3, <2>4
<1>9. ReadInv'
  BY <1>1, <1>4 DEF ReadInv, vars, Index
<1>10. FencedInv'
  BY <1>1, <1>2, <1>4 DEF FencedInv, vars, Drain
<1>. QED
  BY <1>5, <1>6, <1>7, <1>8, <1>9, <1>10

-----------------------------------------------------------------------------
(***************************************************************************)
(* The steps of the owner                                                  *)
(***************************************************************************)
\* The owner moves without storing anything.
LEMMA LagOwnerSame ==
  ASSUME LagInv, IndInv, NoStore,
         top' \in Nat, top <= top', bottom' = bottom, elements' = elements,
         \A p \in Thieves : pc'[p] = pc[p] /\ t'[p] = t[p],
         buffer = <<>> \/ LogicalBottom' = LogicalBottom,
         bottom <= LogicalBottom',
         pc'[Owner] \in {"pop_restore", "pop_cas", "pop_adjust"} => buffer = <<>>
  PROVE  LagInv'
<1>1. FencedInv'
  BY DEF FencedInv, NoStore
<1>2. ReadInv'
  <2>. SUFFICES ASSUME NEW p \in Thieves, pc[p] = "steal_read_element", t[p] = top',
                       NEW j \in Pending
                PROVE  buffer[j].at # Index(top')
    BY DEF ReadInv, NoStore, Pending, Index
  <2>1. t[p] \in Nat /\ t[p] <= top
    BY Actors DEF IndInv, TypeOK, ThiefInv, ThiefOK
  <2>2. top' = top
    BY <2>1 DEF IndInv, TypeOK
  <2>. QED
    BY <2>2 DEF LagInv, ReadInv
<1>. QED
  BY <1>1, <1>2, LagSame

LEMMA OwnBottomBound == IndInv => bottom \in Int /\ bottom <= LogicalBottom
BY DEF IndInv, TypeOK, LogicalBottom

LEMMA PushTSOStep ==
  ASSUME LagInv, IndInv, IndInv', PushTSO
  PROVE  LagInv'
<1>1. ASSUME NEW f \in Frame, PushBeginTSO(f) PROVE LagInv'
  <2>1. /\ pc[Owner] = "idle" /\ pc'[Owner] \in {"push_reload", "push_store"}
        /\ \A p \in Thieves : pc'[p] = pc[p] /\ t'[p] = t[p]
        /\ UNCHANGED <<top, bottom, elements>> /\ NoStore
    BY <1>1, GotoEffect, SetTopEffect, Actors DEF PushBeginTSO, PushBegin, IndInv
  <2>2. LogicalBottom' = LogicalBottom
    BY <2>1 DEF LogicalBottom
  <2>3. top' \in Nat /\ top <= top' /\ bottom <= LogicalBottom'
    BY <2>1, <2>2, OwnBottomBound DEF IndInv, TypeOK
  <2>. QED
    BY <2>1, <2>2, <2>3, LagOwnerSame
<1>2. CASE PushReloadTSO
  <2>1. UNCHANGED <<top, bottom, elements>> /\ NoStore /\ pc[Owner] = "push_reload"
    BY <1>2 DEF PushReloadTSO, PushReload
  <2>2. /\ pc'[Owner] \in {"idle", "push_store"}
        /\ \A p \in Thieves : pc'[p] = pc[p] /\ t'[p] = t[p]
    <3>1. CASE OwnerReturns
      BY <3>1, OwnerReturnsEffect DEF IndInv
    <3>2. CASE SetTop(Owner, top) /\ Goto(Owner, "push_store")
      BY <3>2, GotoEffect, SetTopEffect, Actors DEF IndInv
    <3>. QED
      BY <1>2, <3>1, <3>2 DEF PushReloadTSO, PushReload
  <2>3. LogicalBottom' = LogicalBottom
    BY <2>1, <2>2 DEF LogicalBottom
  <2>4. top' \in Nat /\ top <= top' /\ bottom <= LogicalBottom'
    BY <2>1, <2>3, OwnBottomBound DEF IndInv, TypeOK
  <2>. QED
    BY <2>1, <2>2, <2>3, <2>4, LagOwnerSame
<1>3. CASE PushStoreTSO
  BY <1>3, LagStoreElement DEF PushStoreTSO
<1>4. CASE PushPublishTSO
  <2>1. /\ pc[Owner] = "push_publish" /\ b = bottom /\ bottom' = b + 1 /\ b \in Nat
        /\ UNCHANGED <<top, elements>> /\ OwnerReturns /\ Store(AtBottom, b + 1)
    BY <1>4 DEF PushPublishTSO, PushPublish, IndInv, OwnerInv, TypeOK, IndexInv,
       WithinCapacity, LogicalBottom
  <2>2. /\ pc'[Owner] = "idle"
        /\ \A p \in Thieves : pc'[p] = pc[p] /\ t'[p] = t[p]
    BY <2>1, OwnerReturnsEffect DEF IndInv
  <2>3. LogicalBottom' = b + 1 /\ LogicalBottom = b
    BY <2>1, <2>2 DEF LogicalBottom
  <2>4. PICK v \in Nat \union {-1} : v = b + 1
    BY <2>1
  <2>. QED
    BY <2>1, <2>2, <2>3, <2>4, LagStoreBottom
<1>. QED
  BY <1>1, <1>2, <1>3, <1>4 DEF PushTSO

LEMMA PopTSOStep ==
  ASSUME FenceInPop, NoWrap, LagInv, IndInv, IndInv', PopTSO
  PROVE  LagInv'
<1>1. CASE PopBeginTSO
  <2>1. /\ pc[Owner] = "idle" /\ pc'[Owner] = "pop_read_top"
        /\ \A p \in Thieves : pc'[p] = pc[p]
        /\ bottom \in Nat /\ bottom' = bottom - 1
        /\ UNCHANGED <<top, elements, t>> /\ Store(AtBottom, bottom - 1)
    BY <1>1, GotoEffect, Actors
    DEF PopBeginTSO, PopBegin, IndInv, TypeOK, IndexInv, WithinCapacity, LogicalBottom
  <2>2. LogicalBottom' = bottom /\ LogicalBottom = bottom
    BY <2>1 DEF LogicalBottom
  <2>3. PICK v \in Nat \union {-1} : v = bottom - 1
    BY <2>1
  <2>. QED
    BY <2>1, <2>2, <2>3, LagStoreBottom
<1>2. CASE PopReadTopTSO
  <2>1. buffer = <<>> /\ NoStore /\ (PopNothing \/ PopOne \/ PopLast)
    BY <1>2 DEF PopReadTopTSO, WriteBarrier
  <2>2. PopReadTop
    BY <2>1 DEF PopNothing, PopOne, PopLast
  <2>3. \A p \in Thieves : pc'[p] = pc[p] /\ t'[p] = t[p]
    <3>1. CASE OwnerReturns
      BY <3>1, OwnerReturnsEffect DEF IndInv
    <3>2. ASSUME NEW l, SetTop(Owner, top), Goto(Owner, l)
          PROVE  \A p \in Thieves : pc'[p] = pc[p] /\ t'[p] = t[p]
      BY <3>2, GotoEffect, SetTopEffect, Actors DEF IndInv
    <3>. QED
      BY <2>1, <3>1, <3>2 DEF PopNothing, PopOne, PopLast
  <2>4. /\ top' \in Nat /\ top <= top' /\ bottom' = bottom /\ elements' = elements
    BY <2>2, PopReadTopFacts
  <2>5. bottom <= LogicalBottom'
    BY <2>4 DEF IndInv, TypeOK, LogicalBottom
  <2>. QED
    BY <2>1, <2>3, <2>4, <2>5, LagOwnerSame
<1>3. CASE PopRestoreTSO
  <2>1. /\ pc[Owner] = "pop_restore" /\ t[Owner] = bottom + 1 /\ bottom' = bottom + 1
        /\ t[Owner] \in Nat /\ bottom \in Int
        /\ UNCHANGED <<top, elements>> /\ OwnerReturns /\ Store(AtBottom, t[Owner])
    BY <1>3, Actors DEF PopRestoreTSO, PopRestore, IndInv, OwnerInv, TypeOK
  <2>2. /\ pc'[Owner] = "idle"
        /\ \A p \in Thieves : pc'[p] = pc[p] /\ t'[p] = t[p]
    BY <2>1, OwnerReturnsEffect DEF IndInv
  <2>3. LogicalBottom' = bottom + 1 /\ LogicalBottom = bottom + 1
    BY <2>1, <2>2 DEF LogicalBottom
  <2>4. PICK v \in Nat \union {-1} : v = t[Owner]
    BY <2>1
  <2>. QED
    BY <2>1, <2>2, <2>3, <2>4, LagStoreBottom
<1>4. CASE PopCasTSO
  <2>1. /\ pc[Owner] = "pop_cas" /\ buffer = <<>> /\ NoStore
        /\ pc'[Owner] = "pop_adjust"
        /\ \A p \in Thieves : pc'[p] = pc[p]
        /\ UNCHANGED <<bottom, elements, t>>
    BY <1>4, GotoEffect, Actors DEF PopCasTSO, PopCas, IndInv
  <2>2. bottom <= LogicalBottom' /\ top' \in Nat
    BY <2>1 DEF IndInv, TypeOK, LogicalBottom
  <2>3. top <= top'
    BY <1>4, PopCasTop DEF PopCasTSO, IndInv, TypeOK
  <2>. QED
    BY <2>1, <2>2, <2>3, LagOwnerSame
<1>5. CASE PopAdjustTSO
  <2>1. /\ pc[Owner] = "pop_adjust" /\ t[Owner] = bottom /\ bottom' = bottom + 1
        /\ t[Owner] \in Nat
        /\ UNCHANGED <<top, elements>> /\ OwnerReturns /\ Store(AtBottom, t[Owner] + 1)
    BY <1>5, Actors DEF PopAdjustTSO, PopAdjust, IndInv, OwnerInv, TypeOK
  <2>2. /\ pc'[Owner] = "idle"
        /\ \A p \in Thieves : pc'[p] = pc[p] /\ t'[p] = t[p]
    BY <2>1, OwnerReturnsEffect DEF IndInv
  <2>3. LogicalBottom' = bottom + 1 /\ LogicalBottom = bottom + 1
    BY <2>1, <2>2 DEF LogicalBottom
  <2>4. PICK v \in Nat \union {-1} : v = t[Owner] + 1
    BY <2>1
  <2>. QED
    BY <2>1, <2>2, <2>3, <2>4, LagStoreBottom
<1>. QED
  BY <1>1, <1>2, <1>3, <1>4, <1>5 DEF PopTSO

-----------------------------------------------------------------------------
(***************************************************************************)
(* The steps of a thief                                                    *)
(***************************************************************************)
\* A thief moves; it does not come to read an element that is still pending.
LEMMA LagThief ==
  ASSUME LagInv, IndInv, NEW p \in Thieves, NoStore,
         top' = top \/ top' = top + 1, bottom' = bottom, elements' = elements,
         \A q \in Callers \ {p} : pc'[q] = pc[q] /\ t'[q] = t[q],
         pc'[p] = "steal_read_element" /\ t'[p] = top' =>
           \A j \in Pending : buffer[j].at # Index(top')
  PROVE  LagInv'
<1>0. top \in Nat /\ top' \in Nat /\ top <= top'
  BY DEF IndInv, TypeOK
<1>1. pc'[Owner] = pc[Owner]
  BY Actors
<1>2. LogicalBottom' = LogicalBottom
  BY <1>1 DEF LogicalBottom
<1>3. FencedInv'
  BY <1>1 DEF LagInv, FencedInv, NoStore
<1>4. ReadInv'
  <2>. SUFFICES ASSUME NEW q \in Thieves, pc'[q] = "steal_read_element", t'[q] = top',
                       NEW j \in Pending
                PROVE  buffer[j].at # Index(top')
    BY DEF ReadInv, NoStore, Pending, Index
  <2>1. CASE q = p
    BY <2>1
  <2>2. CASE q # p
    <3>1. pc[q] = "steal_read_element" /\ t[q] = top' /\ t[q] \in Nat /\ t[q] <= top
      BY <2>2, Actors DEF IndInv, TypeOK, ThiefInv, ThiefOK
    <3>2. t[q] = top /\ top' = top
      BY <1>0, <3>1
    <3>. QED
      BY <3>1, <3>2 DEF LagInv, ReadInv
  <2>. QED
    BY <2>1, <2>2
<1>5. bottom <= LogicalBottom'
  BY <1>2, OwnBottomBound
<1>. QED
  BY <1>0, <1>2, <1>3, <1>4, <1>5, LagSame

LEMMA StealTSOStep ==
  ASSUME NoWrap, LagInv, IndInv, NEW p \in Thieves, StealTSO(p)
  PROVE  IndInv' /\ LagInv'
<1>0. NoStore
  BY DEF StealTSO
<1>1. CASE StealReadTop(p)
  <2>1. IndInv'
    BY <1>1, StealReadTopStep
  <2>2. /\ pc'[p] = "steal_read_bottom"
        /\ \A q \in Callers \ {p} : pc'[q] = pc[q] /\ t'[q] = t[q]
        /\ UNCHANGED <<top, bottom, elements>>
    BY <1>1, GotoEffect, SetTopEffect, Actors DEF StealReadTop, IndInv
  <2>. QED
    BY <1>0, <2>1, <2>2, LagThief
<1>2. CASE StealTest(p, memory[AtBottom])
  <2>. PICK bot \in Int : bot = memory[AtBottom]
    BY Locations DEF LagInv, StoresOK, ValueAt
  <2>1. IndInv'
    BY <1>2, StealTestStep DEF LagInv, BottomInv
  <2>2. /\ \A q \in Callers \ {p} : pc'[q] = pc[q] /\ t'[q] = t[q]
        /\ UNCHANGED <<top, bottom, elements>>
        /\ pc'[p] = "steal_read_element" => bot > t[p] /\ t' = t
    <3>1. CASE ThiefReturns(p)
      BY <1>2, <3>1, ThiefReturnsEffect DEF StealTest, IndInv
    <3>2. CASE ~NothingToSteal(p, bot) /\ Goto(p, "steal_read_element") /\ UNCHANGED t
      <4>1. t[p] \in Nat
        BY Actors DEF IndInv, TypeOK
      <4>. QED
        BY <1>2, <3>2, <4>1, GotoEffect, Actors DEF StealTest, IndInv, NothingToSteal
    <3>. QED
      BY <1>2, <3>1, <3>2 DEF StealTest
  <2>3. ASSUME pc'[p] = "steal_read_element", t'[p] = top', NEW j \in Pending
        PROVE  buffer[j].at # Index(top)
    <3>1. top \in Nat /\ bot > top
      BY <2>2, <2>3 DEF IndInv, TypeOK
    <3>2. CASE buffer[j].at = AtBottom
      BY <3>1, <3>2, IndexInSlots, Locations
    <3>3. CASE buffer[j].at # AtBottom
      <4>1. PICK k \in 0 .. MaxIndex :
                   Index(k) = buffer[j].at /\ k - top < SizeMask /\ memory[AtBottom] <= k
        BY <3>3 DEF LagInv, ElementInv
      <4>2. k \in Nat /\ top < k /\ k - top < Size /\ top - k < Size
        BY <3>1, <4>1, IndicesAreIntegers, DequeAssumption DEF IndInv
      <4>3. Index(k) # Index(top)
        BY <3>1, <4>2, IndexDistinct
      <4>. QED
        BY <4>1, <4>3
    <3>. QED
      BY <3>2, <3>3
  <2>4. LagInv'
    BY <1>0, <2>2, <2>3, LagThief
  <2>. QED
    BY <2>1, <2>4
<1>3. CASE StealLoad(p, memory[Index(t[p])])
  <2>1. t[p] \in Nat /\ Index(t[p]) \in Slots /\ pc[p] = "steal_read_element"
    BY <1>3, Actors, IndexInSlots DEF IndInv, TypeOK, StealLoad
  <2>. PICK f \in Element : f = memory[Index(t[p])]
    BY <2>1, Locations DEF LagInv, StoresOK, ValueAt
  <2>2. t[p] = top => f = Slot(top)
    BY <2>1, Locations DEF LagInv, ReadInv, ViewInv, Slot
  <2>3. IndInv'
    BY <1>3, <2>2, StealLoadStep
  <2>4. /\ pc'[p] = "steal_cas"
        /\ \A q \in Callers \ {p} : pc'[q] = pc[q] /\ t'[q] = t[q]
        /\ UNCHANGED <<top, bottom, elements>>
    BY <1>3, GotoEffect, Actors DEF StealLoad, IndInv
  <2>. QED
    BY <1>0, <2>3, <2>4, LagThief
<1>4. CASE StealCas(p)
  <2>1. IndInv'
    BY <1>4, StealCasStep
  <2>2. /\ pc[p] = "steal_cas" /\ ThiefReturns(p) /\ UNCHANGED <<bottom, elements>>
    BY <1>4 DEF StealCas
  <2>3. top' = top \/ top' = top + 1
    BY <1>4, StealCasTop
  <2>4. /\ pc'[p] = "idle"
        /\ \A q \in Callers \ {p} : pc'[q] = pc[q] /\ t'[q] = t[q]
    BY <2>2, ThiefReturnsEffect DEF IndInv
  <2>. QED
    BY <1>0, <2>1, <2>2, <2>3, <2>4, LagThief
<1>. QED
  BY <1>1, <1>2, <1>3, <1>4 DEF StealTSO

-----------------------------------------------------------------------------
(***************************************************************************)
(* The invariant holds initially, and every step keeps it.                 *)
(***************************************************************************)
LEMMA InitFenceInv == InitTSO => FenceInv
<1>. SUFFICES ASSUME InitTSO PROVE FenceInv
  OBVIOUS
<1>1. IndInv
  BY InitIndInv DEF InitTSO
<1>2. buffer = <<>> /\ Pending = {} /\ memory = [l \in Location |-> View(l)]
  BY DEF InitTSO, Pending
<1>3. StoresOK
  <2>1. \A l \in Location : View(l) \in ValueAt(l) /\ View(l) \in Int \union Element
    BY <1>1, Locations DEF View, ValueAt, IndInv, TypeOK
  <2>2. buffer \in Seq(Stores) /\ Len(buffer) = 0
    BY <1>2
  <2>. QED
    BY <1>2, <2>1, <2>2, BufferAssumption DEF StoresOK, Stores
<1>4. ViewInv
  BY <1>2 DEF ViewInv
<1>5. BottomInv
  BY <1>1, <1>2, Locations, OwnBottomBound DEF BottomInv
<1>6. ElementInv /\ ReadInv /\ FencedInv
  BY <1>2 DEF ElementInv, ReadInv, FencedInv
<1>. QED
  BY <1>1, <1>3, <1>4, <1>5, <1>6 DEF FenceInv

LEMMA NextFenceInv ==
  NoWrap /\ FenceInPop /\ FenceInv /\ [NextTSO]_varsTSO => FenceInv'
<1>. SUFFICES ASSUME NoWrap, FenceInPop, FenceInv, [NextTSO]_varsTSO PROVE FenceInv'
  OBVIOUS
<1>0. IndInv /\ LagInv
  BY DEF FenceInv, LagInv
<1>. SUFFICES IndInv' /\ LagInv'
  BY DEF FenceInv, LagInv
<1>1. CASE PushTSO
  <2>1. Push
    BY <1>1 DEF PushTSO, PushBeginTSO, PushReloadTSO, PushStoreTSO, PushPublishTSO, Push
  <2>2. IndInv'
    BY <1>0, <2>1, NextIndInv DEF Next
  <2>. QED
    BY <1>0, <1>1, <2>2, PushTSOStep
<1>2. CASE PopTSO
  <2>1. Pop
    BY <1>2
    DEF PopTSO, PopBeginTSO, PopReadTopTSO, PopRestoreTSO, PopCasTSO, PopAdjustTSO, Pop
  <2>2. IndInv'
    BY <1>0, <2>1, NextIndInv DEF Next
  <2>. QED
    BY <1>0, <1>2, <2>2, PopTSOStep
<1>3. CASE Drain
  <2>1. IndInv'
    BY <1>0, <1>3, NextIndInv DEF Drain
  <2>. QED
    BY <1>0, <1>3, <2>1, LagDrain
<1>4. ASSUME NEW p \in Thieves, StealTSO(p) PROVE IndInv' /\ LagInv'
  BY <1>0, <1>4, StealTSOStep
<1>5. CASE UNCHANGED varsTSO
  <2>1. UNCHANGED vars /\ UNCHANGED <<memory, buffer>>
    BY <1>5 DEF varsTSO
  <2>2. IndInv'
    BY <1>0, <2>1, NextIndInv
  <2>3. LagInv'
    BY <1>0, <2>1
    DEF vars, LagInv, StoresOK, ViewInv, BottomInv, ElementInv, ReadInv, FencedInv,
        View, ValueAt, Pending, LogicalBottom, Index, Element, Location, Slots, SizeMask, AtBottom
  <2>. QED
    BY <2>2, <2>3
<1>. QED
  BY <1>1, <1>2, <1>3, <1>4, <1>5 DEF NextTSO

-----------------------------------------------------------------------------
(***************************************************************************)
(* With a fence in swift_deque_pop, what the owner sees obeys the          *)
(* invariant of SwiftDeque although memory lags behind it, and a thief     *)
(* that reads the oldest element reads it from memory.                     *)
(***************************************************************************)
THEOREM FenceInvariant == NoWrap /\ FenceInPop => (SpecTSO => []FenceInv)
<1>. SUFFICES ASSUME NoWrap, FenceInPop PROVE SpecTSO => []FenceInv
  OBVIOUS
<1>1. FenceInv /\ [NextTSO]_varsTSO => FenceInv'
  BY NextFenceInv
<1>. QED
  BY InitFenceInv, <1>1, PTL DEF SpecTSO

(***************************************************************************)
(* With the fence no frame is popped and stolen both: the load of top in   *)
(* swift_deque_pop cannot overtake the store of bottom any more.           *)
(***************************************************************************)
THEOREM FencedTakenOnce == NoWrap /\ FenceInPop => (SpecTSO => []TakenOnce)
<1>1. FenceInv => TakenOnce
  BY InvTakenOnce DEF FenceInv
<1>. QED
  BY <1>1, FenceInvariant, PTL

(***************************************************************************)
(* With the fence no pushed frame is lost: until somebody gets it it is    *)
(* between top and the bottom that the owner sees.                         *)
(***************************************************************************)
THEOREM FencedNoFrameLost == NoWrap /\ FenceInPop => (SpecTSO => []NoFrameLost)
<1>1. FenceInv => NoFrameLost
  BY InvNoFrameLost DEF FenceInv
<1>. QED
  BY <1>1, FenceInvariant, PTL

(***************************************************************************)
(* With the fence, what a thief has read before its CAS is the oldest      *)
(* frame if the CAS succeeds, although the owner's stores reach memory     *)
(* late.                                                                   *)
(***************************************************************************)
THEOREM FencedStolenIsOldest == NoWrap /\ FenceInPop => (SpecTSO => []StolenIsOldest)
<1>. SUFFICES ASSUME NoWrap, FenceInPop PROVE SpecTSO => []StolenIsOldest
  OBVIOUS
<1>1. FenceInv => StolenIsOldest
  BY InvStolenIsOldest DEF FenceInv
<1>. QED
  BY <1>1, FenceInvariant, PTL
=============================================================================
