---------------------------- MODULE SwiftAllocator ----------------------------
(***************************************************************************)
(* The allocator of src/swift_allocator.c as SWIFT_USE_CUSTOM_ALLOCATOR    *)
(* compiles it.  Every thread has a heap that only grows and one bucket,   *)
(* i.e. a list of free blocks, for every power of two.  The header of a    *)
(* block has one pointer, elem->next: to the next free block while the     *)
(* block is in a bucket, to the bucket it came from while it is in use.    *)
(*                                                                         *)
(* Nothing is locked.  A thread allocates from its own heap and buckets,   *)
(* but frees what it has executed, also a frame that it has stolen, into   *)
(* the bucket it came from, which may be another thread's.  So an action   *)
(* makes at most one access to a bucket.  The header of a block needs no   *)
(* step of its own: only who has the block in hand writes it, as long as   *)
(* calls on one bucket have not overlapped (clashed); what follows then is *)
(* modelled up to the first use of a pointer that is not what the code     *)
(* takes it for.                                                           *)
(***************************************************************************)
EXTENDS Integers, FiniteSets, FiniteSetsExt

CONSTANTS
  Thread,       \* the threads
  Null,         \* the end of a list
  Requests,     \* the sizes asked for, in bytes
  HeaderSize,   \* SWIFT_MEM_ALIGN(sizeof(swift_allocator_list_t)): 16
  HeapSize,     \* SWIFT_HEAP_SIZE
  BucketCount,  \* SWIFT_BUCKET_COUNT
  WordRange,    \* the number of values of a swift_size_t: 2^32
  MaxHeld       \* bound: blocks in use at a time

Align == 8      \* SWIFT_MALLOC_ALIGN

ASSUME AllocatorAssumption ==
  /\ Requests \subseteq Nat
  /\ {HeapSize, BucketCount, MaxHeld} \subseteq Nat
  /\ {HeaderSize, WordRange} \subseteq Nat \ {0}

\* The cast of SWIFT_MEM_ALIGN to swift_size_t leaves a word; what is added to a
\* word wraps, so it does not matter that the cast comes first.
Word(n)     == n % WordRange
MemAlign(n) == (Word(n + Align - 1) \div Align) * Align

\* the number of bytes the blocks of the k-th bucket have, header included
BlockSize(k) == Align * 2^k

\* Faulty: no space is allocated for the header.
BlockNeededBare(size) == MemAlign(size)
BlockNeeded(size)     == MemAlign(size + HeaderSize)

\* the bucket at which the loop of swift_malloc stops
BucketFor(size) ==
  Min({k \in 0 .. BucketCount - 1 : BlockSize(k) >= BlockNeeded(size)})

\* by how much heap_top moves for such a block
Room(k) == MemAlign(BlockSize(k))

\* A word has a power of two of values: half of it is a size that a bucket has,
\* all sizes above are multiples of it, and there are buckets of such sizes, so
\* that the loop of swift_malloc never runs past the last one.
ASSUME WordAssumption ==
  /\ \E half \in 0 .. BucketCount - 1 :
       /\ WordRange = 2 * BlockSize(half)
       /\ \A k \in 0 .. half : BlockSize(k) <= BlockSize(half)
       /\ \A k \in half + 1 .. BucketCount - 1 : BlockSize(k) % WordRange = 0
  /\ BlockSize(BucketCount - 1) >= WordRange

\* A block is known by its address: the heap and the offset it was carved at.
\* Blocks are never split or merged, so the bucket it was carved for goes with it.
Bucket == [of : Thread, size : 0 .. BucketCount - 1]
Block  == [heap : Thread, at : Nat, size : 0 .. BucketCount - 1]
Home(x) == [of |-> x.heap, size |-> x.size]

ASSUME NullAssumption == Null \notin Block \union Bucket

VARIABLES
  heapTop,  \* thread->heap_top, as an offset in the heap
  head,     \* head[b]: the first free block of bucket b
  next,     \* next[x]: x->next, for every block carved so far
  pc,       \* where a thread is in swift_malloc or swift_free
  elem,     \* elem[p]: the local elem
  b,        \* b[p]: the local b
  size,     \* size[p]: the argument of swift_malloc
  held,     \* history: the blocks handed out and not given back, with the
            \* size that was asked for
  clashed   \* history: two calls have overlapped on one bucket

vars == <<heapTop, head, next, pc, elem, b, size, held, clashed>>

Goto(p, label) == pc' = [pc EXCEPT ![p] = label]

\* the end of a call, and of its locals
Return(p) ==
  /\ Goto(p, "idle")
  /\ elem' = [elem EXCEPT ![p] = Null]
  /\ b' = [b EXCEPT ![p] = Null]
  /\ size' = [size EXCEPT ![p] = 0]

Carved == DOMAIN next
HeldBlocks == {h.block : h \in held}

(***************************************************************************)
(* swift_context_init                                                      *)
(***************************************************************************)
Init ==
  /\ heapTop = [p \in Thread |-> 0]
  /\ head = [c \in Bucket |-> Null]
  /\ next = [x \in {} |-> Null]
  /\ pc = [p \in Thread |-> "idle"]
  /\ elem = [p \in Thread |-> Null]
  /\ b = [p \in Thread |-> Null]
  /\ size = [p \in Thread |-> 0]
  /\ held = {}
  /\ clashed = FALSE

(***************************************************************************)
(* swift_malloc                                                            *)
(***************************************************************************)
\* the loop that finds the bucket, and elem = *b, which is used as a block
MallocBegin(p, n) ==
  LET found == [of |-> p, size |-> BucketFor(n)] IN
  /\ pc[p] = "idle"
  /\ Cardinality(held) < MaxHeld
  /\ size' = [size EXCEPT ![p] = n]
  /\ b' = [b EXCEPT ![p] = found]
  /\ elem' = [elem EXCEPT ![p] = head[found]]
  /\ Goto(p, CASE head[found] = Null      -> "malloc_carve"
               [] head[found] \in Carved -> "malloc_reuse"
               [] OTHER                  -> "undefined")
  /\ UNCHANGED <<heapTop, head, next, held>>

MallocReuse(p) ==
  /\ pc[p] = "malloc_reuse"
  /\ head' = [head EXCEPT ![b[p]] = next[elem[p]]]
  /\ Goto(p, "malloc_tag")
  /\ UNCHANGED <<heapTop, next, elem, b, size, held>>

MallocCarve(p) ==
  /\ pc[p] = "malloc_carve"
  /\ elem' = [elem EXCEPT ![p] = [heap |-> p, at |-> heapTop[p], size |-> b[p].size]]
  /\ heapTop' = [heapTop EXCEPT ![p] = @ + Room(b[p].size)]
  /\ Goto(p, "malloc_tag")
  /\ UNCHANGED <<head, next, b, size, held>>

\* A caller that gets a block that is in use, or too small for what it asked for,
\* writes over what belongs to others: what the program does next is undefined.
Usable(p) == elem[p] \notin HeldBlocks /\ HeaderSize + size[p] <= Room(b[p].size)

HandOut(p) ==
  /\ held' = held \union {[block |-> elem[p], size |-> size[p]]}
  /\ IF Usable(p) THEN Return(p) ELSE Goto(p, "undefined") /\ UNCHANGED <<elem, b, size>>

\* Faulty: the bucket is not noted in the block.
MallocTagForgotten(p) ==
  /\ pc[p] = "malloc_tag"
  /\ next' = [x \in Carved \union {elem[p]} |-> IF x \in Carved THEN next[x] ELSE Null]
  /\ HandOut(p)
  /\ UNCHANGED <<heapTop, head>>

\* Faulty: the limit of the heap is not looked at.
MallocTagUnchecked(p) ==
  /\ pc[p] = "malloc_tag"
  /\ next' = [x \in Carved \union {elem[p]} |-> IF x = elem[p] THEN b[p] ELSE next[x]]
  /\ HandOut(p)
  /\ UNCHANGED <<heapTop, head>>

\* elem->next = b, then the assertion on the heap's limit ends the process or
\* the block is handed out
MallocTag(p) ==
  /\ pc[p] = "malloc_tag"
  /\ next' = [x \in Carved \union {elem[p]} |-> IF x = elem[p] THEN b[p] ELSE next[x]]
  /\ IF elem[p].at < HeapSize
     THEN HandOut(p)
     ELSE Goto(p, "aborted") /\ UNCHANGED <<elem, b, size, held>>
  /\ UNCHANGED <<heapTop, head>>

(***************************************************************************)
(* swift_free, of a frame that was executed: swift_frame_done gives it to  *)
(* swift_retire_frame with the thread that has executed it, which need not *)
(* be the one that allocated it                                            *)
(***************************************************************************)
\* Faulty: the block goes to the bucket of the thread that frees it.
FreeBeginOwnBucket(p, h) ==
  /\ pc[p] = "idle"
  /\ h \in held
  /\ held' = held \ {h}
  /\ elem' = [elem EXCEPT ![p] = h.block]
  /\ b' = [b EXCEPT ![p] = [of |-> p, size |-> h.block.size]]
  /\ Goto(p, "free_link")
  /\ UNCHANGED <<heapTop, head, next, size>>

\* b = elem->next, which is used as a bucket
FreeBegin(p, h) ==
  /\ pc[p] = "idle"
  /\ h \in held
  /\ held' = held \ {h}
  /\ elem' = [elem EXCEPT ![p] = h.block]
  /\ b' = [b EXCEPT ![p] = next[h.block]]
  /\ Goto(p, IF next[h.block] \in Bucket THEN "free_link" ELSE "undefined")
  /\ UNCHANGED <<heapTop, head, next, size>>

\* Faulty: the rest of the list is dropped.
FreeLinkDrops(p) ==
  /\ pc[p] = "free_link"
  /\ next' = [next EXCEPT ![elem[p]] = Null]
  /\ Goto(p, "free_put")
  /\ UNCHANGED <<heapTop, head, elem, b, size, held>>

\* elem->next = *b
FreeLink(p) ==
  /\ pc[p] = "free_link"
  /\ next' = [next EXCEPT ![elem[p]] = head[b[p]]]
  /\ Goto(p, "free_put")
  /\ UNCHANGED <<heapTop, head, elem, b, size, held>>

\* *b = elem
FreePut(p) ==
  /\ pc[p] = "free_put"
  /\ head' = [head EXCEPT ![b[p]] = elem[p]]
  /\ Return(p)
  /\ UNCHANGED <<heapTop, next, held>>

-----------------------------------------------------------------------------
Malloc(p) ==
  \/ \E n \in Requests : MallocBegin(p, n)
  \/ MallocReuse(p)
  \/ MallocCarve(p)
  \/ MallocTag(p)

Free(p) == (\E h \in held : FreeBegin(p, h)) \/ FreeLink(p) \/ FreePut(p)

Aborted == \E p \in Thread : pc[p] = "aborted"
Stopped == Aborted \/ \E p \in Thread : pc[p] = "undefined"

\* Two calls are between their read and their write of the same bucket.
Overlapping ==
  \E p, q \in Thread :
    p # q /\ b[p] = b[q] /\ {pc[p], pc[q]} \subseteq {"malloc_reuse", "free_put"}

Next ==
  \/ /\ ~Stopped
     /\ \E p \in Thread : Malloc(p) \/ Free(p)
     /\ clashed' = (clashed \/ Overlapping)
  \/ Stopped /\ UNCHANGED vars

Spec == Init /\ [][Next]_vars

-----------------------------------------------------------------------------
(***************************************************************************)
(* Properties                                                              *)
(***************************************************************************)
Labels ==
  {"idle", "malloc_reuse", "malloc_carve", "malloc_tag", "free_link", "free_put",
   "aborted", "undefined"}

\* Types; a bucket or a link may hold the address of a bucket once calls clashed.
TypeOK ==
  /\ heapTop \in [Thread -> Nat]
  /\ head \in [Bucket -> Carved \union Bucket \union {Null}]
  /\ \A x \in Carved : x \in Block /\ next[x] \in Carved \union Bucket \union {Null}
  /\ elem \in [Thread -> Block \union Bucket \union {Null}]
  /\ DOMAIN b = Thread /\ DOMAIN size = Thread
  /\ pc \in [Thread -> Labels]
  /\ \A p \in Thread : pc[p] \notin {"idle", "undefined"} => b[p] \in Bucket
  /\ held \in SUBSET [block : Block, size : Requests]
  /\ clashed \in BOOLEAN

\* the blocks that a thread is taking from a bucket or the heap, or putting back
InTransit(p) == IF pc[p] \in {"malloc_tag", "free_link", "free_put", "aborted"} THEN {elem[p]} ELSE {}

\* The blocks in the list of bucket c: those in every set that has its first
\* block and, with a block, the one that its link names.
HasList(c, S) == ({head[c]} \union {next[x] : x \in S}) \intersect Carved \subseteq S
FreeIn(c) ==
  IF head[c] \in Carved THEN {x \in Carved : \A S \in SUBSET Carved : HasList(c, S) => x \in S}
                        ELSE {}
FreeBlocks == UNION {FreeIn(c) : c \in Bucket}

(***************************************************************************)
(* Every block that was carved from a heap is in exactly one place: handed *)
(* out to one caller, in the hand of one thread that is taking it or       *)
(* giving it back, or in a bucket.  A block in two places will have two    *)
(* owners; one in none is lost, and the heap runs out under a program that *)
(* frees all it uses.  A block that was freed is to "return to the bucket" *)
(* (src/swift_allocator.c:89).                                             *)
(***************************************************************************)
InOnePlace ==
  /\ \A h, g \in held : h.block = g.block => h = g
  /\ \A p, q \in Thread : p # q => InTransit(p) \intersect InTransit(q) = {}
  /\ \A p \in Thread : InTransit(p) \intersect (HeldBlocks \union FreeBlocks) = {}
  /\ HeldBlocks \intersect FreeBlocks = {}
  /\ Carved \subseteq HeldBlocks \union FreeBlocks \union UNION {InTransit(p) : p \in Thread}

(***************************************************************************)
(* That is so, whichever threads free what others have allocated, until    *)
(* two calls overlap between their read and their write of one bucket.     *)
(***************************************************************************)
InOnePlaceUntilClash == ~clashed => InOnePlace

(***************************************************************************)
(* A bucket has blocks of its own size and heap only, even after calls     *)
(* have clashed, so that no caller ever gets a block of a smaller bucket.  *)
(***************************************************************************)
OwnBucketOnly == \A c \in Bucket : \A x \in FreeIn(c) : Home(x) = c

(***************************************************************************)
(* Blocks do not overlap, and the bytes that a caller asked for, behind    *)
(* the header, are in its block if they are at most half the range of a    *)
(* word, header included.  Whoever asks for more always gets less, and is  *)
(* not told: the size is cut off to a word, or heap_top does not move and  *)
(* the next block would begin at the same place.                           *)
(***************************************************************************)
EndOf(x) == x.at + Room(x.size)
EndOfBytes(h) == h.block.at + HeaderSize + h.size
Fits(n) == HeaderSize + n <= WordRange \div 2

RoomForRequest ==
  /\ \A h \in held : Fits(h.size) <=> EndOfBytes(h) <= EndOf(h.block)
  /\ \A x, y \in Carved : x # y /\ x.heap = y.heap => EndOf(x) <= y.at \/ EndOf(y) <= x.at

(***************************************************************************)
(* The assertion on the limit of a heap looks at the first byte of a block *)
(* only, so a block may reach beyond.  What the assertion still gives: no  *)
(* caller has a block behind one that does (of a size that fits a word, as *)
(* above); whoever would get one is stopped.                               *)
(***************************************************************************)
OverhangIsLast ==
  \A h, g \in held :
    Fits(h.size) /\ EndOfBytes(h) > HeapSize /\ g.block.heap = h.block.heap
      => g.block.at <= h.block.at

(***************************************************************************)
(* The inductive invariant.  Its first part (AlwaysInv) holds whatever     *)
(* clashes.                                                                *)
(***************************************************************************)
\* what the locals of a call say of the bucket and the block in hand
CallInv(p) ==
  /\ pc[p] \in {"malloc_reuse", "malloc_carve", "malloc_tag"} =>
       b[p].of = p /\ size[p] \in Requests /\ b[p].size = BucketFor(size[p])
  /\ pc[p] = "malloc_reuse" \/ InTransit(p) # {} => elem[p] \in Block /\ Home(elem[p]) = b[p]
  /\ pc[p] \in {"malloc_reuse", "free_link", "free_put", "aborted"} => elem[p] \in Carved

\* what a caller has got
HeldInv ==
  \A h \in held : h.block \in Carved /\ h.block.size = BucketFor(h.size) /\ h.block.at < HeapSize

\* No pointer leads from the list of one bucket to another one.
BucketOf(y) == IF y \in Bucket THEN y ELSE Home(y)

LinkInv ==
  /\ \A c \in Bucket : head[c] # Null => BucketOf(head[c]) = c
  /\ \A x \in Carved : next[x] # Null => BucketOf(next[x]) = Home(x)

\* blocks lie one behind the other, and only one that ended the process
\* begins beyond the limit
Known == Carved \union UNION {InTransit(p) : p \in Thread}

LayoutInv ==
  /\ \A x \in Known : x.at <= EndOf(x) /\ EndOf(x) <= heapTop[x.heap]
  /\ \A x, y \in Known : x # y /\ x.heap = y.heap => EndOf(x) <= y.at \/ EndOf(y) <= x.at
  /\ \A x \in Carved : x.at = EndOf(x) => Stopped
  /\ \A x \in Carved :
       x.at >= HeapSize => \E p \in Thread : pc[p] = "aborted" /\ elem[p] = x

(***************************************************************************)
(* Its second part (UntilClashInv) holds until calls clash.                *)
(***************************************************************************)
\* A list has no cycle and no two ways to the same block: no link leads to the
\* first block, and no two links to the same one.
ListInv(c) ==
  /\ head[c] \in Carved \union {Null}
  /\ \A x \in FreeIn(c) : next[x] \in Carved \union {Null} /\ next[x] # head[c]
  /\ \A x, y \in FreeIn(c) : next[x] = next[y] /\ next[x] \in Carved => x = y

\* What a call has read of a bucket is still there, and a block in use names its own.
FreshInv ==
  /\ \A p \in Thread :
       /\ pc[p] = "malloc_reuse" => elem[p] = head[b[p]]
       /\ pc[p] = "free_put" => next[elem[p]] = head[b[p]]
  /\ \A h \in held : next[h.block] = Home(h.block)

AlwaysInv ==
  /\ TypeOK
  /\ \A p \in Thread : CallInv(p)
  /\ HeldInv
  /\ LinkInv
  /\ LayoutInv

UntilClashInv ==
  /\ FreshInv
  /\ \A c \in Bucket : ListInv(c)
  /\ InOnePlace

AllocInv == AlwaysInv /\ (~clashed => UntilClashInv)
=============================================================================
