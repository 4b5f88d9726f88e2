------------------------- MODULE SwiftAllocatorProofs -------------------------
(***************************************************************************)
(* Proofs about SwiftAllocator, for any number of threads, of blocks and   *)
(* of buckets, any word, heap and header size, and any sizes that are      *)
(* asked for.  Every thread may free what any other has allocated.         *)
(*                                                                         *)
(* The invariant has two parts.  AlwaysInv does not depend on how calls    *)
(* interleave.  UntilClashInv is proved for steps before which no two      *)
(* calls are between the read and the write of one bucket.                 *)
(***************************************************************************)
EXTENDS SwiftAllocator, WellFoundedInduction, TLAPS

(***************************************************************************)
(* Sizes                                                                   *)
(***************************************************************************)
LEMMA ModPlusSeven ==
  ASSUME NEW a \in Nat, NEW w \in Nat, a % w = 0, 7 < w
  PROVE  (a + 7) % w = 7
<1>. DEFINE q == a \div w
            s == (a + 7) \div w
            r == (a + 7) % w
<1>1. a = w * q /\ q \in Int /\ s \in Int /\ r \in 0 .. w - 1 /\ a + 7 = w * s + r
  OBVIOUS
<1>. HIDE DEF q, s, r
<1>2. PICK d \in Int : d = s - q
  BY <1>1
<1>3. w * d = 7 - r
  BY <1>1, <1>2
<1>4. d >= 1 => w * d >= w
  BY <1>1
<1>5. d <= -1 => w * d <= -w
  BY <1>1
<1>6. d = 0
  BY <1>1, <1>3, <1>4, <1>5
<1>. QED
  BY <1>1, <1>3, <1>6 DEF r

\* Half the values of a word are a size that a bucket has.
LEMMA HalfWord ==
  /\ WordRange \in Nat /\ HeaderSize \in Nat /\ HeaderSize > 0
  /\ \E half \in 0 .. BucketCount - 1, t \in Nat :
       /\ WordRange = 16 * t /\ WordRange \div 2 = 8 * t /\ t > 0
       /\ BlockSize(half) = 8 * t
       /\ \A k \in 0 .. half : BlockSize(k) <= 8 * t
       /\ \A k \in half + 1 .. BucketCount - 1 : BlockSize(k) % WordRange = 0
<1>1. PICK half \in 0 .. BucketCount - 1 :
        /\ WordRange = 2 * BlockSize(half)
        /\ \A k \in 0 .. half : BlockSize(k) <= BlockSize(half)
        /\ \A k \in half + 1 .. BucketCount - 1 : BlockSize(k) % WordRange = 0
  BY WordAssumption
<1>2. PICK t \in Int : t = 2^half
  BY AllocatorAssumption
<1>3. BlockSize(half) = 8 * t
  BY <1>2 DEF BlockSize, Align
<1>4. WordRange \in Nat /\ WordRange > 0 /\ HeaderSize \in Nat /\ HeaderSize > 0
  BY AllocatorAssumption
<1>5. WordRange = 16 * t /\ t > 0 /\ WordRange \div 2 = 8 * t
  BY <1>1, <1>3, <1>4
<1>. QED
  BY <1>1, <1>3, <1>4, <1>5

LEMMA SizesOfBlocks ==
  ASSUME NEW k \in Nat
  PROVE  \E m \in Int : BlockSize(k) = 8 * m
<1>1. 2^k \in Int
  OBVIOUS
<1>. QED
  BY <1>1 DEF BlockSize, Align

\* Rounding up to a multiple of the alignment: what fits half a word is rounded
\* up, a multiple of the word to nothing.
LEMMA AlignIs ==
  ASSUME NEW n \in Nat
  PROVE  /\ MemAlign(n) \in Nat /\ MemAlign(n) < WordRange
         /\ n <= WordRange \div 2 => n <= MemAlign(n) /\ MemAlign(n) <= WordRange \div 2
         /\ \A m \in Int : n = 8 * m /\ n <= WordRange \div 2 => MemAlign(n) = n
         /\ n % WordRange = 0 => MemAlign(n) = 0
<1>1. PICK t \in Nat : WordRange = 16 * t /\ WordRange \div 2 = 8 * t /\ t > 0
  BY HalfWord
<1>. DEFINE a == (n + 7) % WordRange
<1>2. a \in Nat /\ a < WordRange
  BY <1>1
<1>3. MemAlign(n) = (a \div 8) * 8
  BY DEF MemAlign, Word, Align
<1>4. n <= WordRange \div 2 => a = n + 7
  BY <1>1
<1>5. n % WordRange = 0 => a = 7
  BY <1>1, ModPlusSeven
<1>. HIDE DEF a
<1>6. (a \div 8) * 8 \in Nat /\ (a \div 8) * 8 <= a /\ (a \div 8) * 8 >= a - 7 /\ a \div 8 \in Int
  BY <1>2
<1>7. MemAlign(n) \in Nat /\ MemAlign(n) < WordRange
  BY <1>1, <1>2, <1>3, <1>6
<1>8. ASSUME n <= WordRange \div 2 PROVE n <= MemAlign(n) /\ MemAlign(n) <= WordRange \div 2
  BY <1>1, <1>3, <1>4, <1>6, <1>8
<1>9. ASSUME NEW m \in Int, n = 8 * m, n <= WordRange \div 2 PROVE MemAlign(n) = n
  BY <1>3, <1>4, <1>9
<1>10. ASSUME n % WordRange = 0 PROVE MemAlign(n) = 0
  BY <1>3, <1>5, <1>10
<1>. QED
  BY <1>7, <1>8, <1>9, <1>10

\* The loop of swift_malloc finds a bucket for every request: the smallest one.
LEMMA BucketForRequest ==
  ASSUME NEW n \in Requests
  PROVE  /\ BucketFor(n) \in 0 .. BucketCount - 1 /\ BlockSize(BucketFor(n)) >= BlockNeeded(n)
         /\ \A k \in 0 .. BucketCount - 1 : BlockSize(k) >= BlockNeeded(n) => BucketFor(n) <= k
<1>. DEFINE S == {k \in 0 .. BucketCount - 1 : BlockSize(k) >= BlockNeeded(n)}
<1>1. S # {} /\ S \subseteq Nat
  <2>1. BucketCount \in Nat /\ BucketCount - 1 \in 0 .. BucketCount - 1
    BY WordAssumption, AllocatorAssumption
  <2>2. n + HeaderSize \in Nat
    BY AllocatorAssumption
  <2>3. BlockNeeded(n) \in Nat /\ BlockNeeded(n) < WordRange
    BY <2>2, AlignIs DEF BlockNeeded
  <2>4. PICK m \in Int : BlockSize(BucketCount - 1) = 8 * m
    BY <2>1, SizesOfBlocks
  <2>5. BlockSize(BucketCount - 1) >= BlockNeeded(n)
    BY <2>3, <2>4, WordAssumption, HalfWord
  <2>. QED
    BY <2>1, <2>5
<1>2. \E k \in S : \A m \in S : k <= m
  <2>. DEFINE R == {r \in Nat \X Nat : r[1] < r[2]}
  <2>1. IsWellFoundedOn(R, Nat)
    BY NatLessThanWellFounded DEF OpToRel
  <2>2. PICK k \in S : \A m \in S : <<m, k>> \notin R
    <3>. HIDE DEF S, R
    <3>. QED
      BY <1>1, <2>1, WFMin
  <2>3. ASSUME NEW m \in S PROVE k <= m
    <3>1. k \in Nat /\ m \in Nat /\ <<m, k>> \notin R
      BY <1>1, <2>2
    <3>. HIDE DEF S
    <3>. QED
      BY <3>1
  <2>. QED
    BY <2>3
<1>3. Min(S) \in S /\ \A k \in S : Min(S) <= k
  BY <1>2 DEF Min
<1>. QED
  BY <1>3 DEF BucketFor

LEMMA RoomOfBucket ==
  ASSUME NEW k \in 0 .. BucketCount - 1
  PROVE  Room(k) \in Nat
<1>1. k \in Nat
  BY AllocatorAssumption
<1>2. PICK m \in Int : BlockSize(k) = 8 * m
  BY <1>1, SizesOfBlocks
<1>3. PICK a \in Nat : a = (8 * m + 7) % WordRange
  BY HalfWord
<1>. QED
  BY <1>2, <1>3 DEF Room, MemAlign, Word, Align

\* A block has room for a request if and only if that fits half a word.
LEMMA RoomForFitting ==
  ASSUME NEW n \in Requests
  PROVE  /\ Room(BucketFor(n)) \in Nat
         /\ Fits(n) <=> HeaderSize + n <= Room(BucketFor(n))
<1>. DEFINE k == BucketFor(n)
<1>1. PICK half \in 0 .. BucketCount - 1, t \in Nat :
        /\ WordRange = 16 * t /\ WordRange \div 2 = 8 * t /\ t > 0
        /\ BlockSize(half) = 8 * t
        /\ \A j \in 0 .. half : BlockSize(j) <= 8 * t
        /\ \A j \in half + 1 .. BucketCount - 1 : BlockSize(j) % WordRange = 0
  BY HalfWord
<1>2. n + HeaderSize \in Nat /\ n \in Nat /\ HeaderSize \in Nat /\ HeaderSize > 0 /\ BucketCount \in Nat
  BY AllocatorAssumption
<1>3. /\ BlockNeeded(n) \in Nat
      /\ Fits(n) => n + HeaderSize <= BlockNeeded(n) /\ BlockNeeded(n) <= 8 * t
  BY <1>1, <1>2, AlignIs DEF BlockNeeded, Fits
<1>4. k \in 0 .. BucketCount - 1 /\ BlockSize(k) >= BlockNeeded(n)
  BY BucketForRequest
<1>5. Fits(n) => k <= half
  BY <1>1, <1>3, BucketForRequest
<1>. HIDE DEF k
<1>6. PICK m \in Int : BlockSize(k) = 8 * m
  BY <1>2, <1>4, SizesOfBlocks
<1>7. BlockSize(k) \in Nat
  BY <1>3, <1>4, <1>6
<1>8. CASE k <= half
  <2>1. BlockSize(k) <= 8 * t
    BY <1>1, <1>4, <1>8
  <2>2. Room(k) = BlockSize(k)
    BY <1>1, <1>6, <1>7, <2>1, AlignIs DEF Room
  <2>. QED
    BY <1>1, <1>2, <1>3, <1>4, <1>7, <2>1, <2>2 DEF Fits, k
<1>9. CASE ~(k <= half)
  <2>1. k \in half + 1 .. BucketCount - 1
    BY <1>1, <1>2, <1>4, <1>9
  <2>2. BlockSize(k) % WordRange = 0
    BY <1>1, <2>1
  <2>3. Room(k) = 0
    BY <1>7, <2>2, AlignIs DEF Room
  <2>. QED
    BY <1>2, <1>5, <1>9, <2>3 DEF k
<1>. QED
  BY <1>8, <1>9

\* Where a block ends
LEMMA EndOfBlock ==
  ASSUME NEW x \in Block
  PROVE  /\ x.at \in Nat /\ x.heap \in Thread /\ EndOf(x) \in Nat /\ x.at <= EndOf(x)
         /\ EndOf(x) = x.at + Room(x.size) /\ Room(x.size) \in Nat
BY RoomOfBucket DEF EndOf, Block

LEMMA EndOfRequest ==
  ASSUME NEW x \in Block, NEW n \in Requests, x.size = BucketFor(n)
  PROVE  /\ Fits(n) <=> x.at + HeaderSize + n <= EndOf(x)
         /\ HeaderSize + n <= Room(x.size) => x.at < EndOf(x)
<1>1. Fits(n) <=> HeaderSize + n <= Room(x.size)
  BY RoomForFitting
<1>2. HeaderSize \in Nat /\ HeaderSize > 0 /\ n \in Nat
  BY AllocatorAssumption
<1>. QED
  BY <1>1, <1>2, EndOfBlock

-----------------------------------------------------------------------------
(***************************************************************************)
(* The lists of free blocks                                                *)
(***************************************************************************)
LEMMA Apart == Block \intersect Bucket = {} /\ Null \notin Block /\ Null \notin Bucket
BY NullAssumption DEF Block, Bucket

\* The list of a bucket is closed under links, and it is the least such set.
ListFacts ==
  \A c \in Bucket :
    /\ FreeIn(c) \subseteq Carved
    /\ head[c] \in Carved => head[c] \in FreeIn(c)
    /\ \A x \in FreeIn(c) : next[x] \in Carved => next[x] \in FreeIn(c)
    /\ \A S \in SUBSET Carved :
         (head[c] \in Carved => head[c] \in S) /\ (\A x \in S : next[x] \in Carved => next[x] \in S)
           => FreeIn(c) \subseteq S

LEMMA ListsAreLeast == ListFacts
<1>. SUFFICES ASSUME NEW c \in Bucket
              PROVE  /\ FreeIn(c) \subseteq Carved
                     /\ head[c] \in Carved => head[c] \in FreeIn(c)
                     /\ \A x \in FreeIn(c) : next[x] \in Carved => next[x] \in FreeIn(c)
                     /\ \A S \in SUBSET Carved :
                          (head[c] \in Carved => head[c] \in S)
                            /\ (\A x \in S : next[x] \in Carved => next[x] \in S)
                              => FreeIn(c) \subseteq S
  BY DEF ListFacts
<1>1. \A S : HasList(c, S) <=>
               /\ head[c] \in Carved => head[c] \in S
               /\ \A x \in S : next[x] \in Carved => next[x] \in S
  BY DEF HasList
<1>2. head[c] \in Carved => head[c] \in FreeIn(c)
  BY <1>1 DEF FreeIn
<1>3. \A x \in FreeIn(c) : next[x] \in Carved => next[x] \in FreeIn(c)
  BY <1>1 DEF FreeIn
<1>4. FreeIn(c) \subseteq Carved
  BY DEF FreeIn
<1>5. \A S \in SUBSET Carved : HasList(c, S) => FreeIn(c) \subseteq S
  BY DEF FreeIn
<1>. QED
  BY <1>1, <1>2, <1>3, <1>4, <1>5

LEMMA ListsAreLeastNext == ListFacts'
BY ListsAreLeast, PTL

LEMMA NoListWithoutHead ==
  ASSUME NEW c \in Bucket, head[c] \notin Carved
  PROVE  FreeIn(c) = {}
BY DEF FreeIn

LEMMA NoListWithoutHeadNext ==
  ASSUME NEW c \in Bucket, head'[c] \notin Carved'
  PROVE  FreeIn(c)' = {}
BY DEF FreeIn

\* Links of blocks outside a list may change, and blocks may be carved.
LEMMA ListSame ==
  ASSUME NEW c \in Bucket, ListInv(c), head'[c] = head[c], Carved \subseteq Carved', Null \notin Carved',
         \A x \in FreeIn(c) : next'[x] = next[x]
  PROVE  FreeIn(c)' = FreeIn(c)
<1>. DEFINE F == FreeIn(c)
            G == FreeIn(c)'
            C == Carved
            D == Carved'
<1>1. /\ F \subseteq C /\ (head[c] \in C => head[c] \in F)
      /\ \A x \in F : next[x] \in C => next[x] \in F
      /\ \A S \in SUBSET C :
           (head[c] \in C => head[c] \in S) /\ (\A x \in S : next[x] \in C => next[x] \in S)
             => F \subseteq S
  BY ListsAreLeast DEF ListFacts
<1>2. /\ G \subseteq D /\ (head'[c] \in D => head'[c] \in G)
      /\ \A x \in G : next'[x] \in D => next'[x] \in G
      /\ \A S \in SUBSET D :
           (head'[c] \in D => head'[c] \in S) /\ (\A x \in S : next'[x] \in D => next'[x] \in S)
             => G \subseteq S
  BY ListsAreLeastNext DEF ListFacts, Bucket
<1>3. head[c] \in C \union {Null} /\ \A x \in F : next[x] \in C \union {Null} /\ next'[x] = next[x]
  BY DEF ListInv
<1>4. head'[c] = head[c] /\ C \subseteq D /\ Null \notin D
  OBVIOUS
<1>. HIDE DEF F, G, C, D
<1>5. G \subseteq F
  <2>1. head'[c] \in D => head'[c] \in F
    BY <1>1, <1>3, <1>4
  <2>2. \A x \in F : next'[x] \in D => next'[x] \in F
    BY <1>1, <1>3, <1>4
  <2>3. F \in SUBSET D
    BY <1>1, <1>4
  <2>. QED
    BY <1>2, <2>1, <2>2, <2>3
<1>6. F \subseteq G
  <2>. DEFINE S == F \intersect G
  <2>1. head[c] \in C => head[c] \in S
    BY <1>1, <1>2, <1>4
  <2>2. \A x \in S : next[x] \in C => next[x] \in S
    BY <1>1, <1>2, <1>3, <1>4
  <2>3. S \in SUBSET C
    BY <1>1
  <2>4. F \subseteq S
    BY <1>1, <2>1, <2>2, <2>3
  <2>. QED
    BY <2>4
<1>. QED
  BY <1>5, <1>6 DEF F, G

\* The first block is taken off a list.
LEMMA ListPop ==
  ASSUME NEW c \in Bucket, ListInv(c), head[c] \in Carved, Null \notin Carved,
         head'[c] = next[head[c]], next' = next
  PROVE  FreeIn(c)' = FreeIn(c) \ {head[c]} /\ head[c] \in FreeIn(c)
<1>. DEFINE F == FreeIn(c)
            G == FreeIn(c)'
            C == Carved
            h == head[c]
<1>1. /\ F \subseteq C /\ h \in F
      /\ \A x \in F : next[x] \in C => next[x] \in F
      /\ \A S \in SUBSET C :
           h \in S /\ (\A x \in S : next[x] \in C => next[x] \in S) => F \subseteq S
  BY ListsAreLeast DEF ListFacts
<1>2. /\ G \subseteq C /\ (next[h] \in C => next[h] \in G)
      /\ \A x \in G : next[x] \in C => next[x] \in G
      /\ \A S \in SUBSET C :
           (next[h] \in C => next[h] \in S) /\ (\A x \in S : next[x] \in C => next[x] \in S)
             => G \subseteq S
  <2>1. Carved' = Carved /\ head'[c] = next[h] /\ next' = next
    BY DEF Carved
  <2>. QED
    BY <2>1, ListsAreLeastNext DEF ListFacts, Bucket
<1>3. \A x \in F : next[x] # h
  BY DEF ListInv
<1>. HIDE DEF F, G, C, h
<1>4. G \subseteq F \ {h}
  <2>. DEFINE S == F \ {h}
  <2>1. S \in SUBSET C /\ (next[h] \in C => next[h] \in S)
    BY <1>1, <1>3
  <2>2. \A x \in S : next[x] \in C => next[x] \in S
    BY <1>1, <1>3
  <2>. QED
    BY <1>2, <2>1, <2>2
<1>5. F \subseteq G \union {h}
  <2>. DEFINE S == G \union {h}
  <2>1. S \in SUBSET C /\ h \in S
    BY <1>1, <1>2
  <2>2. \A x \in S : next[x] \in C => next[x] \in S
    BY <1>2
  <2>. QED
    BY <1>1, <2>1, <2>2
<1>. QED
  BY <1>1, <1>4, <1>5 DEF F, G, h

\* A block whose link names the first block becomes the first.
LEMMA ListPush ==
  ASSUME NEW c \in Bucket, NEW e \in Carved, e \notin FreeIn(c), Null \notin Carved,
         next[e] = head[c], head'[c] = e, next' = next
  PROVE  FreeIn(c)' = FreeIn(c) \union {e}
<1>. DEFINE F == FreeIn(c)
            G == FreeIn(c)'
            C == Carved
            h == head[c]
<1>1. /\ F \subseteq C /\ (h \in C => h \in F)
      /\ \A x \in F : next[x] \in C => next[x] \in F
      /\ \A S \in SUBSET C :
           (h \in C => h \in S) /\ (\A x \in S : next[x] \in C => next[x] \in S) => F \subseteq S
  BY ListsAreLeast DEF ListFacts
<1>2. /\ G \subseteq C /\ e \in G
      /\ \A x \in G : next[x] \in C => next[x] \in G
      /\ \A S \in SUBSET C :
           e \in S /\ (\A x \in S : next[x] \in C => next[x] \in S) => G \subseteq S
  <2>1. Carved' = Carved /\ head'[c] = e /\ next' = next
    BY DEF Carved
  <2>. QED
    BY <2>1, ListsAreLeastNext DEF ListFacts, Bucket
<1>3. next[e] = h
  OBVIOUS
<1>. HIDE DEF F, G, C, h
<1>4. G \subseteq F \union {e}
  <2>. DEFINE S == F \union {e}
  <2>1. S \in SUBSET C /\ e \in S
    BY <1>1, <1>2
  <2>2. \A x \in S : next[x] \in C => next[x] \in S
    BY <1>1, <1>3
  <2>. QED
    BY <1>2, <2>1, <2>2
<1>5. F \subseteq G
  <2>1. h \in C => h \in G
    BY <1>2, <1>3
  <2>. QED
    BY <1>1, <1>2, <2>1
<1>. QED
  BY <1>2, <1>4, <1>5 DEF F, G

\* A list stays in its bucket, whatever the order of the steps was.
LEMMA ListsOfOwnBlocks == TypeOK /\ LinkInv => OwnBucketOnly
<1>. SUFFICES ASSUME TypeOK, LinkInv, NEW c \in Bucket
              PROVE  FreeIn(c) \subseteq {x \in Carved : Home(x) = c}
  BY DEF OwnBucketOnly
<1>. DEFINE S == {x \in Carved : Home(x) = c}
<1>1. \A x \in Carved : x # Null /\ x \notin Bucket
  BY Apart DEF TypeOK
<1>2. head[c] \in Carved => head[c] \in S
  BY <1>1 DEF LinkInv, BucketOf
<1>3. \A x \in S : next[x] \in Carved => next[x] \in S
  BY <1>1 DEF LinkInv, BucketOf
<1>4. S \in SUBSET Carved
  OBVIOUS
<1>. QED
  BY <1>2, <1>3, <1>4, ListsAreLeast DEF ListFacts

-----------------------------------------------------------------------------
(***************************************************************************)
(* What a step of one thread leaves alone                                  *)
(***************************************************************************)
OthersStay(p) ==
  \A q \in Thread \ {p} :
    pc'[q] = pc[q] /\ elem'[q] = elem[q] /\ b'[q] = b[q] /\ size'[q] = size[q]

LEMMA GotoOther ==
  ASSUME TypeOK, NEW p \in Thread, NEW l, Goto(p, l)
  PROVE  /\ pc'[p] = l /\ \A q \in Thread \ {p} : pc'[q] = pc[q]
         /\ l \in Labels => pc' \in [Thread -> Labels]
BY DEF TypeOK, Goto

LEMMA ReturnOther ==
  ASSUME TypeOK, NEW p \in Thread, Return(p)
  PROVE  /\ pc'[p] = "idle" /\ OthersStay(p) /\ pc' \in [Thread -> Labels]
         /\ elem' \in [Thread -> Block \union Bucket \union {Null}]
         /\ DOMAIN b' = Thread /\ DOMAIN size' = Thread
BY DEF TypeOK, Goto, Return, Labels, OthersStay

LEMMA TransitOther ==
  ASSUME NEW p \in Thread, OthersStay(p), NEW q \in Thread \ {p}
  PROVE  InTransit(q)' = InTransit(q)
BY DEF OthersStay, InTransit

LEMMA KnownIs ==
  /\ Carved \subseteq Known /\ \A q \in Thread : InTransit(q) \subseteq Known
  /\ \A x \in Known : x \in Carved \/ \E q \in Thread : x \in InTransit(q)
BY DEF Known

LEMMA KnownIsNext ==
  /\ Carved' \subseteq Known' /\ \A q \in Thread : InTransit(q)' \subseteq Known'
  /\ \A x \in Known' : x \in Carved' \/ \E q \in Thread : x \in InTransit(q)'
BY DEF Known

\* While no thread was stopped, every block begins below the limit and ends
\* behind its beginning.
LEMMA NotStopped ==
  ASSUME LayoutInv, ~Stopped, NEW x \in Carved
  PROVE  ~(x.at >= HeapSize) /\ x.at # EndOf(x)
BY DEF LayoutInv, Stopped, Aborted

LEMMA CallsOfOthers ==
  ASSUME \A q \in Thread : CallInv(q), NEW p \in Thread, OthersStay(p), Carved \subseteq Carved',
         CallInv(p)'
  PROVE  \A q \in Thread : CallInv(q)'
<1>. SUFFICES ASSUME NEW q \in Thread, q # p PROVE CallInv(q)'
  OBVIOUS
<1>1. /\ pc'[q] = pc[q] /\ elem'[q] = elem[q] /\ b'[q] = b[q] /\ size'[q] = size[q]
      /\ InTransit(q)' = InTransit(q) /\ CallInv(q)
  BY TransitOther DEF OthersStay
<1>. QED
  BY <1>1 DEF CallInv, BucketFor, BlockSize, BlockNeeded, MemAlign, Word, Align

LEMMA LayoutSame ==
  ASSUME LayoutInv, heapTop' = heapTop, Known' \subseteq Known,
         \A x \in Carved' : x.at = EndOf(x) => Stopped',
         \A x \in Carved' : x.at >= HeapSize => \E q \in Thread : pc'[q] = "aborted" /\ elem'[q] = x
  PROVE  LayoutInv'
BY DEF LayoutInv, EndOf, Room, MemAlign, Word, BlockSize, Align

\* A step that carves no block and hands none out
LEMMA QuietStep ==
  ASSUME AlwaysInv, ~Stopped, NEW p \in Thread, OthersStay(p), TypeOK', CallInv(p)', LinkInv',
         heapTop' = heapTop, Carved' = Carved, held' \subseteq held, InTransit(p)' \subseteq Carved
  PROVE  AlwaysInv'
<1>. USE DEF AlwaysInv
<1>1. \A q \in Thread : CallInv(q)'
  BY CallsOfOthers
<1>2. HeldInv'
  BY DEF HeldInv, BucketFor, BlockSize, BlockNeeded, MemAlign, Word, Align
<1>3. LayoutInv'
  <2>1. Known' \subseteq Known
    BY TransitOther, KnownIs, KnownIsNext
  <2>. QED
    BY <2>1, NotStopped, LayoutSame
<1>. QED
  BY <1>1, <1>2, <1>3

-----------------------------------------------------------------------------
(***************************************************************************)
(* The steps of swift_malloc and swift_free, whatever clashes              *)
(***************************************************************************)
LEMMA MallocBeginAlways ==
  ASSUME AlwaysInv, ~Stopped, NEW p \in Thread, NEW n \in Requests, MallocBegin(p, n),
         clashed' \in BOOLEAN
  PROVE  AlwaysInv'
<1>. DEFINE found == [of |-> p, size |-> BucketFor(n)]
<1>. USE DEF AlwaysInv
<1>1. found \in Bucket /\ found.of = p /\ found.size = BucketFor(n)
  BY BucketForRequest DEF Bucket
<1>2. /\ heapTop' = heapTop /\ head' = head /\ next' = next /\ held' = held /\ Carved' = Carved
      /\ size' = [size EXCEPT ![p] = n] /\ b' = [b EXCEPT ![p] = found]
      /\ elem' = [elem EXCEPT ![p] = head[found]]
  BY DEF MallocBegin, Carved
<1>3. /\ pc' \in [Thread -> Labels] /\ OthersStay(p)
      /\ pc'[p] = CASE head[found] = Null      -> "malloc_carve"
                    [] head[found] \in Carved -> "malloc_reuse"
                    [] OTHER                  -> "undefined"
  BY GotoOther DEF MallocBegin, OthersStay, TypeOK, Labels
<1>. HIDE DEF found
<1>4. /\ b'[p] = found /\ size'[p] = n /\ elem'[p] = head[found]
      /\ head[found] \in Carved \union Bucket \union {Null}
  BY <1>1, <1>2 DEF TypeOK
<1>5. InTransit(p)' = {}
  BY <1>3 DEF InTransit
<1>6. TypeOK'
  <2>1. elem' \in [Thread -> Block \union Bucket \union {Null}]
    BY <1>2, <1>4 DEF TypeOK
  <2>2. \A q \in Thread : pc'[q] \notin {"idle", "undefined"} => b'[q] \in Bucket
    BY <1>1, <1>3, <1>4 DEF OthersStay, TypeOK
  <2>3. DOMAIN b' = Thread /\ DOMAIN size' = Thread
    BY <1>2 DEF TypeOK
  <2>. QED
    BY <1>2, <1>3, <2>1, <2>2, <2>3 DEF TypeOK
<1>7. CallInv(p)'
  <2>1. pc'[p] = "malloc_reuse" =>
          head[found] \in Carved /\ head[found] \in Block /\ Home(head[found]) = found
    BY <1>1, <1>3, Apart DEF LinkInv, BucketOf, TypeOK
  <2>. QED
    BY <1>1, <1>2, <1>3, <1>4, <1>5, <2>1 DEF CallInv
<1>8. LinkInv'
  BY <1>2 DEF LinkInv, BucketOf, Home, Bucket
<1>. QED
  BY <1>2, <1>3, <1>5, <1>6, <1>7, <1>8, QuietStep

LEMMA MallocReuseAlways ==
  ASSUME AlwaysInv, ~Stopped, NEW p \in Thread, MallocReuse(p), clashed' \in BOOLEAN
  PROVE  AlwaysInv'
<1>. USE DEF AlwaysInv
<1>. SUFFICES ASSUME NEW c \in Bucket, NEW x \in Carved, c = b[p], x = elem[p]
              PROVE  AlwaysInv'
  BY DEF MallocReuse, TypeOK, CallInv
<1>1. /\ pc[p] = "malloc_reuse" /\ x \in Block /\ Home(x) = c
      /\ next[x] \in Carved \union Bucket \union {Null}
  BY DEF MallocReuse, TypeOK, CallInv
<1>2. /\ heapTop' = heapTop /\ next' = next /\ elem' = elem /\ b' = b /\ size' = size /\ held' = held
      /\ Carved' = Carved /\ head' = [head EXCEPT ![c] = next[x]]
  BY DEF MallocReuse, Carved
<1>3. /\ pc' \in [Thread -> Labels] /\ OthersStay(p) /\ pc'[p] = "malloc_tag"
  BY <1>2, GotoOther DEF MallocReuse, OthersStay, TypeOK, Labels
<1>4. InTransit(p)' = {x}
  BY <1>2, <1>3 DEF InTransit
<1>5. TypeOK'
  <2>1. head' \in [Bucket -> Carved \union Bucket \union {Null}]
    BY <1>1, <1>2 DEF TypeOK
  <2>2. \A q \in Thread : pc'[q] \notin {"idle", "undefined"} => b'[q] \in Bucket
    BY <1>2, <1>3 DEF OthersStay, TypeOK
  <2>. QED
    BY <1>2, <1>3, <2>1, <2>2 DEF TypeOK
<1>6. CallInv(p)'
  BY <1>1, <1>2, <1>3, <1>4 DEF CallInv
<1>7. LinkInv'
  <2>1. head'[c] = next[x] /\ \A d \in Bucket \ {c} : head'[d] = head[d]
    BY <1>2 DEF TypeOK
  <2>2. \A d \in Bucket : head'[d] # Null => BucketOf(head'[d]) = d
    BY <1>1, <2>1 DEF LinkInv
  <2>. QED
    BY <1>2, <2>2 DEF LinkInv, BucketOf, Home, Bucket
<1>. QED
  BY <1>2, <1>3, <1>4, <1>5, <1>6, <1>7, QuietStep

LEMMA MallocCarveAlways ==
  ASSUME AlwaysInv, ~Stopped, NEW p \in Thread, MallocCarve(p), clashed' \in BOOLEAN
  PROVE  AlwaysInv'
<1>. DEFINE x == [heap |-> p, at |-> heapTop[p], size |-> b[p].size]
<1>. USE DEF AlwaysInv
<1>1. b[p] \in Bucket /\ b[p].of = p
  BY DEF MallocCarve, TypeOK, CallInv
<1>2. x \in Block /\ x.heap = p /\ x.at = heapTop[p] /\ x.size = b[p].size /\ Home(x) = b[p]
  BY <1>1 DEF TypeOK, Bucket, Block, Home
<1>3. x.at \in Nat /\ EndOf(x) \in Nat /\ x.at <= EndOf(x) /\ EndOf(x) = x.at + Room(x.size)
  BY <1>2, EndOfBlock
<1>4. /\ heapTop' = [heapTop EXCEPT ![p] = EndOf(x)] /\ elem' = [elem EXCEPT ![p] = x]
      /\ head' = head /\ next' = next /\ b' = b /\ size' = size /\ held' = held
      /\ Carved' = Carved /\ pc[p] = "malloc_carve"
  BY <1>2, <1>3 DEF MallocCarve, Carved, TypeOK
<1>. HIDE DEF x
<1>5. pc' \in [Thread -> Labels] /\ OthersStay(p) /\ pc'[p] = "malloc_tag" /\ elem'[p] = x
  BY <1>4, GotoOther DEF MallocCarve, OthersStay, TypeOK, Labels
<1>6. InTransit(p)' = {x}
  BY <1>4, <1>5 DEF InTransit
<1>7. heapTop'[p] = EndOf(x) /\ \A q \in Thread \ {p} : heapTop'[q] = heapTop[q]
  BY <1>4 DEF TypeOK
<1>8. \A y \in Known : y \in Block
  BY KnownIs DEF CallInv, TypeOK, InTransit
<1>9. /\ \A y \in Known : y.heap \in Thread /\ y.at \in Nat /\ EndOf(y) \in Nat
      /\ \A y \in Known : y.at <= EndOf(y) /\ EndOf(y) <= heapTop[y.heap]
      /\ \A q \in Thread : heapTop[q] \in Nat
  BY <1>8, EndOfBlock DEF LayoutInv, TypeOK
<1>10. \A y \in Known : y.heap = p => EndOf(y) <= x.at
  BY <1>2, <1>9
<1>11. Known' \subseteq Known \union {x}
  BY <1>4, <1>5, <1>6, TransitOther, KnownIs, KnownIsNext
<1>12. TypeOK'
  <2>1. heapTop' \in [Thread -> Nat]
    BY <1>3, <1>4, <1>7, <1>9 DEF TypeOK
  <2>2. elem' \in [Thread -> Block \union Bucket \union {Null}]
    BY <1>2, <1>4 DEF TypeOK
  <2>3. \A q \in Thread : pc'[q] \notin {"idle", "undefined"} => b'[q] \in Bucket
    BY <1>1, <1>4, <1>5 DEF OthersStay, TypeOK
  <2>. QED
    BY <1>4, <1>5, <2>1, <2>2, <2>3 DEF TypeOK
<1>13. CallInv(p)'
  <2>1. size[p] \in Requests /\ b[p].size = BucketFor(size[p])
    BY <1>4 DEF CallInv
  <2>. QED
    BY <1>1, <1>2, <1>4, <1>5, <1>6, <2>1 DEF CallInv
<1>14. \A q \in Thread : CallInv(q)'
  BY <1>4, <1>5, <1>13, CallsOfOthers
<1>15. HeldInv' /\ LinkInv'
  BY <1>4 DEF HeldInv, LinkInv, BucketOf, Home, Bucket, BucketFor, BlockSize, BlockNeeded, MemAlign,
              Word, Align
<1>16. LayoutInv'
  <2>1. \A y \in Known' : y.at <= EndOf(y) /\ EndOf(y) <= heapTop'[y.heap]
    <3>1. ASSUME NEW y \in Known PROVE y.at <= EndOf(y) /\ EndOf(y) <= heapTop'[y.heap]
      BY <1>2, <1>3, <1>7, <1>9, <1>10
    <3>2. x.at <= EndOf(x) /\ EndOf(x) <= heapTop'[x.heap]
      BY <1>2, <1>3, <1>7
    <3>. QED
      BY <1>11, <3>1, <3>2
  <2>2. \A y, z \in Known' : y # z /\ y.heap = z.heap => EndOf(y) <= z.at \/ EndOf(z) <= y.at
    BY <1>2, <1>10, <1>11 DEF LayoutInv
  <2>3. \A y \in Carved' : ~(y.at >= HeapSize) /\ y.at # EndOf(y)
    BY <1>4, NotStopped
  <2>. QED
    BY <2>1, <2>2, <2>3 DEF LayoutInv, EndOf, Room, MemAlign, Word, BlockSize, Align
<1>. QED
  BY <1>12, <1>14, <1>15, <1>16

LEMMA MallocTagAlways ==
  ASSUME AlwaysInv, ~Stopped, NEW p \in Thread, MallocTag(p), clashed' \in BOOLEAN
  PROVE  AlwaysInv'
<1>. USE DEF AlwaysInv
<1>. SUFFICES ASSUME NEW x \in Block, NEW c \in Bucket, NEW n \in Requests,
                     x = elem[p], c = b[p], n = size[p]
              PROVE  AlwaysInv'
  BY DEF MallocTag, TypeOK, CallInv, InTransit
<1>. DEFINE h == [block |-> x, size |-> n]
            below == x.at < HeapSize
<1>1. pc[p] = "malloc_tag" /\ InTransit(p) = {x} /\ Home(x) = c /\ c.size = BucketFor(n)
  BY DEF MallocTag, InTransit, CallInv
<1>2. x.size = BucketFor(n) /\ Carved \subseteq Block
  BY <1>1 DEF Home, TypeOK
<1>3. /\ heapTop' = heapTop /\ head' = head
      /\ next' = [y \in Carved \union {x} |-> IF y = x THEN c ELSE next[y]]
  BY DEF MallocTag
<1>4. /\ Carved' = Carved \union {x} /\ next'[x] = c /\ \A y \in Carved \ {x} : next'[y] = next[y]
  BY <1>3 DEF Carved
<1>5. held' = IF below THEN held \union {h} ELSE held
  BY DEF MallocTag, HandOut
<1>6. /\ pc' \in [Thread -> Labels] /\ OthersStay(p)
      /\ elem' \in [Thread -> Block \union Bucket \union {Null}]
      /\ DOMAIN b' = Thread /\ DOMAIN size' = Thread
      /\ pc'[p] \in {"idle", "undefined", "aborted"}
      /\ pc'[p] = "aborted" <=> ~below
      /\ pc'[p] = "idle" => Usable(p)
      /\ ~below => elem' = elem /\ b' = b
  <2>1. CASE below /\ Usable(p)
    <3>1. Return(p)
      BY <2>1 DEF MallocTag, HandOut
    <3>. QED
      BY <2>1, <3>1, ReturnOther
  <2>2. CASE ~(below /\ Usable(p))
    <3>1. elem' = elem /\ b' = b /\ size' = size /\ Goto(p, IF below THEN "undefined" ELSE "aborted")
      BY <2>2 DEF MallocTag, HandOut
    <3>. QED
      BY <2>2, <3>1, GotoOther DEF OthersStay, TypeOK, Labels
  <2>. QED
    BY <2>1, <2>2
<1>7. InTransit(p)' = IF below THEN {} ELSE {x}
  BY <1>6 DEF InTransit
<1>. HIDE DEF h, below
<1>8. TypeOK'
  <2>1. \A y \in Carved' : y \in Block /\ next'[y] \in Carved' \union Bucket \union {Null}
    BY <1>2, <1>4 DEF TypeOK
  <2>2. \A q \in Thread : pc'[q] \notin {"idle", "undefined"} => b'[q] \in Bucket
    BY <1>6 DEF TypeOK, OthersStay
  <2>3. held' \in SUBSET [block : Block, size : Requests]
    BY <1>5 DEF TypeOK, h
  <2>4. head' \in [Bucket -> Carved' \union Bucket \union {Null}]
    BY <1>3, <1>4 DEF TypeOK
  <2>. QED
    BY <1>3, <1>6, <2>1, <2>2, <2>3, <2>4 DEF TypeOK
<1>9. CallInv(p)'
  <2>1. ~below => elem'[p] = x /\ b'[p] = c /\ x \in Carved'
    BY <1>4, <1>6
  <2>. QED
    BY <1>1, <1>6, <1>7, <2>1 DEF CallInv
<1>10. \A q \in Thread : CallInv(q)'
  BY <1>4, <1>6, <1>9, CallsOfOthers
<1>11. HeldInv'
  <2>1. h.block = x /\ h.size = n
    BY DEF h
  <2>2. \A g \in held' : g \in held \/ (g = h /\ x.at < HeapSize)
    BY <1>5 DEF below
  <2>. QED
    BY <1>2, <1>4, <2>1, <2>2 DEF HeldInv, BucketFor, BlockSize, BlockNeeded, MemAlign, Word, Align
<1>12. LinkInv'
  <2>1. \A y \in Carved' : next'[y] # Null => BucketOf(next'[y]) = Home(y)
    <3>1. BucketOf(c) = c
      BY DEF BucketOf
    <3>. QED
      BY <1>1, <1>4, <3>1 DEF LinkInv
  <2>. QED
    BY <1>3, <2>1 DEF LinkInv, BucketOf, Home, Bucket
<1>13. LayoutInv'
  <2>1. Known' \subseteq Known
    BY <1>1, <1>4, <1>6, <1>7, TransitOther, KnownIs, KnownIsNext
  <2>2. ASSUME x.at >= HeapSize PROVE \E q \in Thread : pc'[q] = "aborted" /\ elem'[q] = x
    <3>1. ~below
      BY <2>2, AllocatorAssumption DEF below, Block
    <3>. QED
      BY <1>6, <3>1
  <2>3. ASSUME x.at = EndOf(x) PROVE Stopped'
    <3>1. ~Usable(p)
      BY <1>1, <1>2, <2>3, EndOfRequest, EndOfBlock DEF Usable
    <3>. QED
      BY <1>6, <3>1 DEF Stopped, Aborted
  <2>4. \A y \in Carved' : y # x => ~(y.at >= HeapSize) /\ y.at # EndOf(y)
    BY <1>4, NotStopped
  <2>. QED
    BY <1>3, <2>1, <2>2, <2>3, <2>4, LayoutSame
<1>. QED
  BY <1>8, <1>10, <1>11, <1>12, <1>13

LEMMA FreeBeginAlways ==
  ASSUME AlwaysInv, ~Stopped, NEW p \in Thread, NEW h \in held, FreeBegin(p, h), clashed' \in BOOLEAN
  PROVE  AlwaysInv'
<1>. USE DEF AlwaysInv
<1>. SUFFICES ASSUME NEW x \in Carved, x = h.block PROVE AlwaysInv'
  BY DEF HeldInv
<1>1. /\ heapTop' = heapTop /\ head' = head /\ next' = next /\ size' = size /\ Carved' = Carved
      /\ elem' = [elem EXCEPT ![p] = x] /\ b' = [b EXCEPT ![p] = next[x]] /\ held' = held \ {h}
  BY DEF FreeBegin, Carved
<1>2. x \in Block /\ next[x] \in Carved \union Bucket \union {Null}
  BY DEF TypeOK
<1>3. /\ pc' \in [Thread -> Labels] /\ OthersStay(p) /\ elem'[p] = x /\ b'[p] = next[x]
      /\ pc'[p] = IF next[x] \in Bucket THEN "free_link" ELSE "undefined"
  BY <1>1, GotoOther DEF FreeBegin, OthersStay, TypeOK, Labels
<1>4. InTransit(p)' \subseteq {x}
  BY <1>3 DEF InTransit
<1>5. TypeOK'
  <2>1. elem' \in [Thread -> Block \union Bucket \union {Null}]
    BY <1>1, <1>2 DEF TypeOK
  <2>2. \A q \in Thread : pc'[q] \notin {"idle", "undefined"} => b'[q] \in Bucket
    BY <1>3 DEF OthersStay, TypeOK
  <2>3. DOMAIN b' = Thread /\ DOMAIN size' = Thread
    BY <1>1 DEF TypeOK
  <2>. QED
    BY <1>1, <1>3, <2>1, <2>2, <2>3 DEF TypeOK
<1>6. CallInv(p)'
  <2>1. next[x] \in Bucket => next[x] = Home(x)
    BY Apart DEF LinkInv, BucketOf
  <2>2. pc'[p] # "free_link" => InTransit(p)' = {}
    BY <1>3 DEF InTransit
  <2>. QED
    BY <1>1, <1>2, <1>3, <2>1, <2>2 DEF CallInv
<1>7. LinkInv'
  BY <1>1 DEF LinkInv, BucketOf, Home, Bucket
<1>. QED
  BY <1>1, <1>3, <1>4, <1>5, <1>6, <1>7, QuietStep

LEMMA FreeLinkAlways ==
  ASSUME AlwaysInv, ~Stopped, NEW p \in Thread, FreeLink(p), clashed' \in BOOLEAN
  PROVE  AlwaysInv'
<1>. USE DEF AlwaysInv
<1>. SUFFICES ASSUME NEW x \in Carved, NEW c \in Bucket, x = elem[p], c = b[p]
              PROVE  AlwaysInv'
  BY DEF FreeLink, TypeOK, CallInv
<1>1. /\ pc[p] = "free_link" /\ InTransit(p) = {x} /\ Home(x) = c /\ x \in Block
      /\ head[c] \in Carved \union Bucket \union {Null}
  BY DEF FreeLink, InTransit, CallInv, TypeOK
<1>2. /\ heapTop' = heapTop /\ head' = head /\ elem' = elem /\ b' = b /\ size' = size /\ held' = held
      /\ Carved' = Carved /\ next'[x] = head[c] /\ \A y \in Carved \ {x} : next'[y] = next[y]
  BY DEF FreeLink, Carved
<1>3. /\ pc' \in [Thread -> Labels] /\ OthersStay(p) /\ pc'[p] = "free_put"
  BY <1>2, GotoOther DEF FreeLink, OthersStay, TypeOK, Labels
<1>4. InTransit(p)' = {x}
  BY <1>2, <1>3 DEF InTransit
<1>5. TypeOK'
  <2>1. \A y \in Carved' : y \in Block /\ next'[y] \in Carved' \union Bucket \union {Null}
    BY <1>1, <1>2 DEF TypeOK
  <2>2. \A q \in Thread : pc'[q] \notin {"idle", "undefined"} => b'[q] \in Bucket
    BY <1>2, <1>3 DEF OthersStay, TypeOK
  <2>. QED
    BY <1>2, <1>3, <2>1, <2>2 DEF TypeOK
<1>6. CallInv(p)'
  BY <1>1, <1>2, <1>3, <1>4 DEF CallInv
<1>7. LinkInv'
  <2>1. \A y \in Carved' : next'[y] # Null => BucketOf(next'[y]) = Home(y)
    BY <1>1, <1>2 DEF LinkInv
  <2>. QED
    BY <1>2, <2>1 DEF LinkInv, BucketOf, Home, Bucket
<1>. QED
  BY <1>2, <1>3, <1>4, <1>5, <1>6, <1>7, QuietStep

LEMMA FreePutAlways ==
  ASSUME AlwaysInv, ~Stopped, NEW p \in Thread, FreePut(p), clashed' \in BOOLEAN
  PROVE  AlwaysInv'
<1>. USE DEF AlwaysInv
<1>. SUFFICES ASSUME NEW x \in Carved, NEW c \in Bucket, x = elem[p], c = b[p]
              PROVE  AlwaysInv'
  BY DEF FreePut, TypeOK, CallInv
<1>1. Home(x) = c /\ x \in Block
  BY DEF FreePut, InTransit, CallInv, TypeOK
<1>2. /\ heapTop' = heapTop /\ next' = next /\ held' = held /\ Carved' = Carved /\ Return(p)
      /\ head' = [head EXCEPT ![c] = x]
  BY DEF FreePut, Carved
<1>3. /\ pc' \in [Thread -> Labels] /\ OthersStay(p) /\ pc'[p] = "idle"
      /\ elem' \in [Thread -> Block \union Bucket \union {Null}]
      /\ DOMAIN b' = Thread /\ DOMAIN size' = Thread
  BY <1>2, ReturnOther
<1>4. InTransit(p)' = {}
  BY <1>3 DEF InTransit
<1>5. TypeOK'
  <2>1. head' \in [Bucket -> Carved \union Bucket \union {Null}]
    BY <1>2 DEF TypeOK
  <2>2. \A q \in Thread : pc'[q] \notin {"idle", "undefined"} => b'[q] \in Bucket
    BY <1>3 DEF OthersStay, TypeOK
  <2>. QED
    BY <1>2, <1>3, <2>1, <2>2 DEF TypeOK
<1>6. CallInv(p)'
  BY <1>3, <1>4 DEF CallInv
<1>7. LinkInv'
  <2>1. head'[c] = x /\ \A d \in Bucket \ {c} : head'[d] = head[d]
    BY <1>2 DEF TypeOK
  <2>2. BucketOf(x) = c
    BY <1>1, Apart DEF BucketOf
  <2>3. \A d \in Bucket : head'[d] # Null => BucketOf(head'[d]) = d
    BY <2>1, <2>2 DEF LinkInv
  <2>. QED
    BY <1>2, <2>3 DEF LinkInv, BucketOf, Home, Bucket
<1>. QED
  BY <1>2, <1>3, <1>4, <1>5, <1>6, <1>7, QuietStep

-----------------------------------------------------------------------------
(***************************************************************************)
(* The same steps, as long as no calls have clashed                        *)
(***************************************************************************)
\* What other calls have read stays, if their buckets and blocks do.
LEMMA FreshOthers ==
  ASSUME FreshInv, NEW p \in Thread, OthersStay(p),
         \A q \in Thread \ {p} : pc[q] \in {"malloc_reuse", "free_put"} => head'[b[q]] = head[b[q]],
         \A q \in Thread \ {p} : pc[q] = "free_put" => next'[elem[q]] = next[elem[q]],
         pc'[p] = "malloc_reuse" => elem'[p] = head'[b'[p]],
         pc'[p] = "free_put" => next'[elem'[p]] = head'[b'[p]],
         \A h \in held' : next'[h.block] = Home(h.block)
  PROVE  FreshInv'
BY DEF FreshInv, OthersStay, Home

\* Before a step on a bucket, no other call has read it and not yet written it.
LEMMA AloneOnBucket ==
  ASSUME ~Overlapping, NEW p \in Thread, pc[p] \in {"malloc_reuse", "free_put"},
         NEW q \in Thread \ {p}, pc[q] \in {"malloc_reuse", "free_put"}
  PROVE  b[q] # b[p]
BY DEF Overlapping

OnePlace ==
  /\ \A h, g \in held : h.block = g.block => h = g
  /\ \A p, q \in Thread : p # q => InTransit(p) \intersect InTransit(q) = {}
  /\ \A p \in Thread : InTransit(p) \intersect (HeldBlocks \union FreeBlocks) = {}
  /\ HeldBlocks \intersect FreeBlocks = {}
  /\ \A x \in Carved : x \in HeldBlocks \/ x \in FreeBlocks \/ \E p \in Thread : x \in InTransit(p)

LEMMA OnePlaceIs == InOnePlace <=> OnePlace
<1>1. \A x : x \in UNION {InTransit(p) : p \in Thread} <=> \E p \in Thread : x \in InTransit(p)
  OBVIOUS
<1>. QED
  BY <1>1 DEF InOnePlace, OnePlace

LEMMA OnePlaceIsNext == InOnePlace' <=> OnePlace'
BY OnePlaceIs, PTL

\* A block in the hand of one thread is nowhere else.
LEMMA InHandOnly ==
  ASSUME InOnePlace, NEW p \in Thread, NEW x, InTransit(p) = {x}
  PROVE  /\ x \notin HeldBlocks /\ x \notin FreeBlocks /\ \A c \in Bucket : x \notin FreeIn(c)
         /\ \A q \in Thread \ {p} : x \notin InTransit(q)
<1>1. OnePlace
  BY OnePlaceIs
<1>2. x \in InTransit(p)
  OBVIOUS
<1>. QED
  BY <1>1, <1>2 DEF OnePlace, FreeBlocks

\* Two lists share no block.
LEMMA BucketsApart ==
  ASSUME TypeOK, LinkInv, NEW c \in Bucket, NEW d \in Bucket, c # d
  PROVE  FreeIn(c) \intersect FreeIn(d) = {}
BY ListsOfOwnBlocks DEF OwnBucketOnly

\* Links change in no list.
LEMMA ListsStay ==
  ASSUME \A c \in Bucket : ListInv(c), head' = head,
         Carved \subseteq Carved', Carved' \subseteq Block,
         \A c \in Bucket : \A x \in FreeIn(c) : next'[x] = next[x]
  PROVE  /\ \A c \in Bucket : FreeIn(c)' = FreeIn(c) /\ ListInv(c)'
         /\ FreeBlocks' = FreeBlocks
<1>1. ASSUME NEW c \in Bucket PROVE FreeIn(c)' = FreeIn(c)
  BY ListSame, Apart
<1>2. ASSUME NEW c \in Bucket PROVE ListInv(c)'
  <2>1. FreeIn(c) \subseteq Carved
    BY DEF FreeIn
  <2>2. ListInv(c) /\ FreeIn(c)' = FreeIn(c) /\ \A x \in FreeIn(c) : next'[x] = next[x]
    BY <1>1
  <2>3. \A x, y \in FreeIn(c) : next[x] = next[y] /\ next[x] \in Carved' => x = y
    <3>1. \A x \in FreeIn(c) : next[x] \in Carved' => next[x] \in Carved
      BY <2>2, Apart DEF ListInv
    <3>. QED
      BY <2>2, <3>1 DEF ListInv
  <2>. QED
    BY <2>1, <2>2, <2>3 DEF ListInv
<1>3. FreeBlocks' = FreeBlocks
  BY <1>1 DEF FreeBlocks, Bucket
<1>. QED
  BY <1>1, <1>2, <1>3

\* The lists of buckets that a step does not touch, while no link changes
LEMMA OtherLists ==
  ASSUME TypeOK, \A c \in Bucket : ListInv(c), next' = next,
         NEW d \in Bucket, \A c \in Bucket \ {d} : head'[c] = head[c]
  PROVE  \A c \in Bucket \ {d} : FreeIn(c)' = FreeIn(c) /\ ListInv(c)'
<1>1. Carved' = Carved /\ Null \notin Carved
  BY Apart DEF Carved, TypeOK
<1>2. ASSUME NEW c \in Bucket \ {d} PROVE FreeIn(c)' = FreeIn(c)
  BY <1>1, ListSame
<1>. QED
  BY <1>1, <1>2 DEF ListInv

LEMMA MallocBeginUntilClash ==
  ASSUME AlwaysInv, UntilClashInv, NEW p \in Thread, NEW n \in Requests, MallocBegin(p, n)
  PROVE  UntilClashInv'
<1>. DEFINE found == [of |-> p, size |-> BucketFor(n)]
<1>. USE DEF AlwaysInv, UntilClashInv
<1>1. found \in Bucket
  BY BucketForRequest DEF Bucket
<1>2. /\ head' = head /\ next' = next /\ held' = held /\ Carved' = Carved /\ HeldBlocks' = HeldBlocks
      /\ pc[p] = "idle" /\ b' = [b EXCEPT ![p] = found] /\ elem' = [elem EXCEPT ![p] = head[found]]
  BY DEF MallocBegin, Carved, HeldBlocks
<1>3. /\ OthersStay(p) /\ b'[p] = found /\ elem'[p] = head[found]
      /\ pc'[p] \in {"malloc_carve", "malloc_reuse", "undefined"}
  BY <1>1, <1>2, GotoOther DEF MallocBegin, OthersStay, TypeOK, Labels
<1>. HIDE DEF found
<1>4. \A q \in Thread : InTransit(q)' = InTransit(q)
  <2>1. InTransit(p) = {} /\ InTransit(p)' = {}
    BY <1>2, <1>3 DEF InTransit
  <2>. QED
    BY <1>3, <2>1, TransitOther
<1>5. FreshInv'
  <2>1. \A h \in held : next[h.block] = Home(h.block)
    BY DEF FreshInv
  <2>. QED
    BY <1>2, <1>3, <2>1, FreshOthers
<1>6. /\ \A c \in Bucket : FreeIn(c)' = FreeIn(c) /\ ListInv(c)'
      /\ FreeBlocks' = FreeBlocks
  BY <1>2, ListsStay DEF TypeOK
<1>7. InOnePlace'
  BY <1>2, <1>4, <1>6, OnePlaceIs, OnePlaceIsNext DEF OnePlace
<1>. QED
  BY <1>5, <1>6, <1>7 DEF Bucket

LEMMA MallocReuseUntilClash ==
  ASSUME AlwaysInv, UntilClashInv, ~Overlapping, NEW p \in Thread, MallocReuse(p)
  PROVE  UntilClashInv'
<1>. USE DEF AlwaysInv, UntilClashInv
<1>. SUFFICES ASSUME NEW c \in Bucket, NEW x \in Carved, c = b[p], x = elem[p]
              PROVE  UntilClashInv'
  BY DEF MallocReuse, TypeOK, CallInv
<1>1. pc[p] = "malloc_reuse" /\ x = head[c] /\ x \in Block /\ Null \notin Carved /\ ListInv(c)
  BY Apart DEF MallocReuse, TypeOK, FreshInv
<1>2. /\ next' = next /\ elem' = elem /\ b' = b /\ size' = size /\ held' = held
      /\ Carved' = Carved /\ HeldBlocks' = HeldBlocks
      /\ head'[c] = next[x] /\ \A d \in Bucket \ {c} : head'[d] = head[d]
  BY DEF MallocReuse, Carved, HeldBlocks, TypeOK
<1>3. OthersStay(p) /\ pc'[p] = "malloc_tag"
  BY <1>2, GotoOther DEF MallocReuse, OthersStay, TypeOK, Labels
<1>4. InTransit(p) = {} /\ InTransit(p)' = {x} /\ \A q \in Thread \ {p} : InTransit(q)' = InTransit(q)
  BY <1>1, <1>2, <1>3, TransitOther DEF InTransit
<1>5. FreshInv'
  <2>1. \A q \in Thread \ {p} : pc[q] \in {"malloc_reuse", "free_put"} => head'[b[q]] = head[b[q]]
    BY <1>1, <1>2, AloneOnBucket DEF TypeOK
  <2>2. \A h \in held : next[h.block] = Home(h.block)
    BY DEF FreshInv
  <2>. QED
    BY <1>2, <1>3, <2>1, <2>2, FreshOthers
<1>6. x \in FreeIn(c) /\ FreeIn(c)' = FreeIn(c) \ {x} /\ FreeIn(c) \subseteq Carved
  <2>1. FreeIn(c) \subseteq Carved
    BY DEF FreeIn
  <2>. QED
    BY <1>1, <1>2, <2>1, ListPop
<1>7. \A d \in Bucket \ {c} : FreeIn(d)' = FreeIn(d) /\ ListInv(d)'
  BY <1>2, OtherLists
<1>8. ListInv(c)'
  <2>1. CASE next[x] \in Carved
    <3>1. \A y \in FreeIn(c) \ {x} : next[y] # next[x]
      BY <1>1, <1>6, <2>1 DEF ListInv
    <3>. QED
      BY <1>1, <1>2, <1>6, <2>1, <3>1 DEF ListInv
  <2>2. CASE next[x] \notin Carved
    <3>1. FreeIn(c)' = {}
      BY <1>2, <2>2, NoListWithoutHeadNext
    <3>2. head'[c] \in Carved' \union {Null}
      BY <1>1, <1>2, <1>6 DEF ListInv
    <3>. QED
      BY <3>1, <3>2 DEF ListInv
  <2>. QED
    BY <2>1, <2>2
<1>9. FreeBlocks' = FreeBlocks \ {x} /\ x \in FreeBlocks
  <2>1. \A d \in Bucket \ {c} : x \notin FreeIn(d)
    BY <1>6, BucketsApart
  <2>. QED
    BY <1>6, <1>7, <2>1 DEF FreeBlocks, Bucket
<1>10. InOnePlace'
  <2>1. x \notin HeldBlocks /\ \A q \in Thread : x \notin InTransit(q)
    BY <1>9, OnePlaceIs, OnePlaceIsNext DEF OnePlace
  <2>. QED
    BY <1>2, <1>4, <1>9, <2>1, OnePlaceIs, OnePlaceIsNext DEF OnePlace
<1>. QED
  BY <1>5, <1>7, <1>8, <1>10 DEF Bucket

LEMMA MallocCarveUntilClash ==
  ASSUME AlwaysInv, UntilClashInv, ~Stopped, NEW p \in Thread, MallocCarve(p)
  PROVE  UntilClashInv'
<1>. USE DEF AlwaysInv, UntilClashInv
<1>. SUFFICES ASSUME NEW x, x = [heap |-> p, at |-> heapTop[p], size |-> b[p].size]
              PROVE  UntilClashInv'
  OBVIOUS
<1>1. x \in Block /\ x.heap = p /\ x.at = heapTop[p]
  BY DEF MallocCarve, TypeOK, Bucket, Block
<1>2. /\ head' = head /\ next' = next /\ b' = b /\ size' = size /\ held' = held
      /\ Carved' = Carved /\ HeldBlocks' = HeldBlocks /\ pc[p] = "malloc_carve"
      /\ elem' = [elem EXCEPT ![p] = x]
  BY DEF MallocCarve, Carved, HeldBlocks
<1>3. OthersStay(p) /\ pc'[p] = "malloc_tag" /\ elem'[p] = x
  BY <1>2, GotoOther DEF MallocCarve, OthersStay, TypeOK, Labels
<1>4. InTransit(p) = {} /\ InTransit(p)' = {x} /\ \A q \in Thread \ {p} : InTransit(q)' = InTransit(q)
  BY <1>2, <1>3, TransitOther DEF InTransit
<1>5. x \notin Carved /\ \A q \in Thread : x \notin InTransit(q)
  <2>1. x \notin Carved
    <3>. SUFFICES ASSUME x \in Carved PROVE FALSE
      OBVIOUS
    <3>1. x \in Known
      BY KnownIs
    <3>2. x.at <= EndOf(x) /\ EndOf(x) <= heapTop[p] /\ x.at # EndOf(x)
      BY <1>1, <3>1, NotStopped DEF LayoutInv
    <3>3. EndOf(x) \in Nat /\ x.at \in Nat
      BY <1>1, EndOfBlock
    <3>. QED
      BY <1>1, <3>2, <3>3
  <2>2. ASSUME NEW q \in Thread, x \in InTransit(q) PROVE FALSE
    <3>1. q # p
      BY <1>4, <2>2
    <3>2. x = elem[q] /\ Home(x) = b[q] /\ pc[q] \in {"malloc_tag", "free_link", "free_put", "aborted"}
      BY <2>2 DEF InTransit, CallInv
    <3>3. pc[q] = "malloc_tag" => b[q].of = q
      BY DEF CallInv
    <3>4. pc[q] # "malloc_tag" => x \in Carved
      BY <3>2 DEF CallInv
    <3>. QED
      BY <1>1, <2>1, <3>1, <3>2, <3>3, <3>4 DEF Home
  <2>. QED
    BY <2>1, <2>2
<1>6. FreshInv'
  <2>1. \A h \in held : next[h.block] = Home(h.block)
    BY DEF FreshInv
  <2>. QED
    BY <1>2, <1>3, <2>1, FreshOthers
<1>7. /\ \A c \in Bucket : FreeIn(c)' = FreeIn(c) /\ ListInv(c)'
      /\ FreeBlocks' = FreeBlocks
  BY <1>2, ListsStay DEF TypeOK
<1>8. InOnePlace'
  <2>1. HeldBlocks \subseteq Carved /\ FreeBlocks \subseteq Carved
    BY DEF HeldBlocks, HeldInv, FreeBlocks, FreeIn
  <2>. QED
    BY <1>2, <1>4, <1>5, <1>7, <2>1, OnePlaceIs, OnePlaceIsNext DEF OnePlace
<1>. QED
  BY <1>6, <1>7, <1>8 DEF Bucket

LEMMA MallocTagUntilClash ==
  ASSUME AlwaysInv, UntilClashInv, NEW p \in Thread, MallocTag(p)
  PROVE  UntilClashInv'
<1>. USE DEF AlwaysInv, UntilClashInv
<1>. SUFFICES ASSUME NEW x \in Block, NEW c \in Bucket, NEW n, x = elem[p], c = b[p], n = size[p]
              PROVE  UntilClashInv'
  BY DEF MallocTag, TypeOK, CallInv, InTransit
<1>. DEFINE h == [block |-> x, size |-> n]
            below == x.at < HeapSize
<1>1. pc[p] = "malloc_tag" /\ InTransit(p) = {x} /\ Home(x) = c /\ Carved \subseteq Block
  BY DEF MallocTag, InTransit, CallInv, TypeOK
<1>2. /\ head' = head /\ next' = [y \in Carved \union {x} |-> IF y = x THEN c ELSE next[y]]
      /\ held' = IF below THEN held \union {h} ELSE held
  BY DEF MallocTag, HandOut
<1>3. /\ Carved' = Carved \union {x} /\ Carved' \subseteq Block
      /\ next'[x] = c /\ \A y \in Carved \ {x} : next'[y] = next[y]
  BY <1>1, <1>2 DEF Carved
<1>4. /\ OthersStay(p) /\ pc'[p] \in {"idle", "undefined", "aborted"}
      /\ InTransit(p)' = IF below THEN {} ELSE {x}
  <2>1. CASE below /\ Usable(p)
    <3>1. Return(p)
      BY <2>1 DEF MallocTag, HandOut
    <3>. QED
      BY <2>1, <3>1, ReturnOther DEF InTransit
  <2>2. CASE ~(below /\ Usable(p))
    <3>1. elem' = elem /\ b' = b /\ size' = size /\ Goto(p, IF below THEN "undefined" ELSE "aborted")
      BY <2>2 DEF MallocTag, HandOut
    <3>. QED
      BY <2>2, <3>1, GotoOther DEF OthersStay, TypeOK, Labels, InTransit
  <2>. QED
    BY <2>1, <2>2
<1>5. \A q \in Thread \ {p} : InTransit(q)' = InTransit(q)
  BY <1>4, TransitOther
<1>6. /\ x \notin HeldBlocks /\ x \notin FreeBlocks /\ \A d \in Bucket : x \notin FreeIn(d)
      /\ \A q \in Thread \ {p} : x \notin InTransit(q)
  BY <1>1, InHandOnly
<1>7. h.block = x
  OBVIOUS
<1>. HIDE DEF h, below
<1>8. FreshInv'
  <2>1. \A q \in Thread \ {p} : pc[q] = "free_put" => next'[elem[q]] = next[elem[q]]
    BY <1>3, <1>6 DEF CallInv, InTransit
  <2>2. \A g \in held : g.block \in Carved \ {x}
    BY <1>6 DEF HeldInv, HeldBlocks
  <2>3. \A g \in held' : next'[g.block] = Home(g.block)
    BY <1>1, <1>2, <1>3, <1>7, <2>2 DEF FreshInv
  <2>. QED
    BY <1>2, <1>4, <2>1, <2>3, FreshOthers
<1>9. /\ \A d \in Bucket : FreeIn(d)' = FreeIn(d) /\ ListInv(d)'
      /\ FreeBlocks' = FreeBlocks
  <2>1. \A d \in Bucket : \A y \in FreeIn(d) : next'[y] = next[y]
    BY <1>3, <1>6 DEF FreeIn
  <2>. QED
    BY <1>2, <1>3, <2>1, ListsStay
<1>10. InOnePlace'
  <2>1. HeldBlocks' = IF below THEN HeldBlocks \union {x} ELSE HeldBlocks
    BY <1>2, <1>7 DEF HeldBlocks
  <2>2. \A g, k \in held' : g.block = k.block => g = k
    BY <1>2, <1>6, <1>7, OnePlaceIs, OnePlaceIsNext DEF OnePlace, HeldBlocks
  <2>3. x \in HeldBlocks' \union InTransit(p)' /\ \A q \in Thread : InTransit(q)' \subseteq InTransit(q)
    BY <1>1, <1>4, <1>5, <2>1
  <2>. QED
    BY <1>1, <1>3, <1>4, <1>5, <1>6, <1>9, <2>1, <2>2, <2>3, OnePlaceIs, OnePlaceIsNext DEF OnePlace
<1>. QED
  BY <1>8, <1>9, <1>10 DEF Bucket

LEMMA FreeBeginUntilClash ==
  ASSUME AlwaysInv, UntilClashInv, NEW p \in Thread, NEW h \in held, FreeBegin(p, h)
  PROVE  UntilClashInv'
<1>. USE DEF AlwaysInv, UntilClashInv
<1>. SUFFICES ASSUME NEW x \in Carved, NEW c \in Bucket, x = h.block, c = next[x]
              PROVE  UntilClashInv'
  <2>1. h.block \in Carved /\ h.block \in Block /\ next[h.block] = Home(h.block)
    BY DEF HeldInv, FreshInv, TypeOK
  <2>2. next[h.block] \in Bucket
    BY <2>1 DEF Home, Block, Bucket
  <2>. QED
    BY <2>1, <2>2
<1>1. /\ head' = head /\ next' = next /\ size' = size /\ Carved' = Carved /\ pc[p] = "idle"
      /\ elem' = [elem EXCEPT ![p] = x] /\ b' = [b EXCEPT ![p] = c] /\ held' = held \ {h}
  BY DEF FreeBegin, Carved
<1>2. OthersStay(p) /\ elem'[p] = x /\ b'[p] = c /\ pc'[p] = "free_link"
  BY <1>1, GotoOther DEF FreeBegin, OthersStay, TypeOK, Labels
<1>3. InTransit(p) = {} /\ InTransit(p)' = {x} /\ \A q \in Thread \ {p} : InTransit(q)' = InTransit(q)
  BY <1>1, <1>2, TransitOther DEF InTransit
<1>4. FreshInv'
  <2>1. \A g \in held : next[g.block] = Home(g.block)
    BY DEF FreshInv
  <2>. QED
    BY <1>1, <1>2, <2>1, FreshOthers
<1>5. /\ \A d \in Bucket : FreeIn(d)' = FreeIn(d) /\ ListInv(d)'
      /\ FreeBlocks' = FreeBlocks
  BY <1>1, ListsStay DEF TypeOK
<1>6. HeldBlocks' = HeldBlocks \ {x} /\ x \in HeldBlocks
  BY <1>1, OnePlaceIs, OnePlaceIsNext DEF HeldBlocks, OnePlace
<1>7. InOnePlace'
  <2>1. x \notin FreeBlocks /\ \A q \in Thread : x \notin InTransit(q)
    BY <1>6, OnePlaceIs, OnePlaceIsNext DEF OnePlace
  <2>2. \A g, k \in held' : g.block = k.block => g = k
    BY <1>1, OnePlaceIs, OnePlaceIsNext DEF OnePlace
  <2>. QED
    BY <1>1, <1>3, <1>5, <1>6, <2>1, <2>2, OnePlaceIs, OnePlaceIsNext DEF OnePlace
<1>. QED
  BY <1>4, <1>5, <1>7 DEF Bucket

LEMMA FreeLinkUntilClash ==
  ASSUME AlwaysInv, UntilClashInv, NEW p \in Thread, FreeLink(p)
  PROVE  UntilClashInv'
<1>. USE DEF AlwaysInv, UntilClashInv
<1>. SUFFICES ASSUME NEW x \in Carved, NEW c \in Bucket, x = elem[p], c = b[p]
              PROVE  UntilClashInv'
  BY DEF FreeLink, TypeOK, CallInv
<1>1. pc[p] = "free_link" /\ InTransit(p) = {x} /\ Carved \subseteq Block
  BY DEF FreeLink, InTransit, TypeOK
<1>2. /\ head' = head /\ elem' = elem /\ b' = b /\ size' = size /\ held' = held /\ HeldBlocks' = HeldBlocks
      /\ Carved' = Carved /\ next'[x] = head[c] /\ \A y \in Carved \ {x} : next'[y] = next[y]
  BY DEF FreeLink, Carved, HeldBlocks
<1>3. OthersStay(p) /\ pc'[p] = "free_put"
  BY <1>2, GotoOther DEF FreeLink, OthersStay, TypeOK, Labels
<1>4. \A q \in Thread : InTransit(q)' = InTransit(q)
  <2>1. InTransit(p)' = {x}
    BY <1>2, <1>3 DEF InTransit
  <2>. QED
    BY <1>1, <1>3, <2>1, TransitOther
<1>5. /\ x \notin HeldBlocks /\ \A d \in Bucket : x \notin FreeIn(d)
      /\ \A q \in Thread \ {p} : x \notin InTransit(q)
  BY <1>1, InHandOnly
<1>6. FreshInv'
  <2>1. \A q \in Thread \ {p} : pc[q] = "free_put" => next'[elem[q]] = next[elem[q]]
    BY <1>2, <1>5 DEF CallInv, InTransit
  <2>2. \A g \in held : next'[g.block] = Home(g.block)
    BY <1>2, <1>5 DEF FreshInv, HeldInv, HeldBlocks
  <2>. QED
    BY <1>2, <1>3, <2>1, <2>2, FreshOthers
<1>7. /\ \A d \in Bucket : FreeIn(d)' = FreeIn(d) /\ ListInv(d)'
      /\ FreeBlocks' = FreeBlocks
  <2>1. \A d \in Bucket : \A y \in FreeIn(d) : next'[y] = next[y]
    BY <1>2, <1>5 DEF FreeIn
  <2>. QED
    BY <1>1, <1>2, <2>1, ListsStay
<1>8. InOnePlace'
  BY <1>2, <1>4, <1>7, OnePlaceIs, OnePlaceIsNext DEF OnePlace
<1>. QED
  BY <1>6, <1>7, <1>8 DEF Bucket

LEMMA FreePutUntilClash ==
  ASSUME AlwaysInv, UntilClashInv, ~Overlapping, NEW p \in Thread, FreePut(p)
  PROVE  UntilClashInv'
<1>. USE DEF AlwaysInv, UntilClashInv
<1>. SUFFICES ASSUME NEW x \in Carved, NEW c \in Bucket, x = elem[p], c = b[p]
              PROVE  UntilClashInv'
  BY DEF FreePut, TypeOK, CallInv
<1>1. /\ pc[p] = "free_put" /\ InTransit(p) = {x} /\ next[x] = head[c] /\ ListInv(c)
      /\ Null \notin Carved
  BY Apart DEF FreePut, InTransit, FreshInv, TypeOK
<1>2. /\ next' = next /\ held' = held /\ Carved' = Carved /\ HeldBlocks' = HeldBlocks /\ Return(p)
      /\ head'[c] = x /\ \A d \in Bucket \ {c} : head'[d] = head[d]
  BY DEF FreePut, Carved, HeldBlocks, TypeOK
<1>3. OthersStay(p) /\ pc'[p] = "idle"
  BY <1>2, ReturnOther
<1>4. InTransit(p)' = {} /\ \A q \in Thread \ {p} : InTransit(q)' = InTransit(q)
  BY <1>3, TransitOther DEF InTransit
<1>5. /\ x \notin HeldBlocks /\ x \notin FreeBlocks /\ \A d \in Bucket : x \notin FreeIn(d)
      /\ \A q \in Thread \ {p} : x \notin InTransit(q)
  BY <1>1, InHandOnly
<1>6. FreshInv'
  <2>1. \A q \in Thread \ {p} : pc[q] \in {"malloc_reuse", "free_put"} => head'[b[q]] = head[b[q]]
    BY <1>1, <1>2, AloneOnBucket DEF TypeOK
  <2>2. \A h \in held : next[h.block] = Home(h.block)
    BY DEF FreshInv
  <2>. QED
    BY <1>2, <1>3, <2>1, <2>2, FreshOthers
<1>7. FreeIn(c)' = FreeIn(c) \union {x}
  BY <1>1, <1>2, <1>5, ListPush
<1>8. \A d \in Bucket \ {c} : FreeIn(d)' = FreeIn(d) /\ ListInv(d)'
  BY <1>2, OtherLists
<1>9. ListInv(c)'
  <2>1. /\ FreeIn(c) \subseteq Carved /\ (head[c] \in Carved => head[c] \in FreeIn(c))
        /\ \A y \in FreeIn(c) : next[y] \in Carved => next[y] \in FreeIn(c)
    BY ListsAreLeast DEF ListFacts
  <2>2. next[x] # x /\ \A y \in FreeIn(c) : next[y] # x
    BY <1>1, <1>5, <2>1
  <2>3. \A y \in FreeIn(c) : next[y] \in Carved \union {Null} /\ next[y] # next[x]
    BY <1>1 DEF ListInv
  <2>4. \A y, z \in FreeIn(c) \union {x} : next[y] = next[z] /\ next[y] \in Carved => y = z
    BY <1>1, <2>3 DEF ListInv
  <2>5. next[x] \in Carved \union {Null}
    BY <1>1 DEF ListInv
  <2>. QED
    BY <1>2, <1>7, <2>1, <2>2, <2>3, <2>4, <2>5 DEF ListInv
<1>10. FreeBlocks' = FreeBlocks \union {x}
  BY <1>7, <1>8 DEF FreeBlocks, Bucket
<1>11. InOnePlace'
  BY <1>1, <1>2, <1>4, <1>5, <1>10, OnePlaceIs, OnePlaceIsNext DEF OnePlace
<1>. QED
  BY <1>6, <1>8, <1>9, <1>11 DEF Bucket

-----------------------------------------------------------------------------
(***************************************************************************)
(* The invariant, and what follows from it                                 *)
(***************************************************************************)
LEMMA AllocInit == Init => AllocInv
<1>. SUFFICES ASSUME Init PROVE AllocInv
  OBVIOUS
<1>1. Carved = {} /\ held = {} /\ \A c \in Bucket : head[c] = Null /\ FreeIn(c) = {}
  BY DEF Init, Carved, FreeIn
<1>2. \A p \in Thread : pc[p] = "idle" /\ InTransit(p) = {}
  BY DEF Init, InTransit
<1>3. TypeOK
  BY <1>1, <1>2 DEF Init, TypeOK, Labels
<1>4. \A p \in Thread : CallInv(p)
  BY <1>2 DEF CallInv
<1>5. LayoutInv
  BY <1>1, <1>2 DEF LayoutInv, Known
<1>6. HeldInv /\ LinkInv /\ FreshInv /\ \A c \in Bucket : ListInv(c)
  BY <1>1, <1>2 DEF HeldInv, LinkInv, FreshInv, ListInv
<1>7. InOnePlace
  BY <1>1, <1>2 DEF InOnePlace, HeldBlocks
<1>. QED
  BY <1>3, <1>4, <1>5, <1>6, <1>7 DEF AllocInv, AlwaysInv, UntilClashInv

LEMMA AllocStutter == AllocInv /\ UNCHANGED vars => AllocInv'
<1>. SUFFICES ASSUME AllocInv, UNCHANGED vars PROVE AllocInv'
  OBVIOUS
<1>. USE DEF AllocInv, AlwaysInv, UntilClashInv
<1>1. Carved' = Carved /\ HeldBlocks' = HeldBlocks /\ Stopped' = Stopped
  BY DEF vars, Carved, HeldBlocks, Stopped, Aborted
<1>2. \A c \in Bucket : FreeIn(c)' = FreeIn(c)
  BY <1>1 DEF vars, FreeIn, HasList
<1>3. FreeBlocks' = FreeBlocks
  BY <1>2 DEF FreeBlocks, Bucket
<1>4. \A q \in Thread : InTransit(q)' = InTransit(q)
  BY DEF vars, InTransit
<1>5. Known' = Known
  BY <1>1, <1>4 DEF Known
<1>6. TypeOK'
  BY <1>1 DEF TypeOK, vars
<1>7. \A p \in Thread : CallInv(p)'
  BY <1>1, <1>4 DEF CallInv, vars, BucketFor, BlockSize, BlockNeeded, MemAlign, Word, Align
<1>8. HeldInv' /\ LinkInv'
  BY <1>1 DEF HeldInv, LinkInv, BucketOf, Home, Bucket, vars, BucketFor, BlockSize, BlockNeeded,
              MemAlign, Word, Align
<1>9. LayoutInv'
  BY <1>1, <1>5 DEF LayoutInv, vars, EndOf, Room, BlockSize, MemAlign, Word, Align
<1>10. ASSUME ~clashed PROVE UntilClashInv'
  <2>1. FreshInv' /\ \A c \in Bucket : ListInv(c)'
    BY <1>1, <1>2, <1>10 DEF FreshInv, ListInv, vars, Home
  <2>2. InOnePlace'
    BY <1>1, <1>3, <1>4, <1>10, OnePlaceIs, OnePlaceIsNext DEF OnePlace, vars
  <2>. QED
    BY <2>1, <2>2 DEF Bucket
<1>. QED
  BY <1>6, <1>7, <1>8, <1>9, <1>10 DEF vars

LEMMA AllocStep == AllocInv /\ [Next]_vars => AllocInv'
<1>. SUFFICES ASSUME AllocInv, Next PROVE AllocInv'
  BY AllocStutter
<1>1. CASE Stopped /\ UNCHANGED vars
  BY <1>1, AllocStutter
<1>2. ASSUME ~Stopped, NEW p \in Thread, Malloc(p) \/ Free(p), clashed' = (clashed \/ Overlapping)
      PROVE  AllocInv'
  <2>1. AlwaysInv /\ clashed' \in BOOLEAN
    BY <1>2 DEF AllocInv, AlwaysInv, TypeOK
  <2>2. AlwaysInv'
    <3>1. CASE Malloc(p)
      BY <1>2, <2>1, <3>1, MallocBeginAlways, MallocReuseAlways, MallocCarveAlways, MallocTagAlways
         DEF Malloc
    <3>2. CASE Free(p)
      BY <1>2, <2>1, <3>2, FreeBeginAlways, FreeLinkAlways, FreePutAlways DEF Free
    <3>. QED
      BY <1>2, <3>1, <3>2
  <2>3. ASSUME ~clashed' PROVE UntilClashInv'
    <3>1. UntilClashInv /\ ~Overlapping
      BY <1>2, <2>3 DEF AllocInv
    <3>2. CASE Malloc(p)
      BY <1>2, <2>1, <3>1, <3>2, MallocBeginUntilClash, MallocReuseUntilClash, MallocCarveUntilClash,
         MallocTagUntilClash DEF Malloc
    <3>3. CASE Free(p)
      BY <1>2, <2>1, <3>1, <3>3, FreeBeginUntilClash, FreeLinkUntilClash, FreePutUntilClash DEF Free
    <3>. QED
      BY <1>2, <3>2, <3>3
  <2>. QED
    BY <2>2, <2>3 DEF AllocInv
<1>. QED
  BY <1>1, <1>2 DEF Next

(***************************************************************************)
(* The inductive invariant of swift_malloc and swift_free, with frees of   *)
(* what other threads have allocated: blocks lie one behind the other and  *)
(* links stay in their bucket, whatever calls do; until two calls clash on *)
(* a bucket, links form lists and every block is in one place.             *)
(***************************************************************************)
THEOREM AllocInvariant == Spec => []AllocInv
BY AllocInit, AllocStep, PTL DEF Spec

(***************************************************************************)
(* No block is lost and none has two owners, whichever thread frees which  *)
(* block, until two calls are between read and write of one bucket at the  *)
(* same time (src/swift_allocator.c:46-49 and 90-91).  A lock around those *)
(* lines would therefore be enough.                                        *)
(***************************************************************************)
THEOREM AllocInOnePlace == Spec => []InOnePlaceUntilClash
<1>1. AllocInv => InOnePlaceUntilClash
  BY DEF AllocInv, UntilClashInv, InOnePlaceUntilClash
<1>. QED
  BY <1>1, AllocInvariant, PTL

(***************************************************************************)
(* However calls clash, a bucket never gets a block of another bucket's    *)
(* size, or of another thread's heap.                                      *)
(***************************************************************************)
THEOREM AllocOwnBucketOnly == Spec => []OwnBucketOnly
<1>1. AllocInv => OwnBucketOnly
  BY ListsOfOwnBlocks DEF AllocInv, AlwaysInv
<1>. QED
  BY <1>1, AllocInvariant, PTL

(***************************************************************************)
(* Blocks never overlap, and the bytes that were asked for lie in the      *)
(* block exactly if they are, with the header, at most half the range of a *)
(* word: the cast of SWIFT_MEM_ALIGN makes all larger requests fail.       *)
(***************************************************************************)
THEOREM AllocRoomForRequest == Spec => []RoomForRequest
<1>1. ASSUME AllocInv PROVE RoomForRequest
  <2>. USE <1>1 DEF AllocInv, AlwaysInv
  <2>1. ASSUME NEW h \in held PROVE Fits(h.size) <=> EndOfBytes(h) <= EndOf(h.block)
    <3>1. h.block \in Block /\ h.size \in Requests /\ h.block.size = BucketFor(h.size)
      BY DEF HeldInv, TypeOK
    <3>. QED
      BY <3>1, EndOfRequest DEF EndOfBytes
  <2>2. \A x, y \in Carved : x # y /\ x.heap = y.heap => EndOf(x) <= y.at \/ EndOf(y) <= x.at
    BY KnownIs DEF LayoutInv
  <2>. QED
    BY <2>1, <2>2 DEF RoomForRequest
<1>. QED
  BY <1>1, AllocInvariant, PTL

(***************************************************************************)
(* What the assertion on the heap's limit leaves of it: no caller gets a   *)
(* block behind one that reaches beyond the limit.                         *)
(***************************************************************************)
THEOREM AllocOverhangIsLast == Spec => []OverhangIsLast
<1>1. ASSUME AllocInv PROVE OverhangIsLast
  <2>. USE <1>1 DEF AllocInv, AlwaysInv
  <2>. SUFFICES ASSUME NEW h \in held, NEW g \in held, Fits(h.size), EndOfBytes(h) > HeapSize,
                       g.block.heap = h.block.heap
                PROVE  g.block.at <= h.block.at
    BY DEF OverhangIsLast
  <2>1. /\ h.block \in Block /\ h.block \in Known /\ h.size \in Requests
        /\ h.block.size = BucketFor(h.size) /\ g.block \in Block /\ g.block \in Known
        /\ g.block.at < HeapSize
    BY KnownIs DEF HeldInv, TypeOK
  <2>2. h.block # g.block => EndOf(h.block) <= g.block.at \/ EndOf(g.block) <= h.block.at
    BY <2>1 DEF LayoutInv
  <2>3. /\ h.block.at \in Nat /\ EndOf(h.block) \in Nat /\ EndOfBytes(h) <= EndOf(h.block)
        /\ g.block.at \in Nat /\ EndOf(g.block) \in Nat /\ g.block.at <= EndOf(g.block)
    BY <2>1, EndOfBlock, EndOfRequest DEF EndOfBytes
  <2>4. EndOfBytes(h) \in Nat /\ HeapSize \in Nat
    <3>1. h.size \in Nat /\ HeaderSize \in Nat /\ HeapSize \in Nat
      BY <2>1, HalfWord, AllocatorAssumption
    <3>. QED
      BY <2>3, <3>1 DEF EndOfBytes
  <2>5. CASE h.block = g.block
    BY <2>3, <2>5
  <2>6. CASE h.block # g.block
    BY <2>1, <2>2, <2>3, <2>4, <2>6
  <2>. QED
    BY <2>5, <2>6
<1>. QED
  BY <1>1, AllocInvariant, PTL
=============================================================================
