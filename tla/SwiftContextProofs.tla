-------------------------- MODULE SwiftContextProofs --------------------------
(***************************************************************************)
(* Proofs about a context and the round robin of its threads, for any      *)
(* number of threads, size of a deque and width of a word.                 *)
(***************************************************************************)
EXTENDS SwiftContext, SequenceTheorems, TLAPS

\* Every thread has another thread to steal from, and an id of its own.
IdsDiffer == 1 < ThreadNum /\ ThreadNum <= IdRange

-----------------------------------------------------------------------------
\* swift_get_steal_target

LEMMA NextIndex ==
  ASSUME NEW i \in Thread
  PROVE  (i + 1) % ThreadNum = IF i + 1 = ThreadNum THEN 0 ELSE i + 1
<1>1. ThreadNum \in Nat \ {0} /\ i \in Nat /\ i < ThreadNum
  BY ThreadAssumption DEF Thread
<1>2. CASE i + 1 = ThreadNum
  BY <1>1, <1>2
<1>3. CASE i + 1 < ThreadNum
  BY <1>1, <1>3
<1>. QED
  BY <1>1, <1>2, <1>3

\* swift_get_steal_target returns a thread of the context, and another one.
LEMMA TargetIsOther ==
  ASSUME NEW p \in Thread, NEW last \in Thread
  PROVE  /\ StealTarget(p, last) \in Thread
         /\ IdsDiffer => StealTarget(p, last) # p
<1>. DEFINE r == (last + 1) % ThreadNum
<1>1. r \in Thread
  BY NextIndex, ThreadAssumption DEF Thread
<1>2. (r + 1) % ThreadNum \in Thread /\ (IdsDiffer => (r + 1) % ThreadNum # r)
  BY <1>1, NextIndex, ThreadAssumption DEF Thread, IdsDiffer
<1>3. IdsDiffer => Id(p) = p
  BY ThreadAssumption DEF Thread, Id, IdsDiffer
<1>. QED
  BY <1>1, <1>2, <1>3 DEF StealTarget

-----------------------------------------------------------------------------
\* What a step of the context does to its threads

LEMMA RoundStepTypes ==
  ASSUME TypeOK, RoundStep
  PROVE  /\ size' \in 0 .. WordRange - 1
         /\ newSize' \in 0 .. WordRange - 1
         /\ pc' \in {"test", "round", "done"}
         /\ requested' = requested
<1>. USE SizeAssumption DEF TypeOK
<1>1. CASE Test
  BY <1>1 DEF Test
<1>2. CASE Shift
  <2>1. size \div 2 \in 0 .. WordRange - 1
    OBVIOUS
  <2>2. (newSize * 2) % WordRange \in 0 .. WordRange - 1
    OBVIOUS
  <2>. QED
    BY <1>2, <2>1, <2>2 DEF Shift
<1>3. CASE Rounded
  BY <1>3 DEF Rounded
<1>. QED
  BY <1>1, <1>2, <1>3 DEF RoundStep

LEMMA InitThreadTypes ==
  ASSUME TypeOK, InitThread
  PROVE  /\ Initialised' \subseteq Thread
         /\ threads' \in [Initialised' -> ThreadRecord]
<1>1. PICK p \in Thread :
        /\ Initialised = 0 .. p - 1
        /\ threads' = [q \in 0 .. p |-> IF q = p THEN NewThread(p) ELSE threads[q]]
  BY DEF InitThread
<1>2. Initialised' = 0 .. p /\ 0 .. p \subseteq Thread
  BY <1>1, ThreadAssumption DEF Initialised, Thread
<1>3. NewThread(p) \in ThreadRecord
  BY <1>1, ThreadAssumption DEF NewThread, ThreadRecord, TypeOK, FirstSleep, Thread
<1>4. \A q \in 0 .. p : q # p => threads[q] \in ThreadRecord
  BY <1>1, ThreadAssumption DEF TypeOK, Thread
<1>. QED
  BY <1>1, <1>2, <1>3, <1>4

LEMMA TryStealTypes ==
  ASSUME TypeOK, TrySteal
  PROVE  /\ Initialised' = Initialised
         /\ threads' \in [Initialised -> ThreadRecord]
         /\ tried' \in Seq(Thread)
<1>. DEFINE target == StealTarget(me, threads[me].round_robin_id)
            longer == Append(tried, target)
<1>1. me \in Initialised /\ threads[me] \in ThreadRecord
  BY DEF TrySteal, Ready, TypeOK
<1>2. target \in Thread
  BY <1>1, TargetIsOther DEF TypeOK, ThreadRecord
<1>3. longer \in Seq(Thread) /\ Tail(longer) \in Seq(Thread)
  BY <1>2, AppendProperties, HeadTailProperties DEF TypeOK
<1>4. threads' \in [Initialised -> ThreadRecord]
  BY <1>1, <1>2 DEF TrySteal, TypeOK, ThreadRecord
<1>. QED
  BY <1>3, <1>4 DEF TrySteal, Remember, TypeOK, Initialised

LEMMA BackoffTypes ==
  ASSUME TypeOK, Backoff
  PROVE  /\ Initialised' = Initialised
         /\ threads' \in [Initialised -> ThreadRecord]
<1>1. me \in Initialised /\ threads[me] \in ThreadRecord
  BY DEF Backoff, Ready, TypeOK
<1>2. (threads[me].last_sleep_time * 2) % 100 \in Nat
  BY <1>1 DEF ThreadRecord
<1>3. threads' \in [Initialised -> ThreadRecord]
  BY <1>1, <1>2 DEF Backoff, TypeOK, ThreadRecord
<1>. QED
  BY <1>3 DEF TypeOK, Initialised

(***************************************************************************)
(* The sizes stay within a word, whatever the requested size, and the      *)
(* round robin inside context->threads, whatever the ids are.              *)
(***************************************************************************)
THEOREM TypeCorrect == Spec => []TypeOK
<1>1. Init => TypeOK
  <2>. SUFFICES ASSUME Init PROVE TypeOK
    OBVIOUS
  <2>. USE SizeAssumption
  <2>1. size \in 0 .. WordRange - 1 /\ newSize \in 0 .. WordRange - 1
    BY DEF Init, Begin
  <2>2. DOMAIN threads = {}
    BY DEF Init
  <2>3. threads \in [{} -> ThreadRecord]
    BY DEF Init
  <2>4. tried \in Seq(Thread)
    BY EmptySeq DEF Init
  <2>. QED
    BY <2>1, <2>2, <2>3, <2>4 DEF Init, Begin, TypeOK, Initialised
<1>2. TypeOK /\ [Next]_vars => TypeOK'
  <2>. SUFFICES ASSUME TypeOK, [Next]_vars PROVE TypeOK'
    OBVIOUS
  <2>1. CASE DequeStep
    BY <2>1, RoundStepTypes DEF DequeStep, TypeOK, Initialised
  <2>2. CASE InitThread
    <3>1. requested \in 0 .. WordRange - 1 /\ 1 \in 0 .. WordRange - 1
      BY SizeAssumption DEF TypeOK
    <3>. QED
      BY <2>2, <3>1, InitThreadTypes DEF InitThread, BeginNext, TypeOK
  <2>3. CASE TrySteal
    BY <2>3, TryStealTypes DEF TrySteal, TypeOK
  <2>4. CASE Backoff
    BY <2>4, BackoffTypes DEF Backoff, TypeOK
  <2>5. CASE UNCHANGED vars
    BY <2>5 DEF vars, TypeOK, Initialised
  <2>. QED
    BY <2>1, <2>2, <2>3, <2>4, <2>5 DEF Next
<1>. QED
  BY <1>1, <1>2, PTL DEF Spec

-----------------------------------------------------------------------------
(***************************************************************************)
(* The order of the targets.  Ahead(k) is the thread k places after me,    *)
(* and the targets are Ahead(1), ..., Ahead(ThreadNum - 1), Ahead(1), ...  *)
(* starting anywhere: SweepInv.                                            *)
(***************************************************************************)
Ahead(k) == IF me + k < ThreadNum THEN me + k ELSE me + k - ThreadNum
Turn(k)  == IF k < ThreadNum THEN k ELSE k - (ThreadNum - 1)

SweepsFrom(c) ==
  /\ \A i \in 1 .. Len(tried) : tried[i] = Ahead(Turn(c + i))
  /\ tried # <<>> => threads[me].round_robin_id = Ahead(Turn(c + Len(tried)))

SweepInv ==
  /\ tried = <<>> => \A p \in Initialised : threads[p].round_robin_id = p
  /\ ~Ready => tried = <<>>
  /\ Len(tried) < ThreadNum
  /\ \E c \in 0 .. ThreadNum - 2 : SweepsFrom(c)

\* The target after the k-th thread ahead is the next one, and never me.
LEMMA NextAhead ==
  ASSUME IdsDiffer, me \in Thread, NEW k \in 1 .. ThreadNum - 1
  PROVE  /\ Ahead(k) \in Thread
         /\ StealTarget(me, Ahead(k)) = Ahead(IF k = ThreadNum - 1 THEN 1 ELSE k + 1)
<1>. USE ThreadAssumption
<1>1. Ahead(k) \in Thread
  BY DEF Thread, Ahead, IdsDiffer
<1>2. Id(me) = me
  BY DEF Thread, Id, IdsDiffer
<1>. DEFINE r == IF Ahead(k) + 1 = ThreadNum THEN 0 ELSE Ahead(k) + 1
<1>3. (Ahead(k) + 1) % ThreadNum = r /\ r \in Thread
  BY <1>1, NextIndex DEF Thread
<1>4. (r + 1) % ThreadNum = IF r + 1 = ThreadNum THEN 0 ELSE r + 1
  BY <1>3, NextIndex
<1>5. StealTarget(me, Ahead(k)) = IF r = me THEN (IF r + 1 = ThreadNum THEN 0 ELSE r + 1) ELSE r
  BY <1>2, <1>3, <1>4 DEF StealTarget
<1>. QED
  BY <1>1, <1>5 DEF Ahead, Thread, IdsDiffer

LEMMA FirstAhead ==
  ASSUME IdsDiffer, me \in Thread
  PROVE  StealTarget(me, me) = Ahead(1)
<1>. USE ThreadAssumption
<1>1. Id(me) = me
  BY DEF Thread, Id, IdsDiffer
<1>2. (me + 1) % ThreadNum = IF me + 1 = ThreadNum THEN 0 ELSE me + 1
  BY NextIndex
<1>. QED
  BY <1>1, <1>2 DEF StealTarget, Ahead, Thread, IdsDiffer

\* turns follow each other
LEMMA NextTurn ==
  ASSUME IdsDiffer, NEW k \in 1 .. 2 * ThreadNum - 3
  PROVE  /\ Turn(k) \in 1 .. ThreadNum - 1
         /\ Turn(k + 1) = IF Turn(k) = ThreadNum - 1 THEN 1 ELSE Turn(k) + 1
BY ThreadAssumption DEF Turn, IdsDiffer

\* The target after i tries that started at c is the one SweepsFrom(c) wants.
LEMMA TargetInTurn ==
  ASSUME IdsDiffer, TypeOK, SweepInv, Ready, NEW c \in 0 .. ThreadNum - 2, SweepsFrom(c),
         tried # <<>> \/ c = 0
  PROVE  StealTarget(me, threads[me].round_robin_id) = Ahead(Turn(c + (Len(tried) + 1)))
<1>. USE ThreadAssumption
<1>. DEFINE L == Len(tried)
<1>1. L \in Nat /\ L < ThreadNum /\ me \in Thread /\ (tried = <<>> <=> L = 0)
  BY EmptySeq DEF TypeOK, SweepInv
<1>2. CASE tried = <<>>
  <2>1. threads[me].round_robin_id = me /\ c = 0 /\ L = 0
    BY <1>1, <1>2 DEF SweepInv, Ready
  <2>2. Turn(1) = 1
    BY DEF Turn, IdsDiffer
  <2>. QED
    BY <1>1, <2>1, <2>2, FirstAhead
<1>3. CASE tried # <<>>
  <2>1. c + L \in 1 .. 2 * ThreadNum - 3
    BY <1>1, <1>3
  <2>2. threads[me].round_robin_id = Ahead(Turn(c + L))
    BY <1>3 DEF SweepsFrom
  <2>3. c + (L + 1) = (c + L) + 1
    BY <1>1
  <2>. QED
    BY <1>1, <2>1, <2>2, <2>3, NextTurn, NextAhead
<1>. QED
  BY <1>2, <1>3

\* One try appends the next target; a full turn forgets its first one.
LEMMA TryStealSweeps ==
  ASSUME IdsDiffer, TypeOK, SweepInv, TrySteal
  PROVE  SweepInv'
<1>. USE ThreadAssumption
<1>. DEFINE L == Len(tried)
            target == StealTarget(me, threads[me].round_robin_id)
            longer == Append(tried, target)
<1>0. Ready /\ me \in Initialised /\ threads[me] \in ThreadRecord
  BY DEF TrySteal, Ready, TypeOK
<1>1. PICK c \in 0 .. ThreadNum - 2 : SweepsFrom(c) /\ (tried # <<>> \/ c = 0)
  <2>1. CASE tried = <<>>
    <3>1. SweepsFrom(0)
      BY <2>1 DEF SweepsFrom
    <3>. QED
      BY <2>1, <3>1 DEF IdsDiffer
  <2>2. CASE tried # <<>>
    BY <2>2 DEF SweepInv
  <2>. QED
    BY <2>1, <2>2
<1>2. target = Ahead(Turn(c + (L + 1)))
  BY <1>0, <1>1, TargetInTurn
<1>3. target \in Thread
  BY <1>0, TargetIsOther DEF TypeOK, ThreadRecord
<1>4. L \in Nat /\ L < ThreadNum /\ tried \in Seq(Thread)
  BY DEF TypeOK, SweepInv
<1>5. /\ longer \in Seq(Thread) /\ Len(longer) = L + 1
      /\ \A i \in 1 .. L + 1 : longer[i] = Ahead(Turn(c + i))
  <2>1. longer \in Seq(Thread) /\ Len(longer) = L + 1 /\ longer[L + 1] = target
    BY <1>3, <1>4, AppendProperties
  <2>2. \A i \in 1 .. L : longer[i] = tried[i]
    BY <1>3, <1>4, AppendProperties
  <2>3. \A i \in 1 .. L : tried[i] = Ahead(Turn(c + i))
    BY <1>1 DEF SweepsFrom
  <2>. QED
    BY <1>2, <1>4, <2>1, <2>2, <2>3
<1>6. /\ Initialised' = Initialised /\ Ready' /\ me' = me
      /\ threads'[me].round_robin_id = target
      /\ tried' = IF L + 1 < ThreadNum THEN longer ELSE Tail(longer)
  BY <1>0, <1>5 DEF TrySteal, Remember, TypeOK, ThreadRecord, Initialised, Ready
<1>7. CASE L + 1 < ThreadNum
  <2>1. tried' = longer /\ Len(tried') = L + 1 /\ tried' # <<>>
    BY <1>4, <1>5, <1>6, <1>7, EmptySeq
  <2>2. SweepsFrom(c)'
    BY <1>2, <1>4, <1>5, <1>6, <2>1 DEF SweepsFrom, Ahead, Turn
  <2>. QED
    BY <1>1, <1>6, <1>7, <2>1, <2>2 DEF SweepInv
<1>8. CASE L + 1 = ThreadNum
  <2>1. tried' = Tail(longer) /\ longer # <<>>
    <3>1. tried' = Tail(longer)
      BY <1>4, <1>6, <1>8
    <3>2. longer # <<>>
      BY EmptySeq, <1>4, <1>5
    <3>. QED
      BY <3>1, <3>2
  <2>2. /\ Len(tried') = L
        /\ \A i \in 1 .. L : tried'[i] = longer[i + 1]
    BY <1>4, <1>5, <2>1, HeadTailProperties
  <2>3. tried' # <<>>
    BY <1>8, <2>2, EmptySeq DEF IdsDiffer
  <2>. DEFINE d == IF c = ThreadNum - 2 THEN 0 ELSE c + 1
  <2>4. d \in 0 .. ThreadNum - 2
    BY DEF IdsDiffer
  <2>5. \A i \in 1 .. L : Turn(d + i) = Turn(c + (i + 1))
    BY <1>8 DEF Turn, IdsDiffer
  <2>6. \A i \in 1 .. L : tried'[i] = Ahead(Turn(d + i))
    <3>. SUFFICES ASSUME NEW i \in 1 .. L PROVE tried'[i] = Ahead(Turn(d + i))
      OBVIOUS
    <3>1. i + 1 \in 1 .. L + 1
      BY <1>4
    <3>. QED
      BY <1>5, <2>2, <2>5, <3>1
  <2>7. target = Ahead(Turn(d + L))
    BY <1>2, <1>4, <1>8, <2>5 DEF IdsDiffer
  <2>8. SweepsFrom(d)'
    BY <1>6, <2>2, <2>6, <2>7 DEF SweepsFrom, Ahead, Turn
  <2>. QED
    BY <1>4, <1>6, <2>2, <2>3, <2>4, <2>8 DEF SweepInv
<1>. QED
  BY <1>4, <1>7, <1>8

THEOREM SweepInvariant == IdsDiffer => (Spec => []SweepInv)
<1>. SUFFICES ASSUME IdsDiffer PROVE Spec => []SweepInv
  OBVIOUS
<1>1. Init => SweepInv
  <2>. SUFFICES ASSUME Init PROVE SweepInv
    OBVIOUS
  <2>1. tried = <<>> /\ Len(tried) = 0 /\ Initialised = {}
    BY DEF Init, Initialised
  <2>2. SweepsFrom(0)
    BY <2>1 DEF SweepsFrom
  <2>. QED
    BY <2>1, <2>2, ThreadAssumption DEF SweepInv, IdsDiffer
<1>2. TypeOK /\ SweepInv /\ [Next]_vars => SweepInv'
  <2>. SUFFICES ASSUME TypeOK, SweepInv, [Next]_vars PROVE SweepInv'
    OBVIOUS
  <2>1. CASE DequeStep
    BY <2>1 DEF DequeStep, SweepInv, SweepsFrom, Ahead, Turn, Initialised, Ready
  <2>2. CASE InitThread
    <3>1. tried = <<>> /\ tried' = <<>> /\ Len(tried') = 0
      BY <2>2 DEF InitThread, SweepInv
    <3>2. \A p \in Initialised' : threads'[p].round_robin_id = p
      <4>1. PICK p \in Thread :
              /\ Initialised = 0 .. p - 1
              /\ threads' = [q \in 0 .. p |-> IF q = p THEN NewThread(p) ELSE threads[q]]
        BY <2>2 DEF InitThread
      <4>2. p \in Nat /\ Initialised' = 0 .. p
        BY <4>1, ThreadAssumption DEF Initialised, Thread
      <4>. QED
        BY <3>1, <4>1, <4>2 DEF SweepInv, NewThread
    <3>3. SweepsFrom(0)'
      BY <3>1 DEF SweepsFrom
    <3>. QED
      BY <3>1, <3>2, <3>3, ThreadAssumption DEF SweepInv, IdsDiffer
  <2>3. CASE TrySteal
    BY <2>3, TryStealSweeps
  <2>4. CASE Backoff
    <3>1. \A p \in Initialised : threads'[p].round_robin_id = threads[p].round_robin_id
      BY <2>4 DEF Backoff, Ready, TypeOK, ThreadRecord
    <3>2. Initialised' = Initialised /\ Ready /\ me \in Initialised
      BY <2>4 DEF Backoff, Ready, TypeOK, Initialised
    <3>3. ASSUME NEW c \in 0 .. ThreadNum - 2, SweepsFrom(c) PROVE SweepsFrom(c)'
      BY <2>4, <3>1, <3>2, <3>3 DEF Backoff, SweepsFrom, Ahead, Turn
    <3>. QED
      BY <2>4, <3>1, <3>2, <3>3 DEF Backoff, SweepInv, Ready
  <2>5. CASE UNCHANGED vars
    BY <2>5 DEF vars, SweepInv, SweepsFrom, Ahead, Turn, Initialised, Ready
  <2>. QED
    BY <2>1, <2>2, <2>3, <2>4, <2>5 DEF Next
<1>. QED
  BY <1>1, <1>2, TypeCorrect, PTL DEF Spec

(***************************************************************************)
(* A thread never steals from itself when all ids differ.                  *)
(***************************************************************************)
THEOREM StealsFromOthers == IdsDiffer => (Spec => []NeverFromItself)
<1>. SUFFICES ASSUME IdsDiffer PROVE Spec => []NeverFromItself
  OBVIOUS
<1>1. TypeOK /\ SweepInv => NeverFromItself
  <2>. SUFFICES ASSUME TypeOK, SweepInv, tried # <<>>
                PROVE  threads[me].round_robin_id # me
    BY DEF NeverFromItself
  <2>1. PICK c \in 0 .. ThreadNum - 2 : SweepsFrom(c)
    BY DEF SweepInv
  <2>2. Len(tried) \in 1 .. ThreadNum - 1 /\ me \in Thread
    BY EmptySeq, ThreadAssumption DEF TypeOK, SweepInv
  <2>3. Turn(c + Len(tried)) \in 1 .. ThreadNum - 1
    BY <2>2, ThreadAssumption DEF Turn, IdsDiffer
  <2>. QED
    BY <2>1, <2>2, <2>3, ThreadAssumption DEF SweepsFrom, Ahead, Thread
<1>. QED
  BY <1>1, TypeCorrect, SweepInvariant, PTL

(***************************************************************************)
(* One turn of the round robin tries every other thread.                   *)
(***************************************************************************)
THEOREM SweepsEveryOther == IdsDiffer => (Spec => []SweepsAll)
<1>. SUFFICES ASSUME IdsDiffer PROVE Spec => []SweepsAll
  OBVIOUS
<1>1. TypeOK /\ SweepInv => SweepsAll
  <2>. SUFFICES ASSUME TypeOK, SweepInv, Len(tried) = ThreadNum - 1,
                       NEW p \in Thread \ {me}
                PROVE  \E i \in DOMAIN tried : tried[i] = p
    BY DEF SweepsAll
  <2>. USE ThreadAssumption
  <2>1. PICK c \in 0 .. ThreadNum - 2 : SweepsFrom(c)
    BY DEF SweepInv
  <2>2. p \in 0 .. ThreadNum - 1 /\ me \in 0 .. ThreadNum - 1 /\ p # me
    BY DEF TypeOK, Thread
  <2>. DEFINE k == IF p > me THEN p - me ELSE p - me + ThreadNum
              i == IF k > c THEN k - c ELSE k - c + (ThreadNum - 1)
  <2>3. k \in 1 .. ThreadNum - 1 /\ Ahead(k) = p
    BY <2>2 DEF Ahead, IdsDiffer
  <2>4. i \in 1 .. ThreadNum - 1 /\ Turn(c + i) = k
    BY <2>3 DEF Turn, IdsDiffer
  <2>5. tried[i] = p /\ i \in DOMAIN tried
    BY <2>1, <2>3, <2>4 DEF SweepsFrom, TypeOK
  <2>. QED
    BY <2>5
<1>. QED
  BY <1>1, TypeCorrect, SweepInvariant, PTL

(***************************************************************************)
(* swift_backoff always sleeps for some time, and for less than a second:  *)
(* modulo five the time goes 1, 2, 4, 3, so that it is never zero, whoever *)
(* the thread is.  ThreadsFit: there are fewer than 10^8 threads.          *)
(***************************************************************************)
ThreadsFit == 100 <= Second /\ 10 * ThreadNum <= Second

SleepInv ==
  \A p \in Initialised :
    /\ threads[p].last_sleep_time % 5 # 0
    /\ threads[p].last_sleep_time \in 1 .. Second - 1

LEMMA DoublingModFive ==
  ASSUME NEW t \in Nat, t % 5 # 0
  PROVE  (t * 2) % 100 \in 1 .. 99 /\ ((t * 2) % 100) % 5 # 0
OBVIOUS

THEOREM BackoffSleeps == ThreadsFit => (Spec => []SleepsSomewhat)
<1>. SUFFICES ASSUME ThreadsFit PROVE Spec => []SleepsSomewhat
  OBVIOUS
<1>1. Init => SleepInv
  BY DEF Init, SleepInv, Initialised
<1>2. TypeOK /\ SleepInv /\ [Next]_vars => SleepInv'
  <2>. SUFFICES ASSUME TypeOK, SleepInv, [Next]_vars PROVE SleepInv'
    OBVIOUS
  <2>1. CASE DequeStep
    BY <2>1 DEF DequeStep, SleepInv, Initialised
  <2>2. CASE InitThread
    <3>1. PICK p \in Thread :
            /\ Initialised = 0 .. p - 1
            /\ threads' = [q \in 0 .. p |-> IF q = p THEN NewThread(p) ELSE threads[q]]
      BY <2>2 DEF InitThread
    <3>2. p \in Nat /\ p < ThreadNum /\ Initialised' = 0 .. p
      BY <3>1, ThreadAssumption DEF Initialised, Thread
    <3>3. FirstSleep(p) % 5 # 0 /\ FirstSleep(p) \in 1 .. Second - 1
      BY <3>2, ThreadAssumption, SecondAssumption DEF FirstSleep, ThreadsFit
    <3>. QED
      BY <3>1, <3>2, <3>3 DEF SleepInv, NewThread
  <2>3. CASE TrySteal
    BY <2>3 DEF TrySteal, TypeOK, SleepInv, Initialised, ThreadRecord
  <2>4. CASE Backoff
    <3>1. me \in Initialised /\ threads[me].last_sleep_time \in Nat
      BY <2>4 DEF Backoff, Ready, TypeOK, ThreadRecord
    <3>. DEFINE t == (threads[me].last_sleep_time * 2) % 100
    <3>2. t \in 1 .. Second - 1 /\ t % 5 # 0
      <4>1. threads[me].last_sleep_time % 5 # 0
        BY <3>1 DEF SleepInv
      <4>2. t \in 1 .. 99 /\ t % 5 # 0
        BY <3>1, <4>1, DoublingModFive
      <4>. QED
        BY <4>2, SecondAssumption DEF ThreadsFit
    <3>3. threads' = [threads EXCEPT ![me].last_sleep_time = t]
      BY <2>4 DEF Backoff
    <3>. QED
      BY <3>1, <3>2, <3>3 DEF SleepInv, TypeOK, ThreadRecord, Initialised
  <2>5. CASE UNCHANGED vars
    BY <2>5 DEF vars, SleepInv, Initialised
  <2>. QED
    BY <2>1, <2>2, <2>3, <2>4, <2>5 DEF Next
<1>3. SleepInv => SleepsSomewhat
  BY DEF SleepInv, SleepsSomewhat
<1>. QED
  BY <1>1, <1>2, <1>3, TypeCorrect, PTL DEF Spec

-----------------------------------------------------------------------------
(***************************************************************************)
(* The sizes of the deques, when the next power of two of every size that  *)
(* is asked for fits in a word.  In the loop, newSize is the power of two  *)
(* by which requested was divided to give size.                            *)
(***************************************************************************)
SizesFit == Requested \subseteq 1 .. WordRange \div 2

Rounds(n) == n \in PowersOfTwo /\ n >= requested /\ (n = 1 \/ n \div 2 < requested)

RoundInv ==
  /\ pc = "test" => size = requested /\ newSize = 1
  /\ pc = "round" =>
       /\ requested \notin PowersOfTwo /\ newSize \in PowersOfTwo
       /\ size * newSize <= requested /\ requested < (size + 1) * newSize
       /\ newSize \div 2 < requested
  /\ pc = "done" => Rounds(size)
  /\ \A p \in Initialised : Rounds(threads[p].size)

LEMMA ModZero ==
  ASSUME NEW n \in Nat, NEW d \in Nat, d >= 1, n % d = 0
  PROVE  \E k \in Nat : n = d * k
<1>1. n = d * (n \div d) + (n % d) /\ n \div d \in Int
  OBVIOUS
<1>. QED
  BY <1>1

LEMMA ModOfMultiple ==
  ASSUME NEW d \in Nat, NEW k \in Nat, d >= 1
  PROVE  (d * k) % d = 0
OBVIOUS

\* An odd number that divides twice a number divides the number.
LEMMA OddTimes ==
  ASSUME NEW d \in Nat, NEW k \in Nat, NEW n \in Nat, d % 2 = 1, n * 2 = d * k
  PROVE  \E j \in Nat : n = d * j
<1>1. PICK e \in Nat : d = 2 * e + 1
  OBVIOUS
<1>2. PICK m \in Nat : m = e * k
  OBVIOUS
<1>3. d * k = 2 * m + k
  BY <1>1, <1>2
<1>4. n * 2 = 2 * m + k
  BY <1>3
<1>5. PICK j \in Nat : k = 2 * j
  <2>1. n - m \in Nat /\ k = 2 * (n - m)
    BY <1>4
  <2>. QED
    BY <2>1
<1>6. PICK i \in Nat : i = d * j
  OBVIOUS
<1>7. d * k = 2 * i
  BY <1>5, <1>6
<1>. QED
  BY <1>6, <1>7

LEMMA PowerDoubles ==
  ASSUME NEW n \in PowersOfTwo, n * 2 < WordRange
  PROVE  n * 2 \in PowersOfTwo
<1>0. n \in Nat /\ n >= 1 /\ WordRange \in Nat /\ \A d \in 2 .. n : n % d = 0 => d % 2 = 0
  BY SizeAssumption DEF PowersOfTwo
<1>. SUFFICES ASSUME NEW d \in 2 .. n * 2, (n * 2) % d = 0, d % 2 # 0
              PROVE  FALSE
  BY <1>0 DEF PowersOfTwo
<1>1. d \in Nat /\ d >= 2 /\ d % 2 = 1
  BY <1>0
<1>2. PICK k \in Nat : n * 2 = d * k
  BY <1>0, <1>1, ModZero
<1>3. PICK j \in Nat : n = d * j
  BY <1>0, <1>1, <1>2, OddTimes
<1>4. j >= 1
  BY <1>0, <1>1, <1>3
<1>5. d <= n
  BY <1>1, <1>3, <1>4
<1>6. n % d = 0
  <2>1. (d * j) % d = 0
    BY <1>1, ModOfMultiple
  <2>. QED
    BY <1>3, <2>1
<1>. QED
  BY <1>0, <1>1, <1>5, <1>6

\* A turn of the loop loses the last bit of size, and newSize has room to double.
LEMMA ShiftRounds ==
  ASSUME NEW r \in Nat, NEW s \in Nat, NEW n \in PowersOfTwo, s # 0,
         s * n <= r, r < (s + 1) * n, r # n, r <= WordRange \div 2
  PROVE  /\ (n * 2) % WordRange = n * 2 /\ n * 2 \in PowersOfTwo
         /\ (s \div 2) * (n * 2) <= r /\ r < (s \div 2 + 1) * (n * 2)
         /\ (n * 2) \div 2 < r
<1>1. n \in Nat /\ n >= 1 /\ WordRange \in Nat
  BY SizeAssumption DEF PowersOfTwo
<1>2. n < r
  BY <1>1
<1>3. r * 2 <= WordRange
  BY <1>1
<1>4. n * 2 < WordRange
  BY <1>1, <1>2, <1>3
<1>5. n * 2 \in PowersOfTwo /\ (n * 2) % WordRange = n * 2 /\ (n * 2) \div 2 = n
  BY <1>1, <1>4, PowerDoubles
<1>6. PICK a \in Nat, e \in {0, 1} : s = 2 * a + e /\ s \div 2 = a
  <2>1. s \div 2 \in Nat /\ s % 2 \in {0, 1} /\ s = 2 * (s \div 2) + (s % 2)
    OBVIOUS
  <2>. QED
    BY <2>1
<1>7. s * n = a * (n * 2) + e * n /\ (s + 1) * n = a * (n * 2) + (e + 1) * n
  BY <1>1, <1>6
<1>8. a * (n * 2) \in Nat /\ (a + 1) * (n * 2) = a * (n * 2) + n * 2
  BY <1>1
<1>9. a * (n * 2) <= r /\ r < (a + 1) * (n * 2)
  BY <1>1, <1>7, <1>8
<1>. QED
  BY <1>2, <1>5, <1>6, <1>9

LEMMA RoundStepRounds ==
  ASSUME SizesFit, TypeOK, RoundInv, RoundStep
  PROVE  /\ pc' = "test" => size' = requested /\ newSize' = 1
         /\ pc' = "round" =>
              /\ requested \notin PowersOfTwo /\ newSize' \in PowersOfTwo
              /\ size' * newSize' <= requested /\ requested < (size' + 1) * newSize'
              /\ newSize' \div 2 < requested
         /\ pc' = "done" => Rounds(size')
<1>1. /\ requested \in Nat /\ requested >= 1 /\ requested <= WordRange \div 2
      /\ WordRange \in Nat /\ WordRange >= 2 /\ size \in Nat
  BY SizeAssumption DEF SizesFit, TypeOK
<1>2. CASE Test
  <2>1. size = requested /\ newSize = 1 /\ size' = size /\ newSize' = newSize
    BY <1>2 DEF Test, RoundInv
  <2>2. requested \in PowersOfTwo => pc' = "done" /\ Rounds(size')
    BY <1>1, <1>2, <2>1 DEF Test, Rounds
  <2>3. 1 \in PowersOfTwo
    BY <1>1 DEF PowersOfTwo
  <2>4. requested \notin PowersOfTwo => pc' = "round"
    BY <1>1, <1>2, <2>1 DEF Test
  <2>. QED
    BY <1>1, <2>1, <2>2, <2>3, <2>4
<1>3. CASE Shift
  <2>1. /\ pc = "round" /\ pc' = "round" /\ size # 0 /\ size' = size \div 2
        /\ newSize' = (newSize * 2) % WordRange
        /\ requested \notin PowersOfTwo /\ newSize \in PowersOfTwo
        /\ size * newSize <= requested /\ requested < (size + 1) * newSize
    BY <1>3 DEF Shift, RoundInv
  <2>. QED
    BY <1>1, <2>1, ShiftRounds
<1>4. CASE Rounded
  <2>1. /\ pc' = "done" /\ size' = newSize /\ size = 0 /\ newSize \in PowersOfTwo
        /\ requested < (size + 1) * newSize /\ newSize \div 2 < requested
    BY <1>4 DEF Rounded, RoundInv
  <2>2. newSize \in Nat
    BY <2>1 DEF PowersOfTwo
  <2>. QED
    BY <1>1, <2>1, <2>2 DEF Rounds
<1>. QED
  BY <1>2, <1>3, <1>4 DEF RoundStep

(***************************************************************************)
(* swift_deque_init gives every deque the smallest power of two that is    *)
(* not below the size asked for.                                           *)
(***************************************************************************)
THEOREM SizesRoundedUp == SizesFit => (Spec => []RoundedUp)
<1>. SUFFICES ASSUME SizesFit PROVE Spec => []RoundedUp
  OBVIOUS
<1>1. Init => RoundInv
  BY DEF Init, Begin, RoundInv, Initialised
<1>2. TypeOK /\ RoundInv /\ [Next]_vars => RoundInv'
  <2>. SUFFICES ASSUME TypeOK, RoundInv, [Next]_vars PROVE RoundInv'
    OBVIOUS
  <2>1. CASE DequeStep
    <3>1. RoundStep /\ threads' = threads /\ requested' = requested
      BY <2>1, RoundStepTypes DEF DequeStep
    <3>2. \A n : Rounds(n)' <=> Rounds(n)
      BY <3>1 DEF Rounds
    <3>. QED
      BY <3>1, <3>2, RoundStepRounds DEF RoundInv, Initialised, Rounds
  <2>2. CASE InitThread
    <3>1. PICK p \in Thread :
            /\ Initialised = 0 .. p - 1
            /\ threads' = [q \in 0 .. p |-> IF q = p THEN NewThread(p) ELSE threads[q]]
      BY <2>2 DEF InitThread
    <3>2. p \in Nat /\ Initialised' = 0 .. p
      BY <3>1, ThreadAssumption DEF Initialised, Thread
    <3>3. Rounds(size) /\ requested' = requested /\ pc' = "test" /\ size' = requested' /\ newSize' = 1
      BY <2>2 DEF InitThread, BeginNext, RoundInv
    <3>4. \A q \in 0 .. p : Rounds(threads'[q].size)
      BY <3>1, <3>2, <3>3 DEF RoundInv, NewThread
    <3>. QED
      BY <3>2, <3>3, <3>4 DEF RoundInv, Rounds
  <2>3. CASE TrySteal
    BY <2>3 DEF TrySteal, TypeOK, RoundInv, Rounds, Initialised, ThreadRecord
  <2>4. CASE Backoff
    BY <2>4 DEF Backoff, TypeOK, RoundInv, Rounds, Initialised, ThreadRecord
  <2>5. CASE UNCHANGED vars
    BY <2>5 DEF vars, RoundInv, Rounds, Initialised
  <2>. QED
    BY <2>1, <2>2, <2>3, <2>4, <2>5 DEF Next
<1>3. RoundInv => RoundedUp
  BY DEF RoundInv, Rounds, RoundedUp
<1>. QED
  BY <1>1, <1>2, <1>3, TypeCorrect, PTL DEF Spec
=============================================================================
