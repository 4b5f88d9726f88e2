------------------------------- MODULE DequeInit -------------------------------
(***************************************************************************)
(* How swift_deque_init rounds the size of a deque up to a power of two,   *)
(* turn by turn, in unsigned integers (swift_size_t).  The steps are       *)
(* composed into the initialisation of a context by SwiftContext.          *)
(***************************************************************************)
EXTENDS Integers

CONSTANTS
  WordRange, \* number of values of a swift_size_t: 2^32
  Requested  \* the sizes that callers ask for

ASSUME SizeAssumption ==
  /\ WordRange \in Nat \ {0, 1}
  /\ Requested \subseteq 0 .. WordRange - 1

\* the numbers that no odd number divides, but for one
PowersOfTwo == {n \in 1 .. WordRange - 1 : \A d \in 2 .. n : n % d = 0 => d % 2 = 0}

VARIABLES
  requested,  \* the argument
  size,       \* the local size, q->size in the end
  newSize,    \* the local newSize
  pc          \* "test" before the if, "round" in the loop, "done" after it

dequeVars == <<requested, size, newSize, pc>>

\* swift_deque_init is entered: for the first deque, and for the next one
Begin     == size = requested /\ newSize = 1 /\ pc = "test"
BeginNext == size' = requested /\ newSize' = 1 /\ pc' = "test"

\* Faulty: without the test, powers of two are doubled.
TestMissing ==
  /\ pc = "test"
  /\ pc' = "round"
  /\ UNCHANGED <<requested, size, newSize>>

\* size & (size - 1) is zero for the powers of two, and for zero
Test ==
  /\ pc = "test"
  /\ pc' = IF size \in PowersOfTwo \union {0} THEN "done" ELSE "round"
  /\ UNCHANGED <<requested, size, newSize>>

\* Faulty: the new size grows by two bits a turn, and outgrows the word.
ShiftByTwo ==
  /\ pc = "round" /\ size # 0
  /\ size' = size \div 2
  /\ newSize' = newSize * 4
  /\ UNCHANGED <<requested, pc>>

\* Faulty: the size is halved upwards and stays at one.
ShiftUp ==
  /\ pc = "round" /\ size # 0
  /\ size' = (size + 1) \div 2
  /\ newSize' = (newSize * 2) % WordRange
  /\ UNCHANGED <<requested, pc>>

\* both shifts: a bit shifted out of the word is gone
Shift ==
  /\ pc = "round" /\ size # 0
  /\ size' = size \div 2
  /\ newSize' = (newSize * 2) % WordRange
  /\ UNCHANGED <<requested, pc>>

Rounded ==
  /\ pc = "round" /\ size = 0
  /\ size' = newSize
  /\ pc' = "done"
  /\ UNCHANGED <<requested, newSize>>

RoundStep == Test \/ Shift \/ Rounded
=============================================================================
