--------------------------- MODULE MCSwiftAllocator ---------------------------
(***************************************************************************)
(* Model checking of SwiftAllocator: interchangeable threads.              *)
(***************************************************************************)
EXTENDS SwiftAllocator, TLC

Symmetry == Permutations(Thread)
=============================================================================
