---------------------------- MODULE MCSwiftDeque ----------------------------
(***************************************************************************)
(* Model checking of SwiftDeque: frames and thieves are model values, all  *)
(* of them interchangeable.                                                *)
(***************************************************************************)
EXTENDS SwiftDeque, TLC

Symmetry == Permutations(Frame) \union Permutations(Thieves)
=============================================================================
