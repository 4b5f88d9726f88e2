--------------------------- MODULE MCSwiftDequeTSO ---------------------------
(***************************************************************************)
(* Model checking of SwiftDequeTSO, with and without the fence.            *)
(***************************************************************************)
EXTENDS SwiftDequeTSO, TLC

Symmetry == Permutations(Frame) \union Permutations(Thieves)
=============================================================================
