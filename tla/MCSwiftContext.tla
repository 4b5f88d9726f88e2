---------------------------- MODULE MCSwiftContext ----------------------------
(***************************************************************************)
(* Words of a few bits, and all the sizes whose next power of two fits in  *)
(* a word.                                                                 *)
(***************************************************************************)
EXTENDS SwiftContext

Roundable == 1 .. WordRange \div 2
=============================================================================
