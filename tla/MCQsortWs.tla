------------------------------- MODULE MCQsortWs -------------------------------
(***************************************************************************)
(* All arrays of up to MaxSize elements of a few values, so that there are *)
(* duplicates, sorted arrays and arrays sorted the wrong way round.        *)
(***************************************************************************)
EXTENDS QsortWs

Values == 1 .. 3
=============================================================================
