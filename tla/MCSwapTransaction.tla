-------------------------- MODULE MCSwapTransaction --------------------------
(***************************************************************************)
(* Two layers, in one file or in a file each.                              *)
(***************************************************************************)
EXTENDS SwapTransaction

CONSTANTS a, b, x, y

\* Two uses may write the same process, and two different ones.
Given == <<1, 1, 2, 2>>

EitherPlace == {[l \in {a, b} |-> x], [l \in {a, b} |-> IF l = a THEN x ELSE y]}
=============================================================================
