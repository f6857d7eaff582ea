--------------------------- MODULE MCControlClient ---------------------------
(***************************************************************************)
(* A command may answer with the fingerprint of either fence reply, which  *)
(* are the two a careless reader would take for the boundary; the output  *)
(* of a capture may look like the opening guard that ends it.              *)
(***************************************************************************)
EXTENDS ControlClient, TLC

FenceLikeLists == {<<"A">>, <<"X", "B">>}
Outputs        == {<<>>, <<"guard", "text">>, <<"X", "guard">>}
GuardLike      == {<<"guard">>}
EndLikeList    == {<<"B">>}
CallerSymmetry == Permutations(Callers)
=============================================================================
