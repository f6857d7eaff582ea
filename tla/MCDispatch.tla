------------------------------ MODULE MCDispatch ------------------------------
(***************************************************************************)
(* Two callers on one endpoint, which are alike: a plan beside another, or *)
(* beside a command that ends the daemon or that bypasses the record.      *)
(***************************************************************************)
EXTENDS Dispatch, TLC

Together == {{"pair", "make"}, {"make", "kill"}, {"pair", "stream"}, {"kill", "stream"}}

Mixed == {m \in [Callers -> Shapes] : {m[c] : c \in Callers} \in Together}

CallerSymmetry == Permutations(Callers)
=============================================================================
