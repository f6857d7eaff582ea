----------------------------- MODULE MCPaneInput -----------------------------
(***************************************************************************)
(* A pane that takes its keys alone or with another, as synchronize-panes  *)
(* is switched.  Three calls: two runs and any third call, a run among     *)
(* inputs, and inputs that add to, shorten and end a line in every order.  *)
(***************************************************************************)
EXTENDS PaneInput, TLC

CONSTANTS p1, p2, c1, c2, c3

Synchronized == {{p1}, {p1, p2}}

Mix(x, y, z) == (c1 :> x) @@ (c2 :> y) @@ (c3 :> z)

RunMixes == {Mix("run", "run", k) : k \in {"run", "type", "submit"}}

InputMixes == {Mix("type", "enter", "erase"), Mix("newline", "pasteEnter", "erase"),
               Mix("paste", "erase", "submit")}

AllMixes == RunMixes \cup InputMixes
=============================================================================
