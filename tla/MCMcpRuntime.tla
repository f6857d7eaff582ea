----------------------------- MODULE MCMcpRuntime -----------------------------
(***************************************************************************)
(* A create_session, which needs every lease returned, meets a             *)
(* wait_for_text, which may be tried twice and holds an observation, or a   *)
(* tool of the process lane, on an old tmux too.                           *)
(***************************************************************************)
EXTENDS McpRuntime, TLC

CONSTANTS r1, r2

TwoRequests == {r1, r2}
CreateMeetsAnother ==
    {<<r1 :> "create" @@ r2 :> mix[1], mix[2]>> :
        mix \in {<<"watch", TRUE>>, <<"act", TRUE>>, <<"act", FALSE>>}}
=============================================================================
