---------------------------- MODULE RequestOutcome ----------------------------
(***************************************************************************)
(* What a command sent to tmux promises its caller, whichever transport    *)
(* carries it: tmux runs it at most once; an answer without                *)
(* ErrOutcomeUnknown is the truth, "ok" for a command that ran and         *)
(* "notRun" for one that did not and never will; only ErrOutcomeUnknown    *)
(* leaves the question open, and a command may still run behind it.        *)
(***************************************************************************)
CONSTANT Requests

VARIABLES phase, ran, answer

vars == <<phase, ran, answer>>

Init ==
    /\ phase = [r \in Requests |-> "none"]
    /\ ran = [r \in Requests |-> FALSE]
    /\ answer = [r \in Requests |-> "none"]

Open(r) ==
    /\ phase[r] = "none"
    /\ phase' = [phase EXCEPT ![r] = "open"]
    /\ UNCHANGED <<ran, answer>>

Run(r) ==
    /\ ~ran[r]
    /\ phase[r] = "open" \/ answer[r] = "unknown"
    /\ ran' = [ran EXCEPT ![r] = TRUE]
    /\ UNCHANGED <<phase, answer>>

Answer(r, a) ==
    /\ phase[r] = "open"
    /\ a = "ok" => ran[r]
    /\ a = "notRun" => ~ran[r]
    /\ phase' = [phase EXCEPT ![r] = "answered"]
    /\ answer' = [answer EXCEPT ![r] = a]
    /\ UNCHANGED ran

Next ==
    \E r \in Requests :
        \/ Open(r)
        \/ Run(r)
        \/ \E a \in {"ok", "notRun", "unknown"} : Answer(r, a)

Spec == Init /\ [][Next]_vars
=============================================================================
