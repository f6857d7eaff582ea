------------------------------- MODULE PaneInput -------------------------------
(***************************************************************************)
(* What the MCP tools type into panes: send_keys, paste_text and           *)
(* run_shell_command, the reservations that keep them apart                *)
(* (paneInputCoordinator), the record of what this process typed and did   *)
(* not submit (pendingInput), and the reaper that follows a run whose call *)
(* has returned.                                                           *)
(*                                                                         *)
(* tmux and the shell of a pane are external.  tmux takes the keys of a    *)
(* dispatch at once or, when its outcome is unknown, later or never.  A    *)
(* line is the sequence of the calls whose text is on it.  A pane that is  *)
(* respawned has another shell, which its generation tells apart.          *)
(***************************************************************************)
EXTENDS Naturals, Sequences

CONSTANTS
    Calls,           \* tool calls
    Panes,
    Groups,          \* the sets of panes that take the same keys at some time
    Mixes,           \* what the calls do together: functions to Kinds
    MaxGenerations,  \* bound: times a pane is respawned, plus one
    Nobody

(* "type" adds text and "enter" a separate Enter after it; "submit" ends   *)
(* the line, by Enter, C-u or C-c; "newline" ends it and starts another;   *)
(* "erase" reaches behind what the call itself typed; "paste" and          *)
(* "pasteEnter" are paste_text; "run" is run_shell_command.                *)
Typing == {"type", "enter", "paste", "pasteEnter"}
Kinds  == Typing \cup {"submit", "newline", "erase", "run"}

ASSUME PaneAssumption ==
    /\ Groups \subseteq SUBSET Panes \ {{}}
    /\ Mixes \subseteq [Calls -> Kinds]
    /\ MaxGenerations \in Nat /\ Nobody \notin Calls

VARIABLES
    active, detached,               \* the coordinator
    pending,                        \* pendingInput.byPane
    pc, kind, panes, was, checked,  \* the calls: place, work, lease, restore, shell checked
    sent, entering,                 \* its dispatch in tmux, and whether that is the Enter
    line, generation, run,          \* the panes and the commands run in them
    unsure                          \* history: panes the record is allowed to be wrong about

coordinator == <<active, detached>>
callVars    == <<kind, panes, was, checked>>
tmuxVars    == <<line, generation, run>>
vars == <<coordinator, pending, pc, callVars, sent, entering, tmuxVars, unsure>>

Init ==
    /\ active = [p \in Panes |-> Nobody] /\ detached = [p \in Panes |-> Nobody]
    /\ pending = [p \in Panes |-> <<>>]
    /\ pc = [c \in Calls |-> "idle"]
    /\ kind \in Mixes
    /\ panes = [c \in Calls |-> {}]
    /\ was = [c \in Calls |-> [p \in Panes |-> <<>>]]
    /\ checked = [c \in Calls |-> 0]
    /\ sent = [c \in Calls |-> "no"] /\ entering = [c \in Calls |-> FALSE]
    /\ line = [p \in Panes |-> <<>>] /\ generation = [p \in Panes |-> 0]
    /\ run = [c \in Calls |-> "no"]
    /\ unsure = [p \in Panes |-> FALSE]

------------------------------------------------------------------------------
GoTo(c, place) == pc' = [pc EXCEPT ![c] = place]

IsRun(c)  == kind[c] = "run"
Erased(l) == IF l = <<>> THEN l ELSE SubSeq(l, 1, Len(l) - 1)

\* On the panes of c the record becomes what F makes of it.
Recorded(c, F(_)) == pending' = [p \in Panes |-> IF p \in panes[c] THEN F(pending[p]) ELSE pending[p]]

Empty(l) == <<>>

\* Mutant: a pane is let go whoever holds it by now.
ReleasedAnyones(c) ==
    /\ active' = [p \in Panes |-> IF p \in panes[c] THEN Nobody ELSE active[p]]
    /\ detached' = [p \in Panes |-> IF p \in panes[c] /\ detached[p] = c THEN Nobody ELSE detached[p]]

\* release: the panes whose token is the lease's.
Released(c) ==
    /\ active' = [p \in Panes |-> IF active[p] = c THEN Nobody ELSE active[p]]
    /\ detached' = [p \in Panes |-> IF detached[p] = c THEN Nobody ELSE detached[p]]

\* The call returns and lets go of its panes.
Done(c) == GoTo(c, "done") /\ Released(c)

\* reapCommandRun: detach, and a goroutine that follows the run.
Reaped(c) ==
    /\ GoTo(c, "reaping")
    /\ active' = [p \in Panes |-> IF active[p] = c THEN Nobody ELSE active[p]]
    /\ detached' = [p \in Panes |-> IF active[p] = c THEN c ELSE detached[p]]

------------------------------------------------------------------------------
(* Before the dispatch.                                                    *)

\* A paste reaches one pane, and a run refuses panes that share their keys.
Alone(reached) == \E p \in reached : reached = {p}

\* The first preflight.
Preflight(c) ==
    /\ pc[c] = "idle"
    /\ \E reached \in Groups :
         /\ kind[c] \in {"paste", "pasteEnter"} => Alone(reached)
         /\ panes' = [panes EXCEPT ![c] = reached]
         /\ GoTo(c, IF IsRun(c) /\ ~Alone(reached) THEN "done" ELSE "checked")
    /\ UNCHANGED <<coordinator, pending, kind, was, checked, sent, entering, tmuxVars, unsure>>

MayReserve(c) ==
    \A p \in panes[c] : active[p] = Nobody /\ (IsRun(c) => detached[p] = Nobody)

\* acquire.
Acquire(c) ==
    /\ pc[c] = "checked"
    /\ IF MayReserve(c)
       THEN /\ active' = [p \in Panes |-> IF p \in panes[c] THEN c ELSE active[p]]
            /\ GoTo(c, "reserved")
       ELSE /\ GoTo(c, "done")
            /\ UNCHANGED active
    /\ UNCHANGED <<detached, pending, callVars, sent, entering, tmuxVars, unsure>>

\* The second preflight settles and agrees with the first: the shell that
\* takes the keys has been looked at.
Recheck(c) ==
    /\ pc[c] = "reserved"
    /\ \A p \in panes[c] : active[p] = c
    /\ \E p \in panes[c] : checked' = [checked EXCEPT ![c] = generation[p]]
    /\ GoTo(c, "ready")
    /\ UNCHANGED <<coordinator, pending, kind, panes, was, sent, entering, tmuxVars, unsure>>

\* It does not, or the caller withholds consent, or setup fails.
RefuseDispatch(c) ==
    /\ pc[c] = "reserved"
    /\ Done(c)
    /\ UNCHANGED <<pending, callVars, sent, entering, tmuxVars, unsure>>

\* What is recorded before tmux has the keys.
Upfront(c, l) ==
    IF kind[c] \in Typing THEN Append(l, c)
    ELSE IF kind[c] = "erase" THEN Erased(l)
    ELSE l

Send(c) ==
    /\ pc[c] = "ready"
    /\ GoTo(c, "sending")
    /\ Recorded(c, LAMBDA l : Upfront(c, l))
    /\ was' = [was EXCEPT ![c] = pending]
    /\ sent' = [sent EXCEPT ![c] = "flying"]
    /\ UNCHANGED <<coordinator, kind, panes, checked, entering, tmuxVars, unsure>>

------------------------------------------------------------------------------
(* tmux and the panes.                                                     *)

\* What the keys make of the line they reach.
Taken(c, l) ==
    IF kind[c] \in {"type", "paste"} \/ (kind[c] = "enter" /\ ~entering[c]) THEN Append(l, c)
    ELSE IF kind[c] = "erase" THEN Erased(l)
    ELSE IF kind[c] = "newline" THEN <<c>>
    ELSE <<>>

In(d, p) == IsRun(d) /\ p \in panes[d]

(* A run's line is a command only if nothing stands before it.  C-c also   *)
(* discards lines that the shell has not read yet.                         *)
TmuxTakes(c) ==
    /\ sent[c] = "flying"
    /\ sent' = [sent EXCEPT ![c] = "taken"]
    /\ line' = [p \in Panes |-> IF p \in panes[c] THEN Taken(c, line[p]) ELSE line[p]]
    /\ \/ /\ IsRun(c)
          /\ run' = [run EXCEPT ![c] = IF \A p \in panes[c] : line[p] = <<>> THEN "typed" ELSE "lost"]
       \/ ~IsRun(c) /\ UNCHANGED run
       \/ /\ kind[c] = "submit"
          /\ run' = [d \in Calls |-> IF run[d] = "typed" /\ panes[d] \subseteq panes[c]
                                     THEN "lost" ELSE run[d]]
    /\ UNCHANGED <<coordinator, pending, pc, callVars, entering, generation, unsure>>

\* A dispatch of unknown outcome turns out never to arrive.
TmuxLoses(c) ==
    /\ sent[c] = "flying" /\ pc[c] # "sending"
    /\ sent' = [sent EXCEPT ![c] = "lost"]
    /\ run' = IF IsRun(c) THEN [run EXCEPT ![c] = "lost"] ELSE run
    /\ UNCHANGED <<coordinator, pending, pc, callVars, entering, line, generation, unsure>>

\* The shell reads the line and the wrapper records its process.
ShellStarts(c) ==
    /\ run[c] = "typed"
    /\ \A p \in panes[c], d \in Calls : In(d, p) => run[d] # "running"
    /\ run' = [run EXCEPT ![c] = "running"]
    /\ UNCHANGED <<coordinator, pending, pc, callVars, sent, entering, line, generation, unsure>>

\* The wrapper ends, with its closing mark published or killed before it.
ShellEnds(c) ==
    /\ run[c] = "running"
    /\ \E end \in {"recorded", "killed"} : run' = [run EXCEPT ![c] = end]
    /\ UNCHANGED <<coordinator, pending, pc, callVars, sent, entering, line, generation, unsure>>

\* respawn_pane, by anyone: nothing clears the record.
Respawn(p) ==
    /\ generation[p] + 1 < MaxGenerations
    /\ generation' = [generation EXCEPT ![p] = @ + 1]
    /\ line' = [line EXCEPT ![p] = <<>>]
    /\ run' = [d \in Calls |-> IF In(d, p) /\ run[d] \in {"typed", "running"} THEN "killed" ELSE run[d]]
    /\ unsure' = [unsure EXCEPT ![p] = TRUE]
    /\ UNCHANGED <<coordinator, pending, pc, callVars, sent, entering>>

------------------------------------------------------------------------------
(* After the dispatch.                                                     *)

Unsure(c) == unsure' = [p \in Panes |-> unsure[p] \/ p \in panes[c]]

\* What success adds to the record: a line that ended is gone from it.
Submitted(c, l) ==
    IF kind[c] = "newline" THEN <<c>>
    ELSE IF kind[c] \in {"submit", "pasteEnter", "run"} THEN <<>>
    ELSE l

InputSucceeds(c) ==
    /\ pc[c] = "sending" /\ sent[c] = "taken" /\ ~IsRun(c) /\ kind[c] # "enter"
    /\ Recorded(c, LAMBDA l : Submitted(c, l))
    /\ Done(c)
    /\ UNCHANGED <<callVars, sent, entering, tmuxVars, unsure>>

\* send_keys with enter: another dispatch, under the same reservation.
SendEnter(c) ==
    /\ pc[c] = "sending" /\ sent[c] = "taken" /\ kind[c] = "enter" /\ ~entering[c]
    /\ entering' = [entering EXCEPT ![c] = TRUE]
    /\ sent' = [sent EXCEPT ![c] = "flying"]
    /\ UNCHANGED <<coordinator, pending, pc, callVars, tmuxVars, unsure>>

EnterSucceeds(c) ==
    /\ pc[c] = "sending" /\ sent[c] = "taken" /\ entering[c]
    /\ Recorded(c, Empty)
    /\ Done(c)
    /\ UNCHANGED <<callVars, sent, entering, tmuxVars, unsure>>

\* The function that record returns; nothing was recorded for a line that ends.
Restored(c) ==
    IF entering[c] \/ kind[c] \notin Typing \cup {"erase"}
    THEN UNCHANGED pending
    ELSE pending' = [p \in Panes |-> IF p \in panes[c] THEN was[c][p] ELSE pending[p]]

\* Mutant: what was recorded for a dispatch that failed stays.
DispatchFailsRecorded(c) ==
    /\ pc[c] = "sending" /\ sent[c] = "flying"
    /\ sent' = [sent EXCEPT ![c] = "lost"]
    /\ Done(c)
    /\ UNCHANGED <<pending, callVars, entering, tmuxVars, unsure>>

\* tmux certainly did not take the keys.
DispatchFails(c) ==
    /\ pc[c] = "sending" /\ sent[c] = "flying"
    /\ sent' = [sent EXCEPT ![c] = "lost"]
    /\ Restored(c)
    /\ Done(c)
    /\ UNCHANGED <<callVars, entering, tmuxVars, unsure>>

\* ErrOutcomeUnknown, which an input handles like any other error.
InputUnknown(c) ==
    /\ pc[c] = "sending" /\ ~IsRun(c)
    /\ Restored(c)
    /\ Unsure(c)
    /\ Done(c)
    /\ UNCHANGED <<callVars, sent, entering, tmuxVars>>

RunSucceeds(c) ==
    /\ pc[c] = "sending" /\ sent[c] = "taken" /\ IsRun(c)
    /\ Recorded(c, Empty)
    /\ GoTo(c, "awaiting")
    /\ UNCHANGED <<coordinator, callVars, sent, entering, tmuxVars, unsure>>

\* Mutant: a run whose dispatch failed in any way is forgotten.
RunUnknownForgets(c) ==
    /\ pc[c] = "sending" /\ IsRun(c)
    /\ Recorded(c, Empty)
    /\ Unsure(c)
    /\ Done(c)
    /\ UNCHANGED <<callVars, sent, entering, tmuxVars>>

\* ErrOutcomeUnknown: the run counts as dispatched.
RunUnknown(c) ==
    /\ pc[c] = "sending" /\ IsRun(c)
    /\ Recorded(c, Empty)
    /\ Unsure(c)
    /\ Reaped(c)
    /\ UNCHANGED <<callVars, sent, entering, tmuxVars>>

\* readCompletedCommand, commandWrapperGone and commandRunPresent.
SeenOver(c) ==
    \/ run[c] \in {"recorded", "killed"}
    \/ \E p \in panes[c] : generation[p] # checked[c]

TakeStatus(c) ==
    /\ pc[c] = "awaiting" /\ run[c] = "recorded"
    /\ Done(c)
    /\ UNCHANGED <<pending, callVars, sent, entering, tmuxVars, unsure>>

\* The call times out, is canceled, or finds the wrapper gone.
StopAwaiting(c) ==
    /\ pc[c] = "awaiting"
    /\ Reaped(c)
    /\ UNCHANGED <<pending, callVars, sent, entering, tmuxVars, unsure>>

\* Mutant: the reaper waits for a status only.
ReapByStatus(c) ==
    /\ pc[c] = "reaping" /\ run[c] = "recorded"
    /\ Done(c)
    /\ UNCHANGED <<pending, callVars, sent, entering, tmuxVars, unsure>>

Reap(c) ==
    /\ pc[c] = "reaping" /\ SeenOver(c)
    /\ Done(c)
    /\ UNCHANGED <<pending, callVars, sent, entering, tmuxVars, unsure>>

------------------------------------------------------------------------------
\* The polls of a run's call and of its reaper; a call has a timeout.
PollStep(c) == TakeStatus(c) \/ StopAwaiting(c) \/ Reap(c)

CallStep(c) ==
    \/ Preflight(c) \/ Acquire(c) \/ Recheck(c) \/ RefuseDispatch(c) \/ Send(c)
    \/ InputSucceeds(c) \/ SendEnter(c) \/ EnterSucceeds(c) \/ DispatchFails(c) \/ InputUnknown(c)
    \/ RunSucceeds(c) \/ RunUnknown(c) \/ PollStep(c)

PaneStep(c) == TmuxTakes(c) \/ TmuxLoses(c) \/ ShellStarts(c) \/ ShellEnds(c)

Next == (\E c \in Calls : CallStep(c) \/ PaneStep(c)) \/ \E p \in Panes : Respawn(p)

\* The polls go on; the client, tmux and the shells owe nothing.
Fairness == \A c \in Calls : WF_vars(PollStep(c))

Spec == Init /\ [][Next]_vars /\ Fairness
------------------------------------------------------------------------------
(* Properties.                                                             *)

\* The variables keep their types.
TypeOK ==
    /\ active \in [Panes -> Calls \cup {Nobody}] /\ detached \in [Panes -> Calls \cup {Nobody}]
    /\ pending \in [Panes -> Seq(Calls)] /\ line \in [Panes -> Seq(Calls)]
    /\ pc \in [Calls -> {"idle", "checked", "reserved", "ready", "sending", "awaiting", "reaping", "done"}]
    /\ kind \in Mixes /\ panes \in [Calls -> SUBSET Panes]
    /\ was \in [Calls -> [Panes -> Seq(Calls)]] /\ checked \in [Calls -> Nat]
    /\ sent \in [Calls -> {"no", "flying", "taken", "lost"}] /\ entering \in [Calls -> BOOLEAN]
    /\ generation \in [Panes -> Nat]
    /\ run \in [Calls -> {"no", "typed", "running", "recorded", "killed", "lost"}]
    /\ unsure \in [Panes -> BOOLEAN]

Holding(c) == pc[c] \in {"reserved", "ready", "sending", "awaiting"}

\* A pane is reserved for exactly the call that is at work on it, until that
\* call lets go, and held against runs for exactly the run a reaper follows:
\* no lease is leaked, taken over or released by an earlier holder.
ReservationsExact ==
    \A p \in Panes, c \in Calls :
      /\ active[p] = c <=> p \in panes[c] /\ Holding(c)
      /\ detached[p] = c <=> p \in panes[c] /\ pc[c] = "reaping"

\* The coordinator's own state is in order.
PaneOK == TypeOK /\ ReservationsExact

\* While nobody is at work on a pane, the record is the line: whatever was
\* typed, erased, submitted, or refused by tmux.  Unknown outcomes and a
\* respawn aside.
PendingIsLine == \A p \in Panes : active[p] = Nobody /\ ~unsure[p] => pending[p] = line[p]

\* The shell a run was checked against still has it.
Occupies(d, p) ==
    In(d, p) /\ run[d] \in {"typed", "running"} /\ checked[d] = generation[p]

\* A run is typed into a pane only when no earlier run is still to end there,
\* not even one whose call timed out or whose dispatch failed with an unknown
\* outcome.
RunsOneAtATime ==
    [][\A c \in Calls :
         IsRun(c) /\ sent[c] = "flying" /\ sent'[c] = "taken"
           => \A p \in panes[c] : checked[c] = generation[p]
                => \A d \in Calls \ {c} : ~Occupies(d, p)]_vars

\* A run that has ended, with or without a status, or whose pane has another
\* shell, is forgotten: the pane takes the next run.
EndedRunIsForgotten ==
    \A c \in Calls : pc[c] \in {"awaiting", "reaping"} /\ SeenOver(c) ~> pc[c] = "done"

\* Not so of every run, although the tests of detached runs say that the next
\* one goes once this one has ended, however it ended: one that tmux never typed,
\* its outcome unknown, holds its pane until another shell is there.
EveryRunIsForgotten ==
    \A c \in Calls : pc[c] = "reaping" /\ run[c] \in {"recorded", "killed", "lost"} ~> pc[c] = "done"

\* Not an invariant, although pendingInput says it (pending_input.go:14): what a
\* wait reads of a line is never this process's own unsubmitted input.  An
\* unknown outcome takes the record back while the text may be on the line.
OwnInputIsMasked == \A p \in Panes : line[p] = <<>> \/ pending[p] = line[p]
=============================================================================
