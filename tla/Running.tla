------------------------------- MODULE Running -------------------------------
(***************************************************************************)
(* A command in a tmux pane of its own (Session.Start, Running, and        *)
(* Session.Run over them).  Start arms a new window and puts the command   *)
(* in it; any number of Waits watch for its end, each through a wait-for   *)
(* client of its own and a look at the pane now and then; the first that   *)
(* sees it starts the one goroutine that reads the outcome for all.        *)
(*                                                                         *)
(* tmux closes a dead pane's terminal, then reaps the command and records  *)
(* how it ended, then runs the hook that signals the channel once.  The    *)
(* last two may never come, and users and failures may take the window.    *)
(***************************************************************************)
EXTENDS Integers

CONSTANTS
    Calls,      \* calls of Wait
    Ends,       \* how a command may end: statuses and signals
    ReapAt,     \* looks at an unreaped pane before tmux is asked to reap
    SettleLimit,\* looks before the outcome is given up (bound: two)
    Nobody

ASSUME RunningAssumption ==
    /\ Nobody \notin Calls
    /\ Ends \cap {"none", "unknown"} = {}
    /\ ReapAt \in Nat /\ SettleLimit \in Nat /\ ReapAt < SettleLimit

VARIABLES
    runner, keep,                      \* the call that is Run's own, RunOptions.Keep
    stage, remains, hooked,            \* Start, and what it set on the pane
    pane, pipe, how, unnoticed,        \* tmux: the pane, its pipe, the end of the command
    signaled, latch, client,           \* the hook ran, the channel, wait-for clients
    pc, err, settling, asked, ctxDone, \* per call
    answer, got,
    exited, finishing, outcome,        \* the shared outcome
    takenBy, slip                      \* history: who took the window; one could not be

optionVars == <<runner, keep>>
startVars  == <<stage, remains, hooked>>
endVars    == <<how, unnoticed>>
signalVars == <<signaled, latch, client>>
callVars   == <<pc, err, settling, asked, answer, got>>
finishVars == <<exited, finishing, outcome>>
takenVars  == <<takenBy, slip>>
vars == <<optionVars, startVars, pane, pipe, endVars, signalVars, callVars, ctxDone, finishVars,
          takenVars>>

Nothing  == <<"none", "none">>
Pipes    == {"no", "ours", "untold"}
Failures == {"ctx", "gone", "error", "unrecorded"}
Outcomes == (Ends \cup {"none", "unknown"}) \X {"none", "error", "remove"}

Init ==
    /\ runner \in Calls \cup {Nobody} /\ keep \in BOOLEAN
    /\ stage = "window" /\ remains = FALSE /\ hooked = FALSE
    /\ pane = "none" /\ pipe = "no"
    /\ how = "none" /\ unnoticed = FALSE
    /\ signaled = FALSE /\ latch = FALSE
    /\ client = [c \in Calls |-> "none"]
    /\ pc = [c \in Calls |-> "idle"]
    /\ err = [c \in Calls |-> "none"]
    /\ settling = [c \in Calls |-> 0]
    /\ asked = [c \in Calls |-> FALSE]
    /\ ctxDone = [c \in Calls |-> FALSE]
    /\ answer = [c \in Calls |-> "none"]
    /\ got = [c \in Calls |-> Nothing]
    /\ exited = FALSE /\ finishing = "no" /\ outcome = Nothing
    /\ takenBy = "nobody" /\ slip = FALSE

------------------------------------------------------------------------------
(* The window, as tmux and its users treat it.                             *)

There == pane \notin {"none", "gone"}

Take(who) ==
    /\ pane' = "gone" /\ pipe' = "no"
    /\ takenBy' = IF There THEN who ELSE takenBy

\* Window.Kill in a cleanup: it fails on a window that is gone, and may fail
\* on one that is there.
CleanUp(who) ==
    \/ Take(who) /\ UNCHANGED slip
    \/ There /\ slip' = TRUE /\ UNCHANGED <<pane, pipe, takenBy>>

\* The command exits or is killed, by Running.Kill or by others.  tmux keeps a
\* dead pane only if remain-on-exit was set before; it may miss the SIGCHLD.
CommandEnds ==
    /\ pane = "running"
    /\ how' \in Ends
    /\ IF remains THEN pane' = "closed" /\ UNCHANGED <<pipe, takenBy>> ELSE Take("tmux")
    /\ unnoticed' \in BOOLEAN
    /\ UNCHANGED <<optionVars, startVars, signalVars, callVars, ctxDone, finishVars, slip>>

Reap ==
    /\ pane = "closed" /\ ~unnoticed
    /\ pane' = "reaped"
    /\ UNCHANGED <<optionVars, startVars, pipe, endVars, signalVars, callVars, ctxDone,
                   finishVars, takenVars>>

\* The pane-died hook: wait-for -S frees every client of the channel, or is
\* kept for the next one, unless a client whose call has left was there.
SignalDeath ==
    /\ pane = "reaped" /\ hooked /\ ~signaled
    /\ signaled' = TRUE
    /\ latch' \in {FALSE, \A c \in Calls : client[c] # "parked"}
    /\ client' = [c \in Calls |-> IF client[c] = "parked" THEN "woken" ELSE client[c]]
    /\ UNCHANGED <<optionVars, startVars, pane, pipe, endVars, callVars, ctxDone, finishVars,
                   takenVars>>

\* Somebody else removes the window, or the whole server exits: then wait-for
\* ends with success, and WaitFor looks whether the server is gone, which a
\* failed look and a server started since do not tell.
WindowGoes ==
    /\ There /\ Take("user")
    /\ \/ UNCHANGED <<latch, client>>
       \/ /\ latch' = FALSE
          /\ \E freed \in [Calls -> {"woken", "failed"}] :
               client' = [c \in Calls |-> IF client[c] = "parked" THEN freed[c] ELSE client[c]]
    /\ UNCHANGED <<optionVars, startVars, endVars, signaled, callVars, ctxDone, finishVars, slip>>

------------------------------------------------------------------------------
(* Session.Start.                                                          *)

StartFails ==
    /\ stage \in {"window", "arm", "hook", "respawn"}
    /\ stage' = IF stage = "window" THEN "failed" ELSE "undo"
    /\ UNCHANGED <<optionVars, remains, hooked, pane, pipe, endVars, signalVars, callVars, ctxDone,
                   finishVars, takenVars>>

\* tmux may have made a window that it could not tell of any more.
NewWindow ==
    /\ stage = "window"
    /\ pane' = "cat"
    /\ \/ stage' = "arm" /\ UNCHANGED slip
       \/ stage' = "failed" /\ slip' = TRUE
    /\ UNCHANGED <<optionVars, remains, hooked, pipe, endVars, signalVars, callVars, ctxDone,
                   finishVars, takenBy>>

SetRemainOnExit ==
    /\ stage = "arm" /\ There
    /\ stage' = "pipe" /\ remains' = TRUE
    /\ UNCHANGED <<optionVars, hooked, pane, pipe, endVars, signalVars, callVars, ctxDone,
                   finishVars, takenVars>>

\* A pipe of ours, if tmux is old and the pane has none; no pipe is no failure,
\* nor is one that tmux opened although Start was told an error.
InstallPipe ==
    /\ stage = "pipe" /\ stage' = "hook"
    /\ pipe' \in IF There THEN Pipes ELSE {"no"}
    /\ UNCHANGED <<optionVars, remains, hooked, pane, endVars, signalVars, callVars, ctxDone,
                   finishVars, takenVars>>

SetHook ==
    /\ stage = "hook" /\ There
    /\ stage' = "respawn" /\ hooked' = TRUE
    /\ UNCHANGED <<optionVars, remains, pane, pipe, endVars, signalVars, callVars, ctxDone,
                   finishVars, takenVars>>

\* A respawned pane that is there is the command's from now on.
Respawn ==
    /\ stage = "respawn" /\ There
    /\ pane' = "running"
    /\ stage' \in {"started", "undo"}
    /\ UNCHANGED <<optionVars, remains, hooked, pipe, endVars, signalVars, callVars, ctxDone,
                   finishVars, takenVars>>

UndoStart ==
    /\ stage = "undo" /\ stage' = "failed"
    /\ CleanUp("start")
    /\ UNCHANGED <<optionVars, remains, hooked, endVars, signalVars, callVars, ctxDone, finishVars>>

------------------------------------------------------------------------------
(* Running.Wait and waitForExit.                                           *)

GoTo(c, place) == pc' = [pc EXCEPT ![c] = place]

\* waitForExit returns, and cancels its wait-for: a client still on its way
\* may yet take the signal that was kept.
Leave(c, place, e) ==
    /\ GoTo(c, place)
    /\ err' = [err EXCEPT ![c] = e]
    /\ client' = [client EXCEPT ![c] = "none"]
    /\ latch' \in {latch} \cup (IF client[c] = "going" THEN {FALSE} ELSE {})
    /\ settling' = [settling EXCEPT ![c] = 0] /\ asked' = [asked EXCEPT ![c] = FALSE]

BeginWait(c) ==
    /\ stage = "started" /\ pc[c] = "idle" /\ runner \in {c, Nobody}
    /\ IF exited
       THEN GoTo(c, "claim") /\ UNCHANGED client
       ELSE GoTo(c, "watch") /\ client' = [client EXCEPT ![c] = "going"]
    /\ UNCHANGED <<optionVars, startVars, pane, pipe, endVars, signaled, latch, err, settling,
                   asked, answer, got, ctxDone, finishVars, takenVars>>

\* The wait-for client reaches tmux.
Park(c) ==
    /\ client[c] = "going"
    /\ client' = [client EXCEPT ![c] = IF latch THEN "woken" ELSE "parked"]
    /\ latch' = FALSE
    /\ UNCHANGED <<optionVars, startVars, pane, pipe, endVars, signaled, callVars, ctxDone,
                   finishVars, takenVars>>

ClientFails(c) ==
    /\ client[c] \in {"going", "parked"}
    /\ client' = [client EXCEPT ![c] = "failed"]
    /\ UNCHANGED <<optionVars, startVars, pane, pipe, endVars, signaled, latch, callVars, ctxDone,
                   finishVars, takenVars>>

\* The select of waitForExit, and with "handover" that of awaitDeathSignal.
Selects(c) ==
    /\ pc[c] \in {"watch", "handover"}
    /\ \/ client[c] = "woken" /\ Leave(c, "claim", "none")
       \/ client[c] = "failed" /\ Leave(c, "failed", "error")
       \/ ctxDone[c] /\ Leave(c, "failed", "ctx")
       \/ pc[c] = "handover" /\ Leave(c, "claim", "none")
    /\ UNCHANGED <<optionVars, startVars, pane, pipe, endVars, signaled, answer, got, ctxDone,
                   finishVars, takenVars>>

\* A look with a context that has ended would fail at once.
TimerFires(c) ==
    /\ pc[c] = "watch" /\ ~ctxDone[c]
    /\ GoTo(c, "refresh")
    /\ UNCHANGED <<optionVars, startVars, pane, pipe, endVars, signalVars, err, settling, asked,
                   answer, got, ctxDone, finishVars, takenVars>>

\* The look fails, or once too often says that the pane is dead and unreaped.
RefreshFails(c) ==
    /\ pc[c] = "refresh"
    /\ \/ There /\ Leave(c, "failed", "error")
       \/ ~There /\ Leave(c, "failed", "gone")
       \/ ctxDone[c] /\ Leave(c, "failed", "ctx")
       \/ pane = "closed" /\ settling[c] >= SettleLimit /\ Leave(c, "failed", "unrecorded")
    /\ UNCHANGED <<optionVars, startVars, pane, pipe, endVars, signaled, answer, got, ctxDone,
                   finishVars, takenVars>>

\* Mutant: the looks at an unreaped pane are not counted.
RefreshUncounted(c) ==
    /\ pc[c] = "refresh" /\ There
    /\ GoTo(c, IF pane = "reaped" THEN "handover" ELSE "watch")
    /\ UNCHANGED <<optionVars, startVars, pane, pipe, endVars, signalVars, err, settling, asked,
                   answer, got, ctxDone, finishVars, takenVars>>

\* What the look says: alive, recorded, or dead and unrecorded, which is looked
\* at again until the limit; on the way tmux is asked, once, to reap.
Refresh(c) ==
    /\ pc[c] = "refresh" /\ There
    /\ pane = "closed" => settling[c] < SettleLimit
    /\ GoTo(c, IF pane = "reaped" THEN "handover" ELSE "watch")
    /\ LET nudge == pane = "closed" /\ settling[c] >= ReapAt /\ ~asked[c]
       IN /\ asked' = [asked EXCEPT ![c] = @ \/ nudge]
          /\ unnoticed' \in {unnoticed} \cup (IF nudge THEN {FALSE} ELSE {})
    /\ settling' = [settling EXCEPT ![c] = IF pane = "closed" THEN @ + 1 ELSE @]
    /\ UNCHANGED <<optionVars, startVars, pane, pipe, how, signalVars, err, answer, got, ctxDone,
                   finishVars, takenVars>>

\* Where a call of Wait goes that has its answer: Run removes the window of a
\* command it could not report.
Returns(c, ok) == GoTo(c, IF runner = c /\ ~ok THEN "clean" ELSE "done")

\* A failure is this call's own only if no other has seen the command end.
Excuse(c) ==
    /\ pc[c] = "failed"
    /\ IF exited
       THEN GoTo(c, "join") /\ UNCHANGED answer
       ELSE Returns(c, FALSE) /\ answer' = [answer EXCEPT ![c] = err[c]]
    /\ err' = [err EXCEPT ![c] = "none"]
    /\ UNCHANGED <<optionVars, startVars, pane, pipe, endVars, signalVars, settling, asked, got,
                   ctxDone, finishVars, takenVars>>

\* Mutant: the end is claimed only once its outcome is stored.
ClaimLate(c) ==
    /\ pc[c] = "claim"
    /\ GoTo(c, "join")
    /\ exited' = (finishing = "closed")
    /\ finishing' = IF finishing = "no" THEN "refresh" ELSE finishing
    /\ UNCHANGED <<optionVars, startVars, pane, pipe, endVars, signalVars, err, settling, asked,
                   answer, got, ctxDone, outcome, takenVars>>

Claim(c) ==
    /\ pc[c] = "claim"
    /\ GoTo(c, "join")
    /\ exited' = TRUE
    /\ finishing' = IF finishing = "no" THEN "refresh" ELSE finishing
    /\ UNCHANGED <<optionVars, startVars, pane, pipe, endVars, signalVars, err, settling, asked,
                   answer, got, ctxDone, outcome, takenVars>>

Join(c) ==
    /\ pc[c] = "join"
    /\ \/ /\ finishing = "closed"
          /\ answer' = [answer EXCEPT ![c] = "outcome"]
          /\ got' = [got EXCEPT ![c] = outcome]
          /\ Returns(c, outcome[2] = "none")
       \/ /\ ctxDone[c]
          /\ answer' = [answer EXCEPT ![c] = "ctx"]
          /\ Returns(c, FALSE)
          /\ UNCHANGED got
    /\ UNCHANGED <<optionVars, startVars, pane, pipe, endVars, signalVars, err, settling, asked,
                   ctxDone, finishVars, takenVars>>

\* Session.Run after an error.
RunCleansUp(c) ==
    /\ pc[c] = "clean"
    /\ GoTo(c, "done")
    /\ CleanUp("run")
    /\ UNCHANGED <<optionVars, startVars, endVars, signalVars, err, settling, asked, answer, got,
                   ctxDone, finishVars>>

CancelContext(c) ==
    /\ ~ctxDone[c] /\ pc[c] \in {"watch", "refresh", "handover", "join"}
    /\ ctxDone' = [ctxDone EXCEPT ![c] = TRUE]
    /\ UNCHANGED <<optionVars, startVars, pane, pipe, endVars, signalVars, callVars, finishVars,
                   takenVars>>

------------------------------------------------------------------------------
(* Running.finish, on no caller's context.                                 *)

FinishRefresh ==
    /\ finishing = "refresh"
    /\ \/ There /\ outcome' = <<IF pane = "reaped" THEN how ELSE "unknown", "none">>
                /\ finishing' = "capture"
       \/ outcome' = <<"none", "error">> /\ finishing' = "cleanup"
    /\ UNCHANGED <<optionVars, startVars, pane, pipe, endVars, signalVars, callVars, ctxDone, exited,
                   takenVars>>

FinishCapture ==
    /\ finishing = "capture" /\ finishing' = "cleanup"
    /\ \/ There /\ UNCHANGED outcome
       \/ outcome' = <<"none", "error">>
    /\ UNCHANGED <<optionVars, startVars, pane, pipe, endVars, signalVars, callVars, ctxDone, exited,
                   takenVars>>

\* The deferred cleanup: a kept window keeps no pipe that Start knows it opened,
\* any other goes.
FinishCleanup ==
    /\ finishing = "cleanup" /\ finishing' = "store"
    /\ IF keep
       THEN /\ \/ pipe' = (IF pipe = "ours" THEN "no" ELSE pipe) /\ UNCHANGED slip
               \/ pipe = "ours" /\ slip' = TRUE /\ UNCHANGED pipe
            /\ UNCHANGED <<pane, takenBy, outcome>>
       ELSE /\ CleanUp("finish")
            /\ outcome' = IF outcome[2] = "none" /\ (~There \/ pane' # "gone")
                          THEN <<outcome[1], "remove">> ELSE outcome
    /\ UNCHANGED <<optionVars, startVars, endVars, signalVars, callVars, ctxDone, exited>>

FinishStore ==
    /\ finishing = "store" /\ finishing' = "closed"
    /\ UNCHANGED <<optionVars, startVars, pane, pipe, endVars, signalVars, callVars, ctxDone, exited,
                   outcome, takenVars>>

------------------------------------------------------------------------------
StartStep ==
    \/ StartFails \/ NewWindow \/ SetRemainOnExit \/ InstallPipe \/ SetHook \/ Respawn \/ UndoStart

WaitStep(c) ==
    \/ Selects(c) \/ TimerFires(c) \/ RefreshFails(c) \/ Refresh(c)
    \/ Excuse(c) \/ Claim(c) \/ Join(c) \/ RunCleansUp(c)

FinishStep == FinishRefresh \/ FinishCapture \/ FinishCleanup \/ FinishStore

Next ==
    \/ CommandEnds \/ Reap \/ SignalDeath \/ WindowGoes
    \/ StartStep \/ FinishStep
    \/ \E c \in Calls :
         BeginWait(c) \/ Park(c) \/ ClientFails(c) \/ CancelContext(c) \/ WaitStep(c)

(* Looks and other short commands are answered or fail; timers fire.  The  *)
(* command need not end, nor tmux reap or signal it, nor a wait-for return. *)
Fairness == WF_vars(StartStep) /\ WF_vars(FinishStep) /\ \A c \in Calls : WF_vars(WaitStep(c))

Spec == Init /\ [][Next]_vars /\ Fairness
------------------------------------------------------------------------------
(* Properties.                                                             *)

Places == {"idle", "watch", "refresh", "handover", "failed", "claim", "join", "clean", "done"}

\* The variables keep their types.
TypeOK ==
    /\ runner \in Calls \cup {Nobody} /\ keep \in BOOLEAN
    /\ stage \in {"window", "arm", "pipe", "hook", "respawn", "started", "undo", "failed"}
    /\ remains \in BOOLEAN /\ hooked \in BOOLEAN
    /\ pane \in {"none", "cat", "running", "closed", "reaped", "gone"}
    /\ pipe \in Pipes
    /\ how \in Ends \cup {"none"} /\ unnoticed \in BOOLEAN
    /\ signaled \in BOOLEAN /\ latch \in BOOLEAN
    /\ client \in [Calls -> {"none", "going", "parked", "woken", "failed"}]
    /\ pc \in [Calls -> Places]
    /\ err \in [Calls -> Failures \cup {"none"}]
    /\ settling \in [Calls -> 0..SettleLimit] /\ asked \in [Calls -> BOOLEAN]
    /\ ctxDone \in [Calls -> BOOLEAN]
    /\ answer \in [Calls -> Failures \cup {"none", "outcome"}]
    /\ got \in [Calls -> Outcomes]
    /\ exited \in BOOLEAN /\ outcome \in Outcomes
    /\ finishing \in {"no", "refresh", "capture", "cleanup", "store", "closed"}
    /\ takenBy \in {"nobody", "tmux", "user", "start", "run", "finish"} /\ slip \in BOOLEAN

\* The command runs only in a pane that will wait for it to be read, and that
\* will tell of its end: however soon it exits, tmux does not take the window.
Armed == (pane = "running" => remains /\ hooked) /\ takenBy # "tmux"

\* All calls that are told the outcome are told the same one, for good.
OneOutcome ==
    \A c \in Calls : answer[c] = "outcome" => finishing = "closed" /\ got[c] = outcome

\* Whatever status or signal is reported is the one tmux recorded: a command
\* that was found dead, or whose wait-for just ended, is not yet a success.
EndWasRecorded == outcome[1] # "none" => outcome[1] = how

\* No call reports that the pane is gone when it was the reading of the very
\* outcome, started by another call, that removed it.
NobodyIsBlamed == \A c \in Calls : answer[c] = "gone" => takenBy = "user"

\* Short of tmux hiding a window or refusing to remove it, none is left behind,
\* by a Start that failed, a Run that returned or an outcome that was read,
\* unless it is to be kept; and a kept one is left without a pipe that Start
\* knows to be its own.
WindowsSettled ==
    slip \/ /\ stage = "failed" => ~There
            /\ finishing = "closed" => IF keep THEN pipe # "ours" ELSE ~There
            /\ \A c \in Calls : runner = c /\ pc[c] = "done"
                  => ~There \/ (keep /\ answer[c] = "outcome" /\ got[c][2] = "none")

\* One end of the command, read once and truly, for every call of Wait.
RunningOK == TypeOK /\ Armed /\ OneOutcome /\ EndWasRecorded /\ NobodyIsBlamed /\ WindowsSettled

\* Wait returns once the command has ended or its window has gone, although
\* tmux may never reap it, signal it or end a wait-for; and when its context ends.
WaitsReturn ==
    \A c \in Calls :
      pc[c] # "idle" /\ (pane # "running" \/ ctxDone[c]) ~> pc[c] = "done"
=============================================================================
