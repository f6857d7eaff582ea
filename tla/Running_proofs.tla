---------------------------- MODULE Running_proofs ----------------------------
(***************************************************************************)
(* The outcome of a command is one, true, and in nobody's way, for any      *)
(* number of Waits.  The invariant says how far Start has come, that the    *)
(* end is claimed only once tmux has recorded it or the pane has gone, and  *)
(* who can have taken the pane.                                             *)
(***************************************************************************)
EXTENDS Running, TLAPS

\* Parts of TypeOK that several actions change together.
WindowTypes ==
    /\ pane \in {"none", "cat", "running", "closed", "reaped", "gone"} /\ pipe \in Pipes
    /\ takenBy \in {"nobody", "tmux", "user", "start", "run", "finish"} /\ slip \in BOOLEAN

WatchTypes ==
    /\ latch \in BOOLEAN
    /\ client \in [Calls -> {"none", "going", "parked", "woken", "failed"}]
    /\ pc \in [Calls -> Places] /\ err \in [Calls -> Failures \cup {"none"}]
    /\ settling \in [Calls -> 0..SettleLimit] /\ asked \in [Calls -> BOOLEAN]

\* What Start has done by each stage, and that nobody waits before its end.
Started ==
    /\ pane \in {"running", "closed", "reaped"} => stage \in {"started", "undo", "failed"}
    /\ stage = "window" => pane = "none"
    /\ pane = "none" => stage \in {"window", "failed"}
    /\ stage \in {"pipe", "hook", "respawn", "started"} => remains
    /\ stage \in {"respawn", "started"} => hooked
    /\ stage = "started" => pane # "cat"
    /\ pane \in {"running", "closed", "reaped"} => remains /\ hooked
    /\ stage # "started" =>
         ~exited /\ \A c \in Calls : pc[c] = "idle" /\ client[c] = "none"
    /\ \A c \in Calls : pc[c] # "idle" => runner \in {c, Nobody}
    /\ \A c \in Calls : pc[c] = "clean" => runner = c

\* The end is known for good: tmux recorded it, or there is nothing to look at.
Ended == pane \in {"reaped", "gone"}

\* Whoever goes on as if the command had ended is right.
SeenEnded ==
    /\ signaled \/ latch \/ exited => Ended
    /\ \A c \in Calls : pc[c] \in {"handover", "claim"} \/ client[c] = "woken" => Ended

\* The outcome is read by one goroutine, of what tmux recorded.
ReadOnce ==
    /\ exited = (finishing # "no")
    /\ \A c \in Calls : pc[c] = "join" => exited
    /\ finishing \in {"no", "refresh"} => outcome = Nothing
    /\ EndWasRecorded
    /\ OneOutcome

\* Who can have taken the pane from a call that finds it gone.
Taken ==
    /\ takenBy # "tmux"
    /\ (pane = "gone") = (takenBy # "nobody")
    /\ takenBy = "start" => stage = "failed"
    /\ takenBy = "finish" => exited
    /\ takenBy = "run" => \E c \in Calls : runner = c /\ pc[c] = "done"
    /\ \A c \in Calls : err[c] = "gone" => takenBy = "user" \/ exited
    /\ NobodyIsBlamed

\* Windows on their way to be settled.
Settled == slip \/ (finishing = "store" => IF keep THEN pipe # "ours" ELSE ~There)

RunningInv == TypeOK /\ Started /\ SeenEnded /\ ReadOnce /\ Taken /\ Settled /\ WindowsSettled

\* Who takes a window leaves all that is said of it typed.
LEMMA CleanUpTypes ==
    ASSUME TypeOK, NEW who \in {"user", "tmux", "start", "run", "finish"},
           (Take(who) /\ UNCHANGED slip) \/ CleanUp(who)
    PROVE  WindowTypes'
<1>1. pane' \in {pane, "gone"} /\ takenBy' \in {takenBy, who}
  BY DEF CleanUp, Take
<1>2. pipe' \in Pipes
  BY DEF TypeOK, CleanUp, Take, Pipes
<1>3. slip' \in BOOLEAN
  BY DEF TypeOK, CleanUp, Take
<1>4. pane \in {"none", "cat", "running", "closed", "reaped", "gone"}
      /\ takenBy \in {"nobody", "tmux", "user", "start", "run", "finish"}
  BY DEF TypeOK
<1>5. QED
  BY <1>1, <1>2, <1>3, <1>4 DEF WindowTypes

\* So does who leaves waitForExit.
LEMMA LeaveTypes ==
    ASSUME TypeOK, NEW c \in Calls, NEW place \in Places, NEW e \in Failures \cup {"none"},
           Leave(c, place, e)
    PROVE  WatchTypes'
<1>1. latch' \in BOOLEAN
  BY DEF TypeOK, Leave, GoTo
<1>2. client' \in [Calls -> {"none", "going", "parked", "woken", "failed"}]
  BY DEF TypeOK, Leave, GoTo
<1>3. pc' \in [Calls -> Places] /\ err' \in [Calls -> Failures \cup {"none"}]
  BY DEF TypeOK, Leave, GoTo
<1>4. settling' \in [Calls -> 0..SettleLimit] /\ asked' \in [Calls -> BOOLEAN]
  BY RunningAssumption DEF TypeOK, Leave, GoTo
<1>5. QED
  BY <1>1, <1>2, <1>3, <1>4 DEF WatchTypes

\* And what a call that leaves it changes for the rest.
LEMMA LeaveFrame ==
    ASSUME TypeOK, NEW c \in Calls, Selects(c) \/ RefreshFails(c)
    PROVE  /\ pc[c] \in {"watch", "handover", "refresh"} /\ pc'[c] \in {"claim", "failed"}
           /\ err'[c] = "gone" => pane = "gone" \/ pane = "none"
           /\ \A d \in Calls \ {c} : pc'[d] = pc[d] /\ err'[d] = err[d]
           /\ UNCHANGED <<optionVars, startVars, pane, pipe, endVars, signaled, answer, got, ctxDone,
                          finishVars, takenVars>>
  BY DEF TypeOK, Selects, RefreshFails, Leave, GoTo, There

\* The variables keep their types.
LEMMA TypesKept ==
    ASSUME TypeOK, [Next]_vars
    PROVE  TypeOK'
<1> USE DEF TypeOK, optionVars, startVars, endVars, signalVars, callVars, finishVars, takenVars
<1>1. CASE CommandEnds
  <2>1. WindowTypes'
    BY <1>1, CleanUpTypes DEF CommandEnds, WindowTypes
  <2>2. how' \in Ends
    BY <1>1 DEF CommandEnds, Take, There
  <2>3. unnoticed' \in BOOLEAN
    BY <1>1 DEF CommandEnds, Take, There
  <2>4. UNCHANGED <<runner, keep, stage, remains, hooked, signaled, latch, client, pc, err,
                 settling, asked, ctxDone, answer, got, exited, finishing, outcome>>
    BY <1>1 DEF CommandEnds, Take, There
  <2>5. QED
    BY <2>1, <2>2, <2>3, <2>4 DEF WindowTypes
<1>2. CASE SignalDeath
  <2>1. signaled' \in BOOLEAN
    BY <1>2 DEF SignalDeath
  <2>2. latch' \in BOOLEAN
    BY <1>2 DEF SignalDeath
  <2>3. client' \in [Calls -> {"none", "going", "parked", "woken", "failed"}]
    BY <1>2 DEF SignalDeath
  <2>4. UNCHANGED <<runner, keep, stage, remains, hooked, pane, pipe, how, unnoticed, pc,
                 err, settling, asked, ctxDone, answer, got, exited, finishing, outcome,
                 takenBy, slip>>
    BY <1>2 DEF SignalDeath
  <2>5. QED
    BY <2>1, <2>2, <2>3, <2>4
<1>3. CASE WindowGoes
  <2>1. WindowTypes'
    BY <1>3, CleanUpTypes DEF WindowGoes
  <2>2. latch' \in BOOLEAN
    BY <1>3 DEF WindowGoes, Take, There
  <2>3. client' \in [Calls -> {"none", "going", "parked", "woken", "failed"}]
    BY <1>3 DEF WindowGoes, Take, There
  <2>4. UNCHANGED <<runner, keep, stage, remains, hooked, how, unnoticed, signaled, pc, err,
                 settling, asked, ctxDone, answer, got, exited, finishing, outcome>>
    BY <1>3 DEF WindowGoes, Take, There
  <2>5. QED
    BY <2>1, <2>2, <2>3, <2>4 DEF WindowTypes
<1>4. CASE NewWindow
  <2>1. pane' \in {"none", "cat", "running", "closed", "reaped", "gone"}
    BY <1>4 DEF NewWindow
  <2>2. stage' \in {"window", "arm", "pipe", "hook", "respawn", "started", "undo", "failed"}
    BY <1>4 DEF NewWindow
  <2>3. slip' \in BOOLEAN
    BY <1>4 DEF NewWindow
  <2>4. UNCHANGED <<runner, keep, remains, hooked, pipe, how, unnoticed, signaled, latch,
                 client, pc, err, settling, asked, ctxDone, answer, got, exited, finishing,
                 outcome, takenBy>>
    BY <1>4 DEF NewWindow
  <2>5. QED
    BY <2>1, <2>2, <2>3, <2>4
<1>5. CASE InstallPipe
  <2>1. pipe' \in Pipes
    BY <1>5 DEF InstallPipe, There, Pipes
  <2>2. stage' \in {"window", "arm", "pipe", "hook", "respawn", "started", "undo", "failed"}
    BY <1>5 DEF InstallPipe, There
  <2>3. UNCHANGED <<runner, keep, remains, hooked, pane, how, unnoticed, signaled, latch,
                 client, pc, err, settling, asked, ctxDone, answer, got, exited, finishing,
                 outcome, takenBy, slip>>
    BY <1>5 DEF InstallPipe, There
  <2>4. QED
    BY <2>1, <2>2, <2>3
<1>6. CASE UndoStart
  <2>1. WindowTypes'
    BY <1>6, CleanUpTypes DEF UndoStart
  <2>2. stage' \in {"window", "arm", "pipe", "hook", "respawn", "started", "undo", "failed"}
    BY <1>6 DEF UndoStart, CleanUp, Take, There
  <2>3. UNCHANGED <<runner, keep, remains, hooked, how, unnoticed, signaled, latch, client,
                 pc, err, settling, asked, ctxDone, answer, got, exited, finishing,
                 outcome>>
    BY <1>6 DEF UndoStart, CleanUp, Take, There
  <2>4. QED
    BY <2>1, <2>2, <2>3 DEF WindowTypes
<1>7. CASE FinishCleanup
  <2>1. WindowTypes'
    BY <1>7, CleanUpTypes DEF FinishCleanup, WindowTypes, Pipes
  <2>2. finishing' \in {"no", "refresh", "capture", "cleanup", "store", "closed"}
    BY <1>7 DEF FinishCleanup, CleanUp, Take, There
  <2>3. outcome' \in Outcomes
    BY <1>7 DEF FinishCleanup, CleanUp, Take, There, Outcomes
  <2>4. UNCHANGED <<runner, keep, stage, remains, hooked, how, unnoticed, signaled, latch,
                 client, pc, err, settling, asked, ctxDone, answer, got, exited>>
    BY <1>7 DEF FinishCleanup, CleanUp, Take, There
  <2>5. QED
    BY <2>1, <2>2, <2>3, <2>4 DEF WindowTypes
<1>8. ASSUME NEW c \in Calls, BeginWait(c) PROVE TypeOK'
  <2>1. pc' \in [Calls -> Places]
    BY <1>8 DEF BeginWait, GoTo, Places
  <2>2. client' \in [Calls -> {"none", "going", "parked", "woken", "failed"}]
    BY <1>8 DEF BeginWait, GoTo
  <2>3. UNCHANGED <<runner, keep, stage, remains, hooked, pane, pipe, how, unnoticed,
                 signaled, latch, err, settling, asked, ctxDone, answer, got, exited,
                 finishing, outcome, takenBy, slip>>
    BY <1>8 DEF BeginWait, GoTo
  <2>4. QED
    BY <2>1, <2>2, <2>3
<1>9. ASSUME NEW c \in Calls, Park(c) PROVE TypeOK'
  <2>1. client' \in [Calls -> {"none", "going", "parked", "woken", "failed"}]
    BY <1>9 DEF Park
  <2>2. latch' \in BOOLEAN
    BY <1>9 DEF Park
  <2>3. UNCHANGED <<runner, keep, stage, remains, hooked, pane, pipe, how, unnoticed,
                 signaled, pc, err, settling, asked, ctxDone, answer, got, exited,
                 finishing, outcome, takenBy, slip>>
    BY <1>9 DEF Park
  <2>4. QED
    BY <2>1, <2>2, <2>3
<1>10. ASSUME NEW c \in Calls, Selects(c) PROVE TypeOK'
  <2>1. WatchTypes'
    BY <1>10, LeaveTypes DEF Selects, Places, Failures
  <2>2. UNCHANGED <<runner, keep, stage, remains, hooked, pane, pipe, how, unnoticed,
                 signaled, ctxDone, answer, got, exited, finishing, outcome, takenBy, slip>>
    BY <1>10 DEF Selects, Leave, GoTo
  <2>3. QED
    BY <2>1, <2>2 DEF WatchTypes
<1>11. ASSUME NEW c \in Calls, RefreshFails(c) PROVE TypeOK'
  <2>1. WatchTypes'
    BY <1>11, LeaveTypes DEF RefreshFails, Places, Failures
  <2>2. UNCHANGED <<runner, keep, stage, remains, hooked, pane, pipe, how, unnoticed,
                 signaled, ctxDone, answer, got, exited, finishing, outcome, takenBy, slip>>
    BY <1>11 DEF RefreshFails, Leave, GoTo, There
  <2>3. QED
    BY <2>1, <2>2 DEF WatchTypes
<1>12. ASSUME NEW c \in Calls, Refresh(c) PROVE TypeOK'
  <2>1. pc' \in [Calls -> Places]
    BY <1>12 DEF Refresh, GoTo, There, Places
  <2>2. settling' \in [Calls -> 0..SettleLimit]
    BY <1>12, RunningAssumption DEF Refresh, GoTo, There
  <2>3. asked' \in [Calls -> BOOLEAN]
    BY <1>12 DEF Refresh, GoTo, There
  <2>4. unnoticed' \in BOOLEAN
    BY <1>12 DEF Refresh, GoTo, There
  <2>5. UNCHANGED <<runner, keep, stage, remains, hooked, pane, pipe, how, signaled, latch,
                 client, err, ctxDone, answer, got, exited, finishing, outcome, takenBy,
                 slip>>
    BY <1>12 DEF Refresh, GoTo, There
  <2>6. QED
    BY <2>1, <2>2, <2>3, <2>4, <2>5
<1>13. ASSUME NEW c \in Calls, Join(c) PROVE TypeOK'
  <2>1. pc' \in [Calls -> Places]
    BY <1>13 DEF Join, GoTo, Returns, Places
  <2>2. answer' \in [Calls -> Failures \cup {"none", "outcome"}]
    BY <1>13 DEF Join, GoTo, Returns, Failures
  <2>3. got' \in [Calls -> Outcomes]
    BY <1>13 DEF Join, GoTo, Returns
  <2>4. UNCHANGED <<runner, keep, stage, remains, hooked, pane, pipe, how, unnoticed,
                 signaled, latch, client, err, settling, asked, ctxDone, exited, finishing,
                 outcome, takenBy, slip>>
    BY <1>13 DEF Join, GoTo, Returns
  <2>5. QED
    BY <2>1, <2>2, <2>3, <2>4
<1>14. ASSUME NEW c \in Calls, RunCleansUp(c) PROVE TypeOK'
  <2>1. WindowTypes'
    BY <1>14, CleanUpTypes DEF RunCleansUp
  <2>2. pc' \in [Calls -> Places]
    BY <1>14 DEF RunCleansUp, CleanUp, Take, There, GoTo, Places
  <2>3. UNCHANGED <<runner, keep, stage, remains, hooked, how, unnoticed, signaled, latch,
                 client, err, settling, asked, ctxDone, answer, got, exited, finishing,
                 outcome>>
    BY <1>14 DEF RunCleansUp, CleanUp, Take, There, GoTo
  <2>4. QED
    BY <2>1, <2>2, <2>3 DEF WindowTypes
<1>15. CASE Reap
  BY <1>15 DEF Reap
<1>16. CASE StartFails
  BY <1>16 DEF StartFails
<1>17. CASE SetRemainOnExit
  BY <1>17 DEF SetRemainOnExit, There
<1>18. CASE SetHook
  BY <1>18 DEF SetHook, There
<1>19. CASE Respawn
  BY <1>19 DEF Respawn, There
<1>20. CASE FinishRefresh
  BY <1>20 DEF FinishRefresh, There, Outcomes, Nothing
<1>21. CASE FinishCapture
  BY <1>21 DEF FinishCapture, There, Outcomes, Nothing
<1>22. CASE FinishStore
  BY <1>22 DEF FinishStore
<1>23. ASSUME NEW c \in Calls, ClientFails(c) PROVE TypeOK'
  BY <1>23 DEF ClientFails, Places, Failures
<1>24. ASSUME NEW c \in Calls, CancelContext(c) PROVE TypeOK'
  BY <1>24 DEF CancelContext, Places, Failures
<1>25. ASSUME NEW c \in Calls, TimerFires(c) PROVE TypeOK'
  BY <1>25 DEF TimerFires, GoTo, Places, Failures
<1>26. ASSUME NEW c \in Calls, Excuse(c) PROVE TypeOK'
  BY <1>26 DEF Excuse, GoTo, Returns, Places, Failures
<1>27. ASSUME NEW c \in Calls, Claim(c) PROVE TypeOK'
  BY <1>27 DEF Claim, GoTo, Places, Failures
<1>28. CASE UNCHANGED vars
  BY <1>28 DEF vars
<1>29. QED
  BY <1>1, <1>2, <1>3, <1>4, <1>5, <1>6, <1>7, <1>8, <1>9, <1>10, <1>11, <1>12, <1>13, <1>14,
     <1>15, <1>16, <1>17, <1>18, <1>19, <1>20, <1>21, <1>22, <1>23, <1>24, <1>25, <1>26, <1>27,
     <1>28 DEF Next, StartStep, FinishStep, WaitStep

\* Start goes on in its order, and before its end nobody waits.
LEMMA StartedKept ==
    ASSUME RunningInv, [Next]_vars
    PROVE  Started'
<1> USE DEF RunningInv, Started, ReadOnce, TypeOK, optionVars, startVars, endVars, signalVars, callVars,
       finishVars, takenVars
<1>1. CASE CommandEnds
  BY <1>1 DEF CommandEnds, Take, There
<1>2. CASE Reap
  BY <1>2 DEF Reap
<1>3. CASE SignalDeath
  BY <1>3 DEF SignalDeath
<1>4. CASE WindowGoes
  BY <1>4 DEF WindowGoes, Take, There
<1>5. CASE StartFails
  BY <1>5 DEF StartFails
<1>6. CASE NewWindow
  BY <1>6 DEF NewWindow
<1>7. CASE SetRemainOnExit
  BY <1>7 DEF SetRemainOnExit, There
<1>8. CASE InstallPipe
  BY <1>8 DEF InstallPipe, There
<1>9. CASE SetHook
  BY <1>9 DEF SetHook, There
<1>10. CASE Respawn
  BY <1>10 DEF Respawn, There
<1>11. CASE UndoStart
  BY <1>11 DEF UndoStart, CleanUp, Take, There
<1>12. CASE FinishRefresh
  BY <1>12 DEF FinishRefresh, There
<1>13. CASE FinishCapture
  BY <1>13 DEF FinishCapture, There
<1>14. CASE FinishCleanup
  <2>1. exited /\ stage = "started"
    BY <1>14 DEF FinishCleanup, ReadOnce
  <2>2. pane' \in {pane, "gone"}
    BY <1>14 DEF FinishCleanup, CleanUp, Take
  <2>3. UNCHANGED <<optionVars, startVars, signalVars, callVars, exited>>
    BY <1>14 DEF FinishCleanup
  <2>4. QED
    BY <2>1, <2>2, <2>3
<1>15. CASE FinishStore
  BY <1>15 DEF FinishStore
<1>16. ASSUME NEW c \in Calls, BeginWait(c) PROVE Started'
  BY <1>16 DEF BeginWait, GoTo
<1>17. ASSUME NEW c \in Calls, Park(c) PROVE Started'
  BY <1>17 DEF Park
<1>18. ASSUME NEW c \in Calls, ClientFails(c) PROVE Started'
  BY <1>18 DEF ClientFails
<1>19. ASSUME NEW c \in Calls, CancelContext(c) PROVE Started'
  BY <1>19 DEF CancelContext
<1>20. ASSUME NEW c \in Calls, Selects(c) PROVE Started'
  BY <1>20 DEF Selects, Leave, GoTo
<1>21. ASSUME NEW c \in Calls, TimerFires(c) PROVE Started'
  BY <1>21 DEF TimerFires, GoTo
<1>22. ASSUME NEW c \in Calls, RefreshFails(c) PROVE Started'
  BY <1>22 DEF RefreshFails, Leave, GoTo, There
<1>23. ASSUME NEW c \in Calls, Refresh(c) PROVE Started'
  BY <1>23 DEF Refresh, GoTo, There
<1>24. ASSUME NEW c \in Calls, Excuse(c) PROVE Started'
  BY <1>24 DEF Excuse, GoTo, Returns
<1>25. ASSUME NEW c \in Calls, Claim(c) PROVE Started'
  BY <1>25 DEF Claim, GoTo
<1>26. ASSUME NEW c \in Calls, Join(c) PROVE Started'
  BY <1>26 DEF Join, GoTo, Returns
<1>27. ASSUME NEW c \in Calls, RunCleansUp(c) PROVE Started'
  BY <1>27 DEF RunCleansUp, CleanUp, Take, There, GoTo
<1>28. CASE UNCHANGED vars
  BY <1>28 DEF vars
<1>29. QED
  BY <1>1, <1>2, <1>3, <1>4, <1>5, <1>6, <1>7, <1>8, <1>9, <1>10, <1>11, <1>12, <1>13, <1>14,
     <1>15, <1>16, <1>17, <1>18, <1>19, <1>20, <1>21, <1>22, <1>23, <1>24, <1>25, <1>26, <1>27,
     <1>28 DEF Next, StartStep, FinishStep, WaitStep

\* Nobody takes a command for ended that is not.
LEMMA SeenEndedKept ==
    ASSUME RunningInv, [Next]_vars
    PROVE  SeenEnded'
<1> USE DEF RunningInv, SeenEnded, Ended, Started, ReadOnce, TypeOK, optionVars, startVars,
     endVars, signalVars, callVars,
       finishVars, takenVars
<1>1. CASE CommandEnds
  BY <1>1 DEF CommandEnds, Take, There
<1>2. CASE Reap
  BY <1>2 DEF Reap
<1>3. CASE SignalDeath
  BY <1>3 DEF SignalDeath
<1>4. CASE WindowGoes
  BY <1>4 DEF WindowGoes, Take, There
<1>5. CASE StartFails
  BY <1>5 DEF StartFails
<1>6. CASE NewWindow
  BY <1>6 DEF NewWindow
<1>7. CASE SetRemainOnExit
  BY <1>7 DEF SetRemainOnExit, There
<1>8. CASE InstallPipe
  BY <1>8 DEF InstallPipe, There
<1>9. CASE SetHook
  BY <1>9 DEF SetHook, There
<1>10. CASE Respawn
  BY <1>10 DEF Respawn, There
<1>11. CASE UndoStart
  BY <1>11 DEF UndoStart, CleanUp, Take, There
<1>12. CASE FinishRefresh
  BY <1>12 DEF FinishRefresh, There
<1>13. CASE FinishCapture
  BY <1>13 DEF FinishCapture, There
<1>14. CASE FinishCleanup
  BY <1>14 DEF FinishCleanup, CleanUp, Take, There
<1>15. CASE FinishStore
  BY <1>15 DEF FinishStore
<1>16. ASSUME NEW c \in Calls, BeginWait(c) PROVE SeenEnded'
  BY <1>16 DEF BeginWait, GoTo
<1>17. ASSUME NEW c \in Calls, Park(c) PROVE SeenEnded'
  BY <1>17 DEF Park
<1>18. ASSUME NEW c \in Calls, ClientFails(c) PROVE SeenEnded'
  BY <1>18 DEF ClientFails
<1>19. ASSUME NEW c \in Calls, CancelContext(c) PROVE SeenEnded'
  BY <1>19 DEF CancelContext
<1>20. ASSUME NEW c \in Calls, Selects(c) PROVE SeenEnded'
  BY <1>20 DEF Selects, Leave, GoTo
<1>21. ASSUME NEW c \in Calls, TimerFires(c) PROVE SeenEnded'
  BY <1>21 DEF TimerFires, GoTo
<1>22. ASSUME NEW c \in Calls, RefreshFails(c) PROVE SeenEnded'
  BY <1>22 DEF RefreshFails, Leave, GoTo, There
<1>23. ASSUME NEW c \in Calls, Refresh(c) PROVE SeenEnded'
  BY <1>23 DEF Refresh, GoTo, There
<1>24. ASSUME NEW c \in Calls, Excuse(c) PROVE SeenEnded'
  BY <1>24 DEF Excuse, GoTo, Returns
<1>25. ASSUME NEW c \in Calls, Claim(c) PROVE SeenEnded'
  BY <1>25 DEF Claim, GoTo
<1>26. ASSUME NEW c \in Calls, Join(c) PROVE SeenEnded'
  BY <1>26 DEF Join, GoTo, Returns
<1>27. ASSUME NEW c \in Calls, RunCleansUp(c) PROVE SeenEnded'
  BY <1>27 DEF RunCleansUp, CleanUp, Take, There, GoTo
<1>28. CASE UNCHANGED vars
  BY <1>28 DEF vars
<1>29. QED
  BY <1>1, <1>2, <1>3, <1>4, <1>5, <1>6, <1>7, <1>8, <1>9, <1>10, <1>11, <1>12, <1>13, <1>14,
     <1>15, <1>16, <1>17, <1>18, <1>19, <1>20, <1>21, <1>22, <1>23, <1>24, <1>25, <1>26, <1>27,
     <1>28 DEF Next, StartStep, FinishStep, WaitStep

\* One goroutine reads the outcome, of a recorded end, and it stays.
LEMMA ReadOnceKept ==
    ASSUME RunningInv, [Next]_vars
    PROVE  ReadOnce'
<1> USE DEF RunningInv, ReadOnce, EndWasRecorded, OneOutcome, SeenEnded, Ended, Started,
     TypeOK, Nothing, optionVars, startVars, endVars, signalVars, callVars,
       finishVars, takenVars
<1>1. CASE CommandEnds
  <2>1. ~exited /\ outcome = Nothing
    BY <1>1 DEF CommandEnds
  <2>2. UNCHANGED <<pc, answer, got, finishVars>>
    BY <1>1 DEF CommandEnds
  <2>3. QED
    BY <2>1, <2>2
<1>2. CASE Reap
  BY <1>2 DEF Reap
<1>3. CASE SignalDeath
  BY <1>3 DEF SignalDeath
<1>4. CASE WindowGoes
  BY <1>4 DEF WindowGoes, Take, There
<1>5. CASE StartFails
  BY <1>5 DEF StartFails
<1>6. CASE NewWindow
  BY <1>6 DEF NewWindow
<1>7. CASE SetRemainOnExit
  BY <1>7 DEF SetRemainOnExit, There
<1>8. CASE InstallPipe
  BY <1>8 DEF InstallPipe, There
<1>9. CASE SetHook
  BY <1>9 DEF SetHook, There
<1>10. CASE Respawn
  BY <1>10 DEF Respawn, There
<1>11. CASE UndoStart
  BY <1>11 DEF UndoStart, CleanUp, Take, There
<1>12. CASE FinishRefresh
  <2>1. exited /\ \A c \in Calls : answer[c] # "outcome"
    BY <1>12 DEF FinishRefresh
  <2>2. outcome'[1] # "none" => pane = "reaped" /\ outcome'[1] = how
    BY <1>12, <2>1 DEF FinishRefresh, There
  <2>3. finishing' \in {"capture", "cleanup"} /\ UNCHANGED <<how, pc, answer, got, exited>>
    BY <1>12 DEF FinishRefresh
  <2>4. QED
    BY <2>1, <2>2, <2>3
<1>13. CASE FinishCapture
  BY <1>13 DEF FinishCapture, There
<1>14. CASE FinishCleanup
  BY <1>14 DEF FinishCleanup, CleanUp, Take, There
<1>15. CASE FinishStore
  BY <1>15 DEF FinishStore
<1>16. ASSUME NEW c \in Calls, BeginWait(c) PROVE ReadOnce'
  BY <1>16 DEF BeginWait, GoTo
<1>17. ASSUME NEW c \in Calls, Park(c) PROVE ReadOnce'
  BY <1>17 DEF Park
<1>18. ASSUME NEW c \in Calls, ClientFails(c) PROVE ReadOnce'
  BY <1>18 DEF ClientFails
<1>19. ASSUME NEW c \in Calls, CancelContext(c) PROVE ReadOnce'
  BY <1>19 DEF CancelContext
<1>20. ASSUME NEW c \in Calls, Selects(c) PROVE ReadOnce'
  BY <1>20, LeaveFrame
<1>21. ASSUME NEW c \in Calls, TimerFires(c) PROVE ReadOnce'
  BY <1>21 DEF TimerFires, GoTo
<1>22. ASSUME NEW c \in Calls, RefreshFails(c) PROVE ReadOnce'
  BY <1>22, LeaveFrame
<1>23. ASSUME NEW c \in Calls, Refresh(c) PROVE ReadOnce'
  BY <1>23 DEF Refresh, GoTo, There
<1>24. ASSUME NEW c \in Calls, Excuse(c) PROVE ReadOnce'
  <2>1. answer'[c] = "outcome" => answer[c] = "outcome"
    <3>1. err[c] # "outcome"
      BY DEF Failures
    <3>2. QED
      BY <1>24, <3>1 DEF Excuse
  <2>2. pc'[c] = "join" => exited
    BY <1>24 DEF Excuse, Returns, GoTo
  <2>3. /\ \A d \in Calls \ {c} : pc'[d] = pc[d] /\ answer'[d] = answer[d]
        /\ UNCHANGED <<how, got, finishVars>>
    BY <1>24 DEF Excuse, Returns, GoTo
  <2>4. QED
    BY <2>1, <2>2, <2>3
<1>25. ASSUME NEW c \in Calls, Claim(c) PROVE ReadOnce'
  BY <1>25 DEF Claim, GoTo
<1>26. ASSUME NEW c \in Calls, Join(c) PROVE ReadOnce'
  BY <1>26 DEF Join, GoTo, Returns
<1>27. ASSUME NEW c \in Calls, RunCleansUp(c) PROVE ReadOnce'
  BY <1>27 DEF RunCleansUp, CleanUp, Take, There, GoTo
<1>28. CASE UNCHANGED vars
  BY <1>28 DEF vars
<1>29. QED
  BY <1>1, <1>2, <1>3, <1>4, <1>5, <1>6, <1>7, <1>8, <1>9, <1>10, <1>11, <1>12, <1>13, <1>14,
     <1>15, <1>16, <1>17, <1>18, <1>19, <1>20, <1>21, <1>22, <1>23, <1>24, <1>25, <1>26, <1>27,
     <1>28 DEF Next, StartStep, FinishStep, WaitStep

\* A call finds its pane gone only by other hands or after the claim.
LEMMA TakenKept ==
    ASSUME RunningInv, [Next]_vars
    PROVE  Taken'
<1> USE DEF RunningInv, Taken, NobodyIsBlamed, Started, ReadOnce, TypeOK, optionVars,
     startVars, endVars, signalVars, callVars,
       finishVars, takenVars
<1>1. CASE CommandEnds
  BY <1>1 DEF CommandEnds, Take, There
<1>2. CASE Reap
  BY <1>2 DEF Reap
<1>3. CASE SignalDeath
  BY <1>3 DEF SignalDeath
<1>4. CASE WindowGoes
  BY <1>4 DEF WindowGoes, Take, There
<1>5. CASE StartFails
  BY <1>5 DEF StartFails
<1>6. CASE NewWindow
  BY <1>6 DEF NewWindow
<1>7. CASE SetRemainOnExit
  BY <1>7 DEF SetRemainOnExit, There
<1>8. CASE InstallPipe
  BY <1>8 DEF InstallPipe, There
<1>9. CASE SetHook
  BY <1>9 DEF SetHook, There
<1>10. CASE Respawn
  BY <1>10 DEF Respawn, There
<1>11. CASE UndoStart
  BY <1>11 DEF UndoStart, CleanUp, Take, There
<1>12. CASE FinishRefresh
  BY <1>12 DEF FinishRefresh, There
<1>13. CASE FinishCapture
  BY <1>13 DEF FinishCapture, There
<1>14. CASE FinishCleanup
  BY <1>14 DEF FinishCleanup, CleanUp, Take, There
<1>15. CASE FinishStore
  BY <1>15 DEF FinishStore
<1>16. ASSUME NEW c \in Calls, BeginWait(c) PROVE Taken'
  BY <1>16 DEF BeginWait, GoTo
<1>17. ASSUME NEW c \in Calls, Park(c) PROVE Taken'
  BY <1>17 DEF Park
<1>18. ASSUME NEW c \in Calls, ClientFails(c) PROVE Taken'
  BY <1>18 DEF ClientFails
<1>19. ASSUME NEW c \in Calls, CancelContext(c) PROVE Taken'
  BY <1>19 DEF CancelContext
<1>20. ASSUME NEW c \in Calls, Selects(c) PROVE Taken'
  <2>1. err'[c] # "gone"
    BY <1>20 DEF Selects, Leave
  <2>2. QED
    BY <1>20, <2>1, LeaveFrame
<1>21. ASSUME NEW c \in Calls, TimerFires(c) PROVE Taken'
  BY <1>21 DEF TimerFires, GoTo
<1>22. ASSUME NEW c \in Calls, RefreshFails(c) PROVE Taken'
  <2>1. stage = "started" /\ pane # "none" /\ runner \in {c, Nobody}
    BY <1>22 DEF RefreshFails
  <2>2. takenBy # "run" /\ takenBy # "start"
    BY <1>22, <2>1, RunningAssumption DEF RefreshFails
  <2>3. pane = "gone" => takenBy = "user" \/ exited
    BY <2>2
  <2>4. takenBy' = takenBy
    BY <1>22, LeaveFrame DEF takenVars
  <2>5. \A d \in Calls : err'[d] = "gone" => takenBy = "user" \/ exited
    <3>1. err'[c] = "gone" => takenBy = "user" \/ exited
      BY <1>22, <2>1, <2>3, LeaveFrame
    <3>2. \A d \in Calls \ {c} : err'[d] = err[d]
      BY <1>22, LeaveFrame
    <3>3. QED
      BY <3>1, <3>2
  <2>6. \A d \in Calls : runner = d /\ pc[d] = "done" => pc'[d] = "done"
    BY <1>22, LeaveFrame
  <2>7. UNCHANGED <<pane, stage, exited, answer, runner>>
    BY <1>22, LeaveFrame DEF optionVars, startVars, finishVars
  <2>8. QED
    BY <2>2, <2>4, <2>5, <2>6, <2>7
<1>23. ASSUME NEW c \in Calls, Refresh(c) PROVE Taken'
  BY <1>23 DEF Refresh, GoTo, There
<1>24. ASSUME NEW c \in Calls, Excuse(c) PROVE Taken'
  BY <1>24 DEF Excuse, GoTo, Returns
<1>25. ASSUME NEW c \in Calls, Claim(c) PROVE Taken'
  BY <1>25 DEF Claim, GoTo
<1>26. ASSUME NEW c \in Calls, Join(c) PROVE Taken'
  BY <1>26 DEF Join, GoTo, Returns
<1>27. ASSUME NEW c \in Calls, RunCleansUp(c) PROVE Taken'
  <2>1. stage = "started" /\ pane # "none" /\ (c = runner => pc'[c] = "done")
    BY <1>27 DEF RunCleansUp, GoTo
  <2>2. takenBy' = (IF pane # "gone" /\ pane' = "gone" THEN "run" ELSE takenBy)
    BY <1>27, <2>1 DEF RunCleansUp, CleanUp, Take, There
  <2>3. pane' \in {pane, "gone"}
    BY <1>27 DEF RunCleansUp, CleanUp, Take
  <2>4. UNCHANGED <<stage, exited, err, answer, runner>>
    BY <1>27 DEF RunCleansUp
  <2>5. takenBy' = "run" => \E d \in Calls : runner = d /\ pc'[d] = "done"
    BY <1>27, <2>1, <2>2 DEF RunCleansUp, GoTo
  <2>6. (pane' = "gone") = (takenBy' # "nobody")
    BY <2>2, <2>3
  <2>7. takenBy = "user" => takenBy' = "user"
    BY <2>2
  <2>8. QED
    BY <2>1, <2>2, <2>4, <2>5, <2>6, <2>7
<1>28. CASE UNCHANGED vars
  BY <1>28 DEF vars
<1>29. QED
  BY <1>1, <1>2, <1>3, <1>4, <1>5, <1>6, <1>7, <1>8, <1>9, <1>10, <1>11, <1>12, <1>13, <1>14,
     <1>15, <1>16, <1>17, <1>18, <1>19, <1>20, <1>21, <1>22, <1>23, <1>24, <1>25, <1>26, <1>27,
     <1>28 DEF Next, StartStep, FinishStep, WaitStep

\* What was cleaned up stays so.
LEMMA SettledKept ==
    ASSUME RunningInv, [Next]_vars
    PROVE  Settled'
<1> USE DEF RunningInv, Settled, There, Started, ReadOnce, TypeOK, optionVars, startVars,
     endVars, signalVars, callVars,
       finishVars, takenVars
<1>1. CASE CommandEnds
  BY <1>1 DEF CommandEnds, Take, There
<1>2. CASE Reap
  BY <1>2 DEF Reap
<1>3. CASE SignalDeath
  BY <1>3 DEF SignalDeath
<1>4. CASE WindowGoes
  BY <1>4 DEF WindowGoes, Take, There
<1>5. CASE StartFails
  BY <1>5 DEF StartFails
<1>6. CASE NewWindow
  BY <1>6 DEF NewWindow
<1>7. CASE SetRemainOnExit
  BY <1>7 DEF SetRemainOnExit, There
<1>8. CASE InstallPipe
  BY <1>8 DEF InstallPipe, There
<1>9. CASE SetHook
  BY <1>9 DEF SetHook, There
<1>10. CASE Respawn
  BY <1>10 DEF Respawn, There
<1>11. CASE UndoStart
  BY <1>11 DEF UndoStart, CleanUp, Take, There
<1>12. CASE FinishRefresh
  BY <1>12 DEF FinishRefresh, There
<1>13. CASE FinishCapture
  BY <1>13 DEF FinishCapture, There
<1>14. CASE FinishCleanup
  BY <1>14 DEF FinishCleanup, CleanUp, Take, There
<1>15. CASE FinishStore
  BY <1>15 DEF FinishStore
<1>16. ASSUME NEW c \in Calls, BeginWait(c) PROVE Settled'
  BY <1>16 DEF BeginWait, GoTo
<1>17. ASSUME NEW c \in Calls, Park(c) PROVE Settled'
  BY <1>17 DEF Park
<1>18. ASSUME NEW c \in Calls, ClientFails(c) PROVE Settled'
  BY <1>18 DEF ClientFails
<1>19. ASSUME NEW c \in Calls, CancelContext(c) PROVE Settled'
  BY <1>19 DEF CancelContext
<1>20. ASSUME NEW c \in Calls, Selects(c) PROVE Settled'
  BY <1>20 DEF Selects, Leave, GoTo
<1>21. ASSUME NEW c \in Calls, TimerFires(c) PROVE Settled'
  BY <1>21 DEF TimerFires, GoTo
<1>22. ASSUME NEW c \in Calls, RefreshFails(c) PROVE Settled'
  BY <1>22 DEF RefreshFails, Leave, GoTo, There
<1>23. ASSUME NEW c \in Calls, Refresh(c) PROVE Settled'
  BY <1>23 DEF Refresh, GoTo, There
<1>24. ASSUME NEW c \in Calls, Excuse(c) PROVE Settled'
  BY <1>24 DEF Excuse, GoTo, Returns
<1>25. ASSUME NEW c \in Calls, Claim(c) PROVE Settled'
  BY <1>25 DEF Claim, GoTo
<1>26. ASSUME NEW c \in Calls, Join(c) PROVE Settled'
  BY <1>26 DEF Join, GoTo, Returns
<1>27. ASSUME NEW c \in Calls, RunCleansUp(c) PROVE Settled'
  BY <1>27 DEF RunCleansUp, CleanUp, Take, There, GoTo
<1>28. CASE UNCHANGED vars
  BY <1>28 DEF vars
<1>29. QED
  BY <1>1, <1>2, <1>3, <1>4, <1>5, <1>6, <1>7, <1>8, <1>9, <1>10, <1>11, <1>12, <1>13, <1>14,
     <1>15, <1>16, <1>17, <1>18, <1>19, <1>20, <1>21, <1>22, <1>23, <1>24, <1>25, <1>26, <1>27,
     <1>28 DEF Next, StartStep, FinishStep, WaitStep

\* And nobody is left who would still have to.
LEMMA WindowsSettledKept ==
    ASSUME RunningInv, [Next]_vars
    PROVE  WindowsSettled'
<1> USE DEF RunningInv, WindowsSettled, Settled, There, Started, ReadOnce, OneOutcome, TypeOK,
     optionVars, startVars, endVars, signalVars, callVars,
       finishVars, takenVars
<1>1. CASE CommandEnds
  BY <1>1 DEF CommandEnds, Take, There
<1>2. CASE Reap
  BY <1>2 DEF Reap
<1>3. CASE SignalDeath
  BY <1>3 DEF SignalDeath
<1>4. CASE WindowGoes
  BY <1>4 DEF WindowGoes, Take, There
<1>5. CASE StartFails
  BY <1>5 DEF StartFails
<1>6. CASE NewWindow
  BY <1>6 DEF NewWindow
<1>7. CASE SetRemainOnExit
  BY <1>7 DEF SetRemainOnExit, There
<1>8. CASE InstallPipe
  BY <1>8 DEF InstallPipe, There
<1>9. CASE SetHook
  BY <1>9 DEF SetHook, There
<1>10. CASE Respawn
  BY <1>10 DEF Respawn, There
<1>11. CASE UndoStart
  BY <1>11 DEF UndoStart, CleanUp, Take, There
<1>12. CASE FinishRefresh
  BY <1>12 DEF FinishRefresh, There
<1>13. CASE FinishCapture
  BY <1>13 DEF FinishCapture, There
<1>14. CASE FinishCleanup
  BY <1>14 DEF FinishCleanup, CleanUp, Take, There
<1>15. CASE FinishStore
  BY <1>15 DEF FinishStore
<1>16. ASSUME NEW c \in Calls, BeginWait(c) PROVE WindowsSettled'
  BY <1>16 DEF BeginWait, GoTo
<1>17. ASSUME NEW c \in Calls, Park(c) PROVE WindowsSettled'
  BY <1>17 DEF Park
<1>18. ASSUME NEW c \in Calls, ClientFails(c) PROVE WindowsSettled'
  BY <1>18 DEF ClientFails
<1>19. ASSUME NEW c \in Calls, CancelContext(c) PROVE WindowsSettled'
  BY <1>19 DEF CancelContext
<1>20. ASSUME NEW c \in Calls, Selects(c) PROVE WindowsSettled'
  BY <1>20, LeaveFrame
<1>21. ASSUME NEW c \in Calls, TimerFires(c) PROVE WindowsSettled'
  BY <1>21 DEF TimerFires, GoTo
<1>22. ASSUME NEW c \in Calls, RefreshFails(c) PROVE WindowsSettled'
  BY <1>22, LeaveFrame
<1>23. ASSUME NEW c \in Calls, Refresh(c) PROVE WindowsSettled'
  BY <1>23 DEF Refresh, GoTo, There
<1>24. ASSUME NEW c \in Calls, Excuse(c) PROVE WindowsSettled'
  BY <1>24 DEF Excuse, GoTo, Returns
<1>25. ASSUME NEW c \in Calls, Claim(c) PROVE WindowsSettled'
  BY <1>25 DEF Claim, GoTo
<1>26. ASSUME NEW c \in Calls, Join(c) PROVE WindowsSettled'
  BY <1>26 DEF Join, GoTo, Returns
<1>27. ASSUME NEW c \in Calls, RunCleansUp(c) PROVE WindowsSettled'
  BY <1>27 DEF RunCleansUp, CleanUp, Take, There, GoTo
<1>28. CASE UNCHANGED vars
  BY <1>28 DEF vars
<1>29. QED
  BY <1>1, <1>2, <1>3, <1>4, <1>5, <1>6, <1>7, <1>8, <1>9, <1>10, <1>11, <1>12, <1>13, <1>14,
     <1>15, <1>16, <1>17, <1>18, <1>19, <1>20, <1>21, <1>22, <1>23, <1>24, <1>25, <1>26, <1>27,
     <1>28 DEF Next, StartStep, FinishStep, WaitStep

\* The end of a command is read once and truly and told to every Wait, and no
\* window is left behind (Running, Session.Run and Session.Start).
THEOREM RunningCorrect == Spec => []RunningOK
<1>1. Init => RunningInv
  <2> SUFFICES ASSUME Init PROVE RunningInv
    OBVIOUS
  <2>1. TypeOK
    <3>1. Nothing \in Outcomes /\ 0 \in 0..SettleLimit
      BY RunningAssumption DEF Nothing, Outcomes
    <3>2. QED
      BY <3>1 DEF Init, TypeOK, Failures, Places, Pipes
  <2>2. Started /\ SeenEnded
    BY DEF Init, Started, SeenEnded, Ended
  <2>3. ReadOnce
    BY DEF Init, ReadOnce, EndWasRecorded, OneOutcome, Nothing
  <2>4. Taken
    BY DEF Init, Taken, NobodyIsBlamed
  <2>5. Settled /\ WindowsSettled
    BY DEF Init, Settled, WindowsSettled, There
  <2>6. QED
    BY <2>1, <2>2, <2>3, <2>4, <2>5 DEF RunningInv
<1>2. RunningInv /\ [Next]_vars => RunningInv'
  <2> SUFFICES ASSUME RunningInv, [Next]_vars PROVE RunningInv'
    OBVIOUS
  <2>1. TypeOK'
    BY TypesKept DEF RunningInv
  <2>2. QED
    BY <2>1, StartedKept, SeenEndedKept, ReadOnceKept, TakenKept, SettledKept, WindowsSettledKept
       DEF RunningInv
<1>3. RunningInv => RunningOK
  BY DEF RunningInv, RunningOK, Started, ReadOnce, Taken, Armed
<1>4. QED
  BY <1>1, <1>2, <1>3, PTL DEF Spec
===============================================================================
