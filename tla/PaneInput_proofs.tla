--------------------------- MODULE PaneInput_proofs ----------------------------
(***************************************************************************)
(* The coordinator keeps its books for any number of calls and panes.  It   *)
(* is not inductive: a run that is handed to its reaper takes the detached  *)
(* place of its panes, so nobody may have it.  That nobody has is what      *)
(* acquire looked at, and it stays so while the run holds its panes.        *)
(***************************************************************************)
EXTENDS PaneInput, TLAPS

\* Only runs are awaited and reaped, and a run that holds its panes is the only
\* one there.
OneRun ==
    \A c \in Calls :
        /\ pc[c] \in {"awaiting", "reaping"} => IsRun(c)
        /\ IsRun(c) /\ Holding(c) => \A p \in panes[c] : detached[p] = Nobody

PaneInv == TypeOK /\ ReservationsExact /\ OneRun

Places == {"idle", "checked", "reserved", "ready", "sending", "awaiting", "reaping", "done"}

------------------------------------------------------------------------------
(* Lines and records are sequences of calls.                               *)

LEMMA UpfrontType ==
    ASSUME NEW c \in Calls, NEW l \in Seq(Calls)
    PROVE  Upfront(c, l) \in Seq(Calls)
<1>1. Append(l, c) \in Seq(Calls) /\ Erased(l) \in Seq(Calls)
  BY DEF Erased
<1> QED
  BY <1>1 DEF Upfront

LEMMA TakenType ==
    ASSUME NEW c \in Calls, NEW l \in Seq(Calls)
    PROVE  Taken(c, l) \in Seq(Calls)
<1>1. /\ Append(l, c) \in Seq(Calls) /\ Erased(l) \in Seq(Calls)
      /\ <<c>> \in Seq(Calls) /\ <<>> \in Seq(Calls)
  BY DEF Erased
<1> QED
  BY <1>1 DEF Taken

LEMMA SubmittedType ==
    ASSUME NEW c \in Calls, NEW l \in Seq(Calls)
    PROVE  Submitted(c, l) \in Seq(Calls)
<1>1. <<c>> \in Seq(Calls) /\ <<>> \in Seq(Calls)
  OBVIOUS
<1> QED
  BY <1>1 DEF Submitted

LEMMA RecordedType ==
    ASSUME TypeOK, NEW c \in Calls,
           \/ Recorded(c, LAMBDA l : Upfront(c, l))
           \/ Recorded(c, LAMBDA l : Submitted(c, l))
           \/ Recorded(c, Empty)
    PROVE  pending' \in [Panes -> Seq(Calls)]
<1>1. pending \in [Panes -> Seq(Calls)] /\ <<>> \in Seq(Calls)
  BY DEF TypeOK
<1> QED
  BY <1>1, UpfrontType, SubmittedType DEF Recorded, Empty

LEMMA RestoredType ==
    ASSUME TypeOK, NEW c \in Calls, Restored(c)
    PROVE  pending' \in [Panes -> Seq(Calls)]
<1>1. pending \in [Panes -> Seq(Calls)] /\ \A p \in Panes : was[c][p] \in Seq(Calls)
  BY DEF TypeOK
<1>2. \/ pending' = pending
      \/ pending' = [p \in Panes |-> IF p \in panes[c] THEN was[c][p] ELSE pending[p]]
  BY DEF Restored
<1> QED
  BY <1>1, <1>2

------------------------------------------------------------------------------
(* Type correctness.                                                       *)

LEMMA LeaseType ==
    ASSUME TypeOK, NEW c \in Calls, Done(c) \/ Reaped(c)
    PROVE  /\ active' \in [Panes -> Calls \cup {Nobody}] /\ detached' \in [Panes -> Calls \cup {Nobody}]
           /\ pc' \in [Calls -> Places]
  BY DEF TypeOK, Done, Released, Reaped, GoTo, Places

LEMMA CallType ==
    ASSUME TypeOK, NEW c \in Calls, CallStep(c)
    PROVE  TypeOK'
<1>1. CASE Preflight(c)
  <2>1. PICK reached \in Groups :
           /\ panes' = [panes EXCEPT ![c] = reached]
           /\ pc' = [pc EXCEPT ![c] = IF IsRun(c) /\ ~Alone(reached) THEN "done" ELSE "checked"]
    BY <1>1 DEF Preflight, GoTo
  <2>2. reached \in SUBSET Panes
    BY PaneAssumption
  <2> QED
    BY <1>1, <2>1, <2>2 DEF Preflight, TypeOK, coordinator, tmuxVars
<1>2. CASE Acquire(c)
  BY <1>2 DEF Acquire, GoTo, TypeOK, callVars, tmuxVars
<1>3. CASE Recheck(c)
  BY <1>3 DEF Recheck, GoTo, TypeOK, coordinator, tmuxVars
<1>4. CASE RefuseDispatch(c) \/ TakeStatus(c) \/ StopAwaiting(c) \/ Reap(c)
  <2>1. /\ Done(c) \/ Reaped(c)
        /\ UNCHANGED <<pending, callVars, sent, entering, tmuxVars, unsure>>
    BY <1>4 DEF RefuseDispatch, TakeStatus, StopAwaiting, Reap
  <2> QED
    BY <2>1, LeaseType DEF TypeOK, Places, callVars, tmuxVars
<1>5. CASE Send(c)
  <2>1. pending' \in [Panes -> Seq(Calls)]
    BY <1>5, RecordedType DEF Send
  <2> QED
    BY <1>5, <2>1 DEF Send, GoTo, TypeOK, coordinator, tmuxVars
<1>6. CASE InputSucceeds(c)
  <2>1. pending' \in [Panes -> Seq(Calls)]
    BY <1>6, RecordedType DEF InputSucceeds
  <2>2. Done(c) /\ UNCHANGED <<callVars, sent, entering, tmuxVars, unsure>>
    BY <1>6 DEF InputSucceeds
  <2> QED
    BY <2>1, <2>2, LeaseType DEF TypeOK, Places, callVars, tmuxVars
<1>7. CASE SendEnter(c)
  BY <1>7 DEF SendEnter, TypeOK, coordinator, callVars, tmuxVars
<1>8. CASE EnterSucceeds(c)
  <2>1. pending' \in [Panes -> Seq(Calls)]
    BY <1>8, RecordedType DEF EnterSucceeds
  <2>2. Done(c) /\ UNCHANGED <<callVars, sent, entering, tmuxVars, unsure>>
    BY <1>8 DEF EnterSucceeds
  <2> QED
    BY <2>1, <2>2, LeaseType DEF TypeOK, Places, callVars, tmuxVars
<1>9. CASE DispatchFails(c)
  <2>1. pending' \in [Panes -> Seq(Calls)]
    BY <1>9, RestoredType DEF DispatchFails
  <2>2. /\ Done(c) /\ sent' = [sent EXCEPT ![c] = "lost"]
        /\ UNCHANGED <<callVars, entering, tmuxVars, unsure>>
    BY <1>9 DEF DispatchFails
  <2> QED
    BY <2>1, <2>2, LeaseType DEF TypeOK, Places, callVars, tmuxVars
<1>10. CASE InputUnknown(c)
  <2>1. pending' \in [Panes -> Seq(Calls)]
    BY <1>10, RestoredType DEF InputUnknown
  <2>2. Done(c) /\ Unsure(c) /\ UNCHANGED <<callVars, sent, entering, tmuxVars>>
    BY <1>10 DEF InputUnknown
  <2>3. unsure' \in [Panes -> BOOLEAN]
    BY <2>2 DEF TypeOK, Unsure
  <2> QED
    BY <2>1, <2>2, <2>3, LeaseType DEF TypeOK, Places, callVars, tmuxVars
<1>11. CASE RunSucceeds(c)
  <2>1. pending' \in [Panes -> Seq(Calls)]
    BY <1>11, RecordedType DEF RunSucceeds
  <2> QED
    BY <1>11, <2>1 DEF RunSucceeds, GoTo, TypeOK, coordinator, callVars, tmuxVars
<1>12. CASE RunUnknown(c)
  <2>1. pending' \in [Panes -> Seq(Calls)]
    BY <1>12, RecordedType DEF RunUnknown
  <2>2. Reaped(c) /\ Unsure(c) /\ UNCHANGED <<callVars, sent, entering, tmuxVars>>
    BY <1>12 DEF RunUnknown
  <2>3. unsure' \in [Panes -> BOOLEAN]
    BY <2>2 DEF TypeOK, Unsure
  <2> QED
    BY <2>1, <2>2, <2>3, LeaseType DEF TypeOK, Places, callVars, tmuxVars
<1> QED
  BY <1>1, <1>2, <1>3, <1>4, <1>5, <1>6, <1>7, <1>8, <1>9, <1>10, <1>11, <1>12
     DEF CallStep, PollStep

LEMMA PaneType ==
    ASSUME TypeOK, (\E c \in Calls : PaneStep(c)) \/ (\E p \in Panes : Respawn(p))
    PROVE  TypeOK'
<1>1. ASSUME NEW c \in Calls, TmuxTakes(c) PROVE TypeOK'
  <2>1. line' = [p \in Panes |-> IF p \in panes[c] THEN Taken(c, line[p]) ELSE line[p]]
    BY <1>1 DEF TmuxTakes
  <2>2. line' \in [Panes -> Seq(Calls)]
    BY <2>1, TakenType DEF TypeOK
  <2>3. run' \in [Calls -> {"no", "typed", "running", "recorded", "killed", "lost"}]
    BY <1>1 DEF TmuxTakes, TypeOK
  <2> QED
    BY <1>1, <2>2, <2>3 DEF TmuxTakes, TypeOK, coordinator, callVars
<1>2. ASSUME NEW c \in Calls, TmuxLoses(c) PROVE TypeOK'
  BY <1>2 DEF TmuxLoses, TypeOK, coordinator, callVars
<1>3. ASSUME NEW c \in Calls, ShellStarts(c) PROVE TypeOK'
  BY <1>3 DEF ShellStarts, TypeOK, coordinator, callVars
<1>4. ASSUME NEW c \in Calls, ShellEnds(c) PROVE TypeOK'
  BY <1>4 DEF ShellEnds, TypeOK, coordinator, callVars
<1>5. ASSUME NEW p \in Panes, Respawn(p) PROVE TypeOK'
  BY <1>5 DEF Respawn, TypeOK, coordinator, callVars
<1> QED
  BY <1>1, <1>2, <1>3, <1>4, <1>5 DEF PaneStep

LEMMA TypeStep == TypeOK /\ [Next]_vars => TypeOK'
<1>1. TypeOK /\ UNCHANGED vars => TypeOK'
  BY DEF TypeOK, vars, coordinator, callVars, tmuxVars
<1> QED
  BY <1>1, CallType, PaneType DEF Next

------------------------------------------------------------------------------
(* The reservations.                                                       *)

\* What a call's step does to the coordinator.
LEMMA LeaseSteps ==
    ASSUME TypeOK, OneRun, NEW c \in Calls, CallStep(c)
    PROVE  /\ kind' = kind
           /\ \/ /\ pc[c] = "idle" /\ pc'[c] \in {"checked", "done"} /\ UNCHANGED coordinator
                 /\ \A d \in Calls \ {c} : panes'[d] = panes[d]
              \/ /\ panes' = panes
                 /\ \/ /\ pc[c] = "checked" /\ MayReserve(c) /\ pc'[c] = "reserved"
                       /\ active' = [p \in Panes |-> IF p \in panes[c] THEN c ELSE active[p]]
                       /\ detached' = detached
                    \/ pc[c] = "checked" /\ pc'[c] = "done" /\ UNCHANGED coordinator
                    \/ /\ Holding(c) /\ pc'[c] \in {"ready", "sending", "awaiting"}
                       /\ pc'[c] = "awaiting" => IsRun(c)
                       /\ UNCHANGED coordinator
                    \/ (Holding(c) \/ pc[c] = "reaping") /\ Done(c)
                    \/ Holding(c) /\ IsRun(c) /\ Reaped(c)
           /\ \A d \in Calls \ {c} : pc'[d] = pc[d]
<1> USE DEF GoTo
<1>0. pc \in [Calls -> Places] /\ panes \in [Calls -> SUBSET Panes]
  BY DEF TypeOK, Places
<1>1. CASE Preflight(c)
  BY <1>0, <1>1 DEF Preflight
<1>2. CASE Acquire(c)
  BY <1>0, <1>2 DEF Acquire, callVars, coordinator
<1>3. CASE Recheck(c) \/ Send(c) \/ SendEnter(c) \/ RunSucceeds(c)
  <2>1. /\ Holding(c) /\ pc'[c] \in {"ready", "sending", "awaiting"}
        /\ pc'[c] = "awaiting" => IsRun(c)
        /\ UNCHANGED coordinator /\ panes' = panes /\ kind' = kind
        /\ \A d \in Calls \ {c} : pc'[d] = pc[d]
    BY <1>0, <1>3 DEF Recheck, Send, SendEnter, RunSucceeds, Holding, callVars
  <2> QED
    BY <2>1
<1>4. CASE \/ RefuseDispatch(c) \/ InputSucceeds(c) \/ EnterSucceeds(c) \/ DispatchFails(c)
           \/ InputUnknown(c) \/ TakeStatus(c) \/ Reap(c)
  <2>1. /\ (Holding(c) \/ pc[c] = "reaping")
        /\ Done(c) /\ panes' = panes /\ kind' = kind
    BY <1>4 DEF RefuseDispatch, InputSucceeds, EnterSucceeds, DispatchFails, InputUnknown,
       TakeStatus, Reap, Holding, callVars
  <2> QED
    BY <1>0, <2>1 DEF Done
<1>5. CASE RunUnknown(c) \/ StopAwaiting(c)
  <2>1. Holding(c) /\ IsRun(c) /\ Reaped(c) /\ panes' = panes /\ kind' = kind
    BY <1>5 DEF RunUnknown, StopAwaiting, Holding, OneRun, callVars
  <2> QED
    BY <1>0, <2>1 DEF Reaped
<1> QED
  BY <1>1, <1>2, <1>3, <1>4, <1>5 DEF CallStep, PollStep

LEMMA LeaseStep ==
    ASSUME PaneInv, NEW c \in Calls, CallStep(c)
    PROVE  ReservationsExact' /\ OneRun'
<1> USE PaneAssumption DEF PaneInv
<1>1. /\ TypeOK /\ pc \in [Calls -> Places] /\ panes \in [Calls -> SUBSET Panes]
      /\ active \in [Panes -> Calls \cup {Nobody}] /\ detached \in [Panes -> Calls \cup {Nobody}]
  BY DEF TypeOK, Places
<1>2. \A d \in Calls : IsRun(d)' <=> IsRun(d)
  BY LeaseSteps DEF IsRun
<1>3. \A d \in Calls \ {c} : pc'[d] = pc[d]
  BY LeaseSteps
<1>4. CASE /\ pc[c] = "idle" /\ pc'[c] \in {"checked", "done"} /\ UNCHANGED coordinator
           /\ \A d \in Calls \ {c} : panes'[d] = panes[d]
  BY <1>1, <1>2, <1>3, <1>4 DEF ReservationsExact, OneRun, Holding, coordinator
<1>5. CASE /\ panes' = panes /\ pc[c] = "checked" /\ MayReserve(c) /\ pc'[c] = "reserved"
           /\ active' = [p \in Panes |-> IF p \in panes[c] THEN c ELSE active[p]]
           /\ detached' = detached
  <2>1. ReservationsExact'
    BY <1>1, <1>3, <1>5 DEF ReservationsExact, Holding, MayReserve
  <2>2. OneRun'
    BY <1>1, <1>2, <1>3, <1>5 DEF OneRun, Holding, MayReserve
  <2> QED
    BY <2>1, <2>2
<1>6. CASE panes' = panes /\ pc[c] = "checked" /\ pc'[c] = "done" /\ UNCHANGED coordinator
  BY <1>1, <1>2, <1>3, <1>6 DEF ReservationsExact, OneRun, Holding, coordinator
<1>7. CASE /\ panes' = panes /\ Holding(c) /\ pc'[c] \in {"ready", "sending", "awaiting"}
           /\ pc'[c] = "awaiting" => IsRun(c)
           /\ UNCHANGED coordinator
  BY <1>1, <1>2, <1>3, <1>7 DEF ReservationsExact, OneRun, Holding, coordinator
<1>8. CASE panes' = panes /\ (Holding(c) \/ pc[c] = "reaping") /\ Done(c)
  <2>1. /\ pc'[c] = "done"
        /\ active' = [p \in Panes |-> IF active[p] = c THEN Nobody ELSE active[p]]
        /\ detached' = [p \in Panes |-> IF detached[p] = c THEN Nobody ELSE detached[p]]
    BY <1>1, <1>8 DEF Done, Released, GoTo
  <2>2. ReservationsExact'
    BY <1>1, <1>3, <1>8, <2>1 DEF ReservationsExact, Holding
  <2>3. OneRun'
    BY <1>1, <1>2, <1>3, <1>8, <2>1 DEF OneRun, Holding
  <2> QED
    BY <2>2, <2>3
<1>9. CASE panes' = panes /\ Holding(c) /\ IsRun(c) /\ Reaped(c)
  <2>1. /\ pc'[c] = "reaping"
        /\ active' = [p \in Panes |-> IF active[p] = c THEN Nobody ELSE active[p]]
        /\ detached' = [p \in Panes |-> IF active[p] = c THEN c ELSE detached[p]]
    BY <1>1, <1>9 DEF Reaped, GoTo
  <2>2. \A p \in panes[c] : active[p] = c /\ detached[p] = Nobody
    BY <1>1, <1>9 DEF OneRun, ReservationsExact
  <2>3. ReservationsExact'
    BY <1>1, <1>3, <1>9, <2>1, <2>2 DEF ReservationsExact, Holding
  <2>4. OneRun'
    <3>1. \A d \in Calls \ {c} : \A p \in panes[d] : Holding(d) => active[p] = d
      BY <1>1 DEF ReservationsExact
    <3> QED
      BY <1>1, <1>2, <1>3, <1>9, <2>1, <3>1 DEF OneRun, Holding
  <2> QED
    BY <2>3, <2>4
<1> QED
  BY <1>4, <1>5, <1>6, <1>7, <1>8, <1>9, LeaseSteps

LEMMA InvStep == PaneInv /\ [Next]_vars => PaneInv'
<1> SUFFICES ASSUME PaneInv, [Next]_vars PROVE PaneInv'
  OBVIOUS
<1>1. TypeOK'
  BY TypeStep DEF PaneInv
<1>2. CASE UNCHANGED <<active, detached, pc, panes, kind>>
  BY <1>1, <1>2 DEF PaneInv, ReservationsExact, OneRun, Holding, IsRun
<1>3. ASSUME NEW c \in Calls, CallStep(c) PROVE PaneInv'
  BY <1>1, <1>3, LeaseStep DEF PaneInv
<1>4. ASSUME NEW c \in Calls, PaneStep(c) PROVE UNCHANGED <<active, detached, pc, panes, kind>>
  BY <1>4 DEF PaneStep, TmuxTakes, TmuxLoses, ShellStarts, ShellEnds, coordinator, callVars
<1>5. ASSUME NEW p \in Panes, Respawn(p) PROVE UNCHANGED <<active, detached, pc, panes, kind>>
  BY <1>5 DEF Respawn, coordinator, callVars
<1>6. CASE UNCHANGED vars
  BY <1>2, <1>6 DEF vars, coordinator, callVars
<1> QED
  BY <1>2, <1>3, <1>4, <1>5, <1>6 DEF Next

LEMMA InvInit == Init => PaneInv
<1> SUFFICES ASSUME Init PROVE PaneInv
  OBVIOUS
<1>1. TypeOK
  BY DEF Init, TypeOK
<1>2. ReservationsExact /\ OneRun
  BY PaneAssumption DEF Init, ReservationsExact, OneRun, Holding
<1> QED
  BY <1>1, <1>2 DEF PaneInv

\* acquire, detach and release keep each pane reserved for exactly the call at
\* work on it and held for exactly the run its reaper follows, whatever the
\* number of calls and panes, in whatever order runs end, time out and are reaped.
THEOREM PanesKeptApart == Spec => []PaneOK
<1>1. PaneInv => PaneOK
  BY DEF PaneInv, PaneOK
<1>2. Spec => []PaneInv
  BY InvInit, InvStep, PTL DEF Spec
<1> QED
  BY <1>1, <1>2, PTL

------------------------------------------------------------------------------
(* The record of what was typed.                                           *)

Sends(c, p) == pc[c] = "sending" /\ p \in panes[c]

\* Where the record and the line are while the keys of c are on their way.
Dispatching(c, p) ==
    /\ pending[p] = Upfront(c, was[c][p])
    /\ line[p] = IF sent[c] = "taken" THEN Taken(c, was[c][p])
                 ELSE IF entering[c] THEN Append(was[c][p], c) ELSE was[c][p]

RecordInv ==
    /\ \A p \in Panes : ~unsure[p] /\ (\A c \in Calls : ~Sends(c, p)) => pending[p] = line[p]
    /\ \A c \in Calls, p \in Panes : Sends(c, p) /\ ~unsure[p] => Dispatching(c, p)
    /\ \A c \in Calls : pc[c] = "sending" => sent[c] \in {"flying", "taken"}
    /\ \A c \in Calls : sent[c] = "flying" /\ pc[c] # "sending" => \A p \in panes[c] : unsure[p]
    /\ \A c \in Calls : pc[c] \in {"idle", "checked", "reserved", "ready"}
                          => sent[c] = "no" /\ ~entering[c]
    /\ \A c \in Calls : entering[c] => kind[c] = "enter"

\* Who sends to a pane has reserved it.
LEMMA SenderHolds ==
    ASSUME PaneInv
    PROVE  /\ \A c \in Calls, p \in Panes : Sends(c, p) => active[p] = c
           /\ \A c, d \in Calls, p \in Panes : Sends(c, p) /\ Sends(d, p) => c = d
  BY DEF PaneInv, ReservationsExact, Holding, Sends

\* A call that does not send keeps the record by keeping out of it.
LEMMA RecordIdle ==
    ASSUME PaneInv, RecordInv, NEW c \in Calls, pc[c] # "sending", pc'[c] # "sending",
           UNCHANGED <<pending, line, unsure, kind, was, sent, entering>>,
           \A d \in Calls \ {c} : pc'[d] = pc[d] /\ panes'[d] = panes[d],
           sent[c] = "flying" => panes'[c] = panes[c],
           pc'[c] \in {"idle", "checked", "reserved", "ready"} => sent[c] = "no" /\ ~entering[c]
    PROVE  RecordInv'
<1>1. \A d \in Calls, p \in Panes : Sends(d, p)' <=> Sends(d, p)
  BY DEF Sends
<1>2. \A d \in Calls, p \in Panes : Dispatching(d, p)' <=> Dispatching(d, p)
  BY DEF Dispatching, Upfront, Taken
<1> QED
  BY <1>1, <1>2 DEF RecordInv

\* A call that has sent leaves the record at the line, or unsure.
LEMMA RecordEnds ==
    ASSUME PaneInv, RecordInv, NEW c \in Calls, pc[c] = "sending",
           pc'[c] \in {"awaiting", "reaping", "done"},
           UNCHANGED <<line, kind, panes, was, entering>>,
           \A d \in Calls \ {c} : pc'[d] = pc[d] /\ sent'[d] = sent[d],
           \A p \in Panes \ panes[c] : pending'[p] = pending[p] /\ unsure'[p] = unsure[p],
           \A p \in Panes : unsure[p] => unsure'[p],
           \A p \in panes[c] : unsure'[p] \/ pending'[p] = line[p],
           sent'[c] = "flying" => \A p \in panes[c] : unsure'[p]
    PROVE  RecordInv'
<1>1. \A d \in Calls, p \in Panes : Sends(d, p)' <=> d # c /\ Sends(d, p)
  BY DEF Sends
<1>2. \A d \in Calls, p \in Panes : Sends(d, p)' => p \notin panes[c]
  BY <1>1, SenderHolds DEF Sends
<1>3. \A d \in Calls \ {c}, p \in Panes \ panes[c] : Dispatching(d, p) => Dispatching(d, p)'
  BY DEF Dispatching, Upfront, Taken
<1>4. ASSUME NEW p \in Panes, ~unsure'[p], \A d \in Calls : ~Sends(d, p)'
      PROVE  pending'[p] = line'[p]
  <2>1. CASE p \in panes[c]
    BY <1>4, <2>1
  <2>2. CASE p \notin panes[c]
    <3>1. \A d \in Calls : ~Sends(d, p)
      BY <1>1, <1>4, <2>2 DEF Sends
    <3> QED
      BY <1>4, <2>2, <3>1 DEF RecordInv
  <2> QED
    BY <2>1, <2>2
<1>5. \A d \in Calls, p \in Panes : Sends(d, p)' /\ ~unsure'[p] => Dispatching(d, p)'
  BY <1>1, <1>2, <1>3 DEF RecordInv
<1>6. \A d \in Calls : sent'[d] = "flying" /\ pc'[d] # "sending" => \A p \in panes'[d] : unsure'[p]
  BY DEF RecordInv, PaneInv, TypeOK
<1>7. /\ \A d \in Calls : pc'[d] = "sending" => sent'[d] \in {"flying", "taken"}
      /\ \A d \in Calls : pc'[d] \in {"idle", "checked", "reserved", "ready"}
                            => sent'[d] = "no" /\ ~entering'[d]
      /\ \A d \in Calls : entering'[d] => kind'[d] = "enter"
  BY DEF RecordInv
<1> QED
  BY <1>4, <1>5, <1>6, <1>7 DEF RecordInv

LEMMA RecordCall ==
    ASSUME PaneInv, RecordInv, NEW c \in Calls, CallStep(c)
    PROVE  RecordInv'
<1>1. /\ pc \in [Calls -> Places] /\ panes \in [Calls -> SUBSET Panes]
      /\ pending \in [Panes -> Seq(Calls)] /\ line \in [Panes -> Seq(Calls)]
      /\ sent \in [Calls -> {"no", "flying", "taken", "lost"}] /\ entering \in [Calls -> BOOLEAN]
      /\ was \in [Calls -> [Panes -> Seq(Calls)]] /\ unsure \in [Panes -> BOOLEAN]
  BY DEF PaneInv, TypeOK, Places
<1>2. CASE \/ Preflight(c) \/ Acquire(c) \/ Recheck(c) \/ RefuseDispatch(c)
           \/ TakeStatus(c) \/ StopAwaiting(c) \/ Reap(c)
  <2>1. /\ pc[c] # "sending" /\ pc'[c] # "sending"
        /\ UNCHANGED <<pending, line, unsure, kind, was, sent, entering>>
        /\ \A d \in Calls \ {c} : pc'[d] = pc[d] /\ panes'[d] = panes[d]
        /\ pc[c] # "idle" => panes'[c] = panes[c]
        /\ pc'[c] \in {"idle", "checked", "reserved", "ready"}
             => pc[c] \in {"idle", "checked", "reserved", "ready"}
    BY <1>1, <1>2 DEF Preflight, Acquire, Recheck, RefuseDispatch, TakeStatus, StopAwaiting, Reap,
       Done, Reaped, GoTo, callVars, tmuxVars
  <2> QED
    BY <2>1, RecordIdle DEF RecordInv
<1>3. CASE Send(c)
  <2>1. /\ pc[c] = "ready" /\ pc' = [pc EXCEPT ![c] = "sending"]
        /\ pending' = [p \in Panes |-> IF p \in panes[c] THEN Upfront(c, pending[p]) ELSE pending[p]]
        /\ was' = [was EXCEPT ![c] = pending] /\ sent' = [sent EXCEPT ![c] = "flying"]
        /\ UNCHANGED <<kind, panes, line, unsure, entering>>
    BY <1>3 DEF Send, Recorded, GoTo, tmuxVars
  <2>2. \A d \in Calls, p \in Panes : Sends(d, p)' <=> Sends(d, p) \/ (d = c /\ p \in panes[c])
    BY <1>1, <2>1 DEF Sends
  <2>3. \A d \in Calls, p \in Panes : p \in panes[c] => ~Sends(d, p)
    BY <2>1 DEF Sends, PaneInv, ReservationsExact, Holding
  <2>4. \A p \in panes[c] : ~unsure[p] => Dispatching(c, p)'
    <3> SUFFICES ASSUME NEW p \in panes[c], ~unsure[p] PROVE Dispatching(c, p)'
      OBVIOUS
    <3>1. p \in Panes /\ pending[p] = line[p]
      BY <1>1, <2>3 DEF RecordInv
    <3>2. was'[c][p] = pending[p] /\ sent'[c] = "flying" /\ ~entering'[c]
      BY <1>1, <2>1 DEF RecordInv
    <3> QED
      BY <2>1, <3>1, <3>2 DEF Dispatching, Upfront
  <2>5. \A d \in Calls \ {c}, p \in Panes \ panes[c] : Dispatching(d, p) => Dispatching(d, p)'
    BY <1>1, <2>1 DEF Dispatching, Upfront, Taken
  <2>6. \A p \in Panes : ~unsure'[p] /\ (\A d \in Calls : ~Sends(d, p)') => pending'[p] = line'[p]
    BY <1>1, <2>1, <2>2 DEF RecordInv
  <2>7. \A d \in Calls, p \in Panes : Sends(d, p)' /\ ~unsure'[p] => Dispatching(d, p)'
    <3> SUFFICES ASSUME NEW d \in Calls, NEW p \in Panes, Sends(d, p)', ~unsure[p]
                 PROVE  Dispatching(d, p)'
      BY <2>1
    <3>1. CASE p \in panes[c]
      BY <2>2, <2>3, <2>4, <3>1
    <3>2. CASE p \notin panes[c]
      BY <2>1, <2>2, <2>5, <3>2 DEF RecordInv, Sends
    <3> QED
      BY <3>1, <3>2
  <2>8. /\ \A d \in Calls : pc'[d] = "sending" => sent'[d] \in {"flying", "taken"}
        /\ \A d \in Calls : sent'[d] = "flying" /\ pc'[d] # "sending" => \A p \in panes'[d] : unsure'[p]
        /\ \A d \in Calls : pc'[d] \in {"idle", "checked", "reserved", "ready"}
                              => sent'[d] = "no" /\ ~entering'[d]
        /\ \A d \in Calls : entering'[d] => kind'[d] = "enter"
    BY <1>1, <2>1 DEF RecordInv
  <2> QED
    BY <2>6, <2>7, <2>8 DEF RecordInv
<1>4. CASE SendEnter(c)
  <2>1. /\ pc[c] = "sending" /\ sent[c] = "taken" /\ kind[c] = "enter" /\ ~entering[c]
        /\ entering' = [entering EXCEPT ![c] = TRUE] /\ sent' = [sent EXCEPT ![c] = "flying"]
        /\ UNCHANGED <<pc, kind, panes, was, pending, line, unsure>>
    BY <1>4 DEF SendEnter, callVars, tmuxVars
  <2>2. \A d \in Calls, p \in Panes : Sends(d, p)' <=> Sends(d, p)
    BY <2>1 DEF Sends
  <2>3. \A d \in Calls, p \in Panes : Dispatching(d, p) => Dispatching(d, p)'
    <3> SUFFICES ASSUME NEW d \in Calls, NEW p \in Panes, Dispatching(d, p)
                 PROVE  Dispatching(d, p)'
      OBVIOUS
    <3>1. CASE d = c
      BY <1>1, <2>1, <3>1 DEF Dispatching, Upfront, Taken
    <3>2. CASE d # c
      BY <1>1, <2>1, <3>2 DEF Dispatching, Upfront, Taken
    <3> QED
      BY <3>1, <3>2
  <2> QED
    BY <1>1, <2>1, <2>2, <2>3 DEF RecordInv
<1>5. CASE \/ InputSucceeds(c) \/ EnterSucceeds(c) \/ DispatchFails(c)
           \/ InputUnknown(c) \/ RunSucceeds(c) \/ RunUnknown(c)
  <2>1. /\ pc[c] = "sending" /\ pc'[c] \in {"awaiting", "reaping", "done"}
        /\ UNCHANGED <<line, kind, panes, was, entering>>
        /\ \A d \in Calls \ {c} : pc'[d] = pc[d] /\ sent'[d] = sent[d]
    BY <1>1, <1>5 DEF InputSucceeds, EnterSucceeds, DispatchFails, InputUnknown, RunSucceeds,
       RunUnknown, Done, Reaped, GoTo, callVars, tmuxVars
  <2>2. sent[c] \in {"flying", "taken"} /\ \A p \in panes[c] : p \in Panes /\ (~unsure[p] => Dispatching(c, p))
    BY <1>1, <2>1 DEF RecordInv, Sends
  <2>3. CASE InputUnknown(c) \/ RunUnknown(c)
    <3>1. /\ unsure' = [p \in Panes |-> unsure[p] \/ p \in panes[c]]
          /\ \A p \in Panes \ panes[c] : pending'[p] = pending[p]
      BY <1>1, <2>3 DEF InputUnknown, RunUnknown, Unsure, Restored, Recorded
    <3> QED
      BY <1>1, <2>1, <3>1, RecordEnds
  <2>4. CASE InputSucceeds(c) \/ EnterSucceeds(c) \/ RunSucceeds(c)
    <3>1. /\ sent[c] = "taken" /\ sent' = sent /\ unsure' = unsure
          /\ \A p \in Panes \ panes[c] : pending'[p] = pending[p]
      BY <1>1, <2>4 DEF InputSucceeds, EnterSucceeds, RunSucceeds, Recorded, tmuxVars
    <3>2. \A p \in panes[c] : ~unsure[p] => pending'[p] = line[p]
      <4> SUFFICES ASSUME NEW p \in panes[c], ~unsure[p] PROVE pending'[p] = line[p]
        OBVIOUS
      <4>1. /\ p \in Panes /\ pending[p] = Upfront(c, was[c][p]) /\ line[p] = Taken(c, was[c][p])
            /\ kind[c] \in Kinds
        BY <1>1, <2>2, <3>1, PaneAssumption DEF Dispatching, PaneInv, TypeOK
      <4>2. CASE InputSucceeds(c)
        <5>1. /\ pending'[p] = Submitted(c, pending[p]) /\ kind[c] # "enter" /\ ~IsRun(c)
              /\ ~entering[c]
          BY <1>1, <4>1, <4>2 DEF InputSucceeds, Recorded, RecordInv
        <5> QED
          BY <4>1, <5>1 DEF Upfront, Taken, Submitted, Typing, Kinds, IsRun
      <4>3. CASE EnterSucceeds(c) \/ RunSucceeds(c)
        <5>1. pending'[p] = <<>> /\ (entering[c] \/ IsRun(c))
          BY <1>1, <4>1, <4>3 DEF EnterSucceeds, RunSucceeds, Recorded, Empty
        <5>2. ASSUME entering[c] PROVE Taken(c, was[c][p]) = <<>>
          <6>1. kind[c] = "enter"
            BY <5>2 DEF RecordInv
          <6> QED
            BY ONLY <5>2, <6>1 DEF Taken
        <5>3. ASSUME kind[c] = "run", ~entering[c] PROVE Taken(c, was[c][p]) = <<>>
          BY <5>3 DEF Taken
        <5> QED
          BY <4>1, <5>1, <5>2, <5>3 DEF IsRun
      <4> QED
        BY <2>4, <4>2, <4>3
    <3> QED
      BY <1>1, <2>1, <3>1, <3>2, RecordEnds
  <2>5. CASE DispatchFails(c)
    <3>1. /\ sent[c] = "flying" /\ sent' = [sent EXCEPT ![c] = "lost"] /\ unsure' = unsure
          /\ \A p \in Panes \ panes[c] : pending'[p] = pending[p]
      BY <1>1, <2>5 DEF DispatchFails, Restored
    <3>2. \A p \in panes[c] : ~unsure[p] => pending'[p] = line[p]
      <4> SUFFICES ASSUME NEW p \in panes[c], ~unsure[p] PROVE pending'[p] = line[p]
        OBVIOUS
      <4>1. /\ p \in Panes /\ pending[p] = Upfront(c, was[c][p])
            /\ line[p] = IF entering[c] THEN Append(was[c][p], c) ELSE was[c][p]
        BY <1>1, <2>2, <3>1 DEF Dispatching
      <4>2. CASE entering[c]
        <5>1. pending' = pending /\ kind[c] = "enter"
          BY <2>5, <4>2 DEF DispatchFails, Restored, RecordInv
        <5> QED
          BY <4>1, <4>2, <5>1 DEF Upfront, Typing
      <4>3. CASE ~entering[c] /\ kind[c] \in Typing \cup {"erase"}
        BY <1>1, <2>5, <4>1, <4>3 DEF DispatchFails, Restored
      <4>4. CASE ~entering[c] /\ kind[c] \notin Typing \cup {"erase"}
        BY <2>5, <4>1, <4>4 DEF DispatchFails, Restored, Upfront
      <4> QED
        BY <4>2, <4>3, <4>4
    <3> QED
      BY <1>1, <2>1, <3>1, <3>2, RecordEnds
  <2> QED
    BY <1>5, <2>3, <2>4, <2>5
<1> QED
  BY <1>2, <1>3, <1>4, <1>5 DEF CallStep, PollStep

LEMMA RecordPane ==
    ASSUME PaneInv, RecordInv, (\E c \in Calls : PaneStep(c)) \/ (\E p \in Panes : Respawn(p))
    PROVE  RecordInv'
<1>1. /\ panes \in [Calls -> SUBSET Panes]
      /\ pending \in [Panes -> Seq(Calls)] /\ line \in [Panes -> Seq(Calls)]
      /\ sent \in [Calls -> {"no", "flying", "taken", "lost"}] /\ unsure \in [Panes -> BOOLEAN]
  BY DEF PaneInv, TypeOK
<1>2. ASSUME NEW c \in Calls, TmuxTakes(c) PROVE RecordInv'
  <2>1. /\ sent[c] = "flying" /\ sent' = [sent EXCEPT ![c] = "taken"]
        /\ line' = [p \in Panes |-> IF p \in panes[c] THEN Taken(c, line[p]) ELSE line[p]]
        /\ UNCHANGED <<pc, kind, panes, was, pending, entering, unsure>>
    BY <1>2 DEF TmuxTakes, callVars
  <2>2. \A d \in Calls, p \in Panes : Sends(d, p)' <=> Sends(d, p)
    BY <2>1 DEF Sends
  <2>3. \A p \in panes[c] : Sends(c, p) \/ unsure[p]
    BY <2>1 DEF RecordInv, Sends
  <2>4. ASSUME NEW d \in Calls, NEW p \in Panes, Sends(d, p), ~unsure[p]
        PROVE  Dispatching(d, p)'
    <3>1. Dispatching(d, p)
      BY <2>4 DEF RecordInv
    <3>2. CASE d = c
      <4>1. p \in panes[c] /\ line'[p] = Taken(c, line[p]) /\ sent'[c] = "taken"
        BY <1>1, <2>1, <2>4, <3>2 DEF Sends
      <4>2. /\ pending'[p] = pending[p] /\ Upfront(c, was[c][p])' = Upfront(c, was[c][p])
            /\ Taken(c, was[c][p])' = Taken(c, was[c][p])
        BY <2>1 DEF Upfront, Taken
      <4>3. ASSUME entering[c] PROVE \A l, k : Taken(c, l) = Taken(c, k)
        <5>1. kind[c] = "enter"
          BY <4>3 DEF RecordInv
        <5> QED
          BY ONLY <4>3, <5>1 DEF Taken
      <4>4. ASSUME ~entering[c] PROVE line[p] = was[c][p]
        BY <2>1, <3>1, <3>2, <4>4 DEF Dispatching
      <4>5. Taken(c, line[p]) = Taken(c, was[c][p])
        BY <4>3, <4>4
      <4> QED
        BY <3>1, <3>2, <4>1, <4>2, <4>5 DEF Dispatching
    <3>3. CASE d # c
      <4>1. p \notin panes[c]
        BY <2>3, <2>4, <3>3, SenderHolds
      <4> QED
        BY <1>1, <2>1, <3>1, <3>3, <4>1 DEF Dispatching, Upfront, Taken
    <3> QED
      BY <3>2, <3>3
  <2>5. \A p \in Panes : ~unsure[p] /\ (\A d \in Calls : ~Sends(d, p)) => p \notin panes[c]
    BY <2>3
  <2> QED
    BY <1>1, <2>1, <2>2, <2>4, <2>5 DEF RecordInv
<1>3. ASSUME NEW c \in Calls, TmuxLoses(c) PROVE RecordInv'
  <2>1. /\ pc[c] # "sending" /\ sent[c] = "flying" /\ sent' = [sent EXCEPT ![c] = "lost"]
        /\ UNCHANGED <<pc, kind, panes, was, pending, line, entering, unsure>>
    BY <1>3 DEF TmuxLoses, callVars
  <2>2. \A d \in Calls, p \in Panes : Sends(d, p)' <=> Sends(d, p)
    BY <2>1 DEF Sends
  <2>3. \A d \in Calls, p \in Panes : Sends(d, p) /\ Dispatching(d, p) => Dispatching(d, p)'
    BY <1>1, <2>1 DEF Dispatching, Upfront, Taken, Sends
  <2> QED
    BY <1>1, <2>1, <2>2, <2>3 DEF RecordInv
<1>4. ASSUME NEW c \in Calls, ShellStarts(c) \/ ShellEnds(c) PROVE RecordInv'
  BY <1>4 DEF ShellStarts, ShellEnds, callVars, RecordInv, Sends, Dispatching, Upfront, Taken
<1>5. ASSUME NEW q \in Panes, Respawn(q) PROVE RecordInv'
  <2>1. /\ line' = [line EXCEPT ![q] = <<>>] /\ unsure' = [unsure EXCEPT ![q] = TRUE]
        /\ UNCHANGED <<pc, kind, panes, was, pending, sent, entering>>
    BY <1>5 DEF Respawn, callVars
  <2>2. \A d \in Calls, p \in Panes : Sends(d, p)' <=> Sends(d, p)
    BY <2>1 DEF Sends
  <2>3. \A d \in Calls, p \in Panes \ {q} : Dispatching(d, p) => Dispatching(d, p)'
    BY <1>1, <2>1 DEF Dispatching, Upfront, Taken
  <2>4. \A p \in Panes : ~unsure'[p] => p # q /\ ~unsure[p] /\ line'[p] = line[p]
    BY <1>1, <2>1
  <2>5. \A p \in Panes : unsure[p] => unsure'[p]
    BY <1>1, <2>1
  <2> QED
    BY <1>1, <2>1, <2>2, <2>3, <2>4, <2>5 DEF RecordInv
<1> QED
  BY <1>2, <1>3, <1>4, <1>5 DEF PaneStep

------------------------------------------------------------------------------
(* The runs.                                                               *)

\* A run that a call or a reaper does not follow any more has ended, or the
\* shell it was checked against has.
RunInv ==
    \A c \in Calls :
        /\ IsRun(c) /\ (Holding(c) \/ pc[c] \in {"checked", "reaping"}) => Alone(panes[c])
        /\ IsRun(c) /\ pc[c] \in {"ready", "sending", "awaiting", "reaping"}
             => \A p \in panes[c] : checked[c] <= generation[p]
        /\ sent[c] # "no" => pc[c] \in {"sending", "awaiting", "reaping", "done"}
        /\ pc[c] = "awaiting" => sent[c] # "flying"
        /\ sent[c] \in {"no", "flying"} => run[c] = "no"
        /\ run[c] # "no" => IsRun(c)
        /\ IsRun(c) /\ pc[c] = "done" /\ sent[c] \in {"flying", "taken"}
             /\ run[c] \in {"no", "typed", "running"}
             => \A p \in panes[c] : checked[c] < generation[p]
        /\ run[c] \in {"typed", "running"} => sent[c] = "taken"

LEMMA RunCall ==
    ASSUME PaneInv, RecordInv, RunInv, NEW c \in Calls, CallStep(c)
    PROVE  RunInv'
<1>1. /\ pc \in [Calls -> Places] /\ panes \in [Calls -> SUBSET Panes]
      /\ sent \in [Calls -> {"no", "flying", "taken", "lost"}]
      /\ checked \in [Calls -> Nat] /\ generation \in [Panes -> Nat]
      /\ run \in [Calls -> {"no", "typed", "running", "recorded", "killed", "lost"}]
  BY DEF PaneInv, TypeOK, Places
<1>2. kind' = kind /\ run' = run /\ generation' = generation
      /\ \A d \in Calls \ {c} : /\ pc'[d] = pc[d] /\ panes'[d] = panes[d]
                                /\ checked'[d] = checked[d] /\ sent'[d] = sent[d]
  BY <1>1 DEF CallStep, PollStep, Preflight, Acquire, Recheck, RefuseDispatch, Send, InputSucceeds,
     SendEnter, EnterSucceeds, DispatchFails, InputUnknown, RunSucceeds, RunUnknown, TakeStatus,
     StopAwaiting, Reap, Done, Reaped, GoTo, callVars, tmuxVars
<1> DEFINE Good(d) ==
        /\ IsRun(d) /\ (Holding(d) \/ pc[d] \in {"checked", "reaping"}) => Alone(panes[d])
        /\ IsRun(d) /\ pc[d] \in {"ready", "sending", "awaiting", "reaping"}
             => \A p \in panes[d] : checked[d] <= generation[p]
        /\ sent[d] # "no" => pc[d] \in {"sending", "awaiting", "reaping", "done"}
        /\ pc[d] = "awaiting" => sent[d] # "flying"
        /\ sent[d] \in {"no", "flying"} => run[d] = "no"
        /\ run[d] # "no" => IsRun(d)
        /\ IsRun(d) /\ pc[d] = "done" /\ sent[d] \in {"flying", "taken"}
             /\ run[d] \in {"no", "typed", "running"}
             => \A p \in panes[d] : checked[d] < generation[p]
        /\ run[d] \in {"typed", "running"} => sent[d] = "taken"
<1>3. \A d \in Calls : Good(d)
  BY DEF RunInv
<1>4. \A d \in Calls \ {c} : Good(d)'
  BY <1>2, <1>3 DEF Alone, IsRun, Holding
<1>5. Good(c)'
  <2> USE <1>1, <1>2, <1>3 DEF GoTo, IsRun, Holding, callVars, tmuxVars
  <2>1. CASE Preflight(c)
    BY <2>1 DEF Preflight, Alone
  <2>2. CASE Acquire(c)
    BY <2>2 DEF Acquire, Alone
  <2>3. CASE Recheck(c)
    <3>1. PICK p \in panes[c] : checked' = [checked EXCEPT ![c] = generation[p]]
      BY <2>3 DEF Recheck
    <3>2. IsRun(c) => panes[c] = {p}
      BY <2>3, <3>1 DEF Recheck, Alone
    <3>3. p \in Panes /\ generation[p] \in Nat /\ generation[p] <= generation[p]
      BY <3>1
    <3>4. /\ checked'[c] = generation[p] /\ UNCHANGED <<panes, sent>>
          /\ pc[c] = "reserved" /\ pc'[c] = "ready"
      BY <2>3, <3>1 DEF Recheck
    <3> QED
      BY <3>2, <3>3, <3>4 DEF Alone
  <2>4. CASE RefuseDispatch(c)
    BY <2>4 DEF RefuseDispatch, Done, Alone
  <2>5. CASE Send(c)
    BY <2>5 DEF Send, Alone
  <2>6. CASE InputSucceeds(c) \/ SendEnter(c) \/ EnterSucceeds(c) \/ InputUnknown(c)
    <3>1. /\ ~IsRun(c) /\ pc[c] = "sending" /\ pc'[c] \in {"sending", "done"}
          /\ sent'[c] \in {"flying", sent[c]}
      BY <2>6 DEF InputSucceeds, SendEnter, EnterSucceeds, InputUnknown, Done, RecordInv
    <3> QED
      BY <3>1
  <2>7. CASE DispatchFails(c)
    BY <2>7 DEF DispatchFails, Done
  <2>8. CASE RunSucceeds(c) \/ RunUnknown(c) \/ StopAwaiting(c)
    <3>1. /\ pc[c] \in {"sending", "awaiting"} /\ pc'[c] \in {"awaiting", "reaping"}
          /\ UNCHANGED <<panes, checked, sent>>
          /\ pc'[c] = "awaiting" => sent[c] = "taken"
      BY <2>8 DEF RunSucceeds, RunUnknown, StopAwaiting, Reaped
    <3> QED
      BY <3>1 DEF Alone
  <2>9. CASE TakeStatus(c)
    BY <2>9 DEF TakeStatus, Done
  <2>10. CASE Reap(c)
    <3>1. /\ pc[c] = "reaping" /\ pc'[c] = "done" /\ UNCHANGED <<panes, checked, sent>>
          /\ SeenOver(c) /\ IsRun(c)
      BY <2>10 DEF Reap, Done, PaneInv, OneRun
    <3>2. CASE run[c] \in {"recorded", "killed"}
      BY <3>1, <3>2
    <3>3. CASE \E p \in panes[c] : generation[p] # checked[c]
      <4>1. \A p \in panes[c] : generation[p] # checked[c]
        BY <3>1, <3>3 DEF Alone
      <4>2. \A p \in panes[c] : checked[c] <= generation[p] /\ checked[c] \in Nat /\ generation[p] \in Nat
        BY <3>1
      <4>3. \A p \in panes[c] : checked[c] < generation[p]
        BY <4>1, <4>2
      <4> QED
        BY <3>1, <4>3
    <3> QED
      BY <3>1, <3>2, <3>3 DEF SeenOver
  <2> QED
    BY <2>1, <2>2, <2>3, <2>4, <2>5, <2>6, <2>7, <2>8, <2>9, <2>10 DEF CallStep, PollStep
<1> QED
  BY <1>4, <1>5 DEF RunInv

LEMMA RunPane ==
    ASSUME PaneInv, RunInv, (\E c \in Calls : PaneStep(c)) \/ (\E p \in Panes : Respawn(p))
    PROVE  RunInv'
<1>1. /\ pc \in [Calls -> Places] /\ panes \in [Calls -> SUBSET Panes]
      /\ sent \in [Calls -> {"no", "flying", "taken", "lost"}]
      /\ checked \in [Calls -> Nat] /\ generation \in [Panes -> Nat]
      /\ run \in [Calls -> {"no", "typed", "running", "recorded", "killed", "lost"}]
  BY DEF PaneInv, TypeOK, Places
<1> USE <1>1 DEF callVars, IsRun, Holding, Alone
<1>2. ASSUME NEW c \in Calls, TmuxTakes(c) PROVE RunInv'
  <2>1. /\ sent[c] = "flying" /\ sent' = [sent EXCEPT ![c] = "taken"]
        /\ UNCHANGED <<pc, kind, panes, checked, generation>>
    BY <1>2 DEF TmuxTakes
  <2>2. \A d \in Calls : \/ run'[d] = run[d]
                         \/ d = c /\ IsRun(c) /\ run'[c] \in {"typed", "lost"}
                         \/ run[d] = "typed" /\ run'[d] = "lost"
    BY <1>2 DEF TmuxTakes
  <2> QED
    BY <2>1, <2>2 DEF RunInv
<1>3. ASSUME NEW c \in Calls, TmuxLoses(c) PROVE RunInv'
  <2>1. /\ sent[c] = "flying" /\ sent' = [sent EXCEPT ![c] = "lost"]
        /\ UNCHANGED <<pc, kind, panes, checked, generation>>
        /\ run' = IF IsRun(c) THEN [run EXCEPT ![c] = "lost"] ELSE run
    BY <1>3 DEF TmuxLoses
  <2> QED
    BY <2>1 DEF RunInv
<1>4. ASSUME NEW c \in Calls, ShellStarts(c) PROVE RunInv'
  BY <1>4 DEF ShellStarts, RunInv
<1>5. ASSUME NEW c \in Calls, ShellEnds(c) PROVE RunInv'
  BY <1>5 DEF ShellEnds, RunInv
<1>6. ASSUME NEW q \in Panes, Respawn(q) PROVE RunInv'
  <2>1. /\ \A p \in Panes : generation'[p] >= generation[p] /\ generation'[p] \in Nat
        /\ UNCHANGED <<pc, kind, panes, checked, sent>>
    BY <1>6 DEF Respawn
  <2>2. \A d \in Calls : run'[d] = run[d] \/ (run[d] \in {"typed", "running"} /\ run'[d] = "killed")
    BY <1>6 DEF Respawn
  <2>3. \A d \in Calls, p \in Panes : /\ checked[d] <= generation[p] => checked[d] <= generation'[p]
                                      /\ checked[d] < generation[p] => checked[d] < generation'[p]
    BY <2>1
  <2> QED
    BY <2>1, <2>2, <2>3 DEF RunInv
<1> QED
  BY <1>2, <1>3, <1>4, <1>5, <1>6 DEF PaneStep

------------------------------------------------------------------------------
PaneSafe == PaneInv /\ RecordInv /\ RunInv

LEMMA SafeInit == Init => PaneSafe
<1> SUFFICES ASSUME Init PROVE PaneSafe
  OBVIOUS
<1>1. PaneInv
  BY InvInit
<1>2. RecordInv
  BY DEF Init, RecordInv, Sends
<1>3. RunInv
  BY DEF Init, RunInv, Holding
<1> QED
  BY <1>1, <1>2, <1>3 DEF PaneSafe

LEMMA SafeStep == PaneSafe /\ [Next]_vars => PaneSafe'
<1> SUFFICES ASSUME PaneInv, RecordInv, RunInv, [Next]_vars PROVE PaneSafe'
  BY DEF PaneSafe
<1>1. PaneInv'
  BY InvStep
<1>2. CASE Next
  BY <1>1, <1>2, RecordCall, RecordPane, RunCall, RunPane DEF Next, PaneSafe
<1>3. CASE UNCHANGED vars
  <2>1. RecordInv'
    BY <1>3 DEF vars, callVars, tmuxVars, RecordInv, Sends, Dispatching, Upfront, Taken
  <2>2. RunInv'
    BY <1>3 DEF vars, callVars, tmuxVars, RunInv, IsRun, Holding, Alone
  <2> QED
    BY <1>1, <2>1, <2>2 DEF PaneSafe
<1> QED
  BY <1>2, <1>3

LEMMA Safe == Spec => []PaneSafe
<1> QED
  BY SafeInit, SafeStep, PTL DEF Spec

\* pendingInput is the unsubmitted line of every pane that nobody is at work
\* on, whatever failed, was erased or submitted, by any number of calls that
\* share panes in any groups; unknown outcomes and respawns aside.
THEOREM RecordIsLine == Spec => []PendingIsLine
<1>1. PaneSafe => PendingIsLine
  <2> SUFFICES ASSUME PaneSafe, NEW p \in Panes, active[p] = Nobody, ~unsure[p]
               PROVE  pending[p] = line[p]
    BY DEF PendingIsLine
  <2>1. \A c \in Calls : ~Sends(c, p)
    BY SenderHolds, PaneAssumption DEF PaneSafe
  <2> QED
    BY <2>1 DEF PaneSafe, RecordInv
<1> QED
  BY <1>1, Safe, PTL

\* A run whose call gave up, or whose dispatch had an unknown outcome, keeps
\* its pane from other runs until it is over: no run is typed behind another
\* that the same shell has still to end.
THEOREM OneRunAtATime == Spec => RunsOneAtATime
<1>1. PaneSafe /\ [Next]_vars =>
        [\A c \in Calls :
           IsRun(c) /\ sent[c] = "flying" /\ sent'[c] = "taken"
             => \A p \in panes[c] : checked[c] = generation[p]
                  => \A d \in Calls \ {c} : ~Occupies(d, p)]_vars
  <2> SUFFICES ASSUME PaneSafe, NEW c \in Calls, NEW p \in panes[c], NEW d \in Calls \ {c},
                      IsRun(c), sent[c] = "flying", checked[c] = generation[p], Occupies(d, p)
               PROVE  FALSE
    OBVIOUS
  <2>1. /\ panes \in [Calls -> SUBSET Panes] /\ p \in Panes /\ pc \in [Calls -> Places]
        /\ checked[c] \in Nat /\ checked[d] \in Nat /\ generation[p] \in Nat
    BY DEF PaneSafe, PaneInv, TypeOK, Places
  <2>2. pc[c] \in {"sending", "reaping"}
    BY <2>1 DEF PaneSafe, RunInv
  <2>3. IsRun(d) /\ p \in panes[d] /\ pc[d] \in {"sending", "awaiting", "reaping"}
    BY <2>1 DEF PaneSafe, RunInv, Occupies, In
  <2>4. active[p] = c \/ detached[p] = c
    BY <2>1, <2>2 DEF PaneSafe, PaneInv, ReservationsExact, Holding
  <2>5. active[p] = d \/ detached[p] = d
    BY <2>1, <2>3 DEF PaneSafe, PaneInv, ReservationsExact, Holding
  <2>6. \A e \in Calls : IsRun(e) /\ active[p] = e => detached[p] = Nobody
    BY <2>1 DEF PaneSafe, PaneInv, ReservationsExact, OneRun
  <2> QED
    BY <2>3, <2>4, <2>5, <2>6, PaneAssumption
<1> QED
  BY <1>1, Safe, PTL DEF Spec, RunsOneAtATime
=============================================================================
