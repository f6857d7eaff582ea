--------------------------- MODULE McpRuntime_proofs ---------------------------
(***************************************************************************)
(* The runtime keeps its books for any number of tool calls, daemons and    *)
(* connections.  None of the three books is inductive alone: that a parked  *)
(* request is woken needs to know where the owner of its channel is, that   *)
(* leases are counted where a request that holds one may be, and that no    *)
(* connection is lost which connection each binder has in hand.             *)
(***************************************************************************)
EXTENDS McpRuntime, FiniteSetTheorems, TLAPS

\* An owner of a probe or a binding is at the work that ends it.
Roles ==
    /\ (state = "binding") = (binding # Nobody)
    /\ probe # Nobody => /\ pc[probe] \in {"probe", "probed", "probeFailed"}
                         /\ purpose[probe] # "create"
    /\ binding # Nobody => /\ pc[binding] \in {"drain", "probe", "open", "bootstrap", "finish", "fail"}
                           /\ pc[binding] = "probe" => purpose[binding] = "create"

Parked ==
    \A r \in Requests : waits[r] \in
        {Nobody, <<"probe", probe>>, <<"binding", binding>>, <<"drained", drained>>}

\* A lease is held from an absent probe to its return.
Leased ==
    \A r \in Requests : lease[r] => pc[r] \in {"release", "use", "mark", "classify", "leave"}

\* What a binder has in hand: the daemon it found, and a connection to it that
\* is open and not the runtime's.
InHand(r) ==
    /\ pc[r] # "finish" => hand[r] = 0
    /\ pc[r] = "finish" => control = (hand[r] # 0)
    /\ hand[r] # 0 => /\ hand[r] \in 1..opened /\ hand[r] # conn
                      /\ held[hand[r]] /\ epoch[hand[r]] = found[r]
    /\ pc[r] \in {"open", "finish"} => found[r] # 0
    /\ pc[r] = "drain" /\ purpose[r] # "create" => found[r] # 0

Connected ==
    /\ \A r \in Requests : InHand(r)
    /\ \A r, s \in Requests : r # s /\ hand[r] # 0 => hand[r] # hand[s]
    /\ conn <= opened
    /\ (state = "closed") = (closePhase # "open")
    /\ NoConnectionLeaks /\ CurrentIsOpen

\* What of the state the books are about.
RuntimeInv ==
    /\ TypeOK
    /\ Roles /\ Parked
    /\ LeasesCounted /\ Leased
    /\ Connected

------------------------------------------------------------------------------
(* Types.                                                                  *)

LEMMA Named ==
    /\ Base \in Handles
    /\ \A e \in 1..MaxDaemons : <<"process", e>> \in Handles
    /\ \A k \in 1..MaxConnections : <<"connection", k>> \in Handles
    /\ \A r \in Requests : /\ <<"probe", r>> \in Channels
                           /\ <<"binding", r>> \in Channels
                           /\ <<"drained", r>> \in Channels
  BY DEF Handles, Daemons, Connections, Channels

LEMMA InitRuntime == Init => RuntimeInv
<1> SUFFICES ASSUME Init PROVE RuntimeInv
  OBVIOUS
<1>1. TypeOK
  BY RuntimeAssumption, Named DEF Init, TypeOK, Owners, Places, Errors
<1>2. Roles /\ Parked /\ Leased /\ Connected
  BY RuntimeAssumption DEF Init, Roles, Parked, Leased, Connected, InHand, NoConnectionLeaks,
     CurrentIsOpen,
     TypeOK
<1>3. LeasesCounted
  <2>1. {r \in Requests : lease[r]} = {}
    BY DEF Init
  <2> QED
    BY <2>1, FS_EmptySet DEF Init, LeasesCounted
<1> QED
  BY <1>1, <1>2, <1>3 DEF RuntimeInv, Init

LEMMA WokenType ==
    ASSUME TypeOK, NEW channel
    PROVE  Woken(channel) \in [Requests -> Channels \cup {Nobody}]
  BY DEF TypeOK, Woken

LEMMA FailsType ==
    ASSUME TypeOK, NEW r \in Requests, NEW e \in Errors, Fails(r, e)
    PROVE  pc' \in [Requests -> Places] /\ err' \in [Requests -> Errors]
  BY DEF TypeOK, Fails, AfterError, Observed, GoTo, Places

LEMMA StateErrorType == ASSUME TypeOK PROVE StateError \in Errors
  BY DEF TypeOK, StateError, Errors

\* No command of a call ends in anything but success, absence, loss or its context.
LEMMA OutcomesAre ==
    ASSUME NEW r \in Requests
    PROVE  Outcomes(r) \subseteq {"none", "noServer", "lost", "ctx"}
  BY DEF Outcomes, Results

LEMMA WithHandleType ==
    ASSUME TypeOK, NEW r \in Requests, NEW leased, WithHandle(r, leased)
    PROVE  /\ \A s \in Requests \ {r} : pc'[s] = pc[s] /\ purpose'[s] = purpose[s]
           /\ pc' \in [Requests -> Places]
           /\ purpose' \in [Requests -> {"acquire", "create", "process", "resolve"}]
           /\ pc'[r] \in {"loop", "process", "lookup", "release", "use"}
           /\ leased /\ purpose[r] = "acquire" => pc'[r] \in {"release", "use"}
  BY DEF WithHandle, GoTo, TypeOK, Places

LEMMA DropType ==
    ASSUME TypeOK, NEW k \in 0..MaxConnections, Drop(k)
    PROVE  epoch' \in [Connections -> 0..MaxDaemons] /\ held' \in [Connections -> BOOLEAN]
<1>1. CASE k = 0
  BY <1>1 DEF Drop, TypeOK
<1>2. CASE k # 0
  <2>1. k \in Connections /\ 0 \in 0..MaxDaemons
    BY <1>2, RuntimeAssumption DEF Connections
  <2> QED
    BY <1>2, <2>1 DEF Drop, TypeOK
<1> QED
  BY <1>1, <1>2

LEMMA ConnectType ==
    ASSUME TypeOK, NEW r \in Requests, NEW e \in 0..MaxDaemons, Connect(r, e)
    PROVE  /\ opened' \in 0..MaxConnections /\ epoch' \in [Connections -> 0..MaxDaemons]
           /\ held' \in [Connections -> BOOLEAN] /\ hand' \in [Requests -> 0..MaxConnections]
<1>1. CASE control
  <2>1. opened' = opened + 1 /\ opened' \in Connections /\ opened' \in 0..MaxConnections
    BY <1>1, RuntimeAssumption DEF TypeOK, Connect, Connections
  <2> QED
    BY <1>1, <2>1 DEF Connect, TypeOK
<1>2. CASE ~control
  BY <1>2 DEF Connect, TypeOK, connVars
<1> QED
  BY <1>1, <1>2

LEMMA ParkType ==
    ASSUME TypeOK, NEW r \in Requests, NEW o \in Owners, o # Nobody, NEW c \in {"probe", "binding", "drained"}
    PROVE  [waits EXCEPT ![r] = <<c, o>>] \in [Requests -> Channels \cup {Nobody}]
  BY DEF TypeOK, Owners, Channels

LEMMA MaterializeType ==
    ASSUME TypeOK, NEW r \in Requests, Materialize(r)
    PROVE  /\ daemon' \in 1..MaxDaemons /\ born' \in 0..MaxDaemons
           /\ made' \in [Requests -> BOOLEAN]
  BY RuntimeAssumption DEF TypeOK, Materialize, tmuxVars

LEMMA BoundHandleType ==
    ASSUME NEW k \in 0..MaxConnections, NEW e \in 1..MaxDaemons
    PROVE  BoundHandle(k, e) \in Handles
  BY Named, RuntimeAssumption DEF BoundHandle

LEMMA MarkType ==
    ASSUME TypeOK, NEW e \in Errors, MarkTerminal(e)
    PROVE  /\ waits' \in [Requests -> Channels \cup {Nobody}] /\ state' \in {"terminal", "closed"}
           /\ epoch' \in [Connections -> 0..MaxDaemons] /\ held' \in [Connections -> BOOLEAN]
           /\ cause' \in Errors /\ home' \in 0..MaxDaemons /\ conn' \in 0..MaxConnections
           /\ binding' \in Owners
<1>1. CASE state \in {"terminal", "closed"}
  BY <1>1 DEF MarkTerminal, TypeOK, runtimeVars
<1>2. CASE state \notin {"terminal", "closed"}
  <2>1. Drop(conn) /\ SignalBinding /\ state' = "terminal" /\ cause' = e /\ home' = 0 /\ conn' = 0
    BY <1>2 DEF MarkTerminal
  <2>2. waits' \in [Requests -> Channels \cup {Nobody}] /\ binding' \in Owners
    BY <2>1, WokenType DEF SignalBinding, Owners
  <2>3. epoch' \in [Connections -> 0..MaxDaemons] /\ held' \in [Connections -> BOOLEAN]
    BY <2>1, DropType DEF TypeOK
  <2> QED
    BY <2>1, <2>2, <2>3, RuntimeAssumption
<1> QED
  BY <1>1, <1>2

LEMMA TypeStep ==
    ASSUME TypeOK, CurrentIsOpen, Roles, active = 0 => \A s \in Requests : ~lease[s],
           NEW r \in Requests, RequestStep(r), InHand(r)
    PROVE  TypeOK'
<1>0. (state = "binding") = (binding # Nobody)
  BY DEF Roles
<1> USE <1>0 DEF TypeOK, Owners, runtimeVars, signalVars, tmuxVars, connVars, setupVars, callVars, otherVars
<1>1. CASE LoopBound(r)
  <2>1. handle' \in [Requests -> Handles]
    BY <1>1, RuntimeAssumption, BoundHandleType DEF LoopBound, CurrentIsOpen, WithHandle
  <2>2. /\ pc' \in [Requests -> Places]
        /\ purpose' \in [Requests -> {"acquire", "create", "process", "resolve"}]
    BY <1>1 DEF LoopBound, WithHandle, GoTo, Places
  <2> QED
    BY <1>1, <2>1, <2>2 DEF LoopBound
<1>2. CASE LoopClosed(r)
  BY <1>2, RuntimeAssumption, FailsType, StateErrorType DEF LoopClosed
<1>3. CASE Heal(r)
  <2>1. epoch' \in [Connections -> 0..MaxDaemons] /\ held' \in [Connections -> BOOLEAN]
    BY <1>3, DropType DEF Heal
  <2> QED
    BY <1>3, <2>1, RuntimeAssumption DEF Heal, Errors
<1>4. CASE LoopWaits(r)
  <2>1. \/ waits' = [waits EXCEPT ![r] = <<"binding", binding>>] /\ binding # Nobody
        \/ waits' = [waits EXCEPT ![r] = <<"probe", probe>>] /\ probe # Nobody
    BY <1>4 DEF LoopWaits
  <2>2. /\ binding # Nobody => [waits EXCEPT ![r] = <<"binding", binding>>] \in [Requests -> Channels \cup {Nobody}]
        /\ probe # Nobody => [waits EXCEPT ![r] = <<"probe", probe>>] \in [Requests -> Channels \cup {Nobody}]
    BY ParkType
  <2> QED
    BY <1>4, <2>1, <2>2 DEF LoopWaits, GoTo, Places
<1>5. CASE WaitReturns(r)
  <2>1. /\ pc' \in [Requests -> Places] /\ waits' \in [Requests -> Channels \cup {Nobody}]
        /\ err' \in [Requests -> Errors]
    BY <1>5 DEF WaitReturns, Fails, AfterError, Observed, GoTo, Places, Errors
  <2> QED
    BY <1>5, <2>1 DEF WaitReturns
<1>6. CASE StartProbe(r)
  BY <1>6, RuntimeAssumption DEF StartProbe, GoTo, Places
<1>7. CASE StartCreation(r)
  <2>1. drained # Nobody => [waits EXCEPT ![r] = <<"drained", drained>>] \in [Requests -> Channels \cup {Nobody}]
    BY <1>7, ParkType DEF StartCreation
  <2>2. waits' \in [Requests -> Channels \cup {Nobody}]
    BY <1>7, <2>1 DEF StartCreation, AwaitDrain
  <2>3. pc' \in [Requests -> Places]
    BY <1>7 DEF StartCreation, AwaitDrain, GoTo, Places
  <2> QED
    BY <1>7, <2>1, <2>2, <2>3 DEF StartCreation
<1>8. CASE ProbeAnswers(r)
  BY <1>8, RuntimeAssumption DEF ProbeAnswers, GoTo, Places
<1>9. CASE ProbeErrs(r)
  BY <1>9, RuntimeAssumption DEF ProbeErrs, GoTo, Places, Errors
<1>10. CASE FinishProbe(r)
  BY <1>10, RuntimeAssumption, WokenType DEF FinishProbe, SignalProbe, GoTo, Places, Observed
<1>11. CASE FinishAbsentProbe(r)
  <2>1. /\ waits' \in [Requests -> Channels \cup {Nobody}] /\ probe' \in Owners
    BY <1>11, WokenType DEF FinishAbsentProbe, SignalProbe
  <2>2. /\ pc' \in [Requests -> Places] /\ handle' \in [Requests -> Handles]
        /\ purpose' \in [Requests -> {"acquire", "create", "process", "resolve"}]
    BY <1>11, Named DEF FinishAbsentProbe, WithHandle, GoTo, Places
  <2>3. \/ UNCHANGED <<drained, active, lease>>
        \/ /\ active' = active + 1 /\ drained' = (IF active = 0 THEN r ELSE drained)
           /\ lease' = [lease EXCEPT ![r] = TRUE]
    BY <1>11 DEF FinishAbsentProbe
  <2>4. active' \in Nat /\ drained' \in Owners
    BY <2>3
  <2>5. lease' \in [Requests -> BOOLEAN]
    BY <2>3
  <2> QED
    BY <1>11, <2>1, <2>2, <2>4, <2>5 DEF FinishAbsentProbe
<1>12. CASE BeginBinding(r)
  BY <1>12, RuntimeAssumption, WokenType, Named DEF BeginBinding, GoTo, Places
<1>13. CASE DrainReturns(r)
  BY <1>13, RuntimeAssumption DEF DrainReturns, GoTo, Places, Errors
<1>14. CASE Open(r)
  <2>1. /\ opened' \in 0..MaxConnections /\ epoch' \in [Connections -> 0..MaxDaemons]
        /\ held' \in [Connections -> BOOLEAN] /\ hand' \in [Requests -> 0..MaxConnections]
    BY <1>14, ConnectType DEF Open
  <2> QED
    BY <1>14, <2>1 DEF Open, GoTo, Places
<1>15. CASE OpenFails(r)
  BY <1>15, RuntimeAssumption DEF OpenFails, GoTo, Places, Errors
<1>16. CASE Bootstrap(r)
  BY <1>16, RuntimeAssumption DEF Bootstrap, Materialize, GoTo, Places
<1>17. CASE BootstrapFails(r)
  BY <1>17, RuntimeAssumption DEF BootstrapFails, GoTo, Places, Errors
<1>18. CASE FinishBinding(r)
  <2>1. waits' \in [Requests -> Channels \cup {Nobody}] /\ binding' \in Owners
    BY <1>18, WokenType DEF FinishBinding, SignalBinding
  <2>2. /\ hand' \in [Requests -> 0..MaxConnections] /\ found' \in [Requests -> 0..MaxDaemons]
    BY <1>18, RuntimeAssumption DEF FinishBinding
  <2>3. state' \in {"bound", state} /\ home' \in 0..MaxDaemons /\ conn' \in 0..MaxConnections
    BY <1>18 DEF FinishBinding, WithHandle
  <2>4. epoch' \in [Connections -> 0..MaxDaemons] /\ held' \in [Connections -> BOOLEAN]
    BY <1>18, DropType DEF FinishBinding
  <2>5. /\ err' \in [Requests -> Errors] /\ pc' \in [Requests -> Places]
        /\ purpose' \in [Requests -> {"acquire", "create", "process", "resolve"}]
    BY <1>18, StateErrorType, FailsType DEF FinishBinding, WithHandle, GoTo, Places
  <2>6. handle' \in [Requests -> Handles]
    BY <1>18, BoundHandleType, RuntimeAssumption DEF FinishBinding, InHand, WithHandle
  <2> QED
    BY <1>18, <2>1, <2>2, <2>3, <2>4, <2>5, <2>6 DEF FinishBinding
<1>19. CASE FailBinding(r)
  <2>1. waits' \in [Requests -> Channels \cup {Nobody}] /\ binding' \in Owners
    BY <1>19, WokenType DEF FailBinding, SignalBinding
  <2>2. /\ pc' \in [Requests -> Places] /\ err' \in [Requests -> Errors] /\ cause' \in Errors
    BY <1>19 DEF FailBinding, GoTo, Places, AfterError, Observed, Errors
  <2>3. /\ state' \in {"unbound", "terminal", state} /\ home' \in 0..MaxDaemons
        /\ conn' \in 0..MaxConnections
    BY <1>19, RuntimeAssumption DEF FailBinding
  <2>4. found' \in [Requests -> 0..MaxDaemons] /\ reprobed' \in [Requests -> BOOLEAN]
    BY <1>19, RuntimeAssumption DEF FailBinding
  <2> QED
    BY <1>19, <2>1, <2>2, <2>3, <2>4 DEF FailBinding
<1>20. CASE RunCreate(r)
  BY <1>20, RuntimeAssumption, WokenType DEF RunCreate, Release, GoTo, Places
<1>21. CASE ProcessHandle(r)
  <2>1. handle' \in [Requests -> Handles]
    BY <1>21, Named, RuntimeAssumption DEF ProcessHandle, CurrentIsOpen
  <2>2. pc' \in [Requests -> Places] /\ err' \in [Requests -> Errors]
    BY <1>21, StateErrorType, FailsType DEF ProcessHandle, GoTo, Places
  <2> QED
    BY <1>21, <2>1, <2>2 DEF ProcessHandle
<1>22. CASE OpenObservation(r)
  BY <1>22, RuntimeAssumption, FailsType, StateErrorType DEF OpenObservation
<1>23. CASE Use(r)
  BY <1>23, RuntimeAssumption, OutcomesAre DEF Use, GoTo, Places, Observed, Errors
<1>24. CASE NewSession(r)
  <2>1. daemon' \in 0..MaxDaemons /\ born' \in 0..MaxDaemons /\ made' \in [Requests -> BOOLEAN]
    BY <1>24, RuntimeAssumption, MaterializeType DEF NewSession
  <2>2. /\ err' \in [Requests -> Errors] /\ pc' \in [Requests -> Places]
        /\ purpose' \in [Requests -> {"acquire", "create", "process", "resolve"}]
    BY <1>24, OutcomesAre DEF NewSession, GoTo, Places, Observed, Errors
  <2> QED
    BY <1>24, <2>1, <2>2 DEF NewSession
<1>25. CASE Lookup(r)
  BY <1>25, RuntimeAssumption, OutcomesAre DEF Lookup, GoTo, Places, Observed, Errors
<1>26. CASE Classify(r)
  BY <1>26, RuntimeAssumption DEF Classify, GoTo, Places
<1>27. CASE Mark(r)
  <2>1. MarkTerminal(err[r]) /\ err[r] \in Errors
    BY <1>27 DEF Mark
  <2> QED
    BY <1>27, <2>1, MarkType DEF Mark, GoTo, Places
<1>28. CASE Leave(r)
  BY <1>28, RuntimeAssumption, WokenType, Named DEF Leave, Release, GoTo, Places, Errors
<1> QED
  BY <1>1, <1>2, <1>3, <1>4, <1>5, <1>6, <1>7, <1>8, <1>9, <1>10, <1>11, <1>12, <1>13, <1>14, <1>15,
     <1>16, <1>17, <1>18, <1>19, <1>20, <1>21, <1>22, <1>23, <1>24, <1>25, <1>26, <1>27, <1>28 DEF
     RequestStep

------------------------------------------------------------------------------
(* Owners, and who is parked.                                              *)

LEMMA RolesStep ==
    ASSUME TypeOK, Roles, NEW r \in Requests, RequestStep(r)
    PROVE  Roles'
<1>t. /\ probe \in Owners /\ binding \in Owners
      /\ pc \in [Requests -> Places]
      /\ purpose \in [Requests -> {"acquire", "create", "process", "resolve"}]
  BY DEF TypeOK
<1> USE DEF Roles, Owners, GoTo, runtimeVars, signalVars, callVars
<1>1. CASE LoopBound(r)
  BY <1>1, <1>t, RuntimeAssumption DEF LoopBound, WithHandle
<1>2. CASE LoopClosed(r)
  BY <1>2, <1>t, RuntimeAssumption DEF LoopClosed, Fails, AfterError, Observed
<1>3. CASE Heal(r)
  BY <1>3, <1>t, RuntimeAssumption DEF Heal
<1>4. CASE LoopWaits(r)
  BY <1>4, <1>t, RuntimeAssumption DEF LoopWaits
<1>5. CASE WaitReturns(r)
  BY <1>5, <1>t, RuntimeAssumption DEF WaitReturns, Fails, AfterError, Observed
<1>6. CASE StartProbe(r)
  BY <1>6, <1>t, RuntimeAssumption DEF StartProbe
<1>7. CASE StartCreation(r)
  BY <1>7, <1>t, RuntimeAssumption DEF StartCreation, AwaitDrain
<1>8. CASE ProbeAnswers(r)
  BY <1>8, <1>t, RuntimeAssumption DEF ProbeAnswers
<1>9. CASE ProbeErrs(r)
  BY <1>9, <1>t, RuntimeAssumption DEF ProbeErrs
<1>10. CASE FinishProbe(r)
  BY <1>10, <1>t, RuntimeAssumption DEF FinishProbe, SignalProbe, Observed
<1>11. CASE FinishAbsentProbe(r)
  BY <1>11, <1>t, RuntimeAssumption DEF FinishAbsentProbe, SignalProbe, WithHandle
<1>12. CASE BeginBinding(r)
  BY <1>12, <1>t, RuntimeAssumption DEF BeginBinding
<1>13. CASE DrainReturns(r)
  BY <1>13, <1>t, RuntimeAssumption DEF DrainReturns
<1>14. CASE Open(r)
  BY <1>14, <1>t, RuntimeAssumption DEF Open
<1>15. CASE OpenFails(r)
  BY <1>15, <1>t, RuntimeAssumption DEF OpenFails
<1>16. CASE Bootstrap(r)
  BY <1>16, <1>t, RuntimeAssumption DEF Bootstrap
<1>17. CASE BootstrapFails(r)
  BY <1>17, <1>t, RuntimeAssumption DEF BootstrapFails
<1>18. CASE FinishBinding(r)
  BY <1>18, <1>t, RuntimeAssumption DEF FinishBinding, SignalBinding, WithHandle, Fails, AfterError,
     Observed
<1>19. CASE FailBinding(r)
  BY <1>19, <1>t, RuntimeAssumption DEF FailBinding, SignalBinding, AfterError, Observed
<1>20. CASE RunCreate(r)
  BY <1>20, <1>t, RuntimeAssumption DEF RunCreate
<1>21. CASE ProcessHandle(r)
  BY <1>21, <1>t, RuntimeAssumption DEF ProcessHandle, Fails, AfterError, Observed
<1>22. CASE OpenObservation(r)
  BY <1>22, <1>t, RuntimeAssumption DEF OpenObservation, Fails, AfterError, Observed
<1>23. CASE Use(r)
  BY <1>23, <1>t, RuntimeAssumption DEF Use, Observed
<1>24. CASE NewSession(r)
  BY <1>24, <1>t, RuntimeAssumption DEF NewSession, Observed
<1>25. CASE Lookup(r)
  BY <1>25, <1>t, RuntimeAssumption DEF Lookup, Observed
<1>26. CASE Classify(r)
  BY <1>26, <1>t, RuntimeAssumption DEF Classify
<1>27. CASE Mark(r)
  BY <1>27, <1>t, RuntimeAssumption DEF Mark, MarkTerminal, SignalBinding
<1>28. CASE Leave(r)
  BY <1>28, <1>t, RuntimeAssumption DEF Leave
<1> QED
  BY <1>1, <1>2, <1>3, <1>4, <1>5, <1>6, <1>7, <1>8, <1>9, <1>10, <1>11, <1>12, <1>13, <1>14, <1>15,
     <1>16, <1>17, <1>18, <1>19, <1>20, <1>21, <1>22, <1>23, <1>24, <1>25, <1>26, <1>27, <1>28 DEF
     RequestStep

LEMMA ParkedStep ==
    ASSUME TypeOK, Roles, Parked, LeasesCounted, NEW r \in Requests, RequestStep(r)
    PROVE  Parked'
<1>t. /\ probe \in Owners /\ binding \in Owners /\ drained \in Owners
      /\ waits \in [Requests -> Channels \cup {Nobody}]
      /\ (state = "binding") = (binding # Nobody)
      /\ active \in Nat /\ (active > 0) = (drained # Nobody)
  BY DEF TypeOK, Roles, LeasesCounted
<1> USE DEF Parked, Owners, Channels, runtimeVars, signalVars
<1>1. CASE LoopBound(r)
  BY <1>1, <1>t, RuntimeAssumption DEF LoopBound
<1>2. CASE LoopClosed(r)
  BY <1>2, <1>t, RuntimeAssumption DEF LoopClosed
<1>3. CASE Heal(r)
  BY <1>3, <1>t, RuntimeAssumption DEF Heal
<1>4. CASE LoopWaits(r)
  BY <1>4, <1>t, RuntimeAssumption DEF LoopWaits
<1>5. CASE WaitReturns(r)
  BY <1>5, <1>t, RuntimeAssumption DEF WaitReturns
<1>6. CASE StartProbe(r)
  BY <1>6, <1>t, RuntimeAssumption DEF StartProbe
<1>7. CASE StartCreation(r)
  BY <1>7, <1>t, RuntimeAssumption DEF StartCreation, AwaitDrain
<1>8. CASE ProbeAnswers(r)
  BY <1>8, <1>t, RuntimeAssumption DEF ProbeAnswers
<1>9. CASE ProbeErrs(r)
  BY <1>9, <1>t, RuntimeAssumption DEF ProbeErrs
<1>10. CASE FinishProbe(r)
  BY <1>10, <1>t, RuntimeAssumption DEF FinishProbe, SignalProbe, Woken
<1>11. CASE FinishAbsentProbe(r)
  <2>1. \A q \in Requests : waits[q] # Nobody => waits[q] \in Channels
    BY <1>t
  <2>2. /\ binding' = binding
        /\ probe' = (IF probe = r THEN Nobody ELSE probe)
        /\ waits' = (IF probe = r THEN Woken(<<"probe", r>>) ELSE waits)
    BY <1>11 DEF FinishAbsentProbe, SignalProbe
  <2>3. drained' = drained \/ active = 0
    BY <1>11 DEF FinishAbsentProbe
  <2>4. drained' = drained \/ drained = Nobody
    BY <2>3, <1>t
  <2> SUFFICES ASSUME NEW q \in Requests, waits'[q] # Nobody
               PROVE  waits'[q] \in {<<"probe", probe'>>, <<"binding", binding'>>, <<"drained", drained'>>}
    OBVIOUS
  <2>5. waits'[q] = waits[q] /\ (probe = r => waits[q] # <<"probe", r>>)
    BY <2>2 DEF Woken
  <2>6. drained = Nobody => waits[q] # <<"drained", drained>>
    BY <2>1, <2>5, RuntimeAssumption
  <2> QED
    BY <2>2, <2>4, <2>5, <2>6
<1>12. CASE BeginBinding(r)
  BY <1>12, <1>t, RuntimeAssumption DEF BeginBinding, Woken
<1>13. CASE DrainReturns(r)
  BY <1>13, <1>t, RuntimeAssumption DEF DrainReturns
<1>14. CASE Open(r)
  BY <1>14, <1>t, RuntimeAssumption DEF Open
<1>15. CASE OpenFails(r)
  BY <1>15, <1>t, RuntimeAssumption DEF OpenFails
<1>16. CASE Bootstrap(r)
  BY <1>16, <1>t, RuntimeAssumption DEF Bootstrap
<1>17. CASE BootstrapFails(r)
  BY <1>17, <1>t, RuntimeAssumption DEF BootstrapFails
<1>18. CASE FinishBinding(r)
  BY <1>18, <1>t, RuntimeAssumption DEF FinishBinding, SignalBinding, Woken
<1>19. CASE FailBinding(r)
  BY <1>19, <1>t, RuntimeAssumption DEF FailBinding, SignalBinding, Woken
<1>20. CASE RunCreate(r)
  BY <1>20, <1>t, RuntimeAssumption DEF RunCreate, Release, Woken
<1>21. CASE ProcessHandle(r)
  BY <1>21, <1>t, RuntimeAssumption DEF ProcessHandle
<1>22. CASE OpenObservation(r)
  BY <1>22, <1>t, RuntimeAssumption DEF OpenObservation
<1>23. CASE Use(r)
  BY <1>23, <1>t, RuntimeAssumption DEF Use
<1>24. CASE NewSession(r)
  BY <1>24, <1>t, RuntimeAssumption DEF NewSession
<1>25. CASE Lookup(r)
  BY <1>25, <1>t, RuntimeAssumption DEF Lookup
<1>26. CASE Classify(r)
  BY <1>26, <1>t, RuntimeAssumption DEF Classify
<1>27. CASE Mark(r)
  BY <1>27, <1>t, RuntimeAssumption DEF Mark, MarkTerminal, SignalBinding, Woken
<1>28. CASE Leave(r)
  BY <1>28, <1>t, RuntimeAssumption DEF Leave, Release, Woken
<1> QED
  BY <1>1, <1>2, <1>3, <1>4, <1>5, <1>6, <1>7, <1>8, <1>9, <1>10, <1>11, <1>12, <1>13, <1>14, <1>15,
     <1>16, <1>17, <1>18, <1>19, <1>20, <1>21, <1>22, <1>23, <1>24, <1>25, <1>26, <1>27, <1>28 DEF
     RequestStep

------------------------------------------------------------------------------
(* Leases.                                                                 *)

LEMMA LeasedStep ==
    ASSUME TypeOK, Roles, Leased, NEW r \in Requests, RequestStep(r)
    PROVE  Leased'
<1>t. /\ pc \in [Requests -> Places] /\ lease \in [Requests -> BOOLEAN]
      /\ purpose \in [Requests -> {"acquire", "create", "process", "resolve"}]
      /\ probe # Nobody => purpose[probe] # "create"
  BY DEF TypeOK, Roles
<1> USE DEF Leased, GoTo, callVars
<1>1. CASE LoopBound(r)
  BY <1>1, <1>t, RuntimeAssumption DEF LoopBound, WithHandle
<1>2. CASE LoopClosed(r)
  BY <1>2, <1>t, RuntimeAssumption DEF LoopClosed, Fails, AfterError, Observed
<1>3. CASE Heal(r)
  BY <1>3, <1>t, RuntimeAssumption DEF Heal
<1>4. CASE LoopWaits(r)
  BY <1>4, <1>t, RuntimeAssumption DEF LoopWaits
<1>5. CASE WaitReturns(r)
  BY <1>5, <1>t, RuntimeAssumption DEF WaitReturns, Fails, AfterError, Observed
<1>6. CASE StartProbe(r)
  BY <1>6, <1>t, RuntimeAssumption DEF StartProbe
<1>7. CASE StartCreation(r)
  BY <1>7, <1>t, RuntimeAssumption DEF StartCreation, AwaitDrain
<1>8. CASE ProbeAnswers(r)
  BY <1>8, <1>t, RuntimeAssumption DEF ProbeAnswers
<1>9. CASE ProbeErrs(r)
  BY <1>9, <1>t, RuntimeAssumption DEF ProbeErrs
<1>10. CASE FinishProbe(r)
  BY <1>10, <1>t, RuntimeAssumption DEF FinishProbe, SignalProbe, Observed
<1>11. CASE FinishAbsentProbe(r)
  BY <1>11, <1>t, RuntimeAssumption DEF FinishAbsentProbe, SignalProbe, WithHandle
<1>12. CASE BeginBinding(r)
  BY <1>12, <1>t, RuntimeAssumption DEF BeginBinding
<1>13. CASE DrainReturns(r)
  BY <1>13, <1>t, RuntimeAssumption DEF DrainReturns
<1>14. CASE Open(r)
  BY <1>14, <1>t, RuntimeAssumption DEF Open
<1>15. CASE OpenFails(r)
  BY <1>15, <1>t, RuntimeAssumption DEF OpenFails
<1>16. CASE Bootstrap(r)
  BY <1>16, <1>t, RuntimeAssumption DEF Bootstrap
<1>17. CASE BootstrapFails(r)
  BY <1>17, <1>t, RuntimeAssumption DEF BootstrapFails
<1>18. CASE FinishBinding(r)
  BY <1>18, <1>t, RuntimeAssumption DEF FinishBinding, SignalBinding, WithHandle, Fails, AfterError,
     Observed
<1>19. CASE FailBinding(r)
  BY <1>19, <1>t, RuntimeAssumption DEF FailBinding, SignalBinding, AfterError, Observed
<1>20. CASE RunCreate(r)
  BY <1>20, <1>t, RuntimeAssumption DEF RunCreate, Release
<1>21. CASE ProcessHandle(r)
  BY <1>21, <1>t, RuntimeAssumption DEF ProcessHandle, Fails, AfterError, Observed
<1>22. CASE OpenObservation(r)
  BY <1>22, <1>t, RuntimeAssumption DEF OpenObservation, Fails, AfterError, Observed
<1>23. CASE Use(r)
  BY <1>23, <1>t, RuntimeAssumption DEF Use, Observed
<1>24. CASE NewSession(r)
  BY <1>24, <1>t, RuntimeAssumption DEF NewSession, Observed
<1>25. CASE Lookup(r)
  BY <1>25, <1>t, RuntimeAssumption DEF Lookup, Observed
<1>26. CASE Classify(r)
  BY <1>26, <1>t, RuntimeAssumption DEF Classify
<1>27. CASE Mark(r)
  BY <1>27, <1>t, RuntimeAssumption DEF Mark, MarkTerminal, SignalBinding
<1>28. CASE Leave(r)
  BY <1>28, <1>t, RuntimeAssumption DEF Leave, Release
<1> QED
  BY <1>1, <1>2, <1>3, <1>4, <1>5, <1>6, <1>7, <1>8, <1>9, <1>10, <1>11, <1>12, <1>13, <1>14, <1>15,
     <1>16, <1>17, <1>18, <1>19, <1>20, <1>21, <1>22, <1>23, <1>24, <1>25, <1>26, <1>27, <1>28 DEF
     RequestStep

LEMMA LeaseTaken ==
    ASSUME TypeOK, LeasesCounted, NEW r \in Requests, ~lease[r],
           lease' = [lease EXCEPT ![r] = TRUE], active' = active + 1,
           drained' = IF active = 0 THEN r ELSE drained
    PROVE  LeasesCounted'
<1> DEFINE L == {q \in Requests : lease[q]}
<1>1. IsFiniteSet(L)
  BY RuntimeAssumption, FS_Subset
<1>2. r \notin L /\ {q \in Requests : lease'[q]} = L \cup {r}
  BY DEF TypeOK
<1>3. Cardinality(L \cup {r}) = active + 1
  BY <1>1, <1>2, FS_AddElement DEF LeasesCounted
<1>4. (active' > 0) = (drained' # Nobody)
  <2>1. active \in Nat /\ (active > 0) = (drained # Nobody) /\ r # Nobody
    BY RuntimeAssumption DEF LeasesCounted, TypeOK
  <2> QED
    BY <2>1
<1> QED
  BY <1>2, <1>3, <1>4 DEF LeasesCounted

LEMMA LeaseReturned ==
    ASSUME TypeOK, LeasesCounted, NEW r \in Requests, Release(r)
    PROVE  LeasesCounted'
<1> DEFINE L == {q \in Requests : lease[q]}
<1>1. IsFiniteSet(L)
  BY RuntimeAssumption, FS_Subset
<1>2. {q \in Requests : lease'[q]} = L \ {r}
  BY DEF TypeOK, Release
<1>3. Cardinality(L \ {r}) = IF lease[r] THEN active - 1 ELSE active
  BY <1>1, FS_RemoveElement DEF LeasesCounted
<1>4. active' = Cardinality({q \in Requests : lease'[q]})
  BY <1>2, <1>3 DEF Release
<1>5. (active' > 0) = (drained' # Nobody)
  <2>1. active \in Nat /\ (active > 0) = (drained # Nobody)
    BY DEF LeasesCounted, TypeOK
  <2>2. lease[r] => active # 0
    <3>1. active = Cardinality(L)
      BY DEF LeasesCounted
    <3>2. lease[r] => L # {}
      OBVIOUS
    <3> QED
      BY <1>1, <3>1, <3>2, FS_EmptySet
  <2> QED
    BY <2>1, <2>2 DEF Release
<1> QED
  BY <1>4, <1>5 DEF LeasesCounted

LEMMA LeasesStep ==
    ASSUME TypeOK, LeasesCounted, Leased, NEW r \in Requests, RequestStep(r)
    PROVE  LeasesCounted'
<1>1. CASE FinishAbsentProbe(r)
  <2>1. ~lease[r]
    BY <1>1 DEF FinishAbsentProbe, Leased
  <2>2. CASE UNCHANGED <<drained, active, lease>>
    BY <2>2 DEF LeasesCounted
  <2>3. CASE ~UNCHANGED <<drained, active, lease>>
    <3>1. /\ lease' = [lease EXCEPT ![r] = TRUE] /\ active' = active + 1
          /\ drained' = IF active = 0 THEN r ELSE drained
      BY <1>1, <2>3 DEF FinishAbsentProbe
    <3> QED
      BY <2>1, <3>1, LeaseTaken
  <2> QED
    BY <2>2, <2>3
<1>2. CASE RunCreate(r) \/ Leave(r)
  BY <1>2, LeaseReturned DEF RunCreate, Leave
<1>3. CASE ~(FinishAbsentProbe(r) \/ RunCreate(r) \/ Leave(r))
  <2>1. UNCHANGED <<drained, active, lease>>
    BY <1>3 DEF RequestStep, LoopBound, LoopClosed, Heal, LoopWaits, WaitReturns, StartProbe,
       StartCreation, ProbeAnswers, ProbeErrs, FinishProbe, BeginBinding, DrainReturns, Open,
       OpenFails, Bootstrap, BootstrapFails, FinishBinding, FailBinding, ProcessHandle,
       OpenObservation, Use, NewSession, Lookup, Classify, Mark,
       signalVars, callVars
  <2> QED
    BY <2>1 DEF LeasesCounted
<1> QED
  BY <1>1, <1>2, <1>3

------------------------------------------------------------------------------
(* Connections.                                                            *)

\* A step of r that leaves the connections alone.
LEMMA ConnectionsKept ==
    ASSUME TypeOK, Connected, NEW r \in Requests,
           UNCHANGED <<conn, opened, epoch, held, hand, control, closePhase>>,
           CurrentIsOpen', (state' = "closed") = (state = "closed"),
           \A q \in Requests \ {r} : pc'[q] = pc[q] /\ purpose'[q] = purpose[q] /\ found'[q] = found[q],
           pc[r] # "finish", pc'[r] # "finish",
           pc'[r] = "open" \/ (pc'[r] = "drain" /\ purpose'[r] # "create") => found'[r] # 0
    PROVE  Connected'
<1>1. \A q \in Requests : InHand(q)'
  BY DEF Connected, InHand
<1> QED
  BY <1>1 DEF Connected, NoConnectionLeaks

LEMMA QuietStep ==
    ASSUME TypeOK, Connected, NEW r \in Requests,
           \/ LoopBound(r) \/ LoopClosed(r) \/ LoopWaits(r) \/ WaitReturns(r) \/ StartProbe(r)
           \/ ProbeAnswers(r) \/ ProbeErrs(r) \/ FinishProbe(r) \/ FinishAbsentProbe(r) \/ DrainReturns(r)
           \/ OpenFails(r) \/ Bootstrap(r) \/ BootstrapFails(r) \/ RunCreate(r) \/ ProcessHandle(r)
           \/ OpenObservation(r) \/ Use(r) \/ NewSession(r) \/ Lookup(r) \/ Classify(r)
           \/ Leave(r)
    PROVE  Connected'
<1>1. /\ UNCHANGED <<state, home, conn, opened, epoch, held, hand, control, closePhase>>
  BY DEF LoopBound, LoopClosed, LoopWaits, WaitReturns, StartProbe, ProbeAnswers, ProbeErrs,
     FinishProbe, FinishAbsentProbe, DrainReturns, OpenFails, Bootstrap, BootstrapFails, RunCreate,
     ProcessHandle, OpenObservation, Use, NewSession, Lookup, Classify, Leave, runtimeVars,
     connVars, setupVars, callVars, otherVars
<1>2. CurrentIsOpen'
  BY <1>1 DEF Connected, CurrentIsOpen
<1>t. /\ pc \in [Requests -> Places] /\ found \in [Requests -> 0..MaxDaemons]
      /\ purpose \in [Requests -> {"acquire", "create", "process", "resolve"}]
      /\ daemon \in 0..MaxDaemons /\ born \in 0..MaxDaemons /\ InHand(r)
  BY DEF TypeOK, Connected
<1>3. /\ \A q \in Requests \ {r} : pc'[q] = pc[q] /\ purpose'[q] = purpose[q] /\ found'[q] = found[q]
      /\ pc[r] # "finish" /\ pc'[r] # "finish"
      /\ pc'[r] = "open" \/ (pc'[r] = "drain" /\ purpose'[r] # "create") => found'[r] # 0
  <2> USE DEF GoTo, setupVars, callVars
  <2>1. CASE LoopBound(r)
    BY <2>1, <1>t, RuntimeAssumption DEF LoopBound, WithHandle
  <2>2. CASE LoopClosed(r)
    BY <2>2, <1>t, RuntimeAssumption DEF LoopClosed, Fails, AfterError, Observed
  <2>3. CASE LoopWaits(r)
    BY <2>3, <1>t, RuntimeAssumption DEF LoopWaits
  <2>4. CASE WaitReturns(r)
    BY <2>4, <1>t, RuntimeAssumption DEF WaitReturns, Fails, AfterError, Observed
  <2>5. CASE StartProbe(r)
    BY <2>5, <1>t, RuntimeAssumption DEF StartProbe
  <2>6. CASE ProbeAnswers(r)
    BY <2>6, <1>t, RuntimeAssumption DEF ProbeAnswers
  <2>7. CASE ProbeErrs(r)
    BY <2>7, <1>t, RuntimeAssumption DEF ProbeErrs
  <2>8. CASE FinishProbe(r)
    BY <2>8, <1>t, RuntimeAssumption DEF FinishProbe, SignalProbe, Observed
  <2>9. CASE FinishAbsentProbe(r)
    BY <2>9, <1>t, RuntimeAssumption DEF FinishAbsentProbe, SignalProbe, WithHandle
  <2>10. CASE DrainReturns(r)
    BY <2>10, <1>t, RuntimeAssumption DEF DrainReturns, InHand
  <2>11. CASE OpenFails(r)
    BY <2>11, <1>t, RuntimeAssumption DEF OpenFails
  <2>12. CASE Bootstrap(r)
    BY <2>12, <1>t, RuntimeAssumption DEF Bootstrap, Materialize, tmuxVars
  <2>13. CASE BootstrapFails(r)
    BY <2>13, <1>t, RuntimeAssumption DEF BootstrapFails
  <2>14. CASE RunCreate(r)
    BY <2>14, <1>t, RuntimeAssumption DEF RunCreate, Release
  <2>15. CASE ProcessHandle(r)
    BY <2>15, <1>t, RuntimeAssumption DEF ProcessHandle, Fails, AfterError, Observed
  <2>16. CASE OpenObservation(r)
    BY <2>16, <1>t, RuntimeAssumption DEF OpenObservation, Fails, AfterError, Observed
  <2>17. CASE Use(r)
    BY <2>17, <1>t, RuntimeAssumption DEF Use, Observed
  <2>18. CASE NewSession(r)
    BY <2>18, <1>t, RuntimeAssumption DEF NewSession, Observed
  <2>19. CASE Lookup(r)
    BY <2>19, <1>t, RuntimeAssumption DEF Lookup, Observed
  <2>20. CASE Classify(r)
    BY <2>20, <1>t, RuntimeAssumption DEF Classify
  <2>21. CASE Leave(r)
    BY <2>21, <1>t, RuntimeAssumption DEF Leave, Release
  <2> QED
    BY <2>1, <2>2, <2>3, <2>4, <2>5, <2>6, <2>7, <2>8, <2>9, <2>10, <2>11, <2>12, <2>13, <2>14,
       <2>15, <2>16, <2>17, <2>18, <2>19, <2>20, <2>21
<1> QED
  BY <1>1, <1>2, <1>3, ConnectionsKept

LEMMA BindingBegins ==
    ASSUME TypeOK, Connected, NEW r \in Requests, StartCreation(r) \/ BeginBinding(r)
    PROVE  Connected'
<1>1. /\ state \in {"unbound", state} /\ state' \in {"binding", state}
      /\ state' # state => state = "unbound"
      /\ UNCHANGED <<home, conn, opened, epoch, held, hand, control, closePhase>>
  BY DEF StartCreation, BeginBinding, connVars, setupVars, callVars, otherVars
<1>2. CurrentIsOpen' /\ (state' = "closed") = (state = "closed")
  BY <1>1 DEF Connected, CurrentIsOpen
<1>3. /\ \A q \in Requests \ {r} : pc'[q] = pc[q] /\ purpose'[q] = purpose[q] /\ found'[q] = found[q]
      /\ pc[r] # "finish" /\ pc'[r] # "finish"
      /\ pc'[r] = "open" \/ (pc'[r] = "drain" /\ purpose'[r] # "create") => found'[r] # 0
  BY DEF StartCreation, BeginBinding, AwaitDrain, GoTo, setupVars, callVars, TypeOK
<1> QED
  BY <1>1, <1>2, <1>3, ConnectionsKept

LEMMA HealKeeps ==
    ASSUME TypeOK, Connected, NEW r \in Requests, Heal(r)
    PROVE  Connected'
<1>1. conn = 0
  BY DEF Connected, CurrentIsOpen, Heal
<1>2. /\ UNCHANGED <<conn, opened, epoch, held, hand, control, closePhase>>
      /\ state' = "unbound" /\ state = "terminal"
  BY <1>1 DEF Heal, Drop, setupVars, callVars, otherVars
<1>3. CurrentIsOpen'
  BY <1>1, <1>2 DEF CurrentIsOpen
<1>4. UNCHANGED <<pc, purpose, found>> /\ pc[r] = "loop"
  BY DEF Heal, setupVars, callVars
<1> QED
  BY <1>2, <1>3, <1>4, ConnectionsKept

LEMMA BindingFails ==
    ASSUME TypeOK, Connected, NEW r \in Requests, FailBinding(r)
    PROVE  Connected'
<1>1. /\ UNCHANGED <<opened, epoch, held, hand, control, closePhase, purpose>>
      /\ pc[r] = "fail"
  BY DEF FailBinding, connVars, setupVars, callVars, otherVars
<1>2. /\ state # "binding" => UNCHANGED <<state, home, conn>>
      /\ state = "binding" => state' \in {"unbound", "terminal"} /\ conn' \in {0, conn}
  BY DEF FailBinding, runtimeVars
<1>3. UNCHANGED conn /\ CurrentIsOpen' /\ (state' = "closed") = (state = "closed")
  BY <1>1, <1>2 DEF Connected, CurrentIsOpen
<1>4. /\ \A q \in Requests \ {r} : pc'[q] = pc[q] /\ found'[q] = found[q]
      /\ pc'[r] \in {"loop", "leave", "mark", "classify"}
  BY DEF FailBinding, GoTo, AfterError, Observed, TypeOK
<1> QED
  BY <1>1, <1>3, <1>4, ConnectionsKept

LEMMA OpenKeeps ==
    ASSUME TypeOK, Connected, NEW r \in Requests, Open(r)
    PROVE  Connected'
<1>1. /\ UNCHANGED <<state, home, conn, control, closePhase, purpose, found>>
      /\ pc' = [pc EXCEPT ![r] = "finish"] /\ pc[r] = "open" /\ found[r] # 0 /\ hand[r] = 0
  BY DEF Open, GoTo, runtimeVars, setupVars, callVars, otherVars, Connected, InHand
<1>2. opened \in Nat /\ conn \in 0..opened
  BY RuntimeAssumption DEF TypeOK, Connected
<1>3. CASE control = FALSE
  <2>1. UNCHANGED <<opened, epoch, held, hand>>
    BY <1>3 DEF Open, Connect, connVars
  <2>2. \A q \in Requests : InHand(q)'
    BY <1>1, <1>3, <2>1 DEF Connected, InHand, TypeOK
  <2> QED
    BY <1>1, <2>1, <2>2 DEF Connected, NoConnectionLeaks, CurrentIsOpen
<1>4. CASE control = TRUE
  <2>1. /\ opened' = opened + 1 /\ opened' \in Connections
        /\ epoch' = [epoch EXCEPT ![opened'] = found[r]]
        /\ held' = [held EXCEPT ![opened'] = TRUE]
        /\ hand' = [hand EXCEPT ![r] = opened']
    BY <1>2, <1>4, RuntimeAssumption DEF Open, Connect, Connections, TypeOK
  <2>2. \A k \in 1..opened : epoch'[k] = epoch[k] /\ held'[k] = held[k]
    <3> SUFFICES ASSUME NEW k \in 1..opened
                 PROVE  epoch'[k] = epoch[k] /\ held'[k] = held[k]
      OBVIOUS
    <3>1. k # opened' /\ k \in Connections
      BY <1>2, <2>1, RuntimeAssumption DEF Connections
    <3> QED
      BY <2>1, <3>1 DEF TypeOK
  <2>3. InHand(r)'
    <3>1. pc'[r] = "finish" /\ hand'[r] = opened' /\ found'[r] = found[r]
      BY <1>1, <2>1 DEF TypeOK
    <3>2. held'[opened'] = TRUE /\ epoch'[opened'] = found[r]
      BY <2>1 DEF TypeOK
    <3>3. opened' \in 1..opened' /\ opened' # 0 /\ opened' # conn'
      BY <1>1, <1>2, <2>1
    <3> QED
      BY <1>1, <1>4, <3>1, <3>2, <3>3 DEF InHand
  <2>4. \A q \in Requests \ {r} : InHand(q)'
    BY <1>1, <1>2, <2>1, <2>2 DEF Connected, InHand, TypeOK
  <2>5. \A q \in Requests : hand[q] \in 0..opened
    BY <1>2 DEF Connected, InHand
  <2>6. \A p, q \in Requests : p # q /\ hand'[p] # 0 => hand'[p] # hand'[q]
    BY <1>1, <1>2, <2>1, <2>5 DEF Connected, TypeOK
  <2>7. NoConnectionLeaks'
    <3> SUFFICES ASSUME NEW k \in 1..opened', held'[k], conn' # k
                 PROVE  \E q \in Requests : hand'[q] = k
      BY DEF NoConnectionLeaks
    <3>1. CASE k = opened'
      BY <2>1, <3>1 DEF TypeOK
    <3>2. CASE k # opened'
      <4>1. k \in 1..opened /\ held[k]
        BY <1>2, <2>1, <2>2, <3>2
      <4>2. PICK q \in Requests : hand[q] = k
        BY <4>1, <1>1 DEF Connected, NoConnectionLeaks
      <4> QED
        BY <1>1, <1>2, <2>1, <4>1, <4>2 DEF TypeOK
    <3> QED
      BY <3>1, <3>2
  <2>8. CurrentIsOpen'
    BY <1>1, <1>2, <2>2 DEF Connected, CurrentIsOpen
  <2> QED
    BY <1>1, <1>2, <2>1, <2>3, <2>4, <2>6, <2>7, <2>8 DEF Connected
<1> QED
  BY <1>3, <1>4, RuntimeAssumption DEF TypeOK

LEMMA DropOne ==
    ASSUME TypeOK, NEW k \in 0..MaxConnections, Drop(k)
    PROVE  /\ \A j \in 1..opened : j # k => epoch'[j] = epoch[j] /\ held'[j] = held[j]
           /\ k # 0 => held'[k] = FALSE
<1>1. \A j \in 1..opened : j \in Connections
  BY RuntimeAssumption DEF TypeOK, Connections
<1>2. CASE k = 0
  BY <1>2 DEF Drop
<1>3. CASE k # 0
  <2>1. held' = [held EXCEPT ![k] = FALSE] /\ epoch' = [epoch EXCEPT ![k] = 0]
    BY <1>3 DEF Drop
  <2>2. k \in Connections
    BY <1>3, RuntimeAssumption DEF Connections
  <2> QED
    BY <1>1, <2>1, <2>2 DEF TypeOK
<1> QED
  BY <1>2, <1>3

LEMMA BindingEnds ==
    ASSUME TypeOK, Connected, NEW r \in Requests, FinishBinding(r)
    PROVE  Connected'
<1>1. /\ UNCHANGED <<opened, control, closePhase>>
      /\ hand' = [hand EXCEPT ![r] = 0] /\ found' = [found EXCEPT ![r] = 0]
      /\ pc[r] = "finish" /\ InHand(r)
  BY DEF FinishBinding, otherVars, Connected
<1>2. /\ \A q \in Requests \ {r} : pc'[q] = pc[q] /\ purpose'[q] = purpose[q]
      /\ pc'[r] \notin {"finish", "open", "drain"}
  BY DEF FinishBinding, Fails, AfterError, Observed, WithHandle, GoTo, TypeOK
<1>3. /\ hand'[r] = 0 /\ opened \in Nat /\ hand[r] \in 0..MaxConnections
      /\ \A q \in Requests \ {r} : hand'[q] = hand[q] /\ found'[q] = found[q]
      /\ \A q \in Requests \ {r} : hand[r] # 0 => hand[q] # hand[r]
  BY <1>1, RuntimeAssumption DEF TypeOK, Connected
<1>4. \A p, q \in Requests : p # q /\ hand'[p] # 0 => hand'[p] # hand'[q]
  BY <1>3 DEF Connected
<1>5. CASE state = "binding"
  <2>1. /\ state' = "bound" /\ home' = found[r] /\ conn' = hand[r]
        /\ UNCHANGED <<epoch, held>>
    BY <1>5 DEF FinishBinding
  <2>2. conn = 0 /\ closePhase = "open"
    BY <1>5 DEF Connected, CurrentIsOpen, TypeOK
  <2>3. InHand(r)'
    BY <1>2, <1>3 DEF InHand
  <2>4. \A q \in Requests \ {r} : InHand(q)'
    BY <1>1, <1>2, <1>3, <2>1 DEF Connected, InHand
  <2>5. NoConnectionLeaks'
    BY <1>1, <1>3, <2>1, <2>2 DEF Connected, NoConnectionLeaks
  <2>6. CurrentIsOpen'
    BY <1>1, <2>1, <2>2, RuntimeAssumption DEF CurrentIsOpen, InHand, TypeOK
  <2>7. conn' <= opened
    BY <1>1, <1>3, <2>1 DEF InHand
  <2> QED
    BY <1>1, <1>4, <2>1, <2>2, <2>3, <2>4, <2>5, <2>6, <2>7 DEF Connected
<1>6. CASE state # "binding"
  <2>1. Drop(hand[r]) /\ UNCHANGED <<state, home, conn>>
    BY <1>6 DEF FinishBinding
  <2>2. \A k \in 1..opened : k # hand[r] => epoch'[k] = epoch[k] /\ held'[k] = held[k]
    BY <1>3, <2>1, DropOne
  <2>3. hand[r] # 0 => held'[hand[r]] = FALSE
    BY <1>3, <2>1, DropOne
  <2>4. InHand(r)'
    BY <1>2, <1>3 DEF InHand
  <2>5. \A q \in Requests \ {r} : InHand(q)'
    BY <1>1, <1>2, <1>3, <2>1, <2>2 DEF Connected, InHand
  <2>6. NoConnectionLeaks'
    <3> SUFFICES ASSUME NEW k \in 1..opened, held'[k], conn # k
                 PROVE  \E q \in Requests : hand'[q] = k
      BY <1>1, <2>1 DEF NoConnectionLeaks
    <3>1. k # hand[r] /\ held[k]
      BY <1>3, <2>2, <2>3
    <3>2. PICK q \in Requests : hand[q] = k
      BY <3>1 DEF Connected, NoConnectionLeaks
    <3> QED
      BY <1>3, <3>1, <3>2
  <2>7. CurrentIsOpen'
    <3>1. conn # 0 => conn \in 1..opened /\ conn # hand[r]
      BY <1>1, <1>3, RuntimeAssumption DEF Connected, InHand, TypeOK
    <3> QED
      BY <1>1, <2>1, <2>2, <3>1 DEF Connected, CurrentIsOpen
  <2> QED
    BY <1>1, <1>4, <2>1, <2>4, <2>5, <2>6, <2>7 DEF Connected
<1> QED
  BY <1>5, <1>6

\* Whoever reports the runtime lost: its connection is closed, and the binders
\* keep theirs.
LEMMA LosingKeeps ==
    ASSUME TypeOK, Connected, NEW e, MarkTerminal(e),
           UNCHANGED <<opened, hand, found, control, closePhase, purpose>>,
           \A q \in Requests : pc'[q] = pc[q] \/ (pc[q] = "mark" /\ pc'[q] = "leave")
    PROVE  Connected'
<1>1. CASE state \in {"terminal", "closed"}
  <2>1. UNCHANGED <<state, home, conn, epoch, held>>
    BY <1>1 DEF MarkTerminal, runtimeVars
  <2>2. \A q \in Requests : InHand(q)'
    BY <2>1 DEF Connected, InHand
  <2> QED
    BY <2>1, <2>2 DEF Connected, NoConnectionLeaks, CurrentIsOpen
<1>2. CASE state \notin {"terminal", "closed"}
  <2>1. state' = "terminal" /\ home' = 0 /\ conn' = 0 /\ Drop(conn)
    BY <1>2 DEF MarkTerminal
  <2>2. opened \in Nat /\ conn \in 0..opened /\ conn \in 0..MaxConnections
    BY RuntimeAssumption DEF TypeOK, Connected
  <2>3. \A k \in 1..opened : k # conn => epoch'[k] = epoch[k] /\ held'[k] = held[k]
    BY <2>1, <2>2, DropOne
  <2>4. conn # 0 => held'[conn] = FALSE
    BY <2>1, <2>2, DropOne
  <2>5. \A q \in Requests : InHand(q)'
    BY <2>1, <2>2, <2>3 DEF Connected, InHand
  <2>6. NoConnectionLeaks'
    BY <2>1, <2>3, <2>4 DEF Connected, NoConnectionLeaks
  <2>7. CurrentIsOpen'
    BY <2>1 DEF CurrentIsOpen
  <2> QED
    BY <1>2, <2>1, <2>2, <2>5, <2>6, <2>7 DEF Connected
<1> QED
  BY <1>1, <1>2

LEMMA ConnectedStep ==
    ASSUME TypeOK, Connected, NEW r \in Requests, RequestStep(r)
    PROVE  Connected'
<1>1. CASE Mark(r)
  BY <1>1, LosingKeeps DEF Mark, GoTo, setupVars, callVars, otherVars, TypeOK
<1> QED
  BY <1>1, QuietStep, BindingBegins, HealKeeps, BindingFails, OpenKeeps, BindingEnds DEF RequestStep

------------------------------------------------------------------------------
(* Close, and the world.                                                   *)

LEMMA ReleaseKeeps ==
    ASSUME RuntimeInv, ReleaseObservation
    PROVE  RuntimeInv'
<1>1. TypeOK /\ Roles /\ Parked /\ LeasesCounted /\ Leased /\ Connected
  BY DEF RuntimeInv
<1>2. /\ UNCHANGED <<probe, drained, active, tmuxVars, opened, pc, setupVars, callVars, handle, err,
                     ctxDone, watch, closePhase>>
      /\ releasing > 0 /\ releasing' = releasing - 1
  BY DEF ReleaseObservation
<1>3. LeasesCounted' /\ Leased'
  BY <1>1, <1>2 DEF LeasesCounted, Leased, callVars
<1>4. CASE UNCHANGED <<runtimeVars, binding, epoch, held, waits>>
  <2>1. TypeOK'
    BY <1>1, <1>2, <1>4 DEF TypeOK, runtimeVars, tmuxVars, setupVars, callVars
  <2>2. Roles' /\ Parked' /\ Connected'
    BY <1>1, <1>2, <1>4 DEF Roles, Parked, Connected, InHand, NoConnectionLeaks, CurrentIsOpen,
       runtimeVars, setupVars, callVars
  <2> QED
    BY <1>3, <2>1, <2>2 DEF RuntimeInv
<1>5. CASE MarkTerminal("lost")
  <2>1. TypeOK'
    BY <1>1, <1>2, <1>5, MarkType DEF TypeOK, tmuxVars, setupVars, callVars, Errors
  <2>2. Roles'
    BY <1>1, <1>2, <1>5 DEF MarkTerminal, SignalBinding, Roles, runtimeVars, callVars
  <2>3. Parked'
    BY <1>1, <1>2, <1>5 DEF MarkTerminal, SignalBinding, Parked, Woken
  <2>4. Connected'
    BY <1>1, <1>2, <1>5, LosingKeeps DEF setupVars, callVars
  <2> QED
    BY <1>3, <2>1, <2>2, <2>3, <2>4 DEF RuntimeInv
<1> QED
  BY <1>4, <1>5 DEF ReleaseObservation

LEMMA CloseKeeps ==
    ASSUME RuntimeInv, CloseRuntime
    PROVE  RuntimeInv'
<1>1. TypeOK /\ Roles /\ Parked /\ LeasesCounted /\ Leased /\ Connected
  BY DEF RuntimeInv
<1>2. /\ UNCHANGED <<home, conn, drained, active, tmuxVars, connVars, pc, setupVars, callVars, handle,
                     err, ctxDone, watch, releasing>>
      /\ closePhase = "open" /\ closePhase' = "closing" /\ state' = "closed"
      /\ cause' = (IF cause = "none" THEN "closed" ELSE cause)
      /\ probe' = Nobody /\ binding' = Nobody
  BY DEF CloseRuntime
<1>3. \A r \in Requests :
        waits'[r] = IF waits[r] \in {<<"probe", probe>>, <<"binding", binding>>} THEN Nobody ELSE waits[r]
  BY DEF CloseRuntime
<1>4. waits' \in [Requests -> Channels \cup {Nobody}]
  BY <1>1 DEF CloseRuntime, TypeOK
<1>5. TypeOK'
  BY <1>1, <1>2, <1>4 DEF TypeOK, Owners, Errors, tmuxVars, connVars, setupVars, callVars
<1>6. Roles' /\ LeasesCounted' /\ Leased'
  BY <1>1, <1>2 DEF Roles, LeasesCounted, Leased, callVars
<1>7. Parked'
  BY <1>1, <1>2, <1>3 DEF Parked
<1>8. Connected'
  BY <1>1, <1>2 DEF Connected, InHand, NoConnectionLeaks, CurrentIsOpen, connVars, setupVars, callVars
<1> QED
  BY <1>5, <1>6, <1>7, <1>8 DEF RuntimeInv

LEMMA ClosedKeeps ==
    ASSUME RuntimeInv, CloseConnections
    PROVE  RuntimeInv'
<1>1. TypeOK /\ Roles /\ Parked /\ LeasesCounted /\ Leased /\ Connected
  BY DEF RuntimeInv
<1>2. /\ UNCHANGED <<runtimeVars, signalVars, tmuxVars, opened, pc, waits, setupVars, callVars, handle,
                     err, ctxDone, watch, releasing>>
      /\ closePhase = "closing" /\ closePhase' = "closed" /\ Drop(conn)
  BY DEF CloseConnections
<1>3. conn \in 0..MaxConnections /\ opened \in Nat /\ conn \in 0..opened
  BY <1>1, RuntimeAssumption DEF TypeOK, Connected
<1>4. TypeOK'
  <2>1. epoch' \in [Connections -> 0..MaxDaemons] /\ held' \in [Connections -> BOOLEAN]
    BY <1>1, <1>2, <1>3, DropType
  <2> QED
    BY <1>1, <1>2, <2>1 DEF TypeOK, runtimeVars, signalVars, tmuxVars, setupVars, callVars
<1>5. Roles' /\ Parked' /\ LeasesCounted' /\ Leased'
  BY <1>1, <1>2 DEF Roles, Parked, LeasesCounted, Leased, runtimeVars, signalVars, callVars
<1>6. Connected'
  <2>1. /\ \A k \in 1..opened : k # conn => epoch'[k] = epoch[k] /\ held'[k] = held[k]
        /\ conn # 0 => held'[conn] = FALSE
    BY <1>1, <1>2, <1>3, DropOne
  <2>2. state = "closed" /\ UNCHANGED <<state, home, conn, opened, hand, found, control, pc, purpose>>
    BY <1>1, <1>2 DEF Connected, runtimeVars, setupVars, callVars
  <2>3. \A q \in Requests : InHand(q)'
    BY <1>1, <2>1, <2>2 DEF Connected, InHand
  <2>4. NoConnectionLeaks' /\ CurrentIsOpen'
    BY <1>1, <1>2, <2>1, <2>2 DEF Connected, NoConnectionLeaks, CurrentIsOpen
  <2> QED
    BY <1>1, <1>2, <2>2, <2>3, <2>4 DEF Connected
<1> QED
  BY <1>4, <1>5, <1>6 DEF RuntimeInv

\* What happens outside changes none of the books.
LEMMA WorldKeeps ==
    ASSUME RuntimeInv,
           \/ \E r \in Requests : CancelContext(r)
           \/ DaemonStarts \/ DaemonExits \/ UNCHANGED vars
    PROVE  RuntimeInv'
<1>1. /\ UNCHANGED <<runtimeVars, signalVars, connVars, pc, waits, setupVars, callVars, handle, err, watch,
                     releasing, closePhase>>
  BY DEF CancelContext, DaemonStarts, DaemonExits, vars, otherVars
<1>2. /\ daemon' \in 0..MaxDaemons /\ born' \in 0..MaxDaemons
      /\ ctxDone' \in [Requests -> BOOLEAN]
  <2>1. daemon \in 0..MaxDaemons /\ born \in 0..MaxDaemons /\ ctxDone \in [Requests -> BOOLEAN]
    BY DEF RuntimeInv, TypeOK
  <2>2. CASE \E r \in Requests : CancelContext(r)
    BY <2>1, <2>2 DEF CancelContext, tmuxVars
  <2>3. CASE DaemonStarts \/ DaemonExits
    BY <2>1, <2>3, RuntimeAssumption DEF DaemonStarts, DaemonExits, otherVars
  <2> QED
    BY <2>1, <2>2, <2>3 DEF vars, tmuxVars, otherVars
<1>3. TypeOK'
  BY <1>1, <1>2 DEF RuntimeInv, TypeOK, runtimeVars, signalVars, connVars, setupVars, callVars
<1>4. Roles' /\ Parked' /\ LeasesCounted' /\ Leased'
  BY <1>1 DEF RuntimeInv, Roles, Parked, LeasesCounted, Leased, runtimeVars, signalVars, callVars
<1>5. Connected'
  BY <1>1 DEF RuntimeInv, Connected, InHand, NoConnectionLeaks, CurrentIsOpen, runtimeVars, connVars,
     setupVars, callVars
<1> QED
  BY <1>3, <1>4, <1>5 DEF RuntimeInv

LEMMA RuntimeStep ==
    ASSUME RuntimeInv, [Next]_vars
    PROVE  RuntimeInv'
<1>1. ASSUME NEW r \in Requests, RequestStep(r)
      PROVE  RuntimeInv'
  <2>1. TypeOK /\ Roles /\ Parked /\ LeasesCounted /\ Leased /\ Connected
    BY DEF RuntimeInv
  <2>2. active = 0 => \A s \in Requests : ~lease[s]
    <3>1. IsFiniteSet({s \in Requests : lease[s]})
      BY RuntimeAssumption, FS_Subset
    <3>2. active = 0 => {s \in Requests : lease[s]} = {}
      BY <2>1, <3>1, FS_EmptySet DEF LeasesCounted
    <3> QED
      BY <3>2
  <2>3. TypeOK'
    BY <1>1, <2>1, <2>2, TypeStep DEF Connected
  <2>4. Roles' /\ Parked' /\ LeasesCounted' /\ Leased' /\ Connected'
    BY <1>1, <2>1, RolesStep, ParkedStep, LeasesStep, LeasedStep, ConnectedStep
  <2> QED
    BY <2>3, <2>4 DEF RuntimeInv
<1> QED
  BY <1>1, ReleaseKeeps, CloseKeeps, ClosedKeeps, WorldKeeps DEF Next

------------------------------------------------------------------------------
\* The invariant of the runtime.
THEOREM RuntimeInvariant == Spec => []RuntimeInv
<1>1. Init => RuntimeInv
  BY InitRuntime
<1>2. RuntimeInv /\ [Next]_vars => RuntimeInv'
  BY RuntimeStep
<1> QED
  BY <1>1, <1>2, PTL DEF Spec

\* For any number of tool calls: types, exact leases, and a connection that was
\* opened is the runtime's, in its binder's hands, or closed; the current one is
\* open, and to the daemon the runtime is bound to (finishBinding, observe, Close).
THEOREM RuntimeCorrect == Spec => []RuntimeOK
<1>1. RuntimeInv => RuntimeOK
  BY DEF RuntimeInv, RuntimeOK, Connected
<1> QED
  BY <1>1, RuntimeInvariant, PTL

\* Whoever is parked waits for a channel that its owner still has to close, in
\* whatever order probes, bindings, losses and Close meet (waitRuntime).
THEOREM WaitersHaveOwners == Spec => []NobodyStranded
<1>1. RuntimeInv => NobodyStranded
  BY DEF RuntimeInv, NobodyStranded, Roles, Parked
<1> QED
  BY <1>1, RuntimeInvariant, PTL

\* A binder that comes late neither replaces the current connection nor revives
\* a closed runtime (finishBinding, failBinding, observe, heal).
THEOREM ConnectionNeverSwitched == Spec => NoSilentSwitch
<1>1. [Next]_vars => [/\ state = "closed" => state' = "closed"
                      /\ state = "bound" => state' # "unbound" /\ state' # "binding"
                      /\ state = "bound" /\ state' = "bound" => conn' = conn /\ home' = home]_vars
  <2> SUFFICES ASSUME Next, UNCHANGED <<state, conn, home>> => FALSE
               PROVE  /\ state = "closed" => state' = "closed"
                      /\ state = "bound" => state' # "unbound" /\ state' # "binding"
                      /\ state = "bound" /\ state' = "bound" => conn' = conn /\ home' = home
    OBVIOUS
  <2>1. CASE \E r \in Requests : Heal(r) \/ StartCreation(r) \/ BeginBinding(r) \/ FinishBinding(r)
                                 \/ FailBinding(r) \/ Mark(r)
    BY <2>1 DEF Heal, StartCreation, BeginBinding, FinishBinding, FailBinding, Mark, MarkTerminal,
       runtimeVars
  <2>2. CASE ReleaseObservation \/ CloseRuntime
    BY <2>2 DEF ReleaseObservation, MarkTerminal, CloseRuntime, runtimeVars
  <2>3. ASSUME NEW r \in Requests, RequestStep(r),
               ~(Heal(r) \/ StartCreation(r) \/ BeginBinding(r) \/ FinishBinding(r) \/ FailBinding(r) \/ Mark(r))
        PROVE  UNCHANGED <<state, conn, home>>
    BY <2>3 DEF RequestStep, LoopBound, LoopClosed, LoopWaits, WaitReturns, StartProbe,
       ProbeAnswers, ProbeErrs,
       FinishProbe, FinishAbsentProbe, DrainReturns, Open, OpenFails, Bootstrap, BootstrapFails, RunCreate,
       ProcessHandle, OpenObservation, Use, NewSession, Lookup, Classify, Leave, runtimeVars
  <2>4. CASE CloseConnections \/ DaemonStarts \/ DaemonExits \/ \E r \in Requests : CancelContext(r)
    BY <2>4 DEF CloseConnections, DaemonStarts, DaemonExits, CancelContext, runtimeVars
  <2> QED
    BY <2>1, <2>2, <2>3, <2>4 DEF Next
<1> QED
  BY <1>1, PTL DEF Spec, NoSilentSwitch
==============================================================================
