--------------------------- MODULE McpInstance_proofs ---------------------------
(***************************************************************************)
(* Shutdown leaves nobody behind, for any number of sessions and calls.     *)
(* The invariant follows a session from Connect to its end: where it has a  *)
(* connection, where it may have work, and that after the close began it    *)
(* can only go towards its end.                                             *)
(* The accounts follow from a second one: until the close the ledger of a   *)
(* living session is its work, every other is empty or about to be, and     *)
(* what is empty after a terminal failure stays so.                         *)
(***************************************************************************)
EXTENDS McpInstance, FiniteSetTheorems, TLAPS

Phases == {"idle", "probing", "joining", "joined", "refusing", "serving", "refused", "ended"}
Links  == {"none", "up", "down", "reported"}

SessionTypes ==
    /\ phase \in [Sessions -> Phases] /\ link \in [Sessions -> Links]
    /\ work \in [Sessions -> [Calls -> {"none", "queued", "running", "answered"}]]
    /\ shutdown \in {"no", "connecting", "joining", "runtime", "done"} /\ targets \subseteq Sessions

Idle(s) == \A id \in Calls : work[s][id] = "none"

\* Before it serves and after it ended a session has no work, and only in
\* between a connection.
Lifetime(s) ==
    /\ phase[s] \in {"idle", "probing", "joining"} => link[s] = "none"
    /\ phase[s] \in {"refused", "ended"} => link[s] # "up"
    /\ phase[s] \notin {"serving", "refusing"} => Idle(s)

\* How far the shutdown has come with it.
Closing(s) ==
    /\ shutdown \in {"joining", "runtime", "done"} =>
         phase[s] \in {"idle", "refused", "ended"} \/ (phase[s] = "serving" /\ s \in targets)
    /\ shutdown \in {"runtime", "done"} /\ s \in targets => phase[s] = "ended"

ShutdownInv ==
    /\ SessionTypes
    /\ shutdown # "no" => closing
    /\ \A s \in Sessions : Lifetime(s) /\ Closing(s)

\* A step that changes neither sessions nor the shutdown.
LEMMA Undisturbed ==
    ASSUME ShutdownInv, UNCHANGED <<phase, link, work, shutdown, targets>>, closing => closing'
    PROVE  ShutdownInv'
  BY DEF ShutdownInv, SessionTypes, Lifetime, Closing, Idle

\* A step of one session.
LEMMA SessionKeeps ==
    ASSUME ShutdownInv, NEW s \in Sessions,
           \/ SessionStep(s) \/ Connect(s) \/ ServerConnects(s) \/ ServerConnectFails(s)
           \/ Disconnect(s) \/ CloseSession(s)
           \/ \E id \in Calls : Admit(s, id) \/ Refuse(s, id) \/ HandlerReturns(s, id) \/ Settle(s, id)
    PROVE  ShutdownInv'
<1> USE DEF ShutdownInv
<1>1. SessionTypes /\ Lifetime(s) /\ Closing(s)
  OBVIOUS
<1>2. closing' = closing /\ UNCHANGED <<shutdown, targets>>
  BY DEF SessionStep, Connect, CheckVersion, ServerConnects, ServerConnectFails, Register,
     CloseRefused, ConnectReturns, Admit, Refuse, Begin, HandlerReturns, Settle, DropResponse,
     Disconnect, Report, CloseSession, SessionEnds, CloseTarget, instanceVars, closeVars
<1>3. SUFFICES /\ SessionTypes'
               /\ \A b \in Sessions \ {s} : phase'[b] = phase[b] /\ link'[b] = link[b] /\ work'[b] = work[b]
               /\ Lifetime(s)' /\ Closing(s)'
  BY <1>1, <1>2 DEF Lifetime, Closing, Idle
<1> USE DEF GoTo, TakeDown, Phases, Links
<1>4. CASE \/ Connect(s) \/ CheckVersion(s) \/ ServerConnects(s) \/ ServerConnectFails(s)
           \/ Register(s) \/ ConnectReturns(s) \/ SessionEnds(s)
  <2>1. /\ work' = work
        /\ \E p \in Phases : phase' = [phase EXCEPT ![s] = p]
        /\ link' = link \/ \E l \in Links : link' = [link EXCEPT ![s] = l]
    BY <1>4 DEF Connect, CheckVersion, ServerConnects, ServerConnectFails, Register,
       ConnectReturns, SessionEnds
  <2>2. SessionTypes' /\ \A b \in Sessions \ {s} :
                             phase'[b] = phase[b] /\ link'[b] = link[b] /\ work'[b] = work[b]
    BY <1>1, <1>2, <2>1 DEF SessionTypes
  <2>3. Lifetime(s)'
    BY <1>1, <1>4, <2>1 DEF SessionTypes, Lifetime, Idle, Connect, CheckVersion, ServerConnects,
       ServerConnectFails, Register, ConnectReturns, SessionEnds
  <2>4. Closing(s)'
    BY <1>1, <1>2, <1>4, <2>1 DEF SessionTypes, Closing, Connect, CheckVersion, ServerConnects,
       ServerConnectFails, Register, ConnectReturns, SessionEnds
  <2> QED
    BY <2>2, <2>3, <2>4
<1>5. CASE CloseRefused(s) \/ Disconnect(s) \/ Report(s) \/ CloseSession(s) \/ CloseTarget(s)
           \/ \E id \in Calls : Refuse(s, id)
  <2>1. /\ work' = work /\ phase' = phase
        /\ \E l \in Links : link' = [link EXCEPT ![s] = l] /\ (l = "up" => link[s] = "up")
                            /\ (link[s] = "none" => l = "none")
    BY <1>1, <1>5 DEF SessionTypes, CloseRefused, Disconnect, Report, CloseSession, CloseTarget, Refuse
  <2> QED
    BY <1>1, <1>2, <2>1 DEF SessionTypes, Lifetime, Closing, Idle
<1>6. ASSUME NEW id \in Calls, Admit(s, id) \/ Begin(s, id) \/ HandlerReturns(s, id) \/ Settle(s, id) \/ DropResponse(s, id)
      PROVE  SessionTypes' /\ Lifetime(s)' /\ Closing(s)' /\ phase' = phase /\ link' = link
             /\ \A b \in Sessions \ {s} : work'[b] = work[b]
  <2>1. /\ phase' = phase /\ link' = link
        /\ \E w \in {"none", "queued", "running", "answered"} : work' = [work EXCEPT ![s][id] = w]
        /\ phase[s] \in {"serving", "refusing"} \/ work[s][id] # "none"
    BY <1>6 DEF Admit, Begin, HandlerReturns, Settle, DropResponse, Reading
  <2>2. phase[s] \in {"serving", "refusing"}
    BY <1>1, <2>1 DEF Lifetime, Idle
  <2> QED
    BY <1>1, <1>2, <2>1, <2>2 DEF SessionTypes, Lifetime, Closing, Idle
<1> QED
  BY <1>4, <1>5, <1>6 DEF SessionStep

LEMMA InvStep == ShutdownInv /\ [Next]_vars => ShutdownInv'
<1> SUFFICES ASSUME ShutdownInv, [Next]_vars PROVE ShutdownInv'
  OBVIOUS
<1>1. CASE UNCHANGED vars
  BY <1>1, Undisturbed DEF vars, instanceVars, terminalVars, closeVars
<1>2. CASE \/ Terminal \/ TerminateScopes \/ TimerFires
           \/ \E c \in Closers : CloseContext(c) \/ CloseGivesUp(c) \/ CloseReturns(c)
  <2>1. UNCHANGED <<phase, link, work, shutdown, targets>> /\ (closing => closing')
    BY <1>2 DEF Terminal, TerminateScopes, TimerFires, CloseContext, CloseGivesUp, CloseReturns,
       instanceVars, closeVars
  <2> QED
    BY <2>1, Undisturbed
<1>3. CASE StartClose
  BY <1>3 DEF StartClose, ShutdownInv, SessionTypes, Lifetime, Closing, Idle
<1>4. CASE Collect
  <2>1. /\ shutdown' = "joining" /\ targets' = Registered /\ UNCHANGED <<phase, link, work, closing>>
        /\ Connecting = {} /\ shutdown = "connecting"
    BY <1>4 DEF Collect, instanceVars
  <2>2. \A s \in Sessions : phase[s] \in {"idle", "refused", "ended"} \/ (phase[s] = "serving" /\ s \in targets')
    BY <2>1 DEF Connecting, Registered, ShutdownInv, SessionTypes, Phases
  <2> QED
    BY <2>1, <2>2 DEF Registered, ShutdownInv, SessionTypes, Lifetime, Closing, Idle
<1>5. CASE CloseRuntime \/ CloseDone
  <2>1. UNCHANGED <<phase, link, work, closing, targets>>
    BY <1>5 DEF CloseRuntime, CloseDone, instanceVars
  <2> QED
    BY <1>5, <2>1 DEF CloseRuntime, CloseDone, ShutdownInv, SessionTypes, Lifetime, Closing, Idle
<1> QED
  BY <1>1, <1>2, <1>3, <1>4, <1>5, SessionKeeps DEF Next, InstanceStep

\* Close and a terminal failure close the runtime only when every Connect that
\* raced with them has returned, every session has ended without a connection,
\* and no handler runs: for any number of sessions, calls and callers of Close.
THEOREM ShutdownIsComplete == Spec => []NothingOutlivesShutdown
<1>1. Init => ShutdownInv
  BY DEF Init, ShutdownInv, SessionTypes, Lifetime, Closing, Idle, Phases, Links
<1>2. ShutdownInv => NothingOutlivesShutdown
  BY DEF ShutdownInv, SessionTypes, Lifetime, Closing, Idle, NothingOutlivesShutdown
<1> QED
  BY <1>1, <1>2, InvStep, PTL DEF Spec

------------------------------------------------------------------------------
(* The accounts.                                                           *)

\* The calls that living clients wait for.
Active == {x \in Sessions \X Calls : link[x[1]] = "up" /\ x[2] \in Working(x[1])}

\* The ledger of one session.
Ledgers(s) ==
    /\ link[s] = "up" /\ shutdown = "no" => ledger[s] = Working(s)
    /\ link[s] \in {"none", "reported"} => ledger[s] = {}
    /\ shutdown # "no" => ledger[s] = {}
    /\ link[s] = "up" => Cardinality(Working(s)) <= MaxSessionCalls

\* After a terminal failure the ledger only shrinks, and it is empty for good
\* when that is a reason to close.
Drained ==
    /\ terminalErr => closing
    /\ draining = "scopes" => terminalErr
    /\ "empty" \in due \/ (draining = "scopes" /\ ~awaitResponse)
         => closing /\ \A s \in Sessions : ledger[s] = {}

AccountInv ==
    /\ TypeOK /\ ShutdownInv /\ Drained
    /\ \A s \in Sessions : Ledgers(s)
    /\ Cardinality(Active) <= MaxInstanceCalls

\* Everything that is counted is finite.
LEMMA Finite ==
    ASSUME TypeOK
    PROVE  /\ IsFiniteSet(Active) /\ IsFiniteSet(Unsettled(ledger))
           /\ \A s \in Sessions : IsFiniteSet(ledger[s]) /\ IsFiniteSet(Working(s))
           /\ Cardinality(Active) \in Nat /\ Cardinality(Unsettled(ledger)) \in Nat
           /\ \A s \in Sessions : Cardinality(ledger[s]) \in Nat /\ Cardinality(Working(s)) \in Nat
<1>1. IsFiniteSet(Sessions \X Calls)
  BY InstanceAssumption, FS_Product
<1>2. /\ Active \in SUBSET (Sessions \X Calls) /\ Unsettled(ledger) \in SUBSET (Sessions \X Calls)
      /\ \A s \in Sessions : ledger[s] \in SUBSET Calls /\ Working(s) \in SUBSET Calls
  BY DEF TypeOK, Active, Unsettled, Working
<1>3. IsFiniteSet(Active) /\ IsFiniteSet(Unsettled(ledger))
  BY <1>1, <1>2, FS_Subset
<1>4. \A s \in Sessions : IsFiniteSet(ledger[s]) /\ IsFiniteSet(Working(s))
  BY <1>2, FS_Subset, InstanceAssumption
<1> QED
  BY <1>3, <1>4, FS_CardinalityType

LEMMA Smaller ==
    ASSUME NEW S, IsFiniteSet(S), NEW T, T \subseteq S, NEW n \in Nat, Cardinality(S) <= n
    PROVE  Cardinality(T) <= n
<1>1. IsFiniteSet(T) /\ Cardinality(T) <= Cardinality(S)
  BY FS_Subset
<1>2. Cardinality(S) \in Nat /\ Cardinality(T) \in Nat
  BY <1>1, FS_CardinalityType
<1> QED
  BY <1>1, <1>2

LEMMA Grows ==
    ASSUME NEW S, IsFiniteSet(S), NEW x, NEW T, T \subseteq S \cup {x}, NEW n \in Nat, Cardinality(S) < n
    PROVE  Cardinality(T) <= n
<1>1. IsFiniteSet(S \cup {x}) /\ Cardinality(S \cup {x}) \in {Cardinality(S), Cardinality(S) + 1}
  BY FS_AddElement
<1>2. Cardinality(S) \in Nat
  BY FS_CardinalityType
<1>3. Cardinality(S \cup {x}) <= n
  BY <1>1, <1>2
<1> QED
  BY <1>1, <1>3, Smaller

\* A step of session s that admits no call: its own account is all that counts.
LEMMA OneAccount ==
    ASSUME AccountInv, NEW s \in Sessions, shutdown' = shutdown,
           \A b \in Sessions \ {s} : link'[b] = link[b] /\ work'[b] = work[b] /\ ledger'[b] = ledger[b],
           link'[s] = "up" => (link[s] = "up" /\ Working(s)' \subseteq Working(s)) \/ Working(s)' = {},
           link'[s] = "up" /\ shutdown = "no" => ledger'[s] = Working(s)',
           link'[s] \in {"none", "reported"} => ledger'[s] = {},
           shutdown # "no" => ledger'[s] = {}
    PROVE  (\A b \in Sessions : Ledgers(b)') /\ Cardinality(Active') <= MaxInstanceCalls
<1>1. /\ \A b \in Sessions : Ledgers(b)
      /\ Cardinality(Active) <= MaxInstanceCalls /\ IsFiniteSet(Active)
      /\ MaxInstanceCalls \in Nat /\ MaxSessionCalls \in Nat
      /\ \A b \in Sessions : IsFiniteSet(Working(b))
  BY Finite, InstanceAssumption DEF AccountInv
<1>2. \A b \in Sessions \ {s} : Working(b)' = Working(b)
  BY DEF Working
<1>3. Active' \subseteq Active
  BY <1>2 DEF Active
<1>4. Cardinality(Active') <= MaxInstanceCalls
  BY <1>1, <1>3, Smaller
<1>5. \A b \in Sessions \ {s} : Ledgers(b)'
  BY <1>1, <1>2 DEF Ledgers
<1>6. link'[s] = "up" => Cardinality(Working(s)') <= MaxSessionCalls
  <2>1. CASE link'[s] = "up" /\ link[s] = "up" /\ Working(s)' \subseteq Working(s)
    <3>1. Cardinality(Working(s)) <= MaxSessionCalls
      BY <1>1, <2>1 DEF Ledgers
    <3> QED
      BY <1>1, <2>1, <3>1, Smaller
  <2>2. CASE Working(s)' = {}
    BY <1>1, <2>2, FS_EmptySet
  <2> QED
    BY <2>1, <2>2
<1>7. Ledgers(s)'
  BY <1>6 DEF Ledgers
<1> QED
  BY <1>4, <1>5, <1>7

\* requestRead admits within both limits.
LEMMA AdmitAccount ==
    ASSUME AccountInv, NEW s \in Sessions, NEW id \in Calls, Admit(s, id)
    PROVE  (\A b \in Sessions : Ledgers(b)') /\ Cardinality(Active') <= MaxInstanceCalls
<1>1. /\ \A b \in Sessions : Ledgers(b)
      /\ MaxInstanceCalls \in Nat /\ MaxSessionCalls \in Nat
      /\ \A b \in Sessions : IsFiniteSet(Working(b)) /\ IsFiniteSet(ledger[b])
      /\ IsFiniteSet(Unsettled(ledger))
      /\ shutdown # "no" => closing
  BY Finite, InstanceAssumption DEF AccountInv, ShutdownInv
<1>2. /\ link[s] = "up" /\ shutdown = "no" /\ UNCHANGED <<link, shutdown>>
      /\ Cardinality(ledger[s]) < MaxSessionCalls /\ Cardinality(Unsettled(ledger)) < MaxInstanceCalls
      /\ ledger' = [ledger EXCEPT ![s] = @ \cup {id}] /\ work' = [work EXCEPT ![s][id] = "queued"]
  BY <1>1 DEF Admit, Reading, Admissible, closeVars
<1>3. ledger \in [Sessions -> SUBSET Calls]
      /\ work \in [Sessions -> [Calls -> {"none", "queued", "running", "answered"}]]
  BY DEF AccountInv, TypeOK
<1>4. /\ ledger'[s] = ledger[s] \cup {id} /\ Working(s)' = Working(s) \cup {id}
      /\ \A b \in Sessions \ {s} : ledger'[b] = ledger[b] /\ Working(b)' = Working(b)
  BY <1>2, <1>3 DEF Working
<1>5. \A b \in Sessions : link[b] = "up" => ledger[b] = Working(b)
  BY <1>1, <1>2 DEF Ledgers
<1>6. Active' \subseteq Unsettled(ledger) \cup {<<s, id>>}
  BY <1>2, <1>4, <1>5 DEF Active, Unsettled
<1>7. Cardinality(Active') <= MaxInstanceCalls
  BY <1>1, <1>2, <1>6, Grows
<1>8. Cardinality(Working(s)') <= MaxSessionCalls
  <2>1. Working(s)' \subseteq ledger[s] \cup {id}
    BY <1>2, <1>4, <1>5
  <2> QED
    BY <1>1, <1>2, <2>1, Grows
<1>9. \A b \in Sessions \ {s} : Ledgers(b)'
  BY <1>1, <1>2, <1>4 DEF Ledgers
<1>10. Ledgers(s)'
  BY <1>2, <1>4, <1>5, <1>8 DEF Ledgers
<1> QED
  BY <1>7, <1>9, <1>10

Turn(s) ==
    \/ SessionStep(s) \/ Connect(s) \/ ServerConnects(s) \/ ServerConnectFails(s)
    \/ Disconnect(s) \/ CloseSession(s)
    \/ \E id \in Calls : Admit(s, id) \/ Refuse(s, id) \/ HandlerReturns(s, id) \/ Settle(s, id)

\* A step of one session keeps every account.
LEMMA SessionAccount ==
    ASSUME AccountInv, NEW s \in Sessions, Turn(s)
    PROVE  (\A b \in Sessions : Ledgers(b)') /\ Cardinality(Active') <= MaxInstanceCalls
<1>1. /\ ledger \in [Sessions -> SUBSET Calls] /\ link \in [Sessions -> Links]
      /\ phase \in [Sessions -> Phases]
      /\ work \in [Sessions -> [Calls -> {"none", "queued", "running", "answered"}]]
      /\ Ledgers(s) /\ Lifetime(s)
  BY DEF AccountInv, TypeOK, ShutdownInv, Links, Phases
<1>2. UNCHANGED <<shutdown, targets, closing>>
  BY DEF Turn, SessionStep, Connect, CheckVersion, ServerConnects, ServerConnectFails, Register,
     CloseRefused, ConnectReturns, Admit, Refuse, Begin, HandlerReturns, Settle, DropResponse,
     Disconnect, Report, CloseSession, SessionEnds, CloseTarget, instanceVars, closeVars
<1>3. CASE Connect(s) \/ CheckVersion(s) \/ Register(s) \/ ConnectReturns(s) \/ SessionEnds(s)
  <2>1. UNCHANGED <<link, work, ledger>>
    BY <1>3 DEF Connect, CheckVersion, Register, ConnectReturns, SessionEnds
  <2>2. Working(s)' = Working(s)
    BY <2>1 DEF Working
  <2> QED
    BY <1>1, <1>2, <2>1, <2>2, OneAccount DEF Ledgers
<1>4. CASE ServerConnects(s) \/ ServerConnectFails(s)
  <2>1. /\ phase[s] = "joining" /\ UNCHANGED <<work, ledger>>
        /\ \E l \in {"none", "up", "down"} : link' = [link EXCEPT ![s] = l]
    BY <1>4 DEF ServerConnects, ServerConnectFails
  <2>2. link[s] = "none" /\ Idle(s)
    BY <1>1, <2>1 DEF Lifetime
  <2>3. Working(s)' = {} /\ ledger[s] = {}
    BY <1>1, <2>1, <2>2 DEF Working, Idle, Ledgers
  <2> QED
    BY <1>1, <1>2, <2>1, <2>3, OneAccount
<1>5. CASE CloseRefused(s) \/ Disconnect(s) \/ CloseSession(s) \/ CloseTarget(s) \/ \E id \in Calls : Refuse(s, id)
  <2>1. TakeDown(s) /\ UNCHANGED <<work, ledger>>
    BY <1>5 DEF CloseRefused, Disconnect, CloseSession, CloseTarget, Refuse
  <2>2. /\ \A b \in Sessions \ {s} : link'[b] = link[b]
        /\ link'[s] = "down" \/ (link'[s] = link[s] /\ link[s] # "up")
    BY <1>1, <2>1 DEF TakeDown
  <2> QED
    BY <1>1, <1>2, <2>1, <2>2, OneAccount DEF Ledgers
<1>6. CASE Report(s)
  <2>1. link' = [link EXCEPT ![s] = "reported"] /\ ledger' = [ledger EXCEPT ![s] = {}] /\ work' = work
    BY <1>6 DEF Report, LedgerBecomes
  <2>2. link'[s] = "reported" /\ ledger'[s] = {}
        /\ \A b \in Sessions \ {s} : link'[b] = link[b] /\ ledger'[b] = ledger[b]
    BY <1>1, <2>1
  <2> QED
    BY <1>2, <2>1, <2>2, OneAccount
<1>7. ASSUME NEW id \in Calls, Begin(s, id) \/ HandlerReturns(s, id)
      PROVE  (\A b \in Sessions : Ledgers(b)') /\ Cardinality(Active') <= MaxInstanceCalls
  <2>1. /\ UNCHANGED <<link, ledger>> /\ work[s][id] # "none"
        /\ \E w \in {"answered", "running"} : work' = [work EXCEPT ![s][id] = w]
    BY <1>7 DEF Begin, HandlerReturns
  <2>2. Working(s)' = Working(s) /\ \A b \in Sessions \ {s} : work'[b] = work[b]
    BY <1>1, <2>1 DEF Working
  <2> QED
    BY <1>1, <1>2, <2>1, <2>2, OneAccount DEF Ledgers
<1>8. ASSUME NEW id \in Calls, Settle(s, id)
      PROVE  (\A b \in Sessions : Ledgers(b)') /\ Cardinality(Active') <= MaxInstanceCalls
  <2>1. /\ link' = link /\ work' = [work EXCEPT ![s][id] = "none"]
        /\ ledger' = [ledger EXCEPT ![s] = @ \ {id}]
    BY <1>8 DEF Settle, LedgerBecomes
  <2>2. /\ Working(s)' = Working(s) \ {id} /\ ledger'[s] = ledger[s] \ {id}
        /\ \A b \in Sessions \ {s} : work'[b] = work[b] /\ ledger'[b] = ledger[b]
    BY <1>1, <2>1 DEF Working
  <2> QED
    BY <1>1, <1>2, <2>1, <2>2, OneAccount DEF Ledgers
<1>9. ASSUME NEW id \in Calls, DropResponse(s, id)
      PROVE  (\A b \in Sessions : Ledgers(b)') /\ Cardinality(Active') <= MaxInstanceCalls
  <2>1. /\ link[s] # "up" /\ UNCHANGED <<link, ledger>> /\ work' = [work EXCEPT ![s][id] = "none"]
    BY <1>9 DEF DropResponse
  <2>2. \A b \in Sessions \ {s} : work'[b] = work[b]
    BY <1>1, <2>1
  <2> QED
    BY <1>1, <1>2, <2>1, <2>2, OneAccount DEF Ledgers
<1> QED
  BY <1>3, <1>4, <1>5, <1>6, <1>7, <1>8, <1>9, AdmitAccount DEF Turn, SessionStep

\* The other steps: shutdown empties the ledger, and its connections are its own.
LEMMA OtherAccount ==
    ASSUME AccountInv, UNCHANGED <<link, work>>,
           \/ ledger' = ledger /\ (shutdown = "no" <=> shutdown' = "no")
           \/ shutdown' # "no" /\ ledger' = [s \in Sessions |-> {}]
    PROVE  (\A b \in Sessions : Ledgers(b)') /\ Cardinality(Active') <= MaxInstanceCalls
<1>1. Active' = Active /\ \A b \in Sessions : Working(b)' = Working(b)
  BY DEF Active, Working
<1> QED
  BY <1>1 DEF AccountInv, Ledgers

------------------------------------------------------------------------------
(* Types.                                                                  *)

LEMMA SessionType ==
    ASSUME AccountInv, NEW s \in Sessions, Turn(s)
    PROVE  TypeOK'
<1>1. TypeOK
  BY DEF AccountInv
<1>2. CASE Connect(s)
  BY ONLY <1>1, <1>2 DEF TypeOK, Connect, GoTo, instanceVars, terminalVars, closeVars
<1>3. CASE CheckVersion(s)
  BY ONLY <1>1, <1>3 DEF TypeOK, CheckVersion, GoTo, instanceVars, terminalVars, closeVars
<1>4. CASE ServerConnects(s)
  BY ONLY <1>1, <1>4 DEF TypeOK, ServerConnects, GoTo, instanceVars, terminalVars, closeVars
<1>5. CASE ServerConnectFails(s)
  BY ONLY <1>1, <1>5 DEF TypeOK, ServerConnectFails, GoTo, instanceVars, terminalVars, closeVars
<1>6. CASE Register(s)
  BY ONLY <1>1, <1>6 DEF TypeOK, Register, GoTo, instanceVars, terminalVars, closeVars
<1>7. CASE ConnectReturns(s)
  BY ONLY <1>1, <1>7 DEF TypeOK, ConnectReturns, GoTo, instanceVars, terminalVars, closeVars
<1>8. CASE SessionEnds(s)
  BY ONLY <1>1, <1>8 DEF TypeOK, SessionEnds, GoTo, instanceVars, terminalVars, closeVars
<1>9. ASSUME TakeDown(s) PROVE link' \in [Sessions -> {"none", "up", "down", "reported"}]
  BY ONLY <1>1, <1>9 DEF TypeOK, TakeDown
<1>10. CASE CloseRefused(s)
  BY ONLY <1>1, <1>9, <1>10 DEF TypeOK, CloseRefused, instanceVars, terminalVars, closeVars
<1>11. CASE Disconnect(s)
  BY ONLY <1>1, <1>9, <1>11 DEF TypeOK, Disconnect, instanceVars, terminalVars, closeVars
<1>12. CASE CloseSession(s)
  BY ONLY <1>1, <1>9, <1>12 DEF TypeOK, CloseSession, instanceVars, terminalVars, closeVars
<1>13. CASE CloseTarget(s)
  BY ONLY <1>1, <1>9, <1>13 DEF TypeOK, CloseTarget, instanceVars, terminalVars, closeVars
<1>14. CASE \E id \in Calls : Refuse(s, id)
  BY ONLY <1>1, <1>9, <1>14 DEF TypeOK, Refuse, instanceVars, terminalVars, closeVars
<1>15. ASSUME NEW l \in [Sessions -> SUBSET Calls], LedgerBecomes(l)
      PROVE  ledger' \in [Sessions -> SUBSET Calls] /\ due' \subseteq {"empty", "timer", "close"}
  BY ONLY <1>1, <1>15 DEF TypeOK, LedgerBecomes
<1>16. CASE Report(s)
  <2>1. [ledger EXCEPT ![s] = {}] \in [Sessions -> SUBSET Calls]
    BY ONLY <1>1 DEF TypeOK
  <2>2. ledger' \in [Sessions -> SUBSET Calls] /\ due' \subseteq {"empty", "timer", "close"}
    BY <1>15, <1>16, <2>1 DEF Report
  <2> QED
    BY ONLY <1>1, <1>16, <2>2 DEF TypeOK, Report, instanceVars, terminalVars, closeVars
<1>17. ASSUME NEW id \in Calls, NEW w \in {"none", "queued", "running", "answered"}
      PROVE  [work EXCEPT ![s][id] = w] \in [Sessions -> [Calls -> {"none", "queued", "running", "answered"}]]
  BY ONLY <1>1 DEF TypeOK
<1>18. ASSUME NEW id \in Calls, Admit(s, id) PROVE TypeOK'
  <2>1. work' \in [Sessions -> [Calls -> {"none", "queued", "running", "answered"}]]
    BY <1>17, <1>18 DEF Admit
  <2> QED
    BY ONLY <1>1, <1>18, <2>1 DEF TypeOK, Admit, instanceVars, terminalVars, closeVars
<1>19. ASSUME NEW id \in Calls, Settle(s, id) PROVE TypeOK'
  <2>1. work' \in [Sessions -> [Calls -> {"none", "queued", "running", "answered"}]]
    BY <1>17, <1>19 DEF Settle
  <2>2. [ledger EXCEPT ![s] = @ \ {id}] \in [Sessions -> SUBSET Calls]
    BY ONLY <1>1 DEF TypeOK
  <2>3. ledger' \in [Sessions -> SUBSET Calls] /\ due' \subseteq {"empty", "timer", "close"}
    BY <1>15, <1>19, <2>2 DEF Settle
  <2> QED
    BY ONLY <1>1, <1>19, <2>1, <2>3 DEF TypeOK, Settle, instanceVars, terminalVars, closeVars
<1>20. ASSUME NEW id \in Calls, Begin(s, id) PROVE TypeOK'
  <2>1. work' \in [Sessions -> [Calls -> {"none", "queued", "running", "answered"}]]
    BY <1>17, <1>20 DEF Begin
  <2> QED
    BY ONLY <1>1, <1>20, <2>1 DEF TypeOK, Begin, instanceVars, terminalVars, closeVars
<1>21. ASSUME NEW id \in Calls, HandlerReturns(s, id) PROVE TypeOK'
  <2>1. work' \in [Sessions -> [Calls -> {"none", "queued", "running", "answered"}]]
    BY <1>17, <1>21 DEF HandlerReturns
  <2> QED
    BY ONLY <1>1, <1>21, <2>1 DEF TypeOK, HandlerReturns, instanceVars, terminalVars, closeVars
<1>22. ASSUME NEW id \in Calls, DropResponse(s, id) PROVE TypeOK'
  <2>1. work' \in [Sessions -> [Calls -> {"none", "queued", "running", "answered"}]]
    BY <1>17, <1>22 DEF DropResponse
  <2> QED
    BY ONLY <1>1, <1>22, <2>1 DEF TypeOK, DropResponse, instanceVars, terminalVars, closeVars
<1> QED
  BY <1>2, <1>3, <1>4, <1>5, <1>6, <1>7, <1>8, <1>10, <1>11, <1>12, <1>13, <1>14, <1>16, <1>18, <1>19, <1>20, <1>21, <1>22
     DEF Turn, SessionStep

\* Nothing is unsettled exactly if no session has a call in the ledger.
LEMMA EmptyLedger ==
    ASSUME TypeOK
    PROVE  Unsettled(ledger) = {} <=> \A s \in Sessions : ledger[s] = {}
<1>1. ledger \in [Sessions -> SUBSET Calls]
  BY DEF TypeOK
<1>2. ASSUME NEW s \in Sessions, ledger[s] # {} PROVE Unsettled(ledger) # {}
  <2>1. PICK id \in Calls : id \in ledger[s]
    BY <1>1, <1>2
  <2>2. <<s, id>> \in Unsettled(ledger)
    BY <2>1 DEF Unsettled
  <2> QED
    BY <2>2
<1>3. (\A s \in Sessions : ledger[s] = {}) => Unsettled(ledger) = {}
  BY DEF Unsettled
<1> QED
  BY <1>2, <1>3

LEMMA OtherType ==
    ASSUME AccountInv, \/ InstanceStep \/ Terminal
                       \/ \E c \in Closers : CloseContext(c) \/ CloseGivesUp(c) \/ CloseReturns(c)
    PROVE  TypeOK'
<1>1. TypeOK
  BY DEF AccountInv
<1>2. CASE Terminal
  <2>1. Unsettled(ledger) # {} => shutdown = "no"
    BY <1>1, EmptyLedger DEF AccountInv, Ledgers
  <2> QED
    BY ONLY <1>1, <1>2, <2>1 DEF TypeOK, Terminal, Registered, closeVars
<1>3. CASE TerminateScopes
  BY ONLY <1>1, <1>3 DEF TypeOK, TerminateScopes, instanceVars, closeVars
<1>4. CASE TimerFires
  BY ONLY <1>1, <1>4 DEF TypeOK, TimerFires, terminalVars, closeVars
<1>5. CASE StartClose
  BY ONLY <1>1, <1>5 DEF TypeOK, StartClose, terminalVars
<1>6. CASE Collect
  BY ONLY <1>1, <1>6 DEF TypeOK, Collect, Registered, instanceVars, terminalVars
<1>7. CASE CloseRuntime \/ CloseDone
  <2>1. /\ shutdown' \in {"runtime", "done"} /\ shutdown # "no"
        /\ UNCHANGED <<instanceVars, ledger, due, terminalVars, targets, closer, phase, link, scopeDone, work>>
    BY <1>7 DEF CloseRuntime, CloseDone
  <2> QED
    BY ONLY <1>1, <2>1 DEF TypeOK, instanceVars, terminalVars
<1>8. CASE \E c \in Closers : CloseContext(c) \/ CloseGivesUp(c) \/ CloseReturns(c)
  <2>1. /\ due' = due \/ due' = due \cup {"close"}
        /\ UNCHANGED <<instanceVars, ledger, terminalVars, shutdown, targets, phase, link, scopeDone, work>>
    BY <1>8 DEF CloseContext, CloseGivesUp, CloseReturns
  <2>2. PICK c \in Closers, p \in {"idle", "waiting", "closed"} : closer' = [closer EXCEPT ![c] = p]
    BY <1>8 DEF CloseContext, CloseGivesUp, CloseReturns
  <2>3. closer' \in [Closers -> {"idle", "waiting", "closed"}]
    BY ONLY <1>1, <2>2 DEF TypeOK
  <2>4. due' \subseteq {"empty", "timer", "close"}
    BY ONLY <1>1, <2>1 DEF TypeOK
  <2> QED
    BY ONLY <1>1, <2>1, <2>3, <2>4 DEF TypeOK, instanceVars, terminalVars
<1> QED
  BY <1>2, <1>3, <1>4, <1>5, <1>6, <1>7, <1>8 DEF InstanceStep

------------------------------------------------------------------------------
(* The drain.                                                              *)

\* Once the ledger is empty and the instance closing, no session fills it again.
LEMMA SessionDrain ==
    ASSUME AccountInv, NEW s \in Sessions, Turn(s)
    PROVE  Drained'
<1>1. ledger \in [Sessions -> SUBSET Calls] /\ TypeOK /\ Drained
  BY DEF AccountInv, TypeOK
<1>2. UNCHANGED <<terminalErr, closing, draining, awaitResponse>>
  BY DEF Turn, SessionStep, Connect, CheckVersion, ServerConnects, ServerConnectFails, Register,
     CloseRefused, ConnectReturns, Admit, Refuse, Begin, HandlerReturns, Settle, DropResponse,
     Disconnect, Report, CloseSession, SessionEnds, CloseTarget, instanceVars, terminalVars
<1>3. CASE UNCHANGED <<due, ledger>>
  BY <1>1, <1>2, <1>3 DEF Drained
<1>4. CASE \E id \in Calls : Admit(s, id)
  <2>1. ~closing /\ due' = due
    BY <1>4 DEF Admit, Admissible
  <2> QED
    BY <1>1, <1>2, <2>1 DEF Drained
<1>5. ASSUME NEW l, l \in {[ledger EXCEPT ![s] = {}]} \cup {[ledger EXCEPT ![s] = @ \ {id}] : id \in Calls},
             LedgerBecomes(l)
      PROVE  Drained'
  <2>1. /\ ledger' = l /\ ledger' \in [Sessions -> SUBSET Calls]
        /\ \A b \in Sessions : ledger'[b] \subseteq ledger[b]
    BY <1>1, <1>5 DEF LedgerBecomes
  <2>2. "empty" \in due' => "empty" \in due \/ (terminalErr /\ Unsettled(l) = {})
    BY <1>5 DEF LedgerBecomes
  <2>3. Unsettled(l) = {} => \A b \in Sessions : ledger'[b] = {}
    <3> SUFFICES ASSUME NEW b \in Sessions, ledger'[b] # {} PROVE Unsettled(l) # {}
      OBVIOUS
    <3>1. PICK id \in Calls : id \in ledger'[b]
      BY <2>1
    <3>2. <<b, id>> \in Unsettled(l)
      BY <2>1, <3>1 DEF Unsettled
    <3> QED
      BY <3>2
  <2>4. (\A b \in Sessions : ledger[b] = {}) => \A b \in Sessions : ledger'[b] = {}
    BY <2>1
  <2> QED
    BY <1>1, <1>2, <2>2, <2>3, <2>4 DEF Drained
<1>6. CASE Report(s) \/ \E id \in Calls : Settle(s, id)
  BY <1>5, <1>6 DEF Report, Settle
<1> QED
  BY <1>3, <1>4, <1>6 DEF Turn, SessionStep, Connect, CheckVersion, ServerConnects, ServerConnectFails,
     Register, CloseRefused, ConnectReturns, Refuse, Begin, HandlerReturns, DropResponse,
     Disconnect, CloseSession, SessionEnds, CloseTarget

LEMMA OtherDrain ==
    ASSUME AccountInv, \/ InstanceStep \/ Terminal
                       \/ \E c \in Closers : CloseContext(c) \/ CloseGivesUp(c) \/ CloseReturns(c)
    PROVE  Drained'
<1>1. TypeOK /\ Drained /\ draining \in {"no", "scopes", "done"}
  BY DEF AccountInv, TypeOK
<1>2. CASE Terminal
  <2>1. ~awaitResponse' => \A s \in Sessions : ledger[s] = {}
    BY <1>1, <1>2, EmptyLedger DEF Terminal
  <2> QED
    BY <1>1, <1>2, <2>1 DEF Terminal, Drained
<1>3. CASE TerminateScopes
  BY <1>1, <1>3 DEF TerminateScopes, Drained, instanceVars
<1>4. CASE TimerFires
  BY <1>1, <1>4 DEF TimerFires, Drained, terminalVars
<1>5. CASE StartClose
  BY <1>1, <1>5 DEF StartClose, Drained, terminalVars
<1>6. CASE Collect \/ CloseRuntime \/ CloseDone
  BY <1>1, <1>6 DEF Collect, CloseRuntime, CloseDone, Drained, instanceVars, terminalVars
<1>7. CASE \E c \in Closers : CloseContext(c) \/ CloseGivesUp(c) \/ CloseReturns(c)
  BY <1>1, <1>7 DEF CloseContext, CloseGivesUp, CloseReturns, Drained, instanceVars, terminalVars
<1> QED
  BY <1>2, <1>3, <1>4, <1>5, <1>6, <1>7 DEF InstanceStep

------------------------------------------------------------------------------
LEMMA AccountInit == Init => AccountInv
<1> SUFFICES ASSUME Init PROVE AccountInv
  OBVIOUS
<1>1. TypeOK
  BY DEF Init, TypeOK
<1>2. ShutdownInv
  BY DEF Init, ShutdownInv, SessionTypes, Lifetime, Closing, Idle, Phases, Links
<1>3. Active = {} /\ \A s \in Sessions : Working(s) = {}
  BY DEF Init, Active, Working
<1>4. Cardinality(Active) <= MaxInstanceCalls
  BY <1>3, FS_EmptySet, InstanceAssumption
<1> QED
  BY <1>1, <1>2, <1>3, <1>4 DEF Init, AccountInv, Drained, Ledgers

LEMMA AccountStep == AccountInv /\ [Next]_vars => AccountInv'
<1> SUFFICES ASSUME AccountInv, [Next]_vars PROVE AccountInv'
  OBVIOUS
<1>1. ShutdownInv'
  BY InvStep DEF AccountInv
<1>2. CASE UNCHANGED vars
  <2>1. TypeOK' /\ Drained'
    BY <1>2 DEF AccountInv, TypeOK, Drained, vars, instanceVars, terminalVars, closeVars
  <2>2. (\A b \in Sessions : Ledgers(b)') /\ Cardinality(Active') <= MaxInstanceCalls
    BY <1>2, OtherAccount DEF vars, closeVars
  <2> QED
    BY <1>1, <2>1, <2>2 DEF AccountInv
<1>3. ASSUME NEW s \in Sessions, Turn(s) PROVE AccountInv'
  BY <1>1, <1>3, SessionType, SessionDrain, SessionAccount DEF AccountInv
<1>4. CASE \/ InstanceStep \/ Terminal
           \/ \E c \in Closers : CloseContext(c) \/ CloseGivesUp(c) \/ CloseReturns(c)
  <2>1. /\ UNCHANGED <<link, work>>
        /\ \/ ledger' = ledger /\ (shutdown = "no" <=> shutdown' = "no")
           \/ shutdown' # "no" /\ ledger' = [s \in Sessions |-> {}]
    BY <1>4 DEF InstanceStep, Terminal, TerminateScopes, TimerFires, StartClose, Collect, CloseRuntime,
       CloseDone, CloseContext, CloseGivesUp, CloseReturns, closeVars
  <2> QED
    BY <1>1, <1>4, <2>1, OtherType, OtherDrain, OtherAccount DEF AccountInv
<1> QED
  BY <1>2, <1>3, <1>4 DEF Next, Turn

LEMMA AccountInvariant == Spec => []AccountInv
  BY AccountInit, AccountStep, PTL DEF Spec

\* requestRead, responseSettled and connectionTerminated keep the books: for any
\* number of sessions, calls and limits the ledger is what living clients wait
\* for, and no more handlers work for them than maxSessionCalls and
\* maxInstanceCalls allow.
THEOREM AccountsInOrder == Spec => []InstanceOK
<1>1. AccountInv => InstanceOK
  BY DEF AccountInv, InstanceOK, AcceptedIsCounted, Ledgers, Active
<1> QED
  BY <1>1, AccountInvariant, PTL

\* terminal, responseSettled and connectionTerminated let the close begin of its
\* own accord only when every accepted call of a living client is answered.
THEOREM DrainIsComplete == Spec => DrainsBeforeClose
<1>1. AccountInv /\ [Next]_vars =>
        [shutdown = "no" /\ shutdown' # "no" /\ due = {"empty"}
           => \A s \in Sessions : link[s] = "up" => Working(s) = {}]_vars
  BY DEF AccountInv, Drained, Ledgers
<1> QED
  BY <1>1, AccountInvariant, PTL DEF Spec, DrainsBeforeClose
================================================================================
