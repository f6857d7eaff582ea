------------------------------ MODULE McpRuntime ------------------------------
(***************************************************************************)
(* The runtime of the MCP server (tmuxRuntime): the one owner of the tmux  *)
(* daemon that tool calls run on.  It starts unbound, finds or creates a   *)
(* daemon under a binding, keeps one command connection to it, drops it    *)
(* when any call reports it lost, and starts again on the next call.       *)
(*                                                                         *)
(* Every critical section of its mutex is one action; a probe, the opening *)
(* of a connection and a tool's own tmux commands happen between them.  A  *)
(* channel is named by its kind and the request that made it, and closing  *)
(* it wakes the requests parked on it.                                     *)
(***************************************************************************)
EXTENDS Integers, FiniteSets

CONSTANTS
    Requests,        \* tool calls
    Mixes,           \* which tools they call, on a tmux with or without control connections
    MaxDaemons,      \* bound: daemons that ever start
    MaxConnections,  \* bound: connections that are ever opened
    Nobody

ASSUME RuntimeAssumption ==
    /\ IsFiniteSet(Requests) /\ Nobody \notin Requests
    /\ Mixes \subseteq [Requests -> {"read", "watch", "act", "create"}] \X BOOLEAN
    /\ MaxDaemons \in Nat \ {0} /\ MaxConnections \in Nat

Owners      == Requests \cup {Nobody}
Daemons     == 1..MaxDaemons
Connections == 1..MaxConnections
Channels    == {"probe", "binding", "drained"} \X Requests

(* Outcomes of work: "lost" is intrinsically terminal, "noServer" terminal *)
(* for a bound runtime only, "stale" the error of a state nobody expected. *)
Errors == {"none", "ctx", "error", "noServer", "lost", "closed", "stale"}

Base       == <<"base", 0>>
Handles    == {Base} \cup ({"process"} \X Daemons) \cup ({"connection"} \X Connections)

VARIABLES
    state, cause, home, conn,        \* the runtime: its daemon and connection
    probe, binding, drained, active, \* its channels, and unbound leases
    daemon, born,                    \* the daemon now running, and all so far
    opened, epoch, held,             \* connections: how many, to which daemon, open
    pc, kind, control, purpose, attempt, \* per request
    waits, found, hand, made, reprobed,
    handle, err, lease, ctxDone,
    watch, releasing,                \* observations open, and being released
    closePhase

runtimeVars == <<state, cause, home, conn>>
signalVars  == <<probe, binding, drained, active>>
tmuxVars    == <<daemon, born>>
connVars    == <<opened, epoch, held>>
setupVars   == <<found, hand, made, reprobed>>
callVars    == <<kind, control, purpose, attempt, lease>>
otherVars   == <<ctxDone, watch, releasing, closePhase>>
vars == <<runtimeVars, signalVars, tmuxVars, connVars, pc, waits, setupVars, callVars,
          handle, err, otherVars>>

Init ==
    /\ state = "unbound" /\ cause = "none" /\ home = 0 /\ conn = 0
    /\ probe = Nobody /\ binding = Nobody /\ drained = Nobody /\ active = 0
    /\ \/ daemon = 0 /\ born = 0
       \/ daemon = 1 /\ born = 1
    /\ opened = 0
    /\ epoch = [k \in Connections |-> 0]
    /\ held = [k \in Connections |-> FALSE]
    /\ pc = [r \in Requests |-> "loop"]
    /\ \E mix \in Mixes : kind = mix[1] /\ control = mix[2]
    /\ purpose = [r \in Requests |-> "acquire"]
    /\ attempt = [r \in Requests |-> 1]
    /\ waits = [r \in Requests |-> Nobody]
    /\ found = [r \in Requests |-> 0]
    /\ hand = [r \in Requests |-> 0]
    /\ made = [r \in Requests |-> FALSE]
    /\ reprobed = [r \in Requests |-> FALSE]
    /\ handle = [r \in Requests |-> Base]
    /\ err = [r \in Requests |-> "none"]
    /\ lease = [r \in Requests |-> FALSE]
    /\ ctxDone = [r \in Requests |-> FALSE]
    /\ watch = [r \in Requests |-> FALSE]
    /\ releasing = 0
    /\ closePhase = "open"

------------------------------------------------------------------------------
GoTo(r, place) == pc' = [pc EXCEPT ![r] = place]

\* Closing a channel frees whoever is parked on it.
Woken(channel) == [r \in Requests |-> IF waits[r] = channel THEN Nobody ELSE waits[r]]

SignalBinding ==
    /\ binding' = Nobody
    /\ waits' = Woken(<<"binding", binding>>)

\* The request's owner closes its probe, unless Close already has.
SignalProbe(r) ==
    /\ probe' = IF probe = r THEN Nobody ELSE probe
    /\ waits' = IF probe = r THEN Woken(<<"probe", r>>) ELSE waits

Drop(k) ==
    IF k = 0 THEN UNCHANGED <<epoch, held>>
    ELSE held' = [held EXCEPT ![k] = FALSE] /\ epoch' = [epoch EXCEPT ![k] = 0]

\* stateErrorLocked.
StateError == IF state \in {"closed", "terminal"} THEN cause ELSE "stale"

Intrinsic(e) == e = "lost"

\* How observe goes on with an error.
Observed(e) == IF Intrinsic(e) THEN "mark" ELSE IF e = "noServer" THEN "classify" ELSE "leave"

\* Where an error leaves the runtime: acquire returns it as it is, a tool's
\* own error is observed, and once a session was created its creator reports
\* the session instead.
AfterError(r, e) ==
    IF purpose[r] = "acquire" \/ made[r] THEN "leave" ELSE Observed(e)

Fails(r, e) ==
    /\ err' = [err EXCEPT ![r] = e]
    /\ GoTo(r, AfterError(r, e))

\* The handle a bound runtime gives out: its connection, or the daemon itself
\* where tmux is too old for one.
BoundHandle(k, e) == IF k # 0 THEN <<"connection", k>> ELSE <<"process", e>>

\* Where a request goes on with a handle.  A tool on the command lane uses it,
\* one on the process lane asks process for its own: a live unbound lease is
\* that already, otherwise the runtime is asked again.
WithHandle(r, leased) ==
    LET again  == purpose[r] = "acquire" /\ kind[r] \in {"act", "watch"} /\ ~leased
        onward == IF purpose[r] = "process" THEN "process"
                  ELSE IF purpose[r] = "resolve" THEN "lookup"
                  ELSE IF kind[r] = "create" THEN "release" ELSE "use"
    IN /\ GoTo(r, IF again THEN "loop" ELSE onward)
       /\ purpose' = IF again THEN [purpose EXCEPT ![r] = "process"] ELSE purpose

------------------------------------------------------------------------------
(* The loops of acquireCommand and createSession: one turn, by state.      *)

LoopBound(r) ==
    /\ pc[r] = "loop" /\ state = "bound"
    /\ IF purpose[r] = "create"
       THEN /\ purpose' = [purpose EXCEPT ![r] = "process"]
            /\ UNCHANGED <<pc, handle>>
       ELSE /\ handle' = [handle EXCEPT ![r] = BoundHandle(conn, home)]
            /\ WithHandle(r, FALSE)
    /\ UNCHANGED <<runtimeVars, signalVars, tmuxVars, connVars, waits, setupVars, kind, control,
                   attempt, lease, err, otherVars>>

LoopClosed(r) ==
    /\ pc[r] = "loop" /\ state = "closed"
    /\ Fails(r, StateError)
    /\ UNCHANGED <<runtimeVars, signalVars, tmuxVars, connVars, waits, setupVars, callVars,
                   handle, otherVars>>

\* healTerminalLocked.
Heal(r) ==
    /\ pc[r] = "loop" /\ state = "terminal"
    /\ state' = "unbound" /\ cause' = "none" /\ home' = 0 /\ conn' = 0
    /\ Drop(conn)
    /\ UNCHANGED <<signalVars, tmuxVars, opened, pc, waits, setupVars, callVars, handle, err,
                   otherVars>>

LoopWaits(r) ==
    /\ pc[r] = "loop"
    /\ \/ /\ state = "binding"
          /\ waits' = [waits EXCEPT ![r] = <<"binding", binding>>]
       \/ /\ state = "unbound" /\ probe # Nobody
          /\ waits' = [waits EXCEPT ![r] = <<"probe", probe>>]
    /\ GoTo(r, "wait")
    /\ UNCHANGED <<runtimeVars, signalVars, tmuxVars, connVars, setupVars, callVars, handle,
                   err, otherVars>>

(* The context of a call may end: its request's, or the one with a timeout   *)
(* that wait_for_text makes for its own work (wait_for_text_tools.go:188).   *)
MayEnd(r) ==
    ctxDone[r] \/ (kind[r] = "watch" /\ (purpose[r] = "process" \/ pc[r] = "use"))

\* waitRuntime.
WaitReturns(r) ==
    /\ pc[r] = "wait"
    /\ \/ waits[r] = Nobody /\ GoTo(r, "loop") /\ UNCHANGED <<waits, err>>
       \/ /\ MayEnd(r) /\ Fails(r, "ctx")
          /\ waits' = [waits EXCEPT ![r] = Nobody]
    /\ UNCHANGED <<runtimeVars, signalVars, tmuxVars, connVars, setupVars, callVars, handle,
                   otherVars>>

StartProbe(r) ==
    /\ pc[r] = "loop" /\ state = "unbound" /\ probe = Nobody /\ purpose[r] # "create"
    /\ probe' = r
    /\ found' = [found EXCEPT ![r] = daemon]
    /\ GoTo(r, "probe")
    /\ UNCHANGED <<runtimeVars, binding, drained, active, tmuxVars, connVars, waits, hand, made,
                   reprobed, callVars, handle, err, otherVars>>

\* A binder waits for the requests that still use the unbound handle.
AwaitDrain(r, next) ==
    IF drained = Nobody
    THEN GoTo(r, next) /\ UNCHANGED waits
    ELSE GoTo(r, "drain") /\ waits' = [waits EXCEPT ![r] = <<"drained", drained>>]

\* createSession does its probe under the binding.
StartCreation(r) ==
    /\ pc[r] = "loop" /\ state = "unbound" /\ probe = Nobody /\ purpose[r] = "create"
    /\ state' = "binding" /\ binding' = r
    /\ found' = [found EXCEPT ![r] = daemon]
    /\ AwaitDrain(r, "probe")
    /\ UNCHANGED <<cause, home, conn, probe, drained, active, tmuxVars, connVars, hand, made,
                   reprobed, callVars, handle, err, otherVars>>

------------------------------------------------------------------------------
(* Probing and binding.                                                    *)

ProbeAnswers(r) ==
    /\ pc[r] = "probe"
    /\ found' = [found EXCEPT ![r] = daemon]
    /\ GoTo(r, IF purpose[r] # "create" THEN "probed"
               ELSE IF daemon # 0 THEN "open" ELSE "bootstrap")
    /\ UNCHANGED <<runtimeVars, signalVars, tmuxVars, connVars, waits, hand, made, reprobed,
                   callVars, handle, err, otherVars>>

\* A probe that times out or is canceled is one that fails in any other way;
\* one whose first command saw a daemon that its last one did not is lost.
ProbeErrs(r) ==
    /\ pc[r] = "probe"
    /\ \E e \in {"error"} \cup (IF found[r] # 0 /\ daemon \notin {0, found[r]} THEN {"lost"} ELSE {}) : err' = [err EXCEPT ![r] = e]
    /\ found' = [found EXCEPT ![r] = 0]
    /\ GoTo(r, IF purpose[r] = "create" THEN "fail" ELSE "probeFailed")
    /\ UNCHANGED <<runtimeVars, signalVars, tmuxVars, connVars, waits, hand, made, reprobed,
                   callVars, handle, otherVars>>

\* finishProbe, then observe and return.
FinishProbe(r) ==
    /\ pc[r] = "probeFailed"
    /\ SignalProbe(r)
    /\ GoTo(r, Observed(err[r]))
    /\ UNCHANGED <<runtimeVars, binding, drained, active, tmuxVars, connVars, setupVars,
                   callVars, handle, err, otherVars>>

\* finishAbsentProbe: the frozen selector, leased for a whole request.
FinishAbsentProbe(r) ==
    /\ pc[r] = "probed" /\ found[r] = 0
    /\ SignalProbe(r)
    /\ IF probe # r \/ state # "unbound"
       THEN GoTo(r, "loop") /\ UNCHANGED <<drained, active, lease, handle, purpose>>
       ELSE /\ handle' = [handle EXCEPT ![r] = Base]
            /\ WithHandle(r, TRUE)
            /\ IF purpose[r] = "acquire"
               THEN /\ active' = active + 1
                    /\ drained' = IF active = 0 THEN r ELSE drained
                    /\ lease' = [lease EXCEPT ![r] = TRUE]
               ELSE UNCHANGED <<drained, active, lease>>
    /\ UNCHANGED <<runtimeVars, binding, tmuxVars, connVars, setupVars, kind, control, attempt, err,
                   otherVars>>

BeginBinding(r) ==
    /\ pc[r] = "probed" /\ found[r] # 0
    /\ probe' = IF probe = r THEN Nobody ELSE probe
    /\ LET woken == IF probe = r THEN Woken(<<"probe", r>>) ELSE waits
           waiting == state = "unbound" /\ drained # Nobody
       IN /\ waits' = IF waiting THEN [woken EXCEPT ![r] = <<"drained", drained>>] ELSE woken
          /\ GoTo(r, IF state # "unbound" THEN "loop" ELSE IF waiting THEN "drain" ELSE "open")
    /\ IF state = "unbound" THEN state' = "binding" /\ binding' = r
                            ELSE UNCHANGED <<state, binding>>
    /\ UNCHANGED <<cause, home, conn, drained, active, tmuxVars, connVars, setupVars, callVars,
                   handle, err, otherVars>>

DrainReturns(r) ==
    /\ pc[r] = "drain"
    /\ \/ /\ waits[r] = Nobody
          /\ GoTo(r, IF purpose[r] = "create" THEN "probe" ELSE "open")
          /\ UNCHANGED <<waits, err>>
       \/ /\ MayEnd(r)
          /\ waits' = [waits EXCEPT ![r] = Nobody]
          /\ err' = [err EXCEPT ![r] = "ctx"]
          /\ GoTo(r, "fail")
    /\ UNCHANGED <<runtimeVars, signalVars, tmuxVars, connVars, setupVars, callVars, handle,
                   otherVars>>

\* A control connection to the daemon e, where tmux has them.
Connect(r, e) ==
    IF control
    THEN /\ opened < MaxConnections
         /\ opened' = opened + 1
         /\ epoch' = [epoch EXCEPT ![opened'] = e]
         /\ held' = [held EXCEPT ![opened'] = TRUE]
         /\ hand' = [hand EXCEPT ![r] = opened']
    ELSE UNCHANGED <<connVars, hand>>

\* bind and bootstrap open control on one daemon, and on no other.
Open(r) ==
    /\ pc[r] = "open" /\ daemon = found[r]
    /\ Connect(r, found[r])
    /\ GoTo(r, "finish")
    /\ UNCHANGED <<runtimeVars, signalVars, tmuxVars, waits, found, made, reprobed, callVars,
                   handle, err, otherVars>>

OpenFails(r) ==
    /\ pc[r] = "open"
    /\ \E e \in {"ctx", "error", "lost"} \cup (IF daemon # found[r] THEN {"noServer"} ELSE {}) :
         err' = [err EXCEPT ![r] = e]
    /\ GoTo(r, "fail")
    /\ UNCHANGED <<runtimeVars, signalVars, tmuxVars, connVars, waits, setupVars, callVars,
                   handle, otherVars>>

\* new-session through the frozen selector starts a daemon if none runs.
Materialize(r) ==
    /\ IF daemon = 0
       THEN born < MaxDaemons /\ born' = born + 1 /\ daemon' = born'
       ELSE UNCHANGED tmuxVars
    /\ made' = [made EXCEPT ![r] = TRUE]

\* NewSessionConnection: the session, and then a connection to its daemon.
Bootstrap(r) ==
    /\ pc[r] = "bootstrap"
    /\ Materialize(r)
    /\ found' = [found EXCEPT ![r] = daemon']
    /\ GoTo(r, "open")
    /\ UNCHANGED <<runtimeVars, signalVars, connVars, waits, hand, reprobed, callVars, handle,
                   err, otherVars>>

BootstrapFails(r) ==
    /\ pc[r] = "bootstrap"
    /\ \E e \in {"error", "lost"} : err' = [err EXCEPT ![r] = e]
    /\ GoTo(r, "fail")
    /\ UNCHANGED <<runtimeVars, signalVars, tmuxVars, connVars, waits, setupVars, callVars,
                   handle, otherVars>>

\* Mutant: a late binder forgets the connection it opened.
FinishBindingLeaks(r) ==
    /\ pc[r] = "finish"
    /\ SignalBinding
    /\ hand' = [hand EXCEPT ![r] = 0] /\ found' = [found EXCEPT ![r] = 0]
    /\ IF state = "binding"
       THEN /\ state' = "bound" /\ home' = found[r] /\ conn' = hand[r]
            /\ IF purpose[r] = "create"
               THEN /\ GoTo(r, IF made[r] THEN "leave" ELSE "loop")
                    /\ UNCHANGED <<handle, purpose>>
               ELSE /\ handle' = [handle EXCEPT ![r] = BoundHandle(hand[r], found[r])]
                    /\ WithHandle(r, FALSE)
            /\ UNCHANGED <<epoch, held, err>>
       ELSE /\ Fails(r, StateError)
            /\ UNCHANGED <<state, home, conn, epoch, held, handle, purpose>>
    /\ UNCHANGED <<cause, probe, drained, active, tmuxVars, opened, made, reprobed, kind, control,
                   attempt, lease, otherVars>>

\* Mutant: a late binder looks only whether the runtime was lost.
FinishBindingLate(r) ==
    /\ pc[r] = "finish"
    /\ SignalBinding
    /\ hand' = [hand EXCEPT ![r] = 0] /\ found' = [found EXCEPT ![r] = 0]
    /\ IF state # "terminal"
       THEN /\ state' = "bound" /\ home' = found[r] /\ conn' = hand[r]
            /\ IF purpose[r] = "create"
               THEN /\ GoTo(r, IF made[r] THEN "leave" ELSE "loop")
                    /\ UNCHANGED <<handle, purpose>>
               ELSE /\ handle' = [handle EXCEPT ![r] = BoundHandle(hand[r], found[r])]
                    /\ WithHandle(r, FALSE)
            /\ UNCHANGED <<epoch, held, err>>
       ELSE /\ Fails(r, StateError)
            /\ Drop(hand[r])
            /\ UNCHANGED <<state, home, conn, handle, purpose>>
    /\ UNCHANGED <<cause, probe, drained, active, tmuxVars, opened, made, reprobed, kind, control,
                   attempt, lease, otherVars>>

\* finishBinding: a binding that somebody ended meanwhile closes what it opened.
FinishBinding(r) ==
    /\ pc[r] = "finish"
    /\ SignalBinding
    /\ hand' = [hand EXCEPT ![r] = 0] /\ found' = [found EXCEPT ![r] = 0]
    /\ IF state = "binding"
       THEN /\ state' = "bound" /\ home' = found[r] /\ conn' = hand[r]
            /\ IF purpose[r] = "create"
               THEN /\ GoTo(r, IF made[r] THEN "leave" ELSE "loop")
                    /\ UNCHANGED <<handle, purpose>>
               ELSE /\ handle' = [handle EXCEPT ![r] = BoundHandle(hand[r], found[r])]
                    /\ WithHandle(r, FALSE)
            /\ UNCHANGED <<epoch, held, err>>
       ELSE /\ Fails(r, StateError)
            /\ Drop(hand[r])
            /\ UNCHANGED <<state, home, conn, handle, purpose>>
    /\ UNCHANGED <<cause, probe, drained, active, tmuxVars, opened, made, reprobed, kind, control,
                   attempt, lease, otherVars>>

\* failBinding: back to unbound if nothing was acted on, else lost.
FailBinding(r) ==
    /\ pc[r] = "fail"
    /\ SignalBinding
    /\ LET retryable == ~Intrinsic(err[r]) /\ ~made[r]
           reset     == state = "binding" /\ retryable
           again     == reset /\ found[r] # 0 /\ ~reprobed[r] /\ err[r] # "ctx"
       IN /\ IF state # "binding" THEN UNCHANGED runtimeVars
             ELSE IF retryable THEN state' = "unbound" /\ cause' = "none" /\ UNCHANGED <<home, conn>>
             ELSE state' = "terminal" /\ cause' = err[r] /\ home' = found[r] /\ conn' = 0
          /\ reprobed' = [reprobed EXCEPT ![r] = @ \/ again]
          /\ GoTo(r, IF again THEN "loop" ELSE AfterError(r, err[r]))
          /\ err' = IF again THEN [err EXCEPT ![r] = "none"] ELSE err
    /\ found' = [found EXCEPT ![r] = 0]
    /\ UNCHANGED <<probe, drained, active, tmuxVars, connVars, hand, made, callVars, handle,
                   otherVars>>

------------------------------------------------------------------------------
(* A tool's own work, on the handle it acquired.                           *)

\* What a tmux command through a handle may end in.  A control connection may
\* also die by itself.
Results(h) ==
    LET there == IF h = Base THEN daemon # 0
                 ELSE IF h[1] = "process" THEN daemon = h[2]
                 ELSE held[h[2]] /\ epoch[h[2]] = daemon
    IN IF h[1] = "connection" THEN {"lost"} \cup (IF there THEN {"none"} ELSE {})
       ELSE IF there THEN {"none"}
       ELSE IF h = Base THEN {"none", "noServer"}
       ELSE IF daemon = 0 THEN {"noServer"} ELSE {"lost"}

\* And a call's own command, whose context may end before tmux answers.
Outcomes(r) == Results(handle[r]) \cup (IF MayEnd(r) THEN {"ctx"} ELSE {})

\* releaseUnbound.
Release(r) ==
    /\ lease' = [lease EXCEPT ![r] = FALSE]
    /\ active' = IF lease[r] THEN active - 1 ELSE active
    /\ LET last == lease[r] /\ active = 1
       IN /\ drained' = IF last THEN Nobody ELSE drained
          /\ waits' = IF last THEN Woken(<<"drained", drained>>) ELSE waits

\* Mutant: create_session keeps its lease while it waits for all leases.
RunCreateLeased(r) ==
    /\ pc[r] = "release"
    /\ purpose' = [purpose EXCEPT ![r] = "create"]
    /\ GoTo(r, "loop")
    /\ UNCHANGED <<runtimeVars, signalVars, tmuxVars, connVars, waits, setupVars, kind, control, attempt,
                   lease, handle, err, otherVars>>

\* create_session gives up its own lease first: it is about to wait for all.
RunCreate(r) ==
    /\ pc[r] = "release"
    /\ Release(r)
    /\ purpose' = [purpose EXCEPT ![r] = "create"]
    /\ GoTo(r, "loop")
    /\ UNCHANGED <<runtimeVars, probe, binding, tmuxVars, connVars, setupVars, kind, control, attempt,
                   handle, err, otherVars>>

\* process.
ProcessHandle(r) ==
    /\ pc[r] = "process"
    /\ IF state \in {"unbound", "bound"}
       THEN /\ handle' = [handle EXCEPT ![r] = IF state = "unbound" THEN Base
                                               ELSE <<"process", home>>]
            /\ GoTo(r, IF kind[r] = "create" THEN "new" ELSE "use")
            /\ UNCHANGED err
       ELSE Fails(r, StateError) /\ UNCHANGED handle
    /\ UNCHANGED <<runtimeVars, signalVars, tmuxVars, connVars, waits, setupVars, callVars,
                   otherVars>>

\* wait_for_text opens an observation of its own.
OpenObservation(r) ==
    /\ pc[r] = "use" /\ kind[r] = "watch" /\ ~watch[r]
    /\ daemon # 0 /\ "none" \in Results(handle[r])
    /\ IF state \in {"terminal", "closed"}
       THEN Fails(r, StateError) /\ UNCHANGED watch
       ELSE /\ watch' = [watch EXCEPT ![r] = TRUE]
            /\ UNCHANGED <<pc, err>>
    /\ UNCHANGED <<runtimeVars, signalVars, tmuxVars, connVars, waits, setupVars, callVars,
                   handle, ctxDone, releasing, closePhase>>

Use(r) ==
    /\ pc[r] = "use"
    /\ \E e \in Outcomes(r) : err' = [err EXCEPT ![r] = e] /\ GoTo(r, Observed(e))
    /\ watch' = [watch EXCEPT ![r] = FALSE]
    /\ releasing' = IF watch[r] THEN releasing + 1 ELSE releasing
    /\ UNCHANGED <<runtimeVars, signalVars, tmuxVars, connVars, waits, setupVars, callVars,
                   handle, ctxDone, closePhase>>

\* createBoundSession: the session, and then its value on the command lane.
NewSession(r) ==
    /\ pc[r] = "new"
    /\ \/ /\ handle[r] = Base \/ Results(handle[r]) = {"none"}
          /\ Materialize(r)
          /\ purpose' = [purpose EXCEPT ![r] = "resolve"]
          /\ GoTo(r, "loop")
          /\ UNCHANGED err
       \/ \E e \in (Outcomes(r) \ {"none"}) \cup {"error"} :
            /\ err' = [err EXCEPT ![r] = e]
            /\ GoTo(r, Observed(e))
            /\ UNCHANGED <<tmuxVars, made, purpose>>
    /\ UNCHANGED <<runtimeVars, signalVars, connVars, waits, found, hand, reprobed, kind, control,
                   attempt, lease, handle, ctxDone, watch, releasing, closePhase>>

Lookup(r) ==
    /\ pc[r] = "lookup"
    /\ \E e \in Outcomes(r) : err' = [err EXCEPT ![r] = e] /\ GoTo(r, Observed(e))
    /\ UNCHANGED <<runtimeVars, signalVars, tmuxVars, connVars, waits, setupVars, callVars,
                   handle, otherVars>>

------------------------------------------------------------------------------
(* observe: the error is classified, and then the runtime is marked.       *)

\* isTerminalError takes the lock once and observe takes it again.
Classify(r) ==
    /\ pc[r] = "classify"
    /\ GoTo(r, IF state = "bound" THEN "mark" ELSE "leave")
    /\ UNCHANGED <<runtimeVars, signalVars, tmuxVars, connVars, waits, setupVars, callVars,
                   handle, err, otherVars>>

\* Mutant: a binding that a lost runtime interrupts is not signaled.
MarkTerminalSilently(e) ==
    IF state \in {"terminal", "closed"}
    THEN UNCHANGED <<runtimeVars, binding, epoch, held, waits>>
    ELSE /\ state' = "terminal" /\ cause' = e /\ home' = 0 /\ conn' = 0
         /\ Drop(conn)
         /\ UNCHANGED <<binding, waits>>

MarkTerminal(e) ==
    IF state \in {"terminal", "closed"}
    THEN UNCHANGED <<runtimeVars, binding, epoch, held, waits>>
    ELSE /\ state' = "terminal" /\ cause' = e /\ home' = 0 /\ conn' = 0
         /\ SignalBinding
         /\ Drop(conn)

Mark(r) ==
    /\ pc[r] = "mark"
    /\ MarkTerminal(err[r])
    /\ GoTo(r, "leave")
    /\ UNCHANGED <<probe, drained, active, tmuxVars, opened, setupVars, callVars,
                   handle, err, otherVars>>

\* withRequestRuntime returns its lease; a read that found the runtime lost is
\* tried once more.
Leave(r) ==
    /\ pc[r] = "leave"
    /\ Release(r)
    /\ LET again == /\ kind[r] \in {"read", "watch"} /\ Intrinsic(err[r])
                    /\ ~ctxDone[r] /\ attempt[r] = 1
       IN /\ attempt' = [attempt EXCEPT ![r] = IF again THEN 2 ELSE 1]
          /\ GoTo(r, IF again THEN "loop" ELSE "done")
    /\ err' = [err EXCEPT ![r] = "none"]
    /\ purpose' = [purpose EXCEPT ![r] = "acquire"]
    /\ handle' = [handle EXCEPT ![r] = Base]
    /\ found' = [found EXCEPT ![r] = 0]
    /\ made' = [made EXCEPT ![r] = FALSE]
    /\ reprobed' = [reprobed EXCEPT ![r] = FALSE]
    /\ UNCHANGED <<runtimeVars, probe, binding, tmuxVars, connVars, hand, kind, control, otherVars>>

\* The goroutine of releaseObservation: close, observe, Done.
ReleaseObservation ==
    /\ releasing > 0
    /\ releasing' = releasing - 1
    /\ \/ UNCHANGED <<runtimeVars, binding, epoch, held, waits>>
       \/ MarkTerminal("lost")
    /\ UNCHANGED <<probe, drained, active, tmuxVars, opened, pc, setupVars, callVars,
                   handle, err, ctxDone, watch, closePhase>>

------------------------------------------------------------------------------
(* Close, and the world.                                                   *)

CloseRuntime ==
    /\ closePhase = "open"
    /\ closePhase' = "closing"
    /\ state' = "closed"
    /\ cause' = IF cause = "none" THEN "closed" ELSE cause
    /\ probe' = Nobody /\ binding' = Nobody
    /\ waits' = [r \in Requests |-> IF waits[r] \in {<<"probe", probe>>, <<"binding", binding>>}
                                    THEN Nobody ELSE waits[r]]
    /\ UNCHANGED <<home, conn, drained, active, tmuxVars, connVars, pc, setupVars, callVars,
                   handle, err, ctxDone, watch, releasing>>

\* The connection Close found, once every observation is released.
CloseConnections ==
    /\ closePhase = "closing"
    /\ releasing = 0 /\ \A r \in Requests : ~watch[r]
    /\ closePhase' = "closed"
    /\ Drop(conn)
    /\ UNCHANGED <<runtimeVars, signalVars, tmuxVars, opened, pc, waits, setupVars,
                   callVars, handle, err, ctxDone, watch, releasing>>

\* A context may end at any time; these are the places that look.
CancelContext(r) ==
    /\ ~ctxDone[r]
    /\ pc[r] \in {"wait", "drain", "use", "new", "lookup"} \/ (pc[r] = "leave" /\ kind[r] \in {"read", "watch"})
    /\ ctxDone' = [ctxDone EXCEPT ![r] = TRUE]
    /\ UNCHANGED <<runtimeVars, signalVars, tmuxVars, connVars, pc, waits, setupVars, callVars,
                   handle, err, watch, releasing, closePhase>>

DaemonStarts ==
    /\ daemon = 0 /\ born < MaxDaemons
    /\ born' = born + 1 /\ daemon' = born'
    /\ UNCHANGED <<runtimeVars, signalVars, connVars, pc, waits, setupVars, callVars, handle,
                   err, otherVars>>

DaemonExits ==
    /\ daemon # 0 /\ daemon' = 0
    /\ UNCHANGED <<runtimeVars, signalVars, born, connVars, pc, waits, setupVars, callVars,
                   handle, err, otherVars>>

RequestStep(r) ==
    \/ LoopBound(r) \/ LoopClosed(r) \/ Heal(r) \/ LoopWaits(r) \/ WaitReturns(r)
    \/ StartProbe(r) \/ StartCreation(r)
    \/ ProbeAnswers(r) \/ ProbeErrs(r) \/ FinishProbe(r) \/ FinishAbsentProbe(r)
    \/ BeginBinding(r) \/ DrainReturns(r)
    \/ Open(r) \/ OpenFails(r) \/ Bootstrap(r) \/ BootstrapFails(r)
    \/ FinishBinding(r) \/ FailBinding(r)
    \/ RunCreate(r) \/ ProcessHandle(r) \/ OpenObservation(r) \/ Use(r)
    \/ NewSession(r) \/ Lookup(r) \/ Classify(r) \/ Mark(r) \/ Leave(r)

Next ==
    \/ \E r \in Requests : CancelContext(r) \/ RequestStep(r)
    \/ ReleaseObservation \/ CloseRuntime \/ CloseConnections
    \/ DaemonStarts \/ DaemonExits

\* A call's own tmux commands: nothing but the call's context bounds them.
InCommand(r) == pc[r] \in {"use", "new", "lookup"}

(* Setup is bounded by runtimeSetupTimeout, so a request that is not parked *)
(* goes on; observations are released and Close goes on.  A tmux command of *)
(* a tool need not return until a context of the call may end, and the      *)
(* contexts of requests need never end.                                     *)
Fairness ==
    /\ \A r \in Requests : WF_vars((InCommand(r) => MayEnd(r)) /\ RequestStep(r))
    /\ WF_vars(ReleaseObservation) /\ WF_vars(CloseConnections)

Spec == Init /\ [][Next]_vars /\ Fairness
------------------------------------------------------------------------------
(* Properties.                                                             *)

Places == {"loop", "wait", "probe", "probeFailed", "probed", "drain", "open", "bootstrap",
           "finish", "fail", "release", "process", "use", "new", "lookup", "classify", "mark",
           "leave", "done"}

\* The variables keep their types.
TypeOK ==
    /\ state \in {"unbound", "binding", "bound", "terminal", "closed"}
    /\ cause \in Errors /\ home \in 0..MaxDaemons /\ conn \in 0..MaxConnections
    /\ probe \in Owners /\ binding \in Owners /\ drained \in Owners /\ active \in Nat
    /\ daemon \in 0..MaxDaemons /\ born \in 0..MaxDaemons
    /\ opened \in 0..MaxConnections
    /\ epoch \in [Connections -> 0..MaxDaemons] /\ held \in [Connections -> BOOLEAN]
    /\ pc \in [Requests -> Places]
    /\ <<kind, control>> \in Mixes
    /\ purpose \in [Requests -> {"acquire", "create", "process", "resolve"}]
    /\ attempt \in [Requests -> 1..2]
    /\ waits \in [Requests -> Channels \cup {Nobody}]
    /\ found \in [Requests -> 0..MaxDaemons] /\ hand \in [Requests -> 0..MaxConnections]
    /\ made \in [Requests -> BOOLEAN] /\ reprobed \in [Requests -> BOOLEAN]
    /\ handle \in [Requests -> Handles]
    /\ err \in [Requests -> Errors]
    /\ lease \in [Requests -> BOOLEAN] /\ ctxDone \in [Requests -> BOOLEAN]
    /\ watch \in [Requests -> BOOLEAN] /\ releasing \in Nat
    /\ closePhase \in {"open", "closing", "closed"}

\* Nobody is parked on a channel that nobody will close: a channel still
\* waited for is the runtime's current one, and whoever made it is still at
\* the work it announces.
NobodyStranded ==
    /\ (state = "binding") = (binding # Nobody)
    /\ probe # Nobody => pc[probe] \in {"probe", "probed", "probeFailed"}
    /\ binding # Nobody =>
         pc[binding] \in {"drain", "probe", "probed", "open", "bootstrap", "finish", "fail"}
    /\ \A r \in Requests : waits[r] \in
         {Nobody, <<"probe", probe>>, <<"binding", binding>>, <<"drained", drained>>}

\* Unbound leases are counted exactly, and whoever waits for them is woken by
\* the last one and not before.
LeasesCounted ==
    /\ active = Cardinality({r \in Requests : lease[r]})
    /\ (active > 0) = (drained # Nobody)

\* A connection that was opened is the runtime's, or still in the hands of the
\* request that opened it, or closed: none is forgotten when a binding is
\* ended behind its binder's back.
NoConnectionLeaks ==
    \A k \in 1..opened : held[k] => conn = k \/ \E r \in Requests : hand[r] = k

\* What the runtime gives out is open, to the daemon it was bound to, and is
\* given out in no state but bound; after Close it is closed.
CurrentIsOpen ==
    /\ state = "bound" => home # 0 /\ control = (conn # 0)
    /\ conn # 0 => /\ state \in {"bound", "closed"}
                   /\ state = "bound" => epoch[conn] = home
                   /\ held[conn] = (closePhase # "closed")

\* What the runtime opens, lends and gives out is accounted for.
RuntimeOK == TypeOK /\ LeasesCounted /\ NoConnectionLeaks /\ CurrentIsOpen

\* A connection is replaced only after it was given up: a late binder does not
\* put its own in the place of the current one, nor revive a closed runtime.
NoSilentSwitch ==
    [][/\ state = "closed" => state' = "closed"
       /\ state = "bound" => state' # "unbound" /\ state' # "binding"
       /\ state = "bound" /\ state' = "bound" => conn' = conn /\ home' = home]_vars

(* What ended stays ended, so these need only say what comes true.          *)

\* A tool call whose context ended returns, whatever tmux and others do.
CanceledReturn == []<>(\A r \in Requests : ctxDone[r] => pc[r] = "done")

\* Every tool call returns, without its context having to end, if no command of
\* a tool hangs for ever: no request waits for a lease it holds itself, or for a
\* probe or binding given up.
RequestsReturn ==
    (\A r \in Requests : []<>~InCommand(r)) =>
        []<>(\A r \in Requests : pc[r] = "done")

\* Close returns, also while a tool's command hangs: the calls that hold an
\* observation have a timeout.
CloseReturns == []<>(closePhase # "closing")

\* Nobody waits for what will not come.
EveryoneReturns == CanceledReturn /\ RequestsReturn /\ CloseReturns

\* Not an invariant, although the comment on acquire says it (runtime.go:145): a
\* lease prevents first creation from materializing a daemon while a tool can
\* still work through the selector.  createBoundSession can, after a lost daemon.
LeaseHoldsCreation ==
    [][born' # born /\ (\E r \in Requests : ~made[r] /\ made'[r]) => active = 0]_vars
=============================================================================
