------------------------------ MODULE McpInstance ------------------------------
(***************************************************************************)
(* The MCP Instance: the sessions it connects and tracks, the ledger of    *)
(* their unsettled calls, the drain after a terminal failure, and its      *)
(* shutdown.  A session's connection is what McpConnection shows of it: it *)
(* is up, it goes down for whatever reason, and whoever took it down       *)
(* reports that.  The SDK is external: it runs a handler for each accepted *)
(* call, and a session's Wait returns when the connection is down and the  *)
(* handlers have returned.                                                 *)
(*                                                                         *)
(* Each critical section of Instance.mutex is one action.  "due" holds the *)
(* reasons for which some goroutine is about to call startClose.           *)
(***************************************************************************)
EXTENDS Naturals, FiniteSets

CONSTANTS
    Sessions,          \* calls of Connect, each with its client
    Calls,             \* request IDs, which every client uses for itself
    Closers,           \* callers of CloseContext
    MaxSessionCalls,   \* maxSessionCalls
    MaxInstanceCalls   \* maxInstanceCalls

ASSUME InstanceAssumption ==
    /\ IsFiniteSet(Sessions) /\ IsFiniteSet(Calls)
    /\ MaxSessionCalls \in Nat /\ MaxInstanceCalls \in Nat

VARIABLES
    closing, terminalErr, ledger, timer, ctxDone,  \* the Instance
    due,                                           \* why startClose is being called
    draining, scopes, awaitResponse,               \* the goroutine in terminal
    shutdown, targets,                             \* the goroutine in shutdown
    phase, link, scopeDone, work,                  \* the sessions
    closer                                         \* callers of CloseContext

instanceVars == <<closing, terminalErr, timer, ctxDone>>
terminalVars == <<draining, scopes, awaitResponse>>
closeVars    == <<shutdown, targets, closer>>
vars == <<instanceVars, ledger, due, terminalVars, closeVars, phase, link, scopeDone, work>>

Init ==
    /\ closing = FALSE /\ terminalErr = FALSE /\ timer = FALSE /\ ctxDone = FALSE
    /\ ledger = [s \in Sessions |-> {}]
    /\ due = {}
    /\ draining = "no" /\ scopes = {} /\ awaitResponse = FALSE
    /\ shutdown = "no" /\ targets = {}
    /\ phase = [s \in Sessions |-> "idle"]
    /\ link = [s \in Sessions |-> "none"]
    /\ scopeDone = [s \in Sessions |-> FALSE]
    /\ work = [s \in Sessions |-> [id \in Calls |-> "none"]]
    /\ closer = [c \in Closers |-> "idle"]

------------------------------------------------------------------------------
GoTo(s, place) == phase' = [phase EXCEPT ![s] = place]

\* i.sessions, and the Connect calls that connecting counts.
Registered == {s \in Sessions : phase[s] = "serving"}
Connecting == {s \in Sessions : phase[s] \in {"probing", "joining", "joined", "refusing"}}

\* The scope's context is a child of the instance's.
ScopeEnded(s) == scopeDone[s] \/ ctxDone

Unsettled(l) == {x \in Sessions \X Calls : x[2] \in l[x[1]]}

\* Mutant: the failure alone is reason enough.
LedgerBecomesHasty(l) ==
    /\ ledger' = l
    /\ due' = IF terminalErr THEN due \cup {"empty"} ELSE due

\* responseSettled and connectionTerminated: who empties the ledger after a
\* terminal failure starts the close.
LedgerBecomes(l) ==
    /\ ledger' = l
    /\ due' = IF terminalErr /\ Unsettled(l) = {} THEN due \cup {"empty"} ELSE due

TakeDown(s) == link' = [link EXCEPT ![s] = IF @ = "up" THEN "down" ELSE @]

------------------------------------------------------------------------------
(* Connect.                                                                *)

Connect(s) ==
    /\ phase[s] = "idle"
    /\ GoTo(s, IF closing THEN "refused" ELSE "probing")
    /\ UNCHANGED <<instanceVars, ledger, due, terminalVars, closeVars, link, scopeDone, work>>

\* requireTmuxVersion and normalizeResponseTransport.
CheckVersion(s) ==
    /\ phase[s] = "probing"
    /\ \E place \in {"joining", "refused"} : GoTo(s, place)
    /\ UNCHANGED <<instanceVars, ledger, due, terminalVars, closeVars, link, scopeDone, work>>

\* The SDK has its session; its reader waits for ready.
ServerConnects(s) ==
    /\ phase[s] = "joining"
    /\ GoTo(s, "joined")
    /\ link' = [link EXCEPT ![s] = "up"]
    /\ UNCHANGED <<instanceVars, ledger, due, terminalVars, closeVars, scopeDone, work>>

\* The transport or the SDK fails, before or after there is a connection.
ServerConnectFails(s) ==
    /\ phase[s] = "joining"
    /\ GoTo(s, "refusing")
    /\ \E l \in {"none", "down"} : link' = [link EXCEPT ![s] = l]
    /\ UNCHANGED <<instanceVars, ledger, due, terminalVars, closeVars, scopeDone, work>>

\* The session is entered, unless the instance began to close meanwhile.
Register(s) ==
    /\ phase[s] = "joined"
    /\ GoTo(s, IF closing THEN "refusing" ELSE "serving")
    /\ scopeDone' = [scopeDone EXCEPT ![s] = @ \/ closing]
    /\ UNCHANGED <<instanceVars, ledger, due, terminalVars, closeVars, link, work>>

CloseRefused(s) ==
    /\ phase[s] = "refusing" /\ link[s] = "up"
    /\ TakeDown(s)
    /\ UNCHANGED <<instanceVars, ledger, due, terminalVars, closeVars, phase, scopeDone, work>>

ConnectReturns(s) ==
    /\ phase[s] = "refusing" /\ link[s] \in {"none", "reported"}
    /\ \A id \in Calls : work[s][id] = "none"
    /\ GoTo(s, "refused")
    /\ scopeDone' = [scopeDone EXCEPT ![s] = TRUE]
    /\ UNCHANGED <<instanceVars, ledger, due, terminalVars, closeVars, link, work>>

------------------------------------------------------------------------------
(* Requests of a client whose ready channel is closed.                     *)

Reading(s) == link[s] = "up" /\ phase[s] \in {"serving", "refusing"}

\* requestRead.
Admissible(s, id) ==
    /\ ~closing /\ id \notin ledger[s]
    /\ Cardinality(ledger[s]) < MaxSessionCalls
    /\ Cardinality(Unsettled(ledger)) < MaxInstanceCalls

Admit(s, id) ==
    /\ Reading(s) /\ Admissible(s, id)
    /\ ledger' = [ledger EXCEPT ![s] = @ \cup {id}]
    /\ work' = [work EXCEPT ![s][id] = "queued"]
    /\ UNCHANGED <<instanceVars, due, terminalVars, closeVars, phase, link, scopeDone>>

\* A refused message ends its connection.
Refuse(s, id) ==
    /\ Reading(s) /\ ~Admissible(s, id)
    /\ TakeDown(s)
    /\ UNCHANGED <<instanceVars, ledger, due, terminalVars, closeVars, phase, scopeDone, work>>

\* The middleware scoped: a handler starts only for a tracked, living session.
Begin(s, id) ==
    /\ work[s][id] = "queued"
    /\ work' = [work EXCEPT ![s][id] =
                  IF closing \/ s \notin Registered \/ ScopeEnded(s) THEN "answered" ELSE "running"]
    /\ UNCHANGED <<instanceVars, ledger, due, terminalVars, closeVars, phase, link, scopeDone>>

HandlerReturns(s, id) ==
    /\ work[s][id] = "running"
    /\ work' = [work EXCEPT ![s][id] = "answered"]
    /\ UNCHANGED <<instanceVars, ledger, due, terminalVars, closeVars, phase, link, scopeDone>>

\* The response is written, and responseSettled runs before the next read.
Settle(s, id) ==
    /\ work[s][id] = "answered" /\ link[s] = "up"
    /\ work' = [work EXCEPT ![s][id] = "none"]
    /\ LedgerBecomes([ledger EXCEPT ![s] = @ \ {id}])
    /\ UNCHANGED <<instanceVars, terminalVars, closeVars, phase, link, scopeDone>>

\* There is no connection to write it to.
DropResponse(s, id) ==
    /\ work[s][id] = "answered" /\ link[s] # "up"
    /\ work' = [work EXCEPT ![s][id] = "none"]
    /\ UNCHANGED <<instanceVars, ledger, due, terminalVars, closeVars, phase, link, scopeDone>>

------------------------------------------------------------------------------
(* The end of a session.                                                   *)

\* The client leaves, a write fails, a notification hangs.
Disconnect(s) ==
    /\ link[s] = "up"
    /\ TakeDown(s)
    /\ UNCHANGED <<instanceVars, ledger, due, terminalVars, closeVars, phase, scopeDone, work>>

\* Mutant: a dead connection only stops its scope.
ReportKeepsCalls(s) ==
    /\ link[s] = "down"
    /\ link' = [link EXCEPT ![s] = "reported"]
    /\ scopeDone' = [scopeDone EXCEPT ![s] = TRUE]
    /\ UNCHANGED <<instanceVars, ledger, due, terminalVars, closeVars, phase, work>>

\* onTerminal: scope.terminate and connectionTerminated.
Report(s) ==
    /\ link[s] = "down"
    /\ link' = [link EXCEPT ![s] = "reported"]
    /\ scopeDone' = [scopeDone EXCEPT ![s] = TRUE]
    /\ LedgerBecomes([ledger EXCEPT ![s] = {}])
    /\ UNCHANGED <<instanceVars, terminalVars, closeVars, phase, work>>

\* ServerSession.Close, by its user or by Run.
CloseSession(s) ==
    /\ phase[s] = "serving"
    /\ scopeDone' = [scopeDone EXCEPT ![s] = TRUE]
    /\ TakeDown(s)
    /\ UNCHANGED <<instanceVars, ledger, due, terminalVars, closeVars, phase, work>>

\* await and finish: the SDK has joined the handlers, the session is dropped.
SessionEnds(s) ==
    /\ phase[s] = "serving" /\ link[s] # "up"
    /\ \A id \in Calls : work[s][id] = "none"
    /\ GoTo(s, "ended")
    /\ scopeDone' = [scopeDone EXCEPT ![s] = TRUE]
    /\ UNCHANGED <<instanceVars, ledger, due, terminalVars, closeVars, link, work>>

------------------------------------------------------------------------------
(* A terminal failure, and closing.                                        *)

\* Mutant: the drain has no limit.
TerminalUnbounded ==
    /\ ~terminalErr
    /\ terminalErr' = TRUE /\ closing' = TRUE
    /\ awaitResponse' = (Unsettled(ledger) # {})
    /\ draining' = "scopes" /\ scopes' = Registered
    /\ UNCHANGED <<ctxDone, timer, ledger, due, closeVars, phase, link, scopeDone, work>>

\* The critical section of terminal.
Terminal ==
    /\ ~terminalErr
    /\ terminalErr' = TRUE /\ closing' = TRUE
    /\ awaitResponse' = (Unsettled(ledger) # {})
    /\ timer' = (Unsettled(ledger) # {})
    /\ draining' = "scopes" /\ scopes' = Registered
    /\ UNCHANGED <<ctxDone, ledger, due, closeVars, phase, link, scopeDone, work>>

\* The rest of terminal, outside the lock.
TerminateScopes ==
    /\ draining = "scopes"
    /\ draining' = "done"
    /\ scopeDone' = [s \in Sessions |-> scopeDone[s] \/ s \in scopes]
    /\ due' = IF awaitResponse THEN due ELSE due \cup {"empty"}
    /\ UNCHANGED <<instanceVars, ledger, scopes, awaitResponse, closeVars, phase, link, work>>

TimerFires ==
    /\ timer
    /\ timer' = FALSE
    /\ due' = due \cup {"timer"}
    /\ UNCHANGED <<closing, terminalErr, ctxDone, ledger, terminalVars, closeVars,
                   phase, link, scopeDone, work>>

\* startClose, once.
StartClose ==
    /\ due # {} /\ shutdown = "no"
    /\ shutdown' = "connecting"
    /\ closing' = TRUE /\ ctxDone' = TRUE /\ timer' = FALSE
    /\ ledger' = [s \in Sessions |-> {}]
    /\ UNCHANGED <<terminalErr, due, terminalVars, targets, closer, phase, link, scopeDone, work>>

\* Mutant: whoever is still connecting is left to find out.
CollectAtOnce ==
    /\ shutdown = "connecting"
    /\ shutdown' = "joining" /\ targets' = Registered
    /\ scopeDone' = [s \in Sessions |-> scopeDone[s] \/ s \in Registered]
    /\ UNCHANGED <<instanceVars, ledger, due, terminalVars, closer, phase, link, work>>

\* shutdown: nobody is connecting any more; every scope is stopped before the
\* first session is closed.
Collect ==
    /\ shutdown = "connecting" /\ Connecting = {}
    /\ shutdown' = "joining" /\ targets' = Registered
    /\ scopeDone' = [s \in Sessions |-> scopeDone[s] \/ s \in Registered]
    /\ UNCHANGED <<instanceVars, ledger, due, terminalVars, closer, phase, link, work>>

CloseTarget(s) ==
    /\ shutdown = "joining" /\ s \in targets /\ link[s] = "up"
    /\ TakeDown(s)
    /\ UNCHANGED <<instanceVars, ledger, due, terminalVars, closeVars, phase, scopeDone, work>>

\* Every session's done is closed: the runtime and the audit log follow.
CloseRuntime ==
    /\ shutdown = "joining" /\ \A s \in targets : phase[s] = "ended"
    /\ shutdown' = "runtime"
    /\ UNCHANGED <<instanceVars, ledger, due, terminalVars, targets, closer, phase, link, scopeDone, work>>

CloseDone ==
    /\ shutdown = "runtime"
    /\ shutdown' = "done"
    /\ UNCHANGED <<instanceVars, ledger, due, terminalVars, targets, closer, phase, link, scopeDone, work>>

CloseContext(c) ==
    /\ closer[c] = "idle"
    /\ closer' = [closer EXCEPT ![c] = "waiting"]
    /\ due' = due \cup {"close"}
    /\ UNCHANGED <<instanceVars, ledger, terminalVars, shutdown, targets, phase, link, scopeDone, work>>

\* The caller's context ends; it may call again.
CloseGivesUp(c) ==
    /\ closer[c] = "waiting" /\ shutdown # "no"
    /\ closer' = [closer EXCEPT ![c] = "idle"]
    /\ UNCHANGED <<instanceVars, ledger, due, terminalVars, shutdown, targets, phase, link, scopeDone, work>>

CloseReturns(c) ==
    /\ closer[c] = "waiting" /\ shutdown = "done"
    /\ closer' = [closer EXCEPT ![c] = "closed"]
    /\ UNCHANGED <<instanceVars, ledger, due, terminalVars, shutdown, targets, phase, link, scopeDone, work>>

------------------------------------------------------------------------------
\* What the instance, a session's goroutines and the SDK do on their own: a
\* handler returns and a transport gives up connecting once they are canceled.
SessionStep(s) ==
    \/ CheckVersion(s) \/ Register(s) \/ CloseRefused(s) \/ ConnectReturns(s)
    \/ ctxDone /\ ServerConnectFails(s)
    \/ Report(s) \/ SessionEnds(s) \/ CloseTarget(s)
    \/ \E id \in Calls : \/ Begin(s, id) \/ DropResponse(s, id)
                         \/ ScopeEnded(s) /\ HandlerReturns(s, id)

InstanceStep ==
    TerminateScopes \/ TimerFires \/ StartClose \/ Collect \/ CloseRuntime \/ CloseDone

Next ==
    \/ InstanceStep \/ Terminal
    \/ \E s \in Sessions :
         \/ SessionStep(s) \/ Connect(s) \/ ServerConnects(s) \/ ServerConnectFails(s)
         \/ Disconnect(s) \/ CloseSession(s)
         \/ \E id \in Calls : Admit(s, id) \/ Refuse(s, id) \/ HandlerReturns(s, id) \/ Settle(s, id)
    \/ \E c \in Closers : CloseContext(c) \/ CloseGivesUp(c) \/ CloseReturns(c)

(* The goroutines run while they can, and the drain timer fires.  That a   *)
(* session takes a step is enough: once the instance closes there is an    *)
(* end to them.  A response need not be written: the transport may hang.   *)
Fairness == WF_vars(InstanceStep) /\ WF_vars(\E s \in Sessions : SessionStep(s))

Spec == Init /\ [][Next]_vars /\ Fairness
------------------------------------------------------------------------------
(* Properties.                                                             *)

\* The variables keep their types; the drain timer runs only during a drain.
TypeOK ==
    /\ closing \in BOOLEAN /\ terminalErr \in BOOLEAN /\ timer \in BOOLEAN /\ ctxDone \in BOOLEAN
    /\ ledger \in [Sessions -> SUBSET Calls]
    /\ due \subseteq {"empty", "timer", "close"}
    /\ draining \in {"no", "scopes", "done"} /\ scopes \subseteq Sessions /\ awaitResponse \in BOOLEAN
    /\ shutdown \in {"no", "connecting", "joining", "runtime", "done"} /\ targets \subseteq Sessions
    /\ phase \in [Sessions -> {"idle", "probing", "joining", "joined", "refusing", "serving",
                               "refused", "ended"}]
    /\ link \in [Sessions -> {"none", "up", "down", "reported"}]
    /\ scopeDone \in [Sessions -> BOOLEAN]
    /\ work \in [Sessions -> [Calls -> {"none", "queued", "running", "answered"}]]
    /\ closer \in [Closers -> {"idle", "waiting", "closed"}]
    /\ timer => terminalErr /\ shutdown = "no"

\* Shutdown misses nobody: when it closes the runtime, every Connect has
\* returned, every session, however it raced with the close, has lost its
\* connection, and no handler that uses the runtime is left.
NothingOutlivesShutdown ==
    shutdown \in {"runtime", "done"} =>
      \A s \in Sessions :
        /\ phase[s] \in {"idle", "refused", "ended"} /\ link[s] # "up"
        /\ \A id \in Calls : work[s][id] = "none"

Working(s) == {id \in Calls : work[s][id] # "none"}

\* Until the close the ledger is exactly what the clients wait for, whatever
\* sessions come and go, so that no more handlers than the limits allow work
\* for living clients and a client is not refused for calls long done.
AcceptedIsCounted ==
    /\ \A s \in Sessions :
         /\ link[s] = "up" /\ shutdown = "no" => ledger[s] = Working(s)
         /\ link[s] = "reported" => ledger[s] = {}
         /\ link[s] = "up" => Cardinality(Working(s)) <= MaxSessionCalls
    /\ Cardinality({x \in Sessions \X Calls : link[x[1]] = "up" /\ x[2] \in Working(x[1])})
         <= MaxInstanceCalls

\* The instance's accounts are in order.
InstanceOK == TypeOK /\ AcceptedIsCounted

\* After a terminal failure nobody is closed by force who still waits for an
\* accepted call, unless the drain ran out of time or somebody asked for it.
DrainsBeforeClose ==
    [][shutdown = "no" /\ shutdown' # "no" /\ due = {"empty"}
         => \A s \in Sessions : link[s] = "up" => Working(s) = {}]_vars

\* A terminal failure and a call of Close both end with everything closed,
\* whatever clients, transports and the callers of Close do.
ShutdownEnds == terminalErr \/ due # {} ~> shutdown = "done"
=============================================================================
