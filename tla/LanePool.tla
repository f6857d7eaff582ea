------------------------------- MODULE LanePool -------------------------------
(***************************************************************************)
(* The command lanes of a Connection (controlLanePool): a fixed set of     *)
(* control clients lent to one caller at a time, plus clients opened for   *)
(* one command that may block.  A lane whose command was abandoned rejoins *)
(* the pool behind a reply fence, a lane that failed is retired for good,  *)
(* and Close takes every client with it.                                   *)
(*                                                                         *)
(* A client is what ControlClient shows of itself: at most one command     *)
(* whose reply is outstanding (wire), a stream that can be lost, a close.  *)
(* An exclusive client is named by the request it was opened for.          *)
(***************************************************************************)
EXTENDS Integers, FiniteSets

CONSTANTS
    Callers,      \* goroutines running commands through the connection
    Lanes,        \* the pool's clients
    Modes,        \* "lane" for pool.call, "exclusive" for runExclusive
    MaxRequests,  \* bound: commands run in a behaviour
    NoClient

Requests == 1..MaxRequests
Clients  == Lanes \cup Requests

ASSUME PoolAssumption ==
    /\ IsFiniteSet(Lanes) /\ Lanes # {}
    /\ Modes \subseteq {"lane", "exclusive"}
    /\ MaxRequests \in Nat
    /\ Lanes \cap Requests = {}
    /\ NoClient \notin Clients

VARIABLES
    pc, req, at, got,            \* per caller: place, request, client, its outcome
    made, ctxDone, answer,       \* per request: context and what the caller was told
    free, live, failure,         \* the pool: idle lanes, lanes not retired, first failure
    drained, stopped,            \* its two channels, once closed
    fence,                       \* per lane: the goroutine behind an abandoned command
    drainer,                     \* the lane whose retirement found live at zero
    opened, exclusive, retiring, \* exclusive clients: all, adopted, in retire
    wire, gone, closed,          \* per client
    closePhase, collected,       \* the pool's close and the clients it found
    sent, ran                    \* history, per request

callVars    == <<pc, req, at, got, made, ctxDone, answer>>
poolVars    == <<free, live, failure, drained, stopped, fence, drainer>>
exclVars    == <<opened, exclusive, retiring>>
clientVars  == <<wire, gone, closed>>
closeVars   == <<closePhase, collected>>
history     == <<sent, ran>>
vars == <<callVars, poolVars, exclVars, clientVars, closeVars, history>>

(* What a client call may end in.  "ctx" is the context before the write;  *)
(* "abandoned" is ErrOutcomeUnknown with the context, which                *)
(* connectionSurvives; "unknown" is ErrOutcomeUnknown with a lost stream.  *)
NotRun    == {"ctx", "closed", "lost", "open"}
Survives(outcome) == outcome \in {"ok", "ctx"}
Outcomes  == NotRun \cup {"none", "ok", "abandoned", "unknown"}

Init ==
    /\ pc = [c \in Callers |-> "idle"]
    /\ req = [c \in Callers |-> 0]
    /\ at = [c \in Callers |-> NoClient]
    /\ got = [c \in Callers |-> "none"]
    /\ made = 0
    /\ ctxDone = [r \in Requests |-> FALSE]
    /\ answer = [r \in Requests |-> "none"]
    /\ free = Lanes /\ live = Cardinality(Lanes) /\ failure = "none"
    /\ drained = FALSE /\ stopped = FALSE
    /\ fence = [x \in Lanes |-> "none"]
    /\ drainer = NoClient
    /\ opened = {} /\ exclusive = {} /\ retiring = {}
    /\ wire = [x \in Clients |-> 0]
    /\ gone = [x \in Clients |-> FALSE]
    /\ closed = [x \in Clients |-> FALSE]
    /\ closePhase = "open" /\ collected = {}
    /\ sent = [r \in Requests |-> FALSE]
    /\ ran = [r \in Requests |-> FALSE]

------------------------------------------------------------------------------
GoTo(c, place) == pc' = [pc EXCEPT ![c] = place]

Tell(c, outcome) ==
    /\ answer' = [answer EXCEPT ![req[c]] = outcome]
    /\ at' = [at EXCEPT ![c] = NoClient]
    /\ GoTo(c, "idle")

Call(c) ==
    /\ pc[c] = "idle" /\ made < MaxRequests
    /\ made' = made + 1
    /\ req' = [req EXCEPT ![c] = made']
    /\ \E mode \in Modes : GoTo(c, IF mode = "lane" THEN "check" ELSE "checkExclusive")
    /\ UNCHANGED <<at, got, ctxDone, answer, poolVars, exclVars, clientVars, closeVars, history>>

CancelContext(c) ==
    /\ pc[c] # "idle" /\ ~ctxDone[req[c]]
    /\ ctxDone' = [ctxDone EXCEPT ![req[c]] = TRUE]
    /\ UNCHANGED <<pc, req, at, got, made, answer, poolVars, exclVars, clientVars, closeVars, history>>

------------------------------------------------------------------------------
(* acquire.                                                                *)

\* What p.drainError reports: the failure that retired the first lane.
DrainError == IF failure = "none" THEN "closed" ELSE failure

\* The checks before the select, in their order.
AcquireCheck(c) ==
    /\ pc[c] = "check"
    /\ IF ctxDone[req[c]] THEN Tell(c, "ctx")
       ELSE IF stopped THEN Tell(c, "closed")
       ELSE IF drained THEN Tell(c, DrainError)
       ELSE GoTo(c, "acquire") /\ UNCHANGED <<at, answer>>
    /\ UNCHANGED <<req, got, made, ctxDone, poolVars, exclVars, clientVars, closeVars, history>>

AcquireLane(c) ==
    /\ pc[c] = "acquire"
    /\ \E x \in free :
         /\ free' = free \ {x}
         /\ at' = [at EXCEPT ![c] = x]
    /\ GoTo(c, "taken")
    /\ UNCHANGED <<req, got, made, ctxDone, answer, live, failure, drained, stopped, fence,
                   drainer, exclVars, clientVars, closeVars, history>>

\* Mutant: a waiter for a lane does not watch its context.
AcquireGivesUpLate(c) ==
    /\ pc[c] = "acquire"
    /\ \/ stopped /\ Tell(c, "closed")
       \/ drained /\ Tell(c, DrainError)
    /\ UNCHANGED <<req, got, made, ctxDone, poolVars, exclVars, clientVars, closeVars, history>>

AcquireGivesUp(c) ==
    /\ pc[c] = "acquire"
    /\ \/ ctxDone[req[c]] /\ Tell(c, "ctx")
       \/ stopped /\ Tell(c, "closed")
       \/ drained /\ Tell(c, DrainError)
    /\ UNCHANGED <<req, got, made, ctxDone, poolVars, exclVars, clientVars, closeVars, history>>

\* A lane received while the context or the pool ended goes back.
Recheck(c) ==
    /\ pc[c] = "taken"
    /\ IF ctxDone[req[c]] \/ stopped
       THEN /\ Tell(c, IF ctxDone[req[c]] THEN "ctx" ELSE "closed")
            /\ free' = free \cup {at[c]}
       ELSE GoTo(c, "call") /\ UNCHANGED <<at, answer, free>>
    /\ UNCHANGED <<req, got, made, ctxDone, live, failure, drained, stopped, fence, drainer,
                   exclVars, clientVars, closeVars, history>>

------------------------------------------------------------------------------
(* The client's part of a call, as ControlClient proves it.                *)

Unusable(x) == gone[x] \/ closed[x]

ClientReturns(c, outcome) ==
    /\ got' = [got EXCEPT ![c] = outcome]
    /\ GoTo(c, "release")
    /\ UNCHANGED <<req, at, made, ctxDone, answer>>

\* An answer from before the write.
NotSent(c) ==
    /\ pc[c] = "call"
    /\ \/ ctxDone[req[c]] /\ ClientReturns(c, "ctx")
       \/ closed[at[c]] /\ ClientReturns(c, "closed")
       \/ gone[at[c]] /\ ClientReturns(c, "lost")
    /\ UNCHANGED <<poolVars, exclVars, clientVars, closeVars, history>>

\* The client writes only when its last reply boundary is behind it.
Send(c) ==
    /\ pc[c] = "call" /\ ~Unusable(at[c]) /\ wire[at[c]] = 0
    /\ wire' = [wire EXCEPT ![at[c]] = req[c]]
    /\ sent' = [sent EXCEPT ![req[c]] = TRUE]
    /\ GoTo(c, "wait")
    /\ UNCHANGED <<req, at, got, made, ctxDone, answer, poolVars, exclVars, gone, closed,
                   closeVars, ran>>

\* The write began on a stream that turned out to be lost.
SendFails(c) ==
    /\ pc[c] = "call" /\ Unusable(at[c])
    /\ sent' = [sent EXCEPT ![req[c]] = TRUE]
    /\ ClientReturns(c, "unknown")
    /\ UNCHANGED <<poolVars, exclVars, clientVars, closeVars, ran>>

\* Mutant: a lost stream is reported as if the command had not been sent.
WaitEndsDefinite(c) ==
    /\ pc[c] = "wait"
    /\ \/ ctxDone[req[c]] /\ ClientReturns(c, "abandoned")
       \/ Unusable(at[c]) /\ ClientReturns(c, "lost")
    /\ UNCHANGED <<poolVars, exclVars, clientVars, closeVars, history>>

WaitEnds(c) ==
    /\ pc[c] = "wait"
    /\ \/ ctxDone[req[c]] /\ ClientReturns(c, "abandoned")
       \/ Unusable(at[c]) /\ ClientReturns(c, "unknown")
    /\ UNCHANGED <<poolVars, exclVars, clientVars, closeVars, history>>

TmuxRuns(x) ==
    /\ wire[x] # 0 /\ ~ran[wire[x]]
    /\ ran' = [ran EXCEPT ![wire[x]] = TRUE]
    /\ UNCHANGED <<callVars, poolVars, exclVars, clientVars, closeVars, sent>>

\* The reply boundary comes back: to the caller that waits, or to nobody.
TmuxReplies(x) ==
    /\ wire[x] # 0 /\ ran[wire[x]] /\ ~Unusable(x)
    /\ wire' = [wire EXCEPT ![x] = 0]
    /\ IF \E c \in Callers : pc[c] = "wait" /\ at[c] = x
       THEN \E c \in Callers : pc[c] = "wait" /\ at[c] = x /\ ClientReturns(c, "ok")
       ELSE UNCHANGED callVars
    /\ UNCHANGED <<poolVars, exclVars, gone, closed, closeVars, history>>

StreamLost(x) ==
    /\ x \in Lanes \cup opened /\ ~gone[x]
    /\ gone' = [gone EXCEPT ![x] = TRUE]
    /\ UNCHANGED <<callVars, poolVars, exclVars, wire, closed, closeVars, history>>

------------------------------------------------------------------------------
(* release.                                                                *)

\* Mutant: an abandoned lane rejoins the pool at once.
ReleaseToFreeAtOnce(c) ==
    /\ pc[c] = "release" /\ at[c] \in Lanes
    /\ Survives(got[c]) \/ got[c] = "abandoned"
    /\ free' = free \cup {at[c]}
    /\ Tell(c, got[c])
    /\ UNCHANGED <<req, got, made, ctxDone, live, failure, drained, stopped, fence, drainer,
                   exclVars, clientVars, closeVars, history>>

ReleaseToFree(c) ==
    /\ pc[c] = "release" /\ at[c] \in Lanes
    /\ Survives(got[c])
    /\ free' = free \cup {at[c]}
    /\ Tell(c, got[c])
    /\ UNCHANGED <<req, got, made, ctxDone, live, failure, drained, stopped, fence, drainer,
                   exclVars, clientVars, closeVars, history>>

\* The caller stopped waiting: a goroutine takes the lane to a reply fence.
ReleaseToFence(c) ==
    /\ pc[c] = "release" /\ at[c] \in Lanes
    /\ got[c] = "abandoned"
    /\ fence' = [fence EXCEPT ![at[c]] = "crossing"]
    /\ Tell(c, "abandoned")
    /\ UNCHANGED <<req, got, made, ctxDone, free, live, failure, drained, stopped, drainer,
                   exclVars, clientVars, closeVars, history>>

\* Retirement under the lock; the last lane out remembers that it was.
Retire(x, err) ==
    /\ failure' = IF failure = "none" THEN err ELSE failure
    /\ live' = live - 1
    /\ drainer' = IF live' = 0 THEN x ELSE drainer
    /\ UNCHANGED <<free, drained, stopped>>

ReleaseRetires(c) ==
    /\ pc[c] = "release" /\ at[c] \in Lanes
    /\ ~Survives(got[c]) /\ got[c] # "abandoned"
    /\ Retire(at[c], got[c])
    /\ GoTo(c, "closing")
    /\ UNCHANGED <<req, at, got, made, ctxDone, answer, fence, exclVars, clientVars, closeVars, history>>

\* ... and after the lock, its close and then, for the last, the signal.
CloseRetired(x) ==
    /\ closed' = [closed EXCEPT ![x] = TRUE]
    /\ drained' = (drained \/ drainer = x)
    /\ UNCHANGED <<free, live, failure, stopped, drainer, wire, gone>>

ReleaseCloses(c) ==
    /\ pc[c] = "closing"
    /\ CloseRetired(at[c])
    /\ Tell(c, got[c])
    /\ UNCHANGED <<req, got, made, ctxDone, fence, exclVars, closeVars, history>>

\* The fence goroutine: its release is the same release.
FenceCrossed(x) ==
    /\ fence[x] = "crossing" /\ wire[x] = 0 /\ ~Unusable(x)
    /\ free' = free \cup {x}
    /\ fence' = [fence EXCEPT ![x] = "none"]
    /\ UNCHANGED <<callVars, live, failure, drained, stopped, drainer, exclVars, clientVars,
                   closeVars, history>>

FenceFails(x) ==
    /\ fence[x] = "crossing" /\ Unusable(x)
    /\ \E err \in {"closed", "lost", "unknown"} : Retire(x, err)
    /\ fence' = [fence EXCEPT ![x] = "closing"]
    /\ UNCHANGED <<callVars, exclVars, clientVars, closeVars, history>>

FenceCloses(x) ==
    /\ fence[x] = "closing"
    /\ CloseRetired(x)
    /\ fence' = [fence EXCEPT ![x] = "none"]
    /\ UNCHANGED <<callVars, exclVars, closeVars, history>>

------------------------------------------------------------------------------
(* runExclusive.                                                           *)

ExclusiveCheck(c) ==
    /\ pc[c] = "checkExclusive"
    /\ IF ctxDone[req[c]] THEN Tell(c, "ctx")
       ELSE IF stopped THEN Tell(c, "closed")
       ELSE GoTo(c, "open") /\ UNCHANGED <<at, answer>>
    /\ UNCHANGED <<req, got, made, ctxDone, poolVars, exclVars, clientVars, closeVars, history>>

OpenFails(c) ==
    /\ pc[c] = "open"
    /\ Tell(c, IF ctxDone[req[c]] THEN "ctx" ELSE "open")
    /\ UNCHANGED <<req, got, made, ctxDone, poolVars, exclVars, clientVars, closeVars, history>>

OpenClient(c) ==
    /\ pc[c] = "open"
    /\ opened' = opened \cup {req[c]}
    /\ at' = [at EXCEPT ![c] = req[c]]
    /\ GoTo(c, "adopt")
    /\ UNCHANGED <<req, got, made, ctxDone, answer, poolVars, exclusive, retiring, clientVars,
                   closeVars, history>>

\* Mutant: the client is adopted whether or not the pool stopped meanwhile.
AdoptAfterStop(c) ==
    /\ pc[c] = "adopt"
    /\ exclusive' = exclusive \cup {at[c]}
    /\ GoTo(c, "call") /\ UNCHANGED <<at, answer, closed>>
    /\ UNCHANGED <<req, got, made, ctxDone, poolVars, opened, retiring, wire, gone,
                   closeVars, history>>

\* adopt, under the lock: a client opened while the pool stopped is closed here.
Adopt(c) ==
    /\ pc[c] = "adopt"
    /\ IF stopped
       THEN /\ closed' = [closed EXCEPT ![at[c]] = TRUE]
            /\ Tell(c, "closed")
            /\ UNCHANGED exclusive
       ELSE /\ exclusive' = exclusive \cup {at[c]}
            /\ GoTo(c, "call") /\ UNCHANGED <<at, answer, closed>>
    /\ UNCHANGED <<req, got, made, ctxDone, poolVars, opened, retiring, wire, gone,
                   closeVars, history>>

\* However the command ended its client is closed: behind a failed caller's
\* back, or before a successful one returns.
ReleaseExclusive(c) ==
    /\ pc[c] = "release" /\ at[c] \in exclusive
    /\ retiring' = retiring \cup {at[c]}
    /\ IF got[c] = "ok"
       THEN GoTo(c, "retire") /\ UNCHANGED <<at, answer>>
       ELSE Tell(c, got[c])
    /\ UNCHANGED <<req, got, made, ctxDone, poolVars, opened, exclusive, clientVars, closeVars, history>>

RetireCloses(x) ==
    /\ x \in retiring /\ ~closed[x]
    /\ closed' = [closed EXCEPT ![x] = TRUE]
    /\ UNCHANGED <<callVars, poolVars, exclVars, wire, gone, closeVars, history>>

RetireForgets(x) ==
    /\ x \in retiring /\ closed[x]
    /\ exclusive' = exclusive \ {x}
    /\ retiring' = retiring \ {x}
    /\ UNCHANGED <<callVars, poolVars, opened, clientVars, closeVars, history>>

RetireReturns(c) ==
    /\ pc[c] = "retire" /\ at[c] \notin exclusive
    /\ Tell(c, got[c])
    /\ UNCHANGED <<req, got, made, ctxDone, poolVars, exclVars, clientVars, closeVars, history>>

------------------------------------------------------------------------------
(* Connection.Close.                                                       *)

Stop ==
    /\ closePhase = "open"
    /\ stopped' = TRUE /\ closePhase' = "stopped"
    /\ UNCHANGED <<callVars, free, live, failure, drained, fence, drainer, exclVars, clientVars,
                   collected, history>>

\* closing, under the lock: every client the pool owns.
Collect ==
    /\ closePhase = "stopped"
    /\ collected' = Lanes \cup exclusive
    /\ closePhase' = "collected"
    /\ UNCHANGED <<callVars, poolVars, exclVars, clientVars, history>>

CloseCollected ==
    /\ closePhase = "collected"
    /\ closed' = [x \in Clients |-> closed[x] \/ x \in collected]
    /\ closePhase' = "closed"
    /\ UNCHANGED <<callVars, poolVars, exclVars, wire, gone, collected, history>>

------------------------------------------------------------------------------
CallerStep(c) ==
    \/ AcquireCheck(c) \/ AcquireLane(c) \/ AcquireGivesUp(c) \/ Recheck(c)
    \/ NotSent(c) \/ Send(c) \/ SendFails(c) \/ WaitEnds(c)
    \/ ReleaseToFree(c) \/ ReleaseToFence(c) \/ ReleaseRetires(c) \/ ReleaseCloses(c)
    \/ ExclusiveCheck(c) \/ OpenFails(c) \/ OpenClient(c) \/ Adopt(c)
    \/ ReleaseExclusive(c) \/ RetireReturns(c)

FenceStep(x)  == FenceCrossed(x) \/ FenceFails(x) \/ FenceCloses(x)
RetireStep(x) == RetireCloses(x) \/ RetireForgets(x)
CloseStep     == Collect \/ CloseCollected

Next ==
    \/ \E c \in Callers : Call(c) \/ CancelContext(c) \/ CallerStep(c)
    \/ \E x \in Lanes : FenceStep(x)
    \/ \E x \in Requests : RetireStep(x)
    \/ \E x \in Clients : TmuxRuns(x) \/ TmuxReplies(x) \/ StreamLost(x)
    \/ Stop \/ CloseStep

(* Goroutines that can run do.  tmux owes nothing: a reply may never come, *)
(* and attaching a client may take until the caller's context ends.  A     *)
(* lane is not promised to a particular waiter.                            *)
Fairness ==
    /\ \A c \in Callers :
         WF_vars(CallerStep(c) /\ (pc[c] = "open" => ctxDone[req[c]]))
    /\ \A x \in Lanes : WF_vars(FenceStep(x))
    /\ \A x \in Requests : WF_vars(RetireStep(x))
    /\ WF_vars(CloseStep)

Spec == Init /\ [][Next]_vars /\ Fairness
------------------------------------------------------------------------------
(* Properties.                                                             *)

Places == {"idle", "check", "acquire", "taken", "call", "wait", "release", "closing",
           "checkExclusive", "open", "adopt", "retire"}

\* The variables keep their types.
TypeOK ==
    /\ pc \in [Callers -> Places]
    /\ req \in [Callers -> 0..MaxRequests]
    /\ at \in [Callers -> Clients \cup {NoClient}]
    /\ got \in [Callers -> Outcomes]
    /\ made \in 0..MaxRequests
    /\ ctxDone \in [Requests -> BOOLEAN]
    /\ answer \in [Requests -> Outcomes]
    /\ free \subseteq Lanes /\ live \in Int /\ failure \in Outcomes
    /\ drained \in BOOLEAN /\ stopped \in BOOLEAN
    /\ fence \in [Lanes -> {"none", "crossing", "closing"}]
    /\ drainer \in Lanes \cup {NoClient}
    /\ opened \subseteq Requests /\ exclusive \subseteq Requests /\ retiring \subseteq Requests
    /\ wire \in [Clients -> 0..MaxRequests]
    /\ gone \in [Clients -> BOOLEAN] /\ closed \in [Clients -> BOOLEAN]
    /\ closePhase \in {"open", "stopped", "collected", "closed"}
    /\ collected \subseteq Clients
    /\ sent \in [Requests -> BOOLEAN] /\ ran \in [Requests -> BOOLEAN]

Holds(c, x)  == at[c] = x /\ pc[c] \in {"taken", "call", "wait", "release"}
Held(x)      == \E c \in Callers : Holds(c, x)
Crossing(x)  == fence[x] = "crossing"
InService    == {x \in Lanes : x \in free \/ Held(x) \/ Crossing(x)}

\* A lane in service is in one place: idle in the channel, lent to one caller,
\* or behind an abandoned command.  live counts the lanes in service, so none
\* is lost on a path out of acquire or call, and none is handed to two callers.
LaneInOnePlace ==
    /\ \A x \in free : ~Held(x) /\ ~Crossing(x)
    /\ \A x \in Lanes : Held(x) => ~Crossing(x)
    /\ \A c, d \in Callers, x \in Lanes : Holds(c, x) /\ Holds(d, x) => c = d
    /\ live = Cardinality(InService)

\* A lane in the channel answers whoever takes it: no command that somebody
\* walked away from is still running on it.
FreeLaneIsIdle == \A x \in free : wire[x] = 0

\* The pool refuses for good only when its last lane is out of service.
DrainedIsTrue == drained => InService = {}

\* The pool's bookkeeping: it lends one idle lane to one caller, loses none, and
\* refuses for good only when none is left.
PoolOK == TypeOK /\ LaneInOnePlace /\ FreeLaneIsIdle /\ DrainedIsTrue

\* Once Close has signaled the clients it collected, every client is closing,
\* save one whose opener has yet to learn that the pool stopped and will close
\* it: a client opened while Close ran is never forgotten.
NoClientForgotten ==
    closePhase = "closed" =>
        \A x \in Lanes \cup opened :
            closed[x] \/ \E c \in Callers : pc[c] = "adopt" /\ at[c] = x

\* The promise every transport makes about a command (see RequestOutcome).
Outcome == INSTANCE RequestOutcome WITH
    phase  <- [r \in Requests |-> IF r > made THEN "none"
                                  ELSE IF answer[r] = "none" THEN "open" ELSE "answered"],
    answer <- [r \in Requests |-> IF answer[r] \in NotRun THEN "notRun"
                                  ELSE IF answer[r] = "abandoned" THEN "unknown"
                                  ELSE answer[r]]

OutcomePromise == Outcome!Spec

\* A caller whose context ended returns, whatever tmux does.
CanceledCallsReturn ==
    \A c \in Callers : pc[c] # "idle" /\ ctxDone[req[c]] ~> pc[c] = "idle"

\* When every lane has lost its stream nobody waits for one for ever: the lanes
\* are found out one by one and the last of them sends the waiters home.
DeadPoolRefuses ==
    \A c \in Callers :
        pc[c] = "acquire" /\ (\A x \in Lanes : gone[x]) ~> pc[c] # "acquire"

\* Nobody waits for a lane or a reply longer than there is reason to.
WaitersReturn == CanceledCallsReturn /\ DeadPoolRefuses

\* After Close every call returns, but for one still attaching a new client,
\* and every client is closed, one that finishes attaching later included.
CloseEndsAll ==
    /\ \A c \in Callers : stopped /\ pc[c] \notin {"idle", "open"} ~> pc[c] = "idle"
    /\ \A x \in Clients : stopped /\ x \in Lanes \cup opened ~> closed[x]

\* Neither callers nor Close are held up for ever.
EveryoneReturns == WaitersReturn /\ CloseEndsAll

\* Not an invariant, although the documentation of ErrOutcomeUnknown says it
\* (control_client.go:26): only a command whose write began is reported as
\* unknown.  A drained pool reports its first failure to later callers as it is.
UnknownMeansSent == \A r \in Requests : answer[r] \in {"abandoned", "unknown"} => sent[r]
=============================================================================
