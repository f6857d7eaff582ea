---------------------------- MODULE McpConnection ----------------------------
(***************************************************************************)
(* One client connection of the MCP server: sessionReadyConnection under   *)
(* handshakeOrderedConnection, with the ledger of unsettled calls that the *)
(* Instance keeps for it.  The SDK above (its reader, the goroutines that  *)
(* write, its own close) and the transport below are external: the SDK may *)
(* write a reply to any call it was given, and a transport call may fail,  *)
(* or never return.                                                        *)
(*                                                                         *)
(* stateMutex makes each of its critical sections one action.  A deadline  *)
(* is a flag that turns true once, and a time a comparison with it.        *)
(***************************************************************************)
EXTENDS Integers, FiniteSets

CONSTANTS
    Senders,          \* goroutines of the SDK that write
    Reader,           \* the SDK's reader goroutine
    Calls,            \* request IDs
    Closers,          \* callers of Close: ServerSession.Close, the SDK
    Kinds,            \* notifications: "changed" is of the tool list, "note" any other
    MaxSessionCalls,  \* unsettled calls allowed
    MaxReads,         \* bound: messages the client sends
    MaxNotes,         \* bound: notifications the server sends
    Nobody

ASSUME ConnectionAssumption ==
    /\ IsFiniteSet(Senders) /\ IsFiniteSet(Calls)
    /\ Kinds \subseteq {"note", "changed"} /\ IsFiniteSet(Closers) /\ Closers \cap (Senders \cup {Reader, "monitor"}) = {}
    /\ Reader \notin Senders /\ Nobody \notin Senders \cup {Reader} \cup Calls
    /\ Calls \cap {"note", "changed", "initialized"} = {}
    /\ MaxSessionCalls \in Nat /\ MaxReads \in Nat /\ MaxNotes \in Nat

Writers == Senders \cup {Reader}
Actors  == Writers \cup Closers \cup {"monitor"}

VARIABLES
    active, committing, lifetime,      \* the connection
    slot, writeDone, writeLate,        \* its write slot, and the write Close waits for
    transport, closeExpired, closeTimedOut, closer, closeResult,
    mutex, initialized, held,          \* the handshake layer
    ledger, terminals,                 \* of the instance; onTerminal runs so far
    at, msg, outcome, owes,            \* the goroutines
    canceled, expired,                 \* context and deadline of a writer in the queue
    note,                              \* the notification now being written
    handling,                          \* calls in the SDK's handlers
    outstanding, rude,                 \* history: the client's view of its calls
    reads, notes

connVars   == <<active, committing, lifetime>>
slotVars   == <<slot, writeDone, writeLate>>
closeVars  == <<transport, closeExpired, closeTimedOut, closer, closeResult>>
shakeVars  == <<mutex, initialized, held>>
ledgerVars == <<ledger, terminals>>
timeVars   == <<canceled, expired>>
clientVars == <<outstanding, rude>>
bounds     == <<reads, notes>>
vars == <<connVars, slotVars, closeVars, shakeVars, ledgerVars, at, msg, outcome, owes,
          timeVars, note, handling, clientVars, bounds>>

\* No notification is being written, or one was and nothing of it is left.
NoNote == [pc |-> "none", what |-> Nobody, canceled |-> FALSE, expired |-> FALSE,
           watched |-> "no", released |-> FALSE, late |-> FALSE, result |-> "ok"]

Init ==
    /\ active = TRUE /\ committing = FALSE /\ lifetime = FALSE
    /\ slot = Nobody /\ writeDone = TRUE /\ writeLate = FALSE
    /\ transport = "open" /\ closeExpired = FALSE /\ closeTimedOut = FALSE
    /\ closer = [c \in Closers |-> "idle"]
    /\ closeResult = [c \in Closers |-> "none"]
    /\ mutex = Nobody /\ initialized = FALSE /\ held = FALSE
    /\ ledger = {} /\ terminals = 0
    /\ at = [p \in Writers |-> IF p = Reader THEN "read" ELSE "idle"]
    /\ msg = [p \in Writers |-> Nobody]
    /\ outcome = [s \in Senders |-> [result |-> "ok", late |-> FALSE]]
    /\ owes = [a \in Actors |-> FALSE]
    /\ canceled = [p \in Writers |-> FALSE]
    /\ expired = [p \in Writers |-> FALSE]
    /\ note = NoNote
    /\ handling = {} /\ outstanding = {} /\ rude = FALSE
    /\ reads = 0 /\ notes = 0

------------------------------------------------------------------------------
GoTo(p, place) == at' = [at EXCEPT ![p] = place]

\* deactivate under the mutex: whoever finds the connection active owes the
\* instance the news.
Deactivate(a) ==
    /\ active' = FALSE
    /\ owes' = [owes EXCEPT ![a] = active]
    /\ UNCHANGED committing

\* onTerminal: scope.terminate and connectionTerminated.
ReportTerminal(a) ==
    IF owes[a]
    THEN /\ ledger' = {} /\ terminals' = terminals + 1
         /\ owes' = [owes EXCEPT ![a] = FALSE]
    ELSE UNCHANGED <<ledgerVars, owes>>

\* The rest of deactivate, once the mutex is released.
Disconnect(a) ==
    /\ lifetime' = TRUE
    /\ ReportTerminal(a)
    /\ UNCHANGED <<active, committing>>

StartTransportClose == transport' = IF transport = "open" THEN "closing" ELSE transport

\* Write returns through the handshake layer; a held notification was written
\* by the reader, which then goes on with the message it has.
Return(p, failed) ==
    /\ mutex' = Nobody
    /\ GoTo(p, IF p # Reader THEN "idle" ELSE IF failed THEN "stopped" ELSE "read")
    /\ msg' = [msg EXCEPT ![p] = Nobody]
    /\ canceled' = [canceled EXCEPT ![p] = FALSE]
    /\ expired' = [expired EXCEPT ![p] = FALSE]
    /\ UNCHANGED <<initialized, held, handling>>

------------------------------------------------------------------------------
(* Reading.                                                                *)

\* What the client sends, and what it thinks is unanswered when it does: a
\* polite client waits for the reply before it uses a request ID again.
ClientSends(m) ==
    /\ reads < MaxReads /\ reads' = reads + 1
    /\ outstanding' = outstanding \cup ({m} \cap Calls)
    /\ rude' = (rude \/ m \in outstanding \/ Cardinality(outstanding') > MaxSessionCalls)
    /\ notes' = notes

\* Read returns an error, and the SDK stops reading.
ReaderStops == GoTo(Reader, "stopped")

\* The gate, which the instance opens once the session is installed, is no
\* more than a delay of the first message here.
ReadEnds ==
    /\ at[Reader] = "read" /\ lifetime /\ ReaderStops
    /\ UNCHANGED <<connVars, slotVars, closeVars, shakeVars, ledgerVars, msg, outcome,
                   owes, timeVars, note, handling, clientVars, bounds>>

ReadMessage(m) ==
    /\ at[Reader] = "read" /\ ClientSends(m)
    /\ msg' = [msg EXCEPT ![Reader] = m]
    /\ GoTo(Reader, "admit")
    /\ UNCHANGED <<connVars, slotVars, closeVars, shakeVars, ledgerVars, outcome,
                   owes, timeVars, note, handling>>

\* The client is gone, the lifetime ended, or the message cannot be measured.
ReadFails ==
    /\ at[Reader] = "read" /\ Deactivate(Reader) /\ GoTo(Reader, "retire")
    /\ UNCHANGED <<lifetime, slotVars, closeVars, shakeVars, ledgerVars, msg, outcome,
                   timeVars, note, handling, clientVars, bounds>>

\* responseLedger.admit; a closing instance, and one at its own limit, refuse
\* like a session at its limit.
Refusal(m) ==
    IF m \in ledger THEN "duplicate"
    ELSE IF m \in Calls /\ Cardinality(ledger) >= MaxSessionCalls THEN "capacity"
    ELSE "none"

\* Mutant: a read does not wait for a reply being settled.
SettledAlways == TRUE

Settled == ~(active /\ committing)

\* Mutant: a read that waited does not look whether the connection still lives.
AdmitAfterDeath ==
    LET m == msg[Reader] IN
    /\ at[Reader] = "admit" /\ Settled
    /\ Refusal(m) = "none"
    /\ ledger' = ledger \cup ({m} \cap Calls)
    /\ handling' = handling \cup ({m} \cap Calls)
    /\ GoTo(Reader, IF m = "initialized" THEN "init" ELSE "read")
    /\ UNCHANGED <<connVars, slotVars, closeVars, shakeVars, terminals, msg, outcome,
                   owes, timeVars, note, clientVars, bounds>>

Admit ==
    LET m == msg[Reader] IN
    /\ at[Reader] = "admit" /\ Settled
    /\ active /\ Refusal(m) = "none"
    /\ ledger' = ledger \cup ({m} \cap Calls)
    /\ handling' = handling \cup ({m} \cap Calls)
    /\ GoTo(Reader, IF m = "initialized" THEN "init" ELSE "read")
    /\ UNCHANGED <<connVars, slotVars, closeVars, shakeVars, terminals, msg, outcome,
                   owes, timeVars, note, clientVars, bounds>>

RefuseMessage ==
    /\ at[Reader] = "admit" /\ Settled
    /\ active /\ Refusal(msg[Reader]) # "none"
    /\ Deactivate(Reader) /\ GoTo(Reader, "retire")
    /\ UNCHANGED <<lifetime, slotVars, closeVars, shakeVars, ledgerVars, msg, outcome,
                   timeVars, note, handling, clientVars, bounds>>

ReadTooLate ==
    /\ at[Reader] = "admit" /\ ~active /\ ReaderStops
    /\ UNCHANGED <<connVars, slotVars, closeVars, shakeVars, ledgerVars, msg, outcome,
                   owes, timeVars, note, handling, clientVars, bounds>>

RetireRead ==
    /\ at[Reader] = "retire" /\ Disconnect(Reader) /\ ReaderStops
    /\ UNCHANGED <<slotVars, closeVars, shakeVars, msg, outcome, timeVars, note,
                   handling, clientVars, bounds>>

\* handshakeOrderedConnection.Read: what was held is written before the mutex
\* is given back, so nothing overtakes it.
Initialized ==
    /\ at[Reader] = "init" /\ mutex = Nobody
    /\ initialized' = TRUE /\ held' = FALSE
    /\ IF held
       THEN /\ mutex' = Reader /\ GoTo(Reader, "noteSlot")
            /\ msg' = [msg EXCEPT ![Reader] = "changed"]
       ELSE /\ GoTo(Reader, "read")
            /\ UNCHANGED <<mutex, msg>>
    /\ UNCHANGED <<connVars, slotVars, closeVars, ledgerVars, outcome, owes, timeVars,
                   note, handling, clientVars, bounds>>

------------------------------------------------------------------------------
(* Writing.  All writers of a connection pass the handshake mutex first    *)
(* and keep it until their write returns.                                  *)

\* A handler answers a call once; notifications are sent by anybody.
WriteBegins(s, m) ==
    /\ at[s] = "idle"
    /\ \/ m \in handling /\ handling' = handling \ {m} /\ notes' = notes
       \/ /\ m \in Kinds /\ notes < MaxNotes
          /\ notes' = notes + 1 /\ handling' = handling
    /\ msg' = [msg EXCEPT ![s] = m]
    /\ GoTo(s, "mutex")
    /\ UNCHANGED <<connVars, slotVars, closeVars, shakeVars, ledgerVars, outcome, owes,
                   timeVars, note, clientVars, reads>>

\* handshakeOrderedConnection.Write: an early tool-list notification is held,
\* one for any number of them.
Hold(s) ==
    /\ at[s] = "mutex" /\ mutex = Nobody
    /\ msg[s] = "changed" /\ ~initialized
    /\ held' = TRUE /\ GoTo(s, "idle")
    /\ msg' = [msg EXCEPT ![s] = Nobody]
    /\ UNCHANGED <<connVars, slotVars, closeVars, mutex, initialized, ledgerVars, outcome, owes,
                   timeVars, note, handling, clientVars, bounds>>

EnterWrite(s) ==
    /\ at[s] = "mutex" /\ mutex = Nobody
    /\ msg[s] = "changed" => initialized
    /\ mutex' = s
    /\ GoTo(s, IF msg[s] \in Calls THEN "slot" ELSE "noteSlot")
    /\ UNCHANGED <<connVars, slotVars, closeVars, initialized, held, ledgerVars, msg,
                   outcome, owes, timeVars, note, handling, clientVars, bounds>>

\* From here to ReplyReturns: Write of a reply.
ReplyTakesSlot(s) ==
    /\ at[s] = "slot" /\ slot = Nobody /\ active
    /\ slot' = s /\ committing' = TRUE /\ writeDone' = FALSE /\ writeLate' = FALSE
    /\ GoTo(s, "write")
    /\ UNCHANGED <<active, lifetime, closeVars, shakeVars, ledgerVars, msg, outcome, owes,
                   timeVars, note, handling, clientVars, bounds>>

ReplyRefused(s) ==
    /\ at[s] = "slot" /\ (lifetime \/ (slot = Nobody /\ ~active))
    /\ Return(s, TRUE)
    /\ UNCHANGED <<connVars, slotVars, closeVars, ledgerVars, outcome, owes,
                   note, clientVars, bounds>>

\* The client has the reply before the write has returned.
ReplyArrives(s) ==
    /\ at[s] = "write" /\ GoTo(s, "arrived")
    /\ outstanding' = outstanding \ {msg[s]}
    /\ UNCHANGED <<connVars, slotVars, closeVars, shakeVars, ledgerVars, msg, outcome,
                   owes, timeVars, note, handling, rude, bounds>>

\* The transport's Write returns.  "rejected" is an error that breaks nothing
\* (the SDK's -32005, or the caller's own cancellation).
ReplyWritten(s) ==
    /\ \E r \in {"ok", "rejected", "fatal"} :
         /\ r = "ok" => at[s] = "arrived"
         /\ r = "rejected" => at[s] = "write"
         /\ outcome' = [outcome EXCEPT ![s] = [result |-> r, late |-> closeExpired]]
    /\ at[s] \in {"write", "arrived"} /\ GoTo(s, "written")
    /\ UNCHANGED <<connVars, slotVars, closeVars, shakeVars, ledgerVars, msg, owes,
                   timeVars, note, handling, clientVars, bounds>>

\* The reply settles its call in the step that lets the reader admit again.
Settle(s) ==
    /\ at[s] = "written"
    /\ ledger' = IF active /\ outcome[s].result # "fatal" THEN ledger \ {msg[s]} ELSE ledger
    /\ IF outcome[s].result = "fatal"
       THEN active' = FALSE /\ owes' = [owes EXCEPT ![s] = active]
       ELSE UNCHANGED <<active, owes>>
    /\ committing' = FALSE /\ writeDone' = TRUE /\ writeLate' = outcome[s].late
    /\ GoTo(s, "settled")
    /\ UNCHANGED <<lifetime, slot, closeVars, shakeVars, terminals, msg, outcome,
                   timeVars, note, handling, clientVars, bounds>>

ReplyReturns(s) ==
    /\ at[s] = "settled" /\ slot' = Nobody
    /\ ReportTerminal(s)
    /\ Return(s, outcome[s].result = "fatal")
    /\ UNCHANGED <<connVars, writeDone, writeLate, closeVars, outcome, note,
                   clientVars, bounds>>

------------------------------------------------------------------------------
(* Notifications: writeNotification, its goroutine that does the physical  *)
(* write and keeps the slot, and the monitor of a write whose caller left. *)

\* notificationCancellation.
GivenUp(canceledBy) == canceledBy \/ lifetime

\* Mutant: Close is not told of a notification.
NoteTakesSlotUnfenced(p) ==
    /\ at[p] = "noteSlot" /\ slot = Nobody
    /\ ~GivenUp(canceled[p]) /\ ~expired[p] /\ active
    /\ slot' = p /\ writeDone' = TRUE /\ writeLate' = FALSE
    /\ note' = [NoNote EXCEPT !.pc = "begun", !.what = msg[p]]
    /\ GoTo(p, "noted")
    /\ UNCHANGED <<connVars, closeVars, shakeVars, ledgerVars, msg, outcome, owes,
                   timeVars, handling, clientVars, bounds>>

NoteTakesSlot(p) ==
    /\ at[p] = "noteSlot" /\ slot = Nobody
    /\ ~GivenUp(canceled[p]) /\ ~expired[p] /\ active
    /\ slot' = p /\ writeDone' = FALSE /\ writeLate' = FALSE
    /\ note' = [NoNote EXCEPT !.pc = "begun", !.what = msg[p]]
    /\ GoTo(p, "noted")
    /\ UNCHANGED <<connVars, closeVars, shakeVars, ledgerVars, msg, outcome, owes,
                   timeVars, handling, clientVars, bounds>>

\* Whatever ends the wait for the slot, and the slot in vain.
NoteGivesUp(p) ==
    /\ at[p] = "noteSlot"
    /\ GivenUp(canceled[p]) \/ (slot = Nobody /\ ~expired[p] /\ ~active)
    /\ Return(p, ~canceled[p])
    /\ UNCHANGED <<connVars, slotVars, closeVars, ledgerVars, outcome, owes,
                   note, clientVars, bounds>>

\* Time is up while it waits, or just as it gets the slot, which it then keeps
\* until the connection is inactive.
NoteExpires(p) ==
    /\ at[p] = "noteSlot" /\ expired[p] /\ ~GivenUp(canceled[p])
    /\ slot' \in {slot, IF slot = Nobody THEN p ELSE slot}
    /\ Deactivate(p) /\ GoTo(p, "retireSlot")
    /\ UNCHANGED <<lifetime, writeDone, writeLate, closeVars, shakeVars, ledgerVars, msg,
                   outcome, timeVars, note, handling, clientVars, bounds>>

RetireSlot(p) ==
    /\ at[p] = "retireSlot" /\ Disconnect(p) /\ StartTransportClose
    /\ slot' = IF slot = p /\ note.pc = "none" THEN Nobody ELSE slot
    /\ Return(p, TRUE)
    /\ UNCHANGED <<writeDone, writeLate, closeExpired, closeTimedOut, closer, closeResult,
                   outcome, note, clientVars, bounds>>

\* The physical write.  When its time is up before it starts, nothing is sent.
PhysicalBegins ==
    /\ note.pc = "begun"
    /\ note' = IF note.expired
               THEN [note EXCEPT !.pc = "timed", !.late = TRUE, !.result = "unsent"]
               ELSE [note EXCEPT !.pc = "write"]
    /\ writeLate' = IF note.expired THEN closeExpired ELSE writeLate
    /\ UNCHANGED <<connVars, slot, writeDone, closeVars, shakeVars, ledgerVars, at, msg,
                   outcome, owes, timeVars, handling, clientVars, bounds>>

PhysicalEnds ==
    /\ note.pc = "write"
    /\ \E r \in {"ok", "rejected", "fatal"} :
         note' = [note EXCEPT !.pc = "timed", !.late = note.expired, !.result = r]
    /\ writeLate' = closeExpired
    /\ UNCHANGED <<connVars, slot, writeDone, closeVars, shakeVars, ledgerVars, at, msg,
                   outcome, owes, timeVars, handling, clientVars, bounds>>

PhysicalReports ==
    /\ note.pc = "timed" /\ note' = [note EXCEPT !.pc = "written"]
    /\ UNCHANGED <<connVars, slotVars, closeVars, shakeVars, ledgerVars, at, msg,
                   outcome, owes, timeVars, handling, clientVars, bounds>>

\* Only when its caller or the monitor has judged it does it give up the slot.
PhysicalLeaves ==
    /\ note.pc = "written" /\ note.released
    /\ note' = NoNote /\ writeDone' = TRUE /\ slot' = Nobody
    /\ UNCHANGED <<connVars, writeLate, closeVars, shakeVars, ledgerVars, at, msg,
                   outcome, owes, timeVars, handling, clientVars, bounds>>

\* Mutant: a write that ends too late is taken for a success.
BreaksOnFailure == note.result = "fatal"

\* notificationCompletionError and writeBreaksConnection: the end of the
\* connection's lifetime counts as a failure of the write.
Breaks == note.late \/ note.result = "fatal" \/ (lifetime /\ ~note.canceled)

Release == note' = [note EXCEPT !.released = TRUE]

NoteSent(p) ==
    /\ at[p] = "noted" /\ note.pc = "written" /\ ~Breaks
    /\ Release /\ Return(p, note.result # "ok" /\ p = Reader)
    /\ UNCHANGED <<connVars, slotVars, closeVars, ledgerVars, outcome, owes,
                   clientVars, bounds>>

NoteBroke(p) ==
    /\ at[p] = "noted" /\ note.pc = "written" /\ Breaks
    /\ Deactivate(p) /\ GoTo(p, "retireNote")
    /\ UNCHANGED <<lifetime, slotVars, closeVars, shakeVars, ledgerVars, msg, outcome,
                   timeVars, note, handling, clientVars, bounds>>

\* The caller leaves; from now on the monitor watches the write.
NoteQuarantined(p) ==
    /\ at[p] = "noted" /\ GivenUp(note.canceled)
    /\ note' = [note EXCEPT !.watched = "yes"]
    /\ Return(p, ~note.canceled)
    /\ UNCHANGED <<connVars, slotVars, closeVars, ledgerVars, outcome, owes,
                   clientVars, bounds>>

\* The timer fires with no result.
NoteTimesOut(p) ==
    /\ at[p] = "noted" /\ note.expired /\ note.pc # "written"
    /\ ~GivenUp(note.canceled)
    /\ Deactivate(p) /\ GoTo(p, "retireNote")
    /\ UNCHANGED <<lifetime, slotVars, closeVars, shakeVars, ledgerVars, msg, outcome,
                   timeVars, note, handling, clientVars, bounds>>

\* The timer fires, and the context has ended too: the caller leaves
\* the write alone, without a monitor.
NoteTimesOutCanceled(p) ==
    /\ at[p] = "noted" /\ note.expired /\ note.pc # "written"
    /\ GivenUp(note.canceled)
    /\ Release /\ Return(p, ~note.canceled)
    /\ UNCHANGED <<connVars, slotVars, closeVars, ledgerVars, outcome, owes,
                   clientVars, bounds>>

RetireNote(p) ==
    /\ at[p] = "retireNote" /\ Disconnect(p) /\ StartTransportClose
    /\ Release /\ Return(p, ~note.canceled)
    /\ UNCHANGED <<slotVars, closeExpired, closeTimedOut, closer, closeResult, outcome, clientVars, bounds>>

\* monitorNotificationQuarantine.
MonitorJudges ==
    LET broken == note.late \/ note.result = "fatal" IN
    /\ note.watched = "yes"
    /\ \/ note.pc = "written" /\ ~broken
          /\ note' = [note EXCEPT !.watched = "no", !.released = TRUE]
          /\ UNCHANGED <<connVars, owes>>
       \/ /\ (note.pc = "written" /\ broken) \/ (note.pc # "written" /\ note.expired)
          /\ note' = [note EXCEPT !.watched = "retire"]
          /\ Deactivate("monitor") /\ UNCHANGED lifetime
    /\ UNCHANGED <<slotVars, closeVars, shakeVars, ledgerVars, at, msg, outcome,
                   timeVars, handling, clientVars, bounds>>

MonitorRetires ==
    /\ note.watched = "retire" /\ Disconnect("monitor") /\ StartTransportClose
    /\ note' = [note EXCEPT !.watched = "no", !.released = TRUE]
    /\ UNCHANGED <<slotVars, closeExpired, closeTimedOut, closer, closeResult, shakeVars, at, msg, outcome, timeVars, handling, clientVars, bounds>>

------------------------------------------------------------------------------
(* Closing.                                                                *)

\* sessionReadyConnection.Close.
CloseBegins(c) ==
    /\ closer[c] = "idle"
    /\ Deactivate(c) /\ closer' = [closer EXCEPT ![c] = "deactivated"]
    /\ UNCHANGED <<lifetime, slotVars, transport, closeExpired, closeTimedOut, closeResult, shakeVars,
                   ledgerVars, at, msg, outcome, timeVars, note, handling, clientVars, bounds>>

CloseStarts(c) ==
    /\ closer[c] = "deactivated" /\ closer' = [closer EXCEPT ![c] = "transport"]
    /\ Disconnect(c) /\ StartTransportClose
    /\ UNCHANGED <<slotVars, closeExpired, closeTimedOut, closeResult, shakeVars, at,
                   msg, outcome, timeVars, note, handling, clientVars, bounds>>

\* waitForTransportClose.
CloseSeesTransport(c) ==
    /\ closer[c] = "transport" /\ closer' = [closer EXCEPT ![c] = "write"]
    /\ \/ transport = "closed" /\ UNCHANGED closeTimedOut
       \/ closeExpired /\ closeTimedOut' = TRUE
    /\ closeResult' = [closeResult EXCEPT ![c] = IF closeTimedOut' THEN "timeout" ELSE "ok"]
    /\ UNCHANGED <<connVars, slotVars, transport, closeExpired, shakeVars, ledgerVars, at,
                   msg, outcome, owes, timeVars, note, handling, clientVars, bounds>>

\* Mutant: Close waits for the write without a limit.
CloseWaitsForWrite(c) ==
    /\ closer[c] = "write" /\ closer' = [closer EXCEPT ![c] = "done"]
    /\ writeDone /\ closeTimedOut' = (closeTimedOut \/ writeLate)
    /\ closeResult' = [closeResult EXCEPT ![c] = IF closeTimedOut' THEN "timeout" ELSE @]
    /\ lifetime' = TRUE
    /\ UNCHANGED <<active, committing, slotVars, transport, closeExpired, shakeVars, ledgerVars,
                   at, msg, outcome, owes, timeVars, note, handling, clientVars, bounds>>

\* waitForWrite, writeCloseResult, cancelLifetime.
CloseSeesWrite(c) ==
    /\ closer[c] = "write" /\ closer' = [closer EXCEPT ![c] = "done"]
    /\ \/ writeDone /\ closeTimedOut' = (closeTimedOut \/ writeLate)
       \/ ~writeDone /\ closeExpired /\ closeTimedOut' = TRUE
    /\ closeResult' = [closeResult EXCEPT ![c] = IF closeTimedOut' THEN "timeout" ELSE @]
    /\ lifetime' = TRUE
    /\ UNCHANGED <<active, committing, slotVars, transport, closeExpired, shakeVars, ledgerVars,
                   at, msg, outcome, owes, timeVars, note, handling, clientVars, bounds>>

\* The transport's own Close returns, late or in time.
TransportCloses ==
    /\ transport = "closing" /\ transport' = "closed"
    /\ closeTimedOut' = (closeTimedOut \/ closeExpired)
    /\ UNCHANGED <<connVars, slotVars, closeExpired, closer, closeResult, shakeVars, ledgerVars,
                   at, msg, outcome, owes, timeVars, note, handling, clientVars, bounds>>

\* Time passes: transportCloseWait after the close began, notificationWriteWait
\* after a notification entered Write.
CloseDeadline ==
    /\ transport # "open" /\ ~closeExpired /\ closeExpired' = TRUE
    /\ UNCHANGED <<connVars, slotVars, transport, closeTimedOut, closer, closeResult, shakeVars,
                   ledgerVars, at, msg, outcome, owes, timeVars, note, handling,
                   clientVars, bounds>>

QueueDeadline(p) ==
    /\ at[p] = "noteSlot" /\ ~expired[p]
    /\ expired' = [expired EXCEPT ![p] = TRUE]
    /\ UNCHANGED <<connVars, slotVars, closeVars, shakeVars, ledgerVars, at, msg, outcome,
                   owes, canceled, note, handling, clientVars, bounds>>

NoteDeadline ==
    /\ note.pc # "none" /\ ~note.expired
    /\ note' = [note EXCEPT !.expired = TRUE]
    /\ UNCHANGED <<connVars, slotVars, closeVars, shakeVars, ledgerVars, at, msg, outcome,
                   owes, timeVars, handling, clientVars, bounds>>

\* The context of a notification may end while it waits or is written.
CancelContext(s) ==
    /\ at[s] \in {"noteSlot", "noted"}
    /\ IF at[s] = "noted"
       THEN ~note.canceled /\ note' = [note EXCEPT !.canceled = TRUE] /\ UNCHANGED canceled
       ELSE ~canceled[s] /\ canceled' = [canceled EXCEPT ![s] = TRUE] /\ UNCHANGED note
    /\ UNCHANGED <<connVars, slotVars, closeVars, shakeVars, ledgerVars, at, msg, outcome,
                   owes, expired, handling, clientVars, bounds>>

------------------------------------------------------------------------------
ReaderStep ==
    ReadEnds \/ Admit \/ RefuseMessage \/ ReadTooLate \/ RetireRead
    \/ Initialized

SenderStep(s) ==
    Hold(s) \/ EnterWrite(s) \/ ReplyTakesSlot(s) \/ ReplyRefused(s) \/ Settle(s) \/ ReplyReturns(s)

NoteStep(p) ==
    NoteTakesSlot(p) \/ NoteGivesUp(p) \/ NoteExpires(p) \/ RetireSlot(p) \/ NoteSent(p)
    \/ NoteBroke(p) \/ NoteQuarantined(p) \/ NoteTimesOut(p) \/ NoteTimesOutCanceled(p)
    \/ RetireNote(p)

PhysicalStep == PhysicalBegins \/ PhysicalReports \/ PhysicalLeaves \/ MonitorJudges \/ MonitorRetires

CloserStep(c) == CloseStarts(c) \/ CloseSeesTransport(c) \/ CloseSeesWrite(c)

\* What the server's own goroutines do, and time.
ServerStep ==
    \/ ReaderStep \/ PhysicalStep \/ NoteDeadline \/ CloseDeadline
    \/ \E s \in Senders : SenderStep(s)
    \/ \E p \in Writers : NoteStep(p) \/ QueueDeadline(p)
    \/ \E c \in Closers : CloserStep(c)

Next ==
    \/ ServerStep
    \/ \E m \in Calls \cup {"initialized"} : ReadMessage(m)
    \/ ReadFails
    \/ \E s \in Senders : \/ \E m \in Calls \cup Kinds : WriteBegins(s, m)
                          \/ ReplyArrives(s) \/ ReplyWritten(s) \/ CancelContext(s)
    \/ PhysicalEnds \/ TransportCloses
    \/ \E c \in Closers : CloseBegins(c)

(* Some goroutine runs while one can, and time passes; the client need not *)
(* send, and a call of the transport need not return.  That is enough      *)
(* because no goroutine here goes round in circles on its own.             *)
Fairness == WF_vars(ServerStep)

Spec == Init /\ [][Next]_vars /\ Fairness
------------------------------------------------------------------------------
(* Properties.                                                             *)

\* The variables keep their types, and onTerminal runs at most once.
TypeOK ==
    /\ active \in BOOLEAN /\ committing \in BOOLEAN /\ lifetime \in BOOLEAN
    /\ slot \in Writers \cup {Nobody} /\ writeDone \in BOOLEAN /\ writeLate \in BOOLEAN
    /\ transport \in {"open", "closing", "closed"}
    /\ closeExpired \in BOOLEAN /\ closeTimedOut \in BOOLEAN
    /\ closer \in [Closers -> {"idle", "deactivated", "transport", "write", "done"}]
    /\ closeResult \in [Closers -> {"none", "ok", "timeout"}]
    /\ mutex \in Writers \cup {Nobody} /\ initialized \in BOOLEAN /\ held \in BOOLEAN
    /\ ledger \subseteq Calls /\ terminals \in 0..1
    /\ at \in [Writers -> {"read", "admit", "init", "retire", "stopped",
                           "idle", "mutex", "slot", "write", "arrived", "written", "settled",
                           "noteSlot", "noted", "retireSlot", "retireNote"}]
    /\ msg \in [Writers -> Calls \cup {"note", "changed", "initialized", Nobody}]
    /\ outcome \in [Senders -> [result : {"ok", "rejected", "fatal"}, late : BOOLEAN]]
    /\ owes \in [Actors -> BOOLEAN]
    /\ canceled \in [Writers -> BOOLEAN] /\ expired \in [Writers -> BOOLEAN]
    /\ note \in [pc : {"none", "begun", "write", "timed", "written"},
                 what : {"note", "changed", Nobody}, canceled : BOOLEAN, expired : BOOLEAN,
                 watched : {"no", "yes", "retire"},
                 released : BOOLEAN, late : BOOLEAN, result : {"ok", "rejected", "fatal", "unsent"}]
    /\ handling \subseteq Calls
    /\ outstanding \subseteq Calls /\ rude \in BOOLEAN
    /\ reads \in 0..MaxReads /\ notes \in 0..MaxNotes

\* A client that waits for a reply before it uses a request ID again, and
\* keeps to the limit, is never refused for it, although the reply reaches it
\* before Write has returned and settled the call.
PoliteClientAdmitted ==
    [][at[Reader] = "admit" /\ at'[Reader] = "retire"
         => rude]_vars

\* While the connection lives, the ledger holds exactly the calls somebody
\* still works on: no capacity leaks, no accepted call is missing.  After it
\* was reported dead, no late read puts a call back.
Working ==
    handling \cup {msg[s] : s \in {x \in Senders :
                      at[x] \in {"mutex", "slot", "write", "arrived", "written"}}}

LedgerIsWork ==
    /\ active => ledger = Working \cap Calls
    /\ terminals > 0 => ledger = {}

\* The ledger and every other variable agree with what is going on.
ConnectionOK == TypeOK /\ LedgerIsWork

\* A physical write is going on, or sure to begin.
Writing == note.pc \in {"begun", "write"} \/ \E s \in Senders : at[s] \in {"write", "arrived"}

\* A Close that reports no timeout returns after the transport is closed and
\* the last write has ended, and no write begins later.
CloseFencesWrites ==
    \A c \in Closers : closer[c] = "done" /\ closeResult[c] = "ok" => transport = "closed" /\ ~Writing

\* One message at a time is written, and the early tool-list notification
\* neither overtakes the handshake nor is left behind by it.
WritesInOrder ==
    /\ note.pc = "write" => \A s \in Senders : at[s] \notin {"write", "arrived"}
    /\ note.pc = "write" /\ note.what = "changed" => initialized
    /\ ~(held /\ initialized)

\* What the connection promises of its writes: their order, and their end.
WritesOK == CloseFencesWrites /\ WritesInOrder

\* What a notification's write leaves behind when it gives up the slot.
NoteLeaves == note.pc = "written" /\ note'.pc = "none"
Overdue    == note.late \/ note.result = "fatal"

\* A notification that came too late or broke the transport retires the
\* connection before the next message is written.
OverdueNoteRetires == [][NoteLeaves /\ Overdue /\ ~note.canceled => ~active]_vars

\* Not so of every notification that was written, its caller gone or not: the
\* timer and a context that both ended can leave the connection alive.  It is
\* what TestCanceledNotificationRetiresBeforeQueuedResponse asserts of one
\* that was canceled and then hung past its deadline.
CanceledNoteRetires == [][NoteLeaves /\ Overdue /\ note.result # "unsent" => ~active]_vars

\* Once it has its turn, a notification's Write returns although the
\* transport hangs.
NotificationsReturn ==
    \A p \in Writers :
      at[p] \in {"noteSlot", "noted", "retireSlot", "retireNote"} ~> at[p] \in {"idle", "read", "stopped"}

\* Close returns although the transport hangs in a write and in its own Close.
CloseIsBounded == \A c \in Closers : closer[c] = "deactivated" ~> closer[c] = "done"

\* A connection that died is reported to the instance.
DeathIsReported == ~active ~> terminals = 1

\* The connection comes to its end, and everybody on it is told.
EveryoneReturns == NotificationsReturn /\ CloseIsBounded /\ DeathIsReported
=============================================================================
