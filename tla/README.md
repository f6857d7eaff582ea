# A verification development of libtmux-go

TLA+ modules for the concurrent core of this repository, the TLC runs that
check them on small instances, and theorems about them checked by TLAPS.
Everything is modelled from the Go source; `PROJECT.json` maps each definition
to the lines it stands for.

## The system

The library talks to tmux in two ways: a process per command, or a *control
client*, a long-lived `tmux -C` process that is written commands and read
frames and notifications from. On top of it a `Connection` pools control
clients, and the MCP server keeps one connection to the one tmux daemon its
tools work on.

```
 MCP tools ── tmuxRuntime ── Connection (controlLanePool) ── ControlClient ── tmux -C
    │            │                 lanes, exclusive clients     │   │
 session      probe/bind/                                runRequests readStream
 transport    lease/observe                                         │
                                              controlNotificationQueue ── NextNotification
```

| Component | State it keeps | Operations | Talks to | What makes it correct |
|---|---|---|---|---|
| Notification queue (`tmux/control_notification_queue.go`) | a bounded ring of records, the end, a wake-up channel, a reader token | append, take, next, finish, Close | filled by readStream, read by NextNotification | no lost wake-up; records in order, the end after them, nothing after it; every read can return |
| Control client (`tmux/control_request.go`, `control_stream.go`, `control_lifecycle.go`) | per request an atomic state and a response channel; the frame channel; the close | Cmd, Call, reply fence, Close; two goroutines | tmux over two pipes; the queue | a caller gets its own replies; a command not run is told from one that may have; calls and close return whatever tmux does |
| Connection and lane pool (`tmux/connection.go`, `control_pool.go`) | free lanes, live count, first failure, two closed-once channels, exclusive clients | acquire, call, release, runExclusive, adopt, retire, Close | control clients | a lane is lent to one caller and only when idle; drained is true and is said; no client outlives Close |
| MCP runtime (`mcp/runtime*.go`) | a state machine, probe/binding/drained channels, unbound leases, the connection | acquire, createSession, process, observe, heal, observations, Close | one connection, the tmux daemon, every tool call | nobody parked for ever; leases exact; no connection leaked or silently replaced |
| Control startup, parser and captures (`tmux/control_startup.go`, `control_protocol.go`) | handshake stage, learned fence, parser's open block and capture | start, calibrate, consume | tmux | a client that registered is usable; a block never mixes with another; output that looks like protocol is output |
| Notification stream, pane observation | a client of their own, the pane watched | Next, Close, classify | control client | an ended pane, session and stream are told apart |
| Dispatch and daemon identity (`tmux/transport.go`, `identity.go`) | the checked daemon of an endpoint | run, guard, probe, remember | subprocess runner or connection | a command acts on the daemon it was meant for, and at most once |
| Plan (`tmux/plan.go`) | operations and their references | Add, RunWith | dispatch | a failure is attributed to no operation it may not belong to |
| Running command (`tmux/session_run.go`) | exited, finishing, result; the pane's options and hook | Start, Run, Wait, StreamTo, Kill | a pane, `wait-for`, tmux's hooks | one true outcome, shared by all waiters, even when the signal is missed; no window left behind |
| MCP client connection (`mcp/session_transport.go`, `handshake_transport.go`) | active, committing, a write slot, a lifetime, the transport's close and its deadline, a held notification | Read, Write, writeNotification, Close | SDK, transport, the ledger | an accepted call is in the ledger until its reply is out; what hangs is retired, closed in bounded time and fenced |
| MCP instance, sessions, ledger (`mcp/instance*.go`, `response_ledger.go`, `session_scope.go`) | open calls by session, closing, drain timer | connect, admit, settle, terminal, Close | SDK, runtime | a call is counted from its read to its written response; shutdown misses no session |
| MCP pane input (`mcp/pane_run.go`, `pending_input.go`, `run_command_tools.go`) | reservations of panes, detached runs, pending text | acquire, detach, release, record, restore | dispatch | two inputs never mix in a pane; a run is forgotten only when it ended |
| Workspace builder (`workspace/`) | none between calls | Build, BuildInto | the object model | what a failed build leaves is what it reports |
| Configuration swap (`internal/tools/mcp-swap`) | ledger, staged and backup files, a lock | use, revert, recover | the file system | all files replaced or all restored, through a crash |
| tmuxtest harness | servers to clean up | cleanup, retry | tmux, processes | no server is left behind, none killed by a reused PID |
| Object model, options, hooks, formats, search, tool catalog, generators, examples | immutable values | one command each | dispatch | translation of data, left to the unit tests |

The hard behaviours are at the seams: a context that ends at the moment a
command is written, replies to a caller that left, a bounded channel between
two goroutines, a close racing every one of these, a daemon that disappears and
is replaced under a cached handle, work done between two critical sections of
one mutex. They are listed line by line as hazards in `PROJECT.json`.

## The modules

### `NotificationQueue`

Readers, the reader goroutine and the closer over one queue. A record is its
sequence number and length; the ring is the sequence of stored records and
`Used` the bytes they take, header included. `Store`, `Overflow` and `Refuse`
are the three ends of `append`, each of them within `Notify`, which also
numbers the records that are passed over (other clients' blocks, another
pane's output). `next` is a loop of `take` and a wait: `TakeRecord`,
`TakeClosed` and `TakeNothing` are its critical section, `WakeReady` and
`WakeCanceled` the select. `wake` is the channel of capacity one. The close is
`StartClientClose`, `BeginClientClosing`, `CloseQueue` with the reader goroutine
running between them. Names that `ControlClient` has too carry the queue's
(`QueueInit`, `QueueSpec`, `QueueTypeOK`), so that one module can extend both. A record that the caller cannot parse counts as delivered.

### `RequestOutcome`

What every way of running a command promises: an answer is given once; *not
run* is said only of a command that never runs, now or later; *ok* only of one
that did; *unknown* may be either. `ControlClient` and `LanePool` implement it
(`OutcomePromise`).

### `ControlClient`

A client from its startup to its end. The opening goroutine goes through
`AcceptGuard` and `AcceptAttach` (the blocks of the daemon guard and of the
attach), `BeginDispatching` (from here on other clients' blocks are dropped),
`WriteCalibration`, `FirstReply` and `SecondReply` (the fingerprints of the
reply fence, which the client learns), and `Register`; what fails or is canceled
on the way is `OpenFails`, which closes the client. `Call`, `CheckClosed`,
`SubmitGivesUp`, `AwaitResponse`, `CancelBeforeWrite` and `CanceledTooLate` are a
caller's path through `cmdWith`, `submitControlRequest` and `await`, one action
for each channel operation or atomic. `Receive` is the rendezvous on the
unbuffered request channel. `Accept` to `SendResponse` is the request goroutine:
`ClaimWrite` is the compare-and-swap that races `cancelBeforeWrite`;
`BoundaryReached`, `CollectFrame` and `TakeCapture` are one turn of its frame
loop with the held-back frame, `ReadFails` its failure. `ReadFrame`,
`CaptureLine`, `CaptureEnds`, `ReaderEnds` and `ReaderFails` are `readStream` with
its parser, blocked while the frame channel of one is full. `StartClose` to
`CloseProcess` is the close with its grace and its kill; timers may fire at any
time. A frame carries the request that caused it, which only the properties look
at, and a fingerprint: `A` and `B` are the two replies of the fence, `X` any
other, `N` the block that ends a capture. A capture's output is a sequence of
lines, of which some look like an opening guard. tmux is external: it answers
its input in order, may emit blocks for other clients, may die, and owes no
answer. A command is not answered by the two fence fingerprints in a row, which
is what the source's calibration of the fence relies on (`ClientAssumption`).

### `LanePool`

The pool with its callers. A client is reduced to what `ControlClient` shows of
itself: at most one command whose reply is outstanding (`wire`), a stream that
can be lost, a close. `AcquireCheck`, `AcquireLane`, `AcquireGivesUp` and
`Recheck` are `acquire` with its two selects; `ReleaseToFree`,
`ReleaseToFence`, `ReleaseRetires` and `ReleaseCloses` are `release` and the
fence goroutine that `call` starts, with the lane's close and the signal of the
last lane outside the lock as in the code; `FenceCrossed`, `FenceFails` and
`FenceCloses` are the same release on that goroutine. `ExclusiveCheck` to
`RetireReturns` is `runExclusive`. `Stop`, `Collect` and `CloseCollected` are
`Close`. Lanes are open at the start.

### `McpRuntime`

`tmuxRuntime` and the tool calls that run on it. Each critical section of its
mutex is one action and what happens between two is another: probing, opening a
connection, creating a session, a tool's own commands. A channel is named by
its kind and by the request that made it, and `waits` says who is parked on
which: closing a channel is `Woken`. `purpose` says which caller is in the loop
that `acquireCommand` and `createSession` share: the tool's own acquisition,
`createSession`, `process`, or the lookup of a created session. Tools are of
four kinds: `read` (retried once by `withRequestRuntime`), `watch`
(wait_for_text, with an observation), `act` (the process lane) and `create`.
`observe` is two steps, `Classify` and `Mark`, because `isTerminalError` takes
the lock on its own. A daemon is a number that is never used again; an exited
daemon makes its connections and process handles fail, and a connection may die
by itself (`Results`). `control` says whether the installed tmux is recent enough
for a control connection. A context ends only where it is looked at and could
make a difference; a probe that was canceled is one that failed. The setup has
`runtimeSetupTimeout`, but a tool's own commands, and the two of
`createBoundSession` (`runtime.go:392`, `:401`), have nothing but the context of the
call: they may hang until it ends (`InCommand`, `MayEnd`), except those of
wait_for_text, which has a timeout of its own (`wait_for_text_tools.go:188`). Dropping a connection also forgets its daemon,
which nothing reads afterwards.

### `McpConnection`

One client connection, `sessionReadyConnection` under
`handshakeOrderedConnection`, with the part of the instance's ledger that is
about it. A critical section of `stateMutex` is one action, and so is what
follows it up to the next thing another goroutine can see: `Deactivate` and then
`Disconnect` (`cancelLifetime`, `onTerminal`) are `deactivate`. `ReadMessage`,
`Admit`, `RefuseMessage`, `ReadTooLate` are `Read`; `Initialized`, `Hold` and
`EnterWrite` the handshake layer, whose mutex a writer keeps until `Return`;
`ReplyTakesSlot` to `ReplyReturns` are `Write`, with `ReplyArrives` the moment
the client has the reply and may use its ID again although the write has not
returned. `NoteTakesSlot` to `RetireNote` are `writeNotification`, the
`Physical` actions its goroutine, which outlives it, and the `Monitor` actions
the monitor of a write whose caller left. `CloseBegins` to `CloseSeesWrite` are
`Close`. A deadline is a flag, and a time the value it had: `late`,
`writeLate`. The transport may fail or hang in any call. The gate
that delays the first message until the session is installed, the refusals of a
closing instance and its limit over all sessions are `McpInstance`'s.

### `McpInstance`

The `Instance` over any number of sessions; a session's connection is what
`McpConnection` shows of it: `link` is up, goes down for whatever reason, and
is reported once. Every critical section of `Instance.mutex` is one action.
`Connect` to `ConnectReturns` are the ways through `Connect`, with the second
look at `closing` in `Register`; `Admit` and `Refuse` are `requestRead` with
both limits; `Begin` is the middleware that starts a handler under the scope of
its session; `Settle`, `DropResponse` and `Report` are a response that is
written, one that has nowhere to go, and a connection that died with its calls.
`Terminal` and `TerminateScopes` are `terminal` inside and outside the lock,
`TimerFires` its drain timer. `due` collects the reasons for which a goroutine
is about to call `startClose`, whoever gets there first; `StartClose` to
`CloseDone` are the close and its goroutine `shutdown`, which first waits for
every `Connect` and then joins the sessions it finds. The SDK is external: it
runs a handler for each accepted call, and a session's `Wait` returns when the
connection is down and the handlers have returned.

### `PaneInput`

`send_keys`, `paste_text` and `run_shell_command` over `paneInputCoordinator`
and `pendingInput`. A call goes through the first preflight (`Preflight`, the
set of panes its keys reach), `Acquire`, the second preflight (`Recheck`,
`RefuseDispatch`), the record it makes before the keys go out (`Send`), and one
of the ends of a dispatch: `InputSucceeds`, `SendEnter` and `EnterSucceeds` for
the separate Enter, `DispatchFails`, and the unknown outcomes `InputUnknown` and
`RunUnknown`, which the code treats differently. A run then awaits its status
(`TakeStatus`) or leaves a reaper behind (`StopAwaiting`, `Reap`), which holds
the panes against other runs and not against input. A line is the sequence of
the calls whose text is on it; a pane's generation is its shell, which a
respawn replaces. tmux takes the keys of an unknown dispatch later or never.
Left out: keys whose effect on the line cannot be represented, a paste of
several lines, panes whose synchronised group changes between the second
preflight and the dispatch.

### `Dispatch`

Plans and single commands of several callers on one endpoint without a
connection. `Begin` to `Remember` are `checkForDispatch`: an identity the handle
carries, the record all handles share, or a probe, and the record the probe
leaves. `TmuxRuns`, `TmuxRefuses`, `NobodyThere`, `TmuxStarts` are what tmux makes
of the guarded command at the one moment its client reaches the daemon, which
may be after its call was canceled. `Retry` is the one repetition after a stale
record, which erases the record whatever is in it by now. `Unknown`,
`PipeStaysOpen`, `GuardRefuses`, `StreamFails`, `AttributeFailure` and
`AttributeSuccess` are the result in `runCommand` and in `Plan.RunWith`. Daemons
come, go and are replaced at any moment by one of any version. A plan is two
operations: folded into one command list (`pair`), sent one by one (`each`), or
the second targeting what the first creates (`make`). A command that finds no daemon
and was checked against none always starts one; tmux's own refusal to start one for
a command that creates nothing is left out.

### `SwapTransaction`

`mcp-swap`'s use and revert for native clients. The planning and staging of a run
are one step (`Use`, `Revert`): it reads the ledger and the configurations, decides
what is written, and writes temporary files; `UseOps` and `RevertOps` are the
operations in their order. Staging may fail at any file (`StagingFails`): then a use
removes the backups it staged and not the configurations
(`native_transaction.go:481-484`), a revert removes all. Each operation then goes
through the steps of `commit`: `Check`, `TakeAside` (a rename, looked at afterwards),
`KeepAside`, or `RejectAside` and `RestoreAside` for a file that is another or whose
directory cannot be synchronised, or `LeaveAside` for one that cannot be read: that
one stays in its hold directory, and as the move is not recorded no rollback brings
it back (`config_changes.go:1421-1424`). Then `Publish` (a link, which replaces
nothing) and `Confirm`; then `Verify` and `Finish`, or `Rollback` to `CleanUp`,
operation by operation from the one that failed; `TakeBack`, `Discarded` and
`NotDiscarded` take a published file back through the same `take`. `Fault` fails any
file operation once or more often, with what it had done by then: a file may be put
back and its held name kept, one of the two removals of `Finish` may fail without the
other. `Crash` ends the process between any two steps, and a client writes its file
in place, or replaces it by one made from what it read before, at any moment
(`ClientWrites`, `ClientReplaces`).

What a transaction that failed leaves depends on what failed first (`calm`), and
`FailureIsUndone` says it for each: after `LeaveAside` one file in its hold directory
and nothing else changed (`OneAside`), after a failed staging temporary
configurations and nothing else changed (`OnlyStagedLeft`), and after any other single
failure the disk exactly as it was (`Undone`). Of two failures it says nothing. The
tool's README (`internal/tools/mcp-swap/README.md:316-317`) promises no more: completed
steps are unwound if a rollback can be authenticated, otherwise recovery files are
retained. `astray` notes that a file was ever left in a hold directory:
`ConfigsAreTrue` promises nothing from then on, because it may be the configuration
or the ledger; `FilesOK` and `SwapIsRecorded` hold all the same. In a revert of
several layers of one file the first step may have put its interim file there before
the second finds what it took unreadable: then the path is empty and both files are
held.

A file is its inode, a name a path to it, and a configuration
the client's own version of it together with the entries. The lock is assumed,
as are inodes that are not reused while a link to them is kept. Left out: modes,
symbolic links and the topology they make, the text of the formats, the refusal
of a second checkout, a client that deletes its file or writes through a
descriptor it opened earlier, and the older single-file path of
`config_changes.go`. One `use` writes at most one layer of a file.

### `Running`

`Session.Start`, `Running.Wait` by any number of calls, and `Session.Run`, which
is the one call of a `runner`. `NewWindow` to `Respawn` are the commands of
`Start` in their order, with `StartFails` and `UndoStart` for one that fails. A
`Wait` is its wait-for client (`Park`, `ClientFails`), the select and the handover
(`Selects`), the timer and the look at the pane (`TimerFires`, `Refresh`,
`RefreshFails`, which also gives up on a pane nobody reaps), then `Claim` or
`Excuse`, which look at `exited` as the code does, and `Join`. `FinishRefresh` to
`FinishStore` are the goroutine that reads the outcome. tmux and its users are
external: a pane's terminal is closed (`CommandEnds`), then the command is reaped
(`Reap`), then the hook signals the channel (`SignalDeath`), and neither of the
last two need come; a window may be removed at any moment (`WindowGoes`), alone or
with the whole server, which ends a wait-for with success; a client that is on
its way when its call leaves may take the signal with it (`Leave`). The settling
is counted in looks (`ReapAt`, `SettleLimit`) instead of time. Every cleanup may
fail. `slip` notes that one did, or that tmux made a window it could not tell of,
and `WindowsSettled` promises nothing then. A pipe that tmux opened although
`Start` was told an error (`"untold"`, `session_run.go:207`) is one `finish` does not
stop, and a kept window may keep it. Left out: `StreamTo`, the text of the
screen, a name or directory that tmux refuses.

## The runs

TLC's deadlock check is on for the notification queue, whose readers always have
a next step. Elsewhere the system rightly stops when the bounded requests are
done, and what must not be waited for is said by a liveness property.

A property whose name ends in `OK` gathers the invariants of its module, its type
invariant among them; the parts are given in brackets here and are definitions
of their own in the module.

| Run | Bounds | What it shows |
|---|---|---|
| `notification_queue` | 2 readers, 3 records of two lengths, room for less than 3 | `QueueOK` (types, `NoLostWakeup`), `DeliveredInOrder`, `EndIsLast` (`EndAfterPrefix`, `NoRecordAfterEnd`), `ReadsReturn` |
| `control_replies` | 2 callers, 2 requests: commands, fences, captures; replies `A` and `X B`, outputs with a line like a guard at either end | `RepliesOK` (types, `OwnReplies`, `DrainedBetweenRequests`), `OutcomePromise` |
| `control_liveness` | 1 caller, the startup with its context, 2 requests, reply `B`, 1 foreign block `B`, an output that is one guard-like line | `RepliesOK`, `NobodyIsHeldUp` (`CallsReturn`, `CloseCompletes`), `StreamEndIsSeen` |
| `lane_pool` | 2 callers, 2 lanes, 2 requests, lane and exclusive | `PoolOK` (types, `LaneInOnePlace`, `FreeLaneIsIdle`, `DrainedIsTrue`), `NoClientForgotten`, `OutcomePromise` |
| `lane_pool_liveness` | 1 caller, 1 lane, 2 requests | `EveryoneReturns` (`CanceledCallsReturn`, `DeadPoolRefuses`, `CloseEndsAll`) |
| `mcp_runtime` | a create_session and a wait_for_text with control connections, or a tool of the process lane with or without them; 1 daemon, 2 connections | `RuntimeOK` (types, `LeasesCounted`, `NoConnectionLeaks`, `CurrentIsOpen`), `NobodyStranded`, `NoSilentSwitch`, `EveryoneReturns` (`CanceledReturn`, `RequestsReturn`, `CloseReturns`) |
| `mcp_connection` | 1 sending goroutine and the reader, 2 messages from the client (calls of one ID, `initialized`), 1 tool-list notification, 1 `Close` | `ConnectionOK` (types, `LedgerIsWork`), `WritesOK` (`CloseFencesWrites`, `WritesInOrder`), `PoliteClientAdmitted`, `OverdueNoteRetires`, `EveryoneReturns` (`NotificationsReturn`, `CloseIsBounded`, `DeathIsReported`) |
| `mcp_instance` | 2 sessions, 2 request IDs, limits of 2 calls a session and 3 in all, 1 closer | `InstanceOK` (types, `AcceptedIsCounted`), `NothingOutlivesShutdown`, `DrainsBeforeClose`, `ShutdownEnds` |
| `pane_input` | 3 calls, inputs and runs mixed, 2 panes, one synchronised group of both, 1 respawn | `PaneOK` (types, `ReservationsExact`), `PendingIsLine`, `RunsOneAtATime`, `EndedRunIsForgotten` |
| `dispatch` | 2 callers, of them one with a plan, 2 daemons of two versions, exact and unbound handles, output to memory or to a pipe | `DispatchOK` (types, `AtMostOnce`, `RanIsPrefix`), `RunsWhereChecked`, `ReportIsTrue`, `StaleRecordIsHidden` |
| `swap` | 2 layers in one file or two, 4 events: runs, and what the world does (a client writes or replaces, a fault, a crash) | `FilesOK` (types, `NothingLost`), `SwapIsRecorded`, `FailureIsUndone`, `ConfigsAreTrue` (`EditsKept`, `LedgerIsTrue`) |
| `running` | 2 calls of `Wait`, or the one of `Run`; a nudge after 1 look at an unreaped pane, an end after 2; `Keep` or not | `RunningOK` (types, `Armed`, `OneOutcome`, `EndWasRecorded`, `NobodyIsBlamed`, `WindowsSettled`), `WaitsReturn` |

**Why the bounds are enough to be interesting.** In the queue two short records
fit, and a third or a long second overflows; two readers can steal each other's
wake-up. In `control_replies` the second request follows one that was abandoned
before, during or after its write, and a reply that looks like the first fence
reply is followed by the real fence (`A A B`), the case the held frame exists
for; a reply that looks like the second one, alone and before the fence, is the
other. Frames of one command fill the channel of one, so the reader does block.
In `lane_pool` both lanes can be retired, by a caller and by a fence, at the
same time. In the liveness runs one caller is enough to contend for a lane,
because the fence goroutine of its own abandoned command holds it. In
`mcp_runtime` two requests give a prober, a binder and a leaseholder in any two
of these roles, and a late observer. Its one daemon may start by itself or for
the creation and may exit, so that what is bound to it is lost, healed and
looked for again; a second connection serves whoever binds after the first. That
a second daemon, or a longer chain of losses, changes nothing for the safety
properties is proved (`McpRuntime_proofs`), and liveness over it does not fit the
time a run should take. `MaxDaemons` and `MaxConnections` only stop a daemon from
starting or a connection from being opened. `MaxForeign`, `MaxRequests` and `MaxWire` are bounds of the same
sort. In `mcp_connection` the handshake mutex lets one message at a time into
the session's write, so that a quarantined notification can meet one other
write only: the next reply of the one sender, or the reader's held
notification. Two messages are a call and its reuse, or a call and the end of
the handshake; `MaxReads` and `MaxNotes` bound what is sent, nothing else. With
one call ID the session's limit and the duplicate are the same refusal.

`control_liveness` begins with the process, so that a context may end, or a
foreign block arrive, between any two steps of the handshake; its one foreign
block is the one the calibration could take for its own. A capture's output of
one or two lines has a guard-like line as the only, the last and the first one.
In `mcp_instance` one session may fill its own limit, or both together the
instance's, while one of them dies. `pane_input` runs five mixes: two runs and a
third call of each kind, and inputs that add to, shorten and end a line; a call
of both panes overlaps one of either. In `dispatch` one plan meets another, a
kill, or a command that ignores the record, across one replacement of the daemon
by the same version or another; `Needs` and `Bounds` make every kind of handle.
A second replacement (three daemons) multiplies the states and adds only a
repetition of the first. `swap` gives each mix of at most four events to two
uses and their reverts: a failure whose rollback fails too, a crash followed by a
revert that fails, a client that writes between any two steps. Five events do
not fit the time a run should take. In `running` the second call may begin
before, while or after the first sees the end, and find the pane taken by the
first one's `finish`; a limit of two looks lets a pane be reaped before the nudge,
after it, or never. How the command ended is one value there: it is only copied
from tmux's record to the outcome, and `RunningCorrect` is proved for any.

**Symmetry** is used over callers, lanes and requests in runs without
liveness properties; none of the properties there names one of them.

**Fairness.** A goroutine that can run does (weak fairness of each), timers
fire, and what the code bounds by a timeout ends: `runtimeSetupTimeout` bounds
the runtime's setup, wait_for_text its own commands, the close of a client its
grace and kill. tmux owes nothing: not to read its input, not to answer, not to
finish attaching, so writes, replies, the opening of an exclusive client and a
tool's own commands in `McpRuntime` have no fairness, the last until the context of
their call ends. No context is ever assumed to end, except as the hypothesis of
`CallsReturn`, `CanceledCallsReturn` and `CanceledReturn`, and in one half of
`WaitsReturn`. `RequestsReturn`, which is about calls whose context does not end, has
as its hypothesis that no command of a tool hangs for ever; without it, it is false,
also of a call that has no command under way but waits for the lease of one that
has. A lane is not promised to a particular waiter, as Go
promises none. `McpConnection` needs only that some goroutine of the server
runs while one can, because none goes round in circles without the client or
the transport; it asks nothing of the transport, so `CloseIsBounded` holds
although a write and the transport's own close hang. `McpInstance` is fair to the
instance's own goroutines, its drain timer among them, and to some session having
a step: a handler returns once its context is canceled, a response may stay
unwritten for ever. `PaneInput` is fair to the polls of each call, which has a
timeout; tmux, the shells and the client owe nothing. `Running` is fair to each
call of `Wait`, whose timers fire and whose looks are answered or fail, and to the
goroutine that reads the outcome, all of whose commands are bounded by
`finishLimit`; the command need not end, nor tmux reap it, run the hook or end a
wait-for. `Dispatch` and
`SwapTransaction` state safety only.

## Where the code and its documentation part

Each of these is a definition of its module, kept beside the properties it looks
like. Added to the invariants or properties of the run named with it, TLC gives
the behaviour described.

* `EveryEndMatchesClosed` (`NotificationQueue`): the documentation of
  `NextNotification` (`control_stream.go:19`) says every end of the client
  matches `ErrControlClosed`. After a protocol error the reader's own error is
  the queue's end and is returned as it is (`control_stream.go:38`).
* `UnknownMeansSent` (`LanePool`, run `lane_pool_liveness`): `ErrOutcomeUnknown` is
  documented as a command whose write began (`control_client.go:26`). A pool
  whose last lane was retired by such a command returns that very error to every
  later caller (`control_pool.go:297`).
* `LeaseHoldsCreation` (`McpRuntime`): the comment on `acquire` (`runtime.go:145`)
  says an unbound lease keeps the first creation from starting a daemon.
  `createBoundSession` fetches its handle after the loop decided that the runtime
  is bound (`runtime.go:388`); if the daemon is lost in between, it gets the
  frozen selector and starts a daemon through it while another call holds a
  lease. It takes a second daemon and a read tool: `mcp_runtime` with
  `MaxDaemons = 2` and the `kind` `"read"` beside the creation.
* `CanceledNoteRetires` (`McpConnection`): the test of canceled notifications
  (`session_transport_internal_test.go:533`) wants a write that hangs past its
  deadline to retire the connection. When the timer and the end of the context
  are both there and `select` takes the timer (`session_transport.go:320`),
  `writeNotification` returns without retiring and without a monitor
  (`NoteTimesOutCanceled`), and the hung write keeps the slot of a connection
  that stays active. `OverdueNoteRetires` is what does hold.
* `OwnInputIsMasked` (`PaneInput`): the mask of unsubmitted input is to be "never a
  false one" (`pending_input.go:14-23`), and a failed dispatch puts the old record
  back because "nothing was typed" (`input_tools.go:924`). After
  `ErrOutcomeUnknown` the text may be on the line all the same and is then read as
  the program's. `PendingIsLine` holds for panes without such a call.
* `EveryRunIsForgotten` (`PaneInput`): the tests of detached runs
  (`run_detached_unix_internal_test.go:17-19`) say the next run goes once this one
  has ended, however it ended. A run whose dispatch had an unknown outcome and
  that tmux never typed holds its pane until the pane has another shell.
* `ReportMeansWhatItSays` (`Dispatch`): `OpFailed` is "tmux refused it" and
  `OpSkipped` "not dispatched" (`plan.go:404-405`). `attribute` (`plan.go:687`)
  also says *failed* of the only command of a dispatch whose daemon died over it,
  and a command that ran while a descendant held its output open
  (`exec.ErrWaitDelay`) is an error that leaves its operation *skipped*.
  `ReportIsTrue` is what does hold.

The models show some more that no document denies:

* The handshake mutex is outside the session's write, so a notification behind a
  reply that hangs waits without a deadline, where the session layer alone would
  retire the connection.
* `Instance.terminal` has no caller outside the tests at this commit. During its
  drain any further message ends the connection it comes from.
* A plan whose handle carries no daemon may send its later dispatches to a daemon
  that replaced the one its first dispatch ran in.
* A streaming command whose server exits while it runs is told
  `ErrDaemonReplaced` although it ran.
* A block of another client that falls between a capture's reply and its fence is
  part of what tmux sends in that place, and is returned as output.
* `mcp-swap` after a crash: hard links left by the transaction make later runs
  refuse; a crash between taking the ledger aside and linking its successor
  leaves the ledger missing while both copies are in a hold directory. Nothing is
  lost, but a person has to look.
* `mcp-swap` after a single failure: a file that was moved aside and then cannot be
  read is missing from its path until a person puts it back, and a use whose staging
  fails leaves the temporary configurations it had written (`SwapTransaction` above).

## The proofs

Every theorem is about the specification as the runs check it, for every value
of its constants that the named assumptions allow (`QueueAssumption`,
`PoolAssumption`, ..., which the runs also evaluate).

`ControlClient_proofs` is about both halves of a control client, its replies and its
notifications.

Of `ControlClient` (any callers, any number of requests, blocks of other clients and
frames): `RepliesCorrect`, with its parts `TypeCorrect`, `OwnRepliesHold` and
`Drained`, and `PromiseKept`: every step of the client is a step of `RequestOutcome`
under its refinement mapping, or a stutter. That a reply holds its request's frames and
no others says nothing of a reply that is still under way, so the invariant `IInv`
follows the frames from tmux to the caller. Its parts:

* `Asked`: a request is waited for by one call at most, and nobody but that call
  knows of it until the request goroutine has received it;
* `Handled`: where the goroutine is says in which state its request is, whichever of
  the two a cancellation met first, and only the request being written or read is
  `writing`;
* `Sent` and `Marked`: what tmux has in its input belongs to the current request,
  it ran only what was claimed for the write, and what is not this client's own in the
  stream is a block, never a line;
* `Opened` and `Calibrating`: how far the startup is; the two answers to its fence are
  what the startup takes for them;
* `Quiet`: between the boundary of a request and the write of the next, the input is
  empty and nothing of this client is in the output;
* `Streaming`: while a request is read, what tmux said to it is what was collected,
  what is held back as perhaps the first of the fence, and what is in flight, in this
  order and with nothing else (`Plain`); in a capture there are three phases, before the
  parser meets the first record (`Armed`), while it collects (`Capturing`) and after
  the nonce (`Captured`), and the first thing that looks like the nonce's answer is it;
* `Truthful`: a reply is true of its request when it is made, while it is in the
  response channel and after it is told: no later step of anybody makes it false.

`Comes` relates the two channels to the frames in flight: of their records, this
client's own, with the blocks of others between them left out (`OwnPart`). It is stated
with an increasing function between positions, not with the filter of a sequence, so
that what a step does to it (a record appended, taken off the front, skipped) is a lemma
about that function and needs no induction over data. The proof that `IInv` is inductive
has a lemma for each part and one step for each action in it. TLC checked `IInv` on
small instances before it was proved.

Of `NotificationQueue` (any number of readers, any limit and record lengths):
`QueueCorrect`, with its parts `QueueTypeCorrect` and `WakeupNeverLost`, `OrderKept`,
and `EndComesLast` with its part `EndIsFinal`. `NoLostWakeup` is not inductive by
itself: a reader can lose a wake-up only by holding the token together with
another, so `QueueInv` adds that one token exists and is with the queue or with
the one reader that is inside `next`. `EndIsFinal` needs no invariant: every
action that stores or ends looks at the end first. `OrderInv` adds to
`DeliveredInOrder` that the ring is in wire order, younger than whatever was
delivered and no younger than the wire, and that whoever is told of an end comes
after all of it. `DeliveredInOrder` speaks of the sets of records delivered,
stored and queued and of the order of the first, not of a filtered sequence, so
that no induction over data is needed.

`LanePool_proofs` (any finite set of lanes, any callers and requests):
`PoolCorrect`, with its parts `TypeCorrect`, `EveryLaneInOnePlace`,
`FreeLanesAreIdle` and `DrainedForGood`, from `PoolInv == Structure /\ Counted /\
Drain`. `Structure` says who may be where: a caller that holds a lane holds it
alone, a free lane is in nobody's hands and has nothing on its wire, a lane is
fenced only after its caller let go, an exclusive client is named by its own
request. `Counted` is `live = Cardinality(InService)`, carried over every step by
the lemmas on the cardinality of a set with one element added or removed.
`Drain` says that a lane is named the drainer only when no lane is in service,
and that the channel is closed only for a drainer; it needs `Counted` to see that
a decrement to zero left nobody, and `Structure` to see that nobody comes back.
`NothingForgotten` follows from `ClosingInv`: a client opened at any time is
closed, in the pool's books, or in the hands of an opener in `adopt`, and so at
each stage of the close. `OutcomeKept` is the refinement: every step of the pool
maps to a step of `RequestOutcome` or to none. `OutcomeInv` adds what makes it
so: `Asking`, that a request belongs to one caller until it is answered;
`Sending`, that only what was sent runs, and that the reply outstanding on a
client whose caller waits is to that caller's command; `Answering`, that what
`got`, `answer` and the pool's recorded `failure` say is true. A call opens a
request, `Tell` answers it, `TmuxRuns` runs it.

`Dispatch_proofs` (any callers, handles and daemons): `RunsOnceInTurn` and
`CheckedWhereRun`, from `DispatchInv`, which says of each caller: `Clients`, where it
is while its tmux client is still out; `Turns`, that nothing of a dispatch has run
while it is `Pending` (its client not yet at a daemon, or told that the daemon is
gone), and that a plan gets to its second dispatch only after its first ran;
`Guarded`, that what guards a command in flight is what the handle allows;
`Placed`, that what ran did so in such a daemon. A stale record makes the guard
refuse rather than run, which is why the one retry cannot run a command twice.
`ResultIsTrue` and `RecordNeverShows` need `ReportInv` on top: `Reported`, that the
operations before the current dispatch are complete and nothing is said yet of
those behind it, whose client may be out when the call returns; `Truthful`, that
what is said then is so; `Fresh`, that a guard that did not come from the record
names the daemon at the socket until one comes or goes; `Hidden`, that a caller is
told of a replacement, or of nobody there, only if one came or went.

`PaneInput_proofs` (any calls, panes and groups): `PanesKeptApart`,
`RecordIsLine` and `OneRunAtATime`. `ReservationsExact` is not inductive: a run
that is handed to its reaper takes the detached place of its panes, so nobody may
have it. `OneRun` adds that nobody has while a run holds its panes, which
`acquire` looked at. `RecordInv` follows the line and its record while keys are on
their way: the record is what `Upfront` made of the old one, and the line the old
one or what tmux made of it. `RunInv` says that a run nobody follows any more has
ended, or was typed to a shell that a respawn replaced.

`McpConnection_proofs` (any number of sending goroutines, calls, closers and any
limit): `ConnectionCorrect`, `WritesFenced`, `OverdueRetires` and `PoliteAdmitted`,
from one invariant of eight parts. `Entered` says who is inside the handshake
mutex and with what; `Slotted`, that whoever writes has the slot and is seen by
`Close`; `Dead`, that whatever retires the connection has found or made it inactive
and one goroutine at most owes the instance the news; `Worked` is the ledger, call
by call; `Fenced`, `Shaken` and `Judged` are the parts of `WritesOK` and
`OverdueNoteRetires` with what keeps them; `Polite`, that what is being served is
what the client still waits for, in its own count of outstanding calls.

`McpInstance_proofs` (any sessions, calls and limits): `ShutdownIsComplete`, from
`Lifetime`, in which phases a session may have a connection and work, and
`Closing`, where a session can be at each stage of the shutdown: none is between
the two looks at `closing` once every `Connect` was waited for, and one that is
still served then is among those whose end is awaited. `AccountsInOrder` and the
action property `DrainIsComplete` need `AccountInv`: `Ledgers`, that a living
session's ledger is its work until the shutdown begins and every other ledger is
empty or about to be; that the work of the living is within the instance's limit;
and `Drained`, that after a terminal failure a ledger found empty stays so.

`McpRuntime_proofs` (any tool calls, daemons and connections): `RuntimeCorrect`,
`WaitersHaveOwners` and `ConnectionNeverSwitched`. The first two follow from
`RuntimeInv`: `Roles`, that the owner of a probe or a binding is at the work that
ends it, which is why whoever is parked will be woken; `Parked`, that a request
waits only on a channel that is the current one; `Leased`, where a request that
holds a lease may be, without which a lease could be returned twice; `Connected`,
what a binder has in hand between its opening of a connection and the critical
section that accepts or closes it. That a connection is never silently switched
needs no invariant: every action looks at the state first.

`Running_proofs` (any calls of `Wait`, any limits): `RunningCorrect`. `RunningInv`
adds `Started`, how far `Start` is and that nobody waits before its end;
`SeenEnded`, that a signal, a latch or a claim means the end is recorded or the
pane gone; `ReadOnce`, that `exited` is set with the one `finish` that reads the
outcome; and `Taken`, who can have taken the window: `finish` only after `exited`
was set, `Run` only after its own call returned, so that a call that finds the
window gone either sees `exited` or may say so.

Each of these invariants was first checked by TLC on the instance of its run.

Only model-checked: the safety of `SwapTransaction` (`FilesOK`, `SwapIsRecorded`,
`FailureIsUndone`, `ConfigsAreTrue`), and all liveness properties,
`EndedRunIsForgotten` of `PaneInput` among them. TLAPS in the version used has no support for `ENABLED`, hence none for
fairness, and cannot instantiate the induction theorems over data, so neither is
attempted. The swap needs the second: which operations a transaction has, and that no
two of them take the same temporary file or skip a link in the chain of one path, comes
from a sort of the layers (`SetToSortSeq`), from sequences put together (`FlattenSeq`)
and from a recursion down the layers (`Restored`). That a sort of a finite set exists and
keeps its elements is an induction already, and every step of commit and rollback
relies on it.

The modules that are proved about choose with `IF` where others use a `CASE` of
several arms: the SMT translation of such a `CASE` in this version of the prover
admits proofs of false statements, so no proved step may depend on expanding one.

## Not modelled

The components table of `PROJECT.json` gives the reason for each. The modules
stand for the part of the code that keeps state between steps of several actors,
some thousand lines of the implementation. Most of the rest is data: generated
tables of options, filters and formats, the generators that write them, the
options, hooks, windows, layouts and search of the object model, the tool catalog
with its schemas, and command lines translate one value into another in one
sequential step, without state two actors could get wrong; the unit tests compare
their results with tables. The Go runtime, the file system, the MCP SDK and tmux
itself are external and appear as the nondeterminism of the actions that use
them. The components named in the plan below are left for it.

Simplifications within the models: contents of replies, notifications and errors
are reduced to the distinctions the properties make; a context error and another
error are one where the code treats them alike; the validation of arguments
before a request is made never fails. `ControlClient` leaves out `Reconnect`,
which opens another client and then closes this one; `LanePool` begins with all
lanes open (`openControlLanes` is left out). What the other modules leave out is
said in their sections.

## The plan

1. `NotificationRing`, the bytes of the queue against `NotificationQueue`'s records
   with their headers split at the end of the buffer; `PaneObservation` and the
   notification stream.
2. `Reconnect` and the opening of the lanes, in the modules they belong to.
3. The harness's cleanup against a reused socket; the workspace builder.
4. Proofs: that commit and rollback of `SwapTransaction` keep `FailureIsUndone` for any
   well-formed sequence of operations, with what the plan of a transaction promises as an
   abstract specification of its own; that `McpConnection` is, as `McpInstance` sees it, a link that goes up,
   down and is reported once.
