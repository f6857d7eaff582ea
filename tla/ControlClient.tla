---------------------------- MODULE ControlClient ----------------------------
(***************************************************************************)
(* One ControlClient: its startup, and then callers hand requests to the   *)
(* request goroutine (runRequests), which writes each to the tmux control  *)
(* process, reads frames from the reader goroutine (readStream) up to the  *)
(* reply fence, and answers.  A caller may give up, tmux may die or send   *)
(* nonsense, and the owner may close the client, all at any moment.        *)
(*                                                                         *)
(* A request is a number, 0 the startup.  A frame is the request that      *)
(* caused it, whether tmux marked it as this client's, and its             *)
(* fingerprint: "A" and "B" are those of the two fence replies, "E" is a   *)
(* refused startup, "X" any other.  A capture request has lines outside    *)
(* frames as well, "text" and "guard", which looks like an opening guard,  *)
(* and the reply to its nonce: an opening guard, then "N".                 *)
(***************************************************************************)
EXTENDS Naturals, Sequences, SequencesExt

CONSTANTS
    Callers,       \* goroutines calling Cmd, Call or crossReplyFence
    MaxRequests,   \* bound: requests made in a behaviour
    Kinds,         \* "command" for Cmd and Call, "fence" for crossReplyFence,
                   \* "capture" for a command on a client opened for it alone
    FrameLists,    \* the fingerprints one command may be answered with
    OutputLists,   \* what a capture prints after its first reply
    ForeignTags,   \* the fingerprints of other clients' blocks
    MaxForeign     \* bound: how many such blocks

NoAdjacentFence(s) == \A i \in 1..(Len(s) - 1) : ~(s[i] = "A" /\ s[i + 1] = "B")

ASSUME ClientAssumption ==
    /\ MaxRequests \in Nat /\ MaxForeign \in Nat
    /\ Kinds \subseteq {"command", "fence", "capture"}
    /\ FrameLists \subseteq Seq({"A", "B", "X"})
    /\ OutputLists \subseteq Seq({"X", "text", "guard"})
    /\ ForeignTags \subseteq {"A", "B", "X"}
    /\ \A s \in FrameLists : NoAdjacentFence(s)

Requests == 1..MaxRequests
NoFrame  == [req |-> 0, own |-> FALSE, tag |-> "none"]

VARIABLES
    pc, req,                     \* per caller: where it is, its request
    made,                        \* requests made so far
    kind, ctxDone, state,        \* per request: kind, context, atomic state
    response,                    \* per request: its buffered response channel
    result,                      \* per request: what the caller was told
    wpc, cur, results, pendingFirst, resp,   \* the opener, then the request goroutine
    openCtx, dispatching, fence,             \* the startup: context, flag, fingerprints
    stdin, stdinOpen, alive,     \* the control process and its input
    stdout,                      \* frames on the pipe from tmux
    frames, readDone, readErr,   \* the reader goroutine and its channel
    capturing, lines,            \* the parser's capture and the lines in it
    closeRequested, closing, closePhase,
    ran, emitted, foreign        \* history: what tmux did

callerVars  == <<pc, req, made, kind, result>>
requestVars == <<ctxDone, state, response>>
workerVars  == <<wpc, cur, results, pendingFirst, resp>>
processVars == <<stdin, alive, ran, emitted, foreign>>
parserVars  == <<capturing, lines>>
readerVars  == <<frames, readDone, readErr, parserVars>>
openVars    == <<openCtx, dispatching, fence>>
lifeVars    == <<openVars, closeRequested, closing, closePhase, stdinOpen>>
vars == <<callerVars, requestVars, workerVars, processVars, stdout, readerVars, lifeVars>>

None == [err |-> "none", frames |-> <<>>]
Reply(err, fs) == [err |-> err, frames |-> fs]

Init ==
    /\ pc = [c \in Callers |-> "idle"]
    /\ req = [c \in Callers |-> 0]
    /\ made = 0
    /\ kind = [r \in Requests |-> "none"]
    /\ ctxDone = [r \in Requests |-> FALSE]
    /\ state = [r \in Requests |-> "pending"]
    /\ response = [r \in Requests |-> <<>>]
    /\ result = [r \in Requests |-> None]
    /\ wpc \in {"guard", "attach"}
    /\ cur = 0 /\ results = <<>> /\ pendingFirst = NoFrame /\ resp = None
    /\ openCtx = FALSE /\ dispatching = FALSE /\ fence = <<"none", "none">>
    /\ stdin = <<[req |-> 0, part |-> wpc]>> /\ stdinOpen = TRUE /\ alive = TRUE
    /\ stdout = <<>>
    /\ frames = <<>> /\ readDone = FALSE /\ readErr = FALSE
    /\ capturing = "no" /\ lines = <<>>
    /\ closeRequested = FALSE /\ closing = FALSE /\ closePhase = "none"
    /\ ran = [r \in Requests |-> FALSE]
    /\ emitted = [r \in Requests |-> <<>>]
    /\ foreign = 0

------------------------------------------------------------------------------
(* Startup, on the goroutine of OpenControl: the reader already runs.      *)

Opening == wpc \in {"guard", "attach", "attached", "calibrate", "first", "second", "register"}

\* failStartup: the client is closed, and was never handed out.
StartupFails ==
    /\ wpc' = "failed"
    /\ closeRequested' = TRUE /\ closePhase' = "grace"

\* The startup context ends, the control process exits, the socket's private
\* directory cannot be removed: whoever waits looks at all of them.
OpenFails ==
    /\ Opening /\ wpc # "attached"
    /\ \/ openCtx /\ wpc # "calibrate"
       \/ wpc \in {"guard", "attach", "first", "second"} /\ readDone /\ frames = <<>>
       \/ wpc = "calibrate" /\ ~alive
       \/ wpc = "register"
    /\ StartupFails
    /\ UNCHANGED <<callerVars, requestVars, cur, results, pendingFirst, resp, openVars,
                   processVars, stdout, readerVars, closing, stdinOpen>>

CancelOpen ==
    /\ Opening /\ ~openCtx
    /\ openCtx' = TRUE
    /\ UNCHANGED <<callerVars, requestVars, workerVars, dispatching, fence, processVars, stdout,
                   readerVars, closeRequested, closing, closePhase, stdinOpen>>

\* A frame for the opener, who goes on to the next place or fails.
Took(good, next) ==
    /\ frames # <<>>
    /\ frames' = Tail(frames)
    /\ IF good
       THEN wpc' = next /\ UNCHANGED <<closeRequested, closePhase>>
       ELSE StartupFails
    /\ UNCHANGED <<callerVars, requestVars, cur, results, pendingFirst, resp, openCtx,
                   processVars, stdout, readDone, readErr, parserVars, closing, stdinOpen>>

\* The guard's own frame, then the attach's.
AcceptGuard ==
    /\ wpc = "guard"
    /\ Took(Head(frames).tag # "E", "attach")
    /\ UNCHANGED <<dispatching, fence>>

AcceptAttach ==
    /\ wpc = "attach"
    /\ Took(Head(frames).tag # "E", "attached")
    /\ UNCHANGED <<dispatching, fence>>

\* Until now the reader has sent every frame.
BeginDispatching ==
    /\ wpc = "attached"
    /\ dispatching' = TRUE
    /\ wpc' = "calibrate"
    /\ UNCHANGED <<callerVars, requestVars, cur, results, pendingFirst, resp, processVars, stdout,
                   readerVars, openCtx, fence, closeRequested, closing, closePhase, stdinOpen>>

\* calibrateReplyFence: what tmux answers to the fence's two lines is kept.
WriteCalibration ==
    /\ wpc = "calibrate" /\ alive
    /\ stdin' = stdin \o <<[req |-> 0, part |-> "A"], [req |-> 0, part |-> "B"]>>
    /\ wpc' = "first"
    /\ UNCHANGED <<callerVars, requestVars, cur, results, pendingFirst, resp, alive, ran, emitted,
                   foreign, stdout, readerVars, lifeVars>>

\* Mutant: any frame is taken for the answer.
FirstReplyOfAnyone ==
    /\ wpc = "first" /\ frames # <<>>
    /\ Took(TRUE, "second")
    /\ fence' = [fence EXCEPT ![1] = Head(frames).tag]
    /\ UNCHANGED dispatching

FirstReply ==
    /\ wpc = "first" /\ frames # <<>> /\ Head(frames).own
    /\ Took(TRUE, "second")
    /\ fence' = [fence EXCEPT ![1] = Head(frames).tag]
    /\ UNCHANGED dispatching

\* newControlReplyFence refuses two that are alike.
SecondReply ==
    /\ wpc = "second" /\ frames # <<>> /\ Head(frames).own
    /\ Took(Head(frames).tag # fence[1], "register")
    /\ fence' = [fence EXCEPT ![2] = Head(frames).tag]
    /\ UNCHANGED dispatching

\* nextOwnFrame, here and in a request.
SkipForeign ==
    /\ wpc \in {"first", "second", "read"} /\ frames # <<>> /\ ~Head(frames).own
    /\ frames' = Tail(frames)
    /\ UNCHANGED <<callerVars, requestVars, workerVars, processVars, stdout, readDone, readErr,
                   parserVars, lifeVars>>

\* The client is returned and runRequests starts; the context is done with.
Register ==
    /\ wpc = "register"
    /\ wpc' = "select" /\ openCtx' = FALSE
    /\ UNCHANGED <<callerVars, requestVars, cur, results, pendingFirst, resp, dispatching, fence,
                   processVars, stdout, readerVars, closeRequested, closing, closePhase, stdinOpen>>

HandedOut == ~Opening /\ wpc # "failed"

------------------------------------------------------------------------------
(* Callers.                                                                *)

\* A client opened for a capture (runExclusive) carries nothing else.
MayMake(k) == IF k = "capture" THEN made = 0 ELSE \A r \in 1..made : kind[r] # "capture"

\* cmdWith and crossReplyFence build a request under a live context.
Call(c) ==
    /\ HandedOut /\ pc[c] = "idle"
    /\ made < MaxRequests
    /\ made' = made + 1
    /\ req' = [req EXCEPT ![c] = made']
    /\ \E k \in Kinds : MayMake(k) /\ kind' = [kind EXCEPT ![made'] = k]
    /\ pc' = [pc EXCEPT ![c] = "check"]
    /\ UNCHANGED <<result, requestVars, workerVars, processVars, stdout, readerVars, lifeVars>>

CancelContext(c) ==
    /\ pc[c] # "idle" /\ ~ctxDone[req[c]]
    /\ ctxDone' = [ctxDone EXCEPT ![req[c]] = TRUE]
    /\ UNCHANGED <<callerVars, state, response, workerVars, processVars, stdout, readerVars, lifeVars>>

Tell(c, reply) ==
    /\ result' = [result EXCEPT ![req[c]] = reply]
    /\ pc' = [pc EXCEPT ![c] = "idle"]
    /\ UNCHANGED <<req, made, kind>>

\* submitControlRequest before its select.
CheckClosed(c) ==
    /\ pc[c] = "check"
    /\ IF closeRequested
       THEN Tell(c, Reply("closed", <<>>))
       ELSE pc' = [pc EXCEPT ![c] = "submit"] /\ UNCHANGED <<req, made, kind, result>>
    /\ UNCHANGED <<requestVars, workerVars, processVars, stdout, readerVars, lifeVars>>

\* Its select, but for the send, which is Receive below.
SubmitGivesUp(c) ==
    /\ pc[c] = "submit"
    /\ \/ ctxDone[req[c]] /\ Tell(c, Reply("ctx", <<>>))
       \/ wpc = "done" /\ Tell(c, Reply(IF readErr THEN "error" ELSE "closed", <<>>))
       \/ closeRequested /\ Tell(c, Reply("closed", <<>>))
    /\ UNCHANGED <<requestVars, workerVars, processVars, stdout, readerVars, lifeVars>>

\* await: the response, or the context.
AwaitResponse(c) ==
    /\ pc[c] \in {"await", "collect"}
    /\ response[req[c]] # <<>>
    /\ Tell(c, Head(response[req[c]]))
    /\ response' = [response EXCEPT ![req[c]] = Tail(@)]
    /\ UNCHANGED <<ctxDone, state, workerVars, processVars, stdout, readerVars, lifeVars>>

\* cancelBeforeWrite wins while the request has not reached Writing.
CancelBeforeWrite(c) ==
    /\ pc[c] = "await" /\ ctxDone[req[c]]
    /\ IF state[req[c]] \in {"pending", "accepted", "canceled"}
       THEN /\ state' = [state EXCEPT ![req[c]] = "canceled"]
            /\ Tell(c, Reply("ctx", <<>>))
       ELSE /\ pc' = [pc EXCEPT ![c] = "late"]
            /\ UNCHANGED <<req, made, kind, result, state>>
    /\ UNCHANGED <<ctxDone, response, workerVars, processVars, stdout, readerVars, lifeVars>>

\* Mutant: a caller that lost the race waits for the answer.
CanceledTooLateWaits(c) ==
    /\ pc[c] = "late"
    /\ pc' = [pc EXCEPT ![c] = "collect"]
    /\ UNCHANGED <<req, made, kind, result>>
    /\ UNCHANGED <<requestVars, workerVars, processVars, stdout, readerVars, lifeVars>>

\* It lost: a finished request still has an answer to collect, any other is
\* abandoned to the request goroutine.
CanceledTooLate(c) ==
    /\ pc[c] = "late"
    /\ IF state[req[c]] = "finished"
       THEN pc' = [pc EXCEPT ![c] = "collect"] /\ UNCHANGED <<req, made, kind, result>>
       ELSE Tell(c, Reply("unknown", <<>>))
    /\ UNCHANGED <<requestVars, workerVars, processVars, stdout, readerVars, lifeVars>>

------------------------------------------------------------------------------
(* The request goroutine.                                                  *)

\* The unbuffered requests channel: a send is a receive.
Receive(c) ==
    /\ pc[c] = "submit" /\ wpc = "select"
    /\ pc' = [pc EXCEPT ![c] = "await"]
    /\ wpc' = "received" /\ cur' = req[c]
    /\ UNCHANGED <<req, made, kind, result, requestVars, results, pendingFirst, resp,
                   processVars, stdout, readerVars, lifeVars>>

Respond(reply, next) ==
    /\ resp' = reply
    /\ wpc' = next
    /\ UNCHANGED <<cur, results, pendingFirst>>

Accept ==
    /\ wpc = "received"
    /\ IF state[cur] = "pending"
       THEN /\ state' = [state EXCEPT ![cur] = "accepted"]
            /\ wpc' = "accepted" /\ UNCHANGED <<cur, results, pendingFirst, resp>>
       ELSE /\ Respond(Reply("ctx", <<>>), "respond")
            /\ UNCHANGED state
    /\ UNCHANGED <<callerVars, ctxDone, response, processVars, stdout, readerVars, lifeVars>>

RefuseClosed ==
    /\ wpc = "accepted"
    /\ IF closeRequested
       THEN /\ state' = [state EXCEPT ![cur] = "finished"]
            /\ Respond(Reply("closed", <<>>), "respondLast")
       ELSE wpc' = "execute" /\ UNCHANGED <<state, cur, results, pendingFirst, resp>>
    /\ UNCHANGED <<callerVars, ctxDone, response, processVars, stdout, readerVars, lifeVars>>

\* executeControlRequest: the context, then the race with cancelBeforeWrite.
CheckContext ==
    /\ wpc = "execute"
    /\ IF ctxDone[cur]
       THEN /\ state' = [state EXCEPT ![cur] = "canceled"]
            /\ Respond(Reply("ctx", <<>>), "respond")
       ELSE wpc' = "claim" /\ UNCHANGED <<state, cur, results, pendingFirst, resp>>
    /\ UNCHANGED <<callerVars, ctxDone, response, processVars, stdout, readerVars, lifeVars>>

\* Mutant: the request is claimed without looking at its state.
ClaimWriteBlindly ==
    /\ wpc = "claim"
    /\ state' = [state EXCEPT ![cur] = "writing"]
    /\ wpc' = "write" /\ UNCHANGED <<cur, results, pendingFirst, resp>>
    /\ UNCHANGED <<callerVars, ctxDone, response, processVars, stdout, readerVars, lifeVars>>

ClaimWrite ==
    /\ wpc = "claim"
    /\ IF state[cur] = "accepted"
       THEN /\ state' = [state EXCEPT ![cur] = "writing"]
            /\ wpc' = "write" /\ UNCHANGED <<cur, results, pendingFirst, resp>>
       ELSE /\ Respond(Reply("ctx", <<>>), "respond")
            /\ UNCHANGED state
    /\ UNCHANGED <<callerVars, ctxDone, response, processVars, stdout, readerVars, lifeVars>>

Line(part) == [req |-> cur, part |-> part]

\* The command and the two fence lines go out in one write; a capture's nonce
\* is between them, and its parser is armed before.
Write ==
    /\ wpc = "write" /\ stdinOpen /\ alive
    /\ stdin' = stdin \o (IF kind[cur] = "fence" THEN <<>> ELSE <<Line("command")>>)
                      \o (IF kind[cur] = "capture" THEN <<Line("N")>> ELSE <<>>)
                      \o <<Line("A"), Line("B")>>
    /\ capturing' = IF kind[cur] = "capture" THEN "armed" ELSE capturing
    /\ wpc' = "read" /\ results' = <<>> /\ pendingFirst' = NoFrame
    /\ UNCHANGED <<callerVars, requestVars, cur, resp, alive, ran, emitted, foreign,
                   stdout, frames, readDone, readErr, lines, lifeVars>>

\* finish: the state first, the response in a step of its own.
Finish(reply, next) ==
    /\ state' = [state EXCEPT ![cur] = "finished"]
    /\ Respond(reply, next)
    /\ UNCHANGED <<callerVars, ctxDone, response>>

\* A failed write may still have carried the command to a dying tmux.
WriteFails ==
    /\ wpc = "write" /\ ~(stdinOpen /\ alive)
    /\ Finish(Reply("unknown", <<>>), "respondLast")
    /\ \E executed \in BOOLEAN : ran' = [ran EXCEPT ![cur] = executed]
    /\ UNCHANGED <<stdin, alive, emitted, foreign, stdout, readerVars, lifeVars>>

\* One frame of executeControlRequest's loop.  A frame with the first fence's
\* fingerprint is held until the next tells a reply from the boundary.
BoundaryReached ==
    /\ wpc = "read" /\ frames # <<>>
    /\ pendingFirst # NoFrame /\ Head(frames).own /\ Head(frames).tag = fence[2]
    /\ frames' = Tail(frames)
    /\ Finish(Reply("ok", results \o lines), "respond")
    /\ UNCHANGED <<processVars, stdout, readDone, readErr, parserVars, lifeVars>>

\* The frame that closes a capture only brings its lines.
TakeCapture ==
    /\ wpc = "read" /\ frames # <<>> /\ Head(frames).tag = "N"
    /\ frames' = Tail(frames)
    /\ UNCHANGED <<callerVars, requestVars, workerVars, processVars, stdout, readDone, readErr,
                   parserVars, lifeVars>>

\* A frame that is neither.
OneMoreFrame ==
    /\ wpc = "read" /\ frames # <<>> /\ Head(frames).own /\ Head(frames).tag # "N"
    /\ ~(pendingFirst # NoFrame /\ Head(frames).tag = fence[2])

CollectFrame ==
    /\ OneMoreFrame
    /\ frames' = Tail(frames)
    /\ LET released == IF pendingFirst = NoFrame THEN results
                       ELSE Append(results, pendingFirst)
           frame    == Head(frames)
       IN  IF frame.tag = fence[1]
           THEN pendingFirst' = frame /\ results' = released
           ELSE pendingFirst' = NoFrame /\ results' = Append(released, frame)
    /\ UNCHANGED <<callerVars, requestVars, wpc, cur, resp, processVars, stdout,
                   readDone, readErr, parserVars, lifeVars>>

\* Mutant: the read ends with the caller's context and so does the goroutine.
ReadStopsWithCaller ==
    /\ wpc = "read"
    /\ (readDone /\ frames = <<>>) \/ closing \/ ctxDone[cur]
    /\ Finish(Reply("unknown", results), "respondLast")
    /\ UNCHANGED <<processVars, stdout, readerVars, lifeVars>>

\* nextFrame fails: the frames channel is closed and drained, or the client is
\* closing.  What was proven so far is returned with the doubt.
ReadFails ==
    /\ wpc = "read"
    /\ (readDone /\ frames = <<>>) \/ closing
    /\ Finish(Reply("unknown", results), "respondLast")
    /\ UNCHANGED <<processVars, stdout, readerVars, lifeVars>>

SendResponse ==
    /\ wpc \in {"respond", "respondLast"}
    /\ response' = [response EXCEPT ![cur] = Append(@, resp)]
    /\ wpc' = IF wpc = "respond" THEN "select" ELSE "done"
    /\ results' = <<>> /\ pendingFirst' = NoFrame /\ resp' = None
    /\ lines' = <<>>
    /\ UNCHANGED <<callerVars, ctxDone, state, cur, processVars, stdout, frames, readDone, readErr,
                   capturing, lifeVars>>

StopRequests ==
    /\ wpc = "select" /\ closeRequested
    /\ wpc' = "done"
    /\ UNCHANGED <<callerVars, requestVars, cur, results, pendingFirst, resp,
                   processVars, stdout, readerVars, lifeVars>>

------------------------------------------------------------------------------
(* tmux: it answers its input in order, one block of frames per command.   *)

Answered(r, own, tags) == [i \in 1..Len(tags) |-> [req |-> r, own |-> own, tag |-> tags[i]]]

\* if-shell answers before the attach it schedules; the blocks of the command
\* line are not marked as the client's.
Starting == {"guard", "attach"}
Startups(part) == IF part = "guard" THEN {<<"X", "X">>, <<"E">>, <<"X", "E">>} ELSE {<<"X">>, <<"E">>}

Attached == \A j \in 1..Len(stdin) : stdin[j].part \notin Starting

\* A capture's command answers at once and prints what it has to say later.
Answers(line) ==
    IF line.part \in Starting THEN Startups(line.part)
    ELSE IF line.part = "output" THEN OutputLists
    ELSE IF line.part = "N" THEN {<<"guard", "N">>}
    ELSE IF line.part \in {"A", "B"} THEN {<<line.part>>}
    ELSE IF kind[line.req] = "capture" THEN {<<"X">>} ELSE FrameLists

TmuxExecutes ==
    /\ alive /\ stdin # <<>>
    /\ LET line == Head(stdin)
           later == line.part = "command" /\ kind[line.req] = "capture" IN
       /\ \E tags \in Answers(line) :
            LET said == Answered(line.req, line.part \notin Starting, tags) IN
            /\ stdout' = stdout \o said
            /\ emitted' = IF line.part \in {"command", "output"}
                          THEN [emitted EXCEPT ![line.req] = @ \o said]
                          ELSE emitted
       /\ ran' = [r \in Requests |-> ran[r] \/ r = line.req]
       /\ stdin' = (IF later THEN <<[line EXCEPT !.part = "output"]>> ELSE <<>>) \o Tail(stdin)
    /\ UNCHANGED <<callerVars, requestVars, workerVars, alive, foreign, readerVars, lifeVars>>

\* A hook or another client's key binding runs a command: its block is not ours.
TmuxForeignBlock ==
    /\ alive /\ Attached /\ foreign < MaxForeign
    /\ foreign' = foreign + 1
    /\ \E tag \in ForeignTags :
         stdout' = Append(stdout, [req |-> 0, own |-> FALSE, tag |-> tag])
    /\ UNCHANGED <<callerVars, requestVars, workerVars, stdin, alive, ran, emitted,
                   readerVars, lifeVars>>

TmuxExits ==
    /\ alive
    /\ alive' = FALSE
    /\ stdin' = <<>>
    /\ UNCHANGED <<callerVars, requestVars, workerVars, ran, emitted, foreign, stdout,
                   readerVars, lifeVars>>

------------------------------------------------------------------------------
(* The reader goroutine.                                                   *)

Blocks == {"A", "B", "X", "E"}

\* What becomes of the next item: the parser captures it, or readStream sends
\* it to the frames channel, or drops it.
Captures(item) == capturing = "started" /\ item.tag # "N"
ToChannel(item) == ~Captures(item) /\ (item.own \/ ~dispatching)

\* A send on the frames channel waits while its one slot is taken.
SendBlocked == stdout # <<>> /\ ToChannel(Head(stdout)) /\ Len(frames) = 1

Reading == ~readDone /\ closePhase # "done" /\ stdout # <<>> /\ ~SendBlocked

\* A block that is not this client's is dropped, its own waits for room in the
\* channel of one.  The first own one after arm starts the capture.
ReadFrame ==
    /\ Reading /\ ~Captures(Head(stdout)) /\ Head(stdout).tag \in Blocks
    /\ frames' = IF ToChannel(Head(stdout)) THEN Append(frames, Head(stdout)) ELSE frames
    /\ capturing' = IF capturing = "armed" /\ Head(stdout).own THEN "started" ELSE capturing
    /\ stdout' = Tail(stdout)
    /\ UNCHANGED <<callerVars, requestVars, workerVars, processVars, readDone, readErr, lines, lifeVars>>

\* consumeCaptured: whatever it is, another client's block too.
CaptureLine ==
    /\ Reading /\ Captures(Head(stdout))
    /\ lines' = Append(lines, Head(stdout))
    /\ stdout' = Tail(stdout)
    /\ UNCHANGED <<callerVars, requestVars, workerVars, processVars, frames, readDone, readErr,
                   capturing, lifeVars>>

\* Mutant: what looks like an opening guard in front of the nonce stays.
CaptureEndsKeepingGuard ==
    /\ Reading /\ Head(stdout).tag = "N" /\ capturing = "started"
    /\ frames' = Append(frames, Head(stdout))
    /\ capturing' = "no"
    /\ stdout' = Tail(stdout)
    /\ UNCHANGED <<callerVars, requestVars, workerVars, processVars, readDone, readErr, lines, lifeVars>>

\* The nonce behind an opening guard, which was captured as a line: only now
\* is it known to have been one.
CaptureEnds ==
    /\ Reading /\ Head(stdout).tag = "N" /\ capturing = "started"
    /\ lines # <<>> /\ Last(lines).tag = "guard"
    /\ lines' = Front(lines)
    /\ frames' = Append(frames, Head(stdout))
    /\ capturing' = "no"
    /\ stdout' = Tail(stdout)
    /\ UNCHANGED <<callerVars, requestVars, workerVars, processVars, readDone, readErr, lifeVars>>

\* End of file, or a close seen by a blocked send or by a read.
ReaderEnds ==
    /\ ~readDone
    /\ \/ ~alive /\ stdout = <<>>
       \/ closing /\ SendBlocked
       \/ closePhase = "done" /\ ~SendBlocked
    /\ readDone' = TRUE
    /\ stdout' = <<>>
    /\ UNCHANGED <<callerVars, requestVars, workerVars, processVars, frames, readErr, parserVars,
                   lifeVars>>

\* A record the parser cannot read ends the client: the process is killed.
ReaderFails ==
    /\ ~readDone /\ closePhase # "done"
    /\ readDone' = TRUE /\ readErr' = TRUE
    /\ stdout' = <<>>
    /\ IF closing THEN UNCHANGED <<alive, stdin>> ELSE alive' = FALSE /\ stdin' = <<>>
    /\ UNCHANGED <<callerVars, requestVars, workerVars, ran, emitted, foreign, frames, parserVars,
                   lifeVars>>

------------------------------------------------------------------------------
(* Closing.                                                                *)

StartClose ==
    /\ HandedOut /\ ~closeRequested
    /\ closeRequested' = TRUE /\ closePhase' = "grace"
    /\ UNCHANGED <<callerVars, requestVars, workerVars, processVars, stdout, readerVars,
                   openVars, closing, stdinOpen>>

\* closeAfterRequests: the request goroutine ended, or the grace did.
BeginClosing ==
    /\ closePhase = "grace"
    /\ closing' = TRUE /\ closePhase' = "stdin"
    /\ UNCHANGED <<callerVars, requestVars, workerVars, processVars, stdout, readerVars,
                   openVars, closeRequested, stdinOpen>>

CloseStdin ==
    /\ closePhase = "stdin"
    /\ stdinOpen' = FALSE /\ closePhase' = "exit"
    /\ UNCHANGED <<callerVars, requestVars, workerVars, processVars, stdout, readerVars,
                   openVars, closeRequested, closing>>

\* The process ended by itself, or is killed; one that survives the kill is
\* reported and left behind.  Then the output pipe is closed.
CloseProcess ==
    /\ closePhase = "exit"
    /\ closePhase' = "done"
    /\ \/ ~alive /\ UNCHANGED <<alive, stdin>>
       \/ alive /\ alive' \in BOOLEAN /\ stdin' = IF alive' THEN stdin ELSE <<>>
    /\ UNCHANGED <<callerVars, requestVars, workerVars, ran, emitted, foreign, stdout,
                   readerVars, openVars, closeRequested, closing, stdinOpen>>

------------------------------------------------------------------------------
CallerStep(c) ==
    \/ CheckClosed(c) \/ SubmitGivesUp(c) \/ Receive(c)
    \/ AwaitResponse(c) \/ CancelBeforeWrite(c) \/ CanceledTooLate(c)

OpenerStep ==
    \/ OpenFails \/ AcceptGuard \/ AcceptAttach \/ BeginDispatching \/ WriteCalibration
    \/ FirstReply \/ SecondReply \/ Register

WorkerStep ==
    \/ SkipForeign \/ TakeCapture
    \/ Accept \/ RefuseClosed \/ CheckContext \/ ClaimWrite \/ WriteFails
    \/ BoundaryReached \/ CollectFrame \/ ReadFails \/ SendResponse \/ StopRequests

ReaderStep == ReadFrame \/ CaptureLine \/ CaptureEnds \/ ReaderEnds

CloserStep == BeginClosing \/ CloseStdin \/ CloseProcess

Next ==
    \/ \E c \in Callers : Call(c) \/ CancelContext(c) \/ CallerStep(c)
    \/ OpenerStep \/ CancelOpen
    \/ WorkerStep \/ Write
    \/ TmuxExecutes \/ TmuxForeignBlock \/ TmuxExits
    \/ ReaderStep \/ ReaderFails
    \/ StartClose \/ CloserStep

(* Goroutines that can run do, and the timers of the close fire.  tmux     *)
(* owes nothing: it may never read its input or answer it, so a write that *)
(* could complete is not assumed to.                                       *)
Fairness ==
    /\ \A c \in Callers : WF_vars(CallerStep(c))
    /\ WF_vars(OpenerStep)
    /\ WF_vars(WorkerStep)
    /\ WF_vars(ReaderStep)
    /\ WF_vars(CloserStep)

Spec == Init /\ [][Next]_vars /\ Fairness
------------------------------------------------------------------------------
(* Properties.                                                             *)

Tags == {"A", "B", "X", "E", "N", "text", "guard"}
Frame == [req : 0..MaxRequests, own : BOOLEAN, tag : Tags]
Errors == {"none", "ok", "ctx", "closed", "error", "unknown"}
Replies == [err : Errors, frames : Seq(Frame)]

\* The variables keep their types.
TypeOK ==
    /\ pc \in [Callers -> {"idle", "check", "submit", "await", "late", "collect"}]
    /\ req \in [Callers -> 0..MaxRequests]
    /\ made \in 0..MaxRequests
    /\ kind \in [Requests -> {"none", "command", "fence", "capture"}]
    /\ ctxDone \in [Requests -> BOOLEAN]
    /\ state \in [Requests -> {"pending", "accepted", "writing", "finished", "canceled"}]
    /\ response \in [Requests -> Seq(Replies)] /\ \A r \in Requests : Len(response[r]) <= 1
    /\ result \in [Requests -> Replies]
    /\ wpc \in {"guard", "attach", "attached", "calibrate", "first", "second",
                "register", "failed", "select", "received", "accepted", "execute", "claim", "write", "read",
                "respond", "respondLast", "done"}
    /\ cur \in 0..MaxRequests
    /\ results \in Seq(Frame)
    /\ pendingFirst \in Frame \cup {NoFrame}
    /\ resp \in Replies
    /\ openCtx \in BOOLEAN /\ dispatching \in BOOLEAN /\ fence \in [1..2 -> Tags \cup {"none"}]
    /\ stdin \in Seq([req : 0..MaxRequests, part : {"guard", "attach", "command", "output", "N", "A", "B"}])
    /\ stdinOpen \in BOOLEAN /\ alive \in BOOLEAN
    /\ stdout \in Seq(Frame)
    /\ frames \in Seq(Frame) /\ Len(frames) <= 1
    /\ readDone \in BOOLEAN /\ readErr \in BOOLEAN
    /\ capturing \in {"no", "armed", "started"} /\ lines \in Seq(Frame)
    /\ closeRequested \in BOOLEAN /\ closing \in BOOLEAN
    /\ closePhase \in {"none", "grace", "stdin", "exit", "done"}
    /\ ran \in [Requests -> BOOLEAN]
    /\ emitted \in [Requests -> Seq(Frame)]
    /\ foreign \in 0..MaxForeign

\* What of s is this client's own, in order, is t: a capture is handed the blocks
\* of others that fell into its output.
OwnPart(s, t) ==
    LET own == {k \in DOMAIN s : s[k].own} IN
    \E at \in [DOMAIN t -> own] :
        /\ \A j \in DOMAIN t : t[j] = s[at[j]]
        /\ \A j, k \in DOMAIN t : j < k => at[j] < at[k]
        /\ \A k \in own : \E j \in DOMAIN t : at[j] = k

\* A caller is handed its own command's frames and no other's: all of them with
\* a plain success, the first of them with ErrOutcomeUnknown, none otherwise;
\* and that however many earlier callers walked away from their commands.  A
\* capture has all of its command's lines, whatever they look like.
OwnReplies ==
    \A r \in Requests :
        LET err == result[r].err  got == result[r].frames IN
        /\ err = "ok" => IF kind[r] = "capture" THEN OwnPart(got, emitted[r]) ELSE got = emitted[r]
        /\ err = "unknown" => IsPrefix(got, emitted[r])
        /\ err \notin {"ok", "unknown"} => got = <<>>

\* The request goroutine takes up a request only when nothing tmux said to an
\* earlier one is still on its way: an abandoned command is drained first.
DrainedBetweenRequests ==
    wpc \in {"select", "received", "accepted", "execute", "claim", "write", "respond"} =>
        /\ stdin = <<>> /\ frames = <<>>
        /\ \A i \in 1..Len(stdout) : ~stdout[i].own

\* Every caller gets its own replies because the stream is drained between any
\* two requests; RepliesOK is both, of variables of the right types.
RepliesOK == TypeOK /\ OwnReplies /\ DrainedBetweenRequests

\* The promise every transport makes about a command (see RequestOutcome), with
\* a request open from its call to the answer its caller gets.
Outcome == INSTANCE RequestOutcome WITH
    phase  <- [r \in Requests |-> IF kind[r] = "none" THEN "none"
                                  ELSE IF result[r] = None THEN "open" ELSE "answered"],
    answer <- [r \in Requests |-> IF result[r].err \in {"ctx", "closed", "error"}
                                  THEN "notRun" ELSE result[r].err]

OutcomePromise == Outcome!Spec

\* A call that nothing is to wait for any more: its context ended, or its client
\* is closing or has lost its stream.
Overdue(c) ==
    \/ Opening /\ openCtx
    \/ pc[c] # "idle" /\ (ctxDone[req[c]] \/ closeRequested \/ readDone)

\* Such a call returns, OpenControl too, even when tmux never finishes the
\* attach, never answers and never reads.
CallsReturn == \A c \in Callers : Overdue(c) ~> ~Overdue(c)

\* The reader never wedges on the frames channel: when tmux is gone, whatever it
\* still said is read and the end of the stream is seen, even if the caller
\* those replies were for has long given up and nobody closes the client; and
\* nobody waits for a client to open.
StreamEndIsSeen == ~alive ~> readDone /\ ~Opening

\* A close that was asked for completes and takes both goroutines with it,
\* wherever they were blocked and whether or not the process obeys the kill.
CloseCompletes ==
    closeRequested ~> closePhase = "done" /\ wpc \in {"done", "failed"} /\ readDone

\* Nobody who opens, calls or closes a client is held up by a tmux that went
\* silent.
NobodyIsHeldUp == CallsReturn /\ CloseCompletes
=============================================================================
