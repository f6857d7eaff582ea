------------------------------- MODULE Dispatch -------------------------------
(***************************************************************************)
(* How a Server without a connection sends commands to the daemon behind   *)
(* its socket, and how a Plan sends its operations and says what became of *)
(* them.  Every command is checked first, by a probe or by the identity    *)
(* that an earlier call left in the record all handles of the endpoint     *)
(* share; tmux then runs it behind a guard on that identity, or, when there *)
(* was no daemon, on the version of the executable that starts one.        *)
(*                                                                         *)
(* The daemon may end at any moment and another may take its place; a      *)
(* daemon is known by its number.  The tmux client of a command reaches    *)
(* the daemon at one moment, some time after it was started, and even      *)
(* after the call that started it has been canceled.                       *)
(***************************************************************************)
EXTENDS Naturals, Sequences

CONSTANTS
    Callers,       \* goroutines with one plan or command each
    Mixes,         \* what they run together: functions to Shapes
    Bounds,        \* whether their handles carry a daemon's identity
    Needs,         \* the versions that handles require, at least the oldest supported
    Versions,      \* what daemons run, in order; 0 is not supported
    Executable,    \* the version of the tmux that the clients are
    Capture,       \* "file", or "pipe" where no temporary file can be made
    MaxDaemons     \* bound: daemons in a behaviour

(* The dispatches of a plan: "pair" folds two operations into one command  *)
(* list, "each" sends them one by one, "make" targets what its first one   *)
(* creates.  "kill" is kill-server and "stream" a command whose output     *)
(* goes to the caller's own files, neither part of a plan.                 *)
Groups == [pair   |-> << <<1, 2>> >>,
           each   |-> << <<1>>, <<2>> >>,
           make   |-> << <<1>>, <<2>> >>,
           kill   |-> << <<1>> >>,
           stream |-> << <<1>> >>]

Shapes == DOMAIN Groups

ASSUME DispatchAssumption ==
    /\ Mixes \subseteq [Callers -> Shapes] /\ Bounds \subseteq BOOLEAN
    /\ Versions \subseteq Nat /\ Needs \subseteq Nat \ {0} /\ Executable \in Versions
    /\ Capture \in {"file", "pipe"} /\ MaxDaemons \in Nat

Daemons == 1..MaxDaemons
Ops     == {1, 2}

VARIABLES
    daemon, born, version,         \* the daemon at the socket, how many there were, what each runs
    record,                        \* serverShared.checked: the identity last checked here
    shape, bound, need,            \* what a caller runs, and with which handle
    pc, at, retried,               \* where it is, in which dispatch, in which attempt
    cached, target,                \* what its check came from, and the guard (0: the version)
    client, answer,                \* its tmux client, and how that exits
    status, told,                  \* PlanResult.Ops, and the error
    ran, changed                   \* history: where each operation ran; a daemon came or went

daemonVars == <<daemon, born, version>>
handle     == <<shape, bound, need>>
check      == <<cached, target>>
results    == <<status, told>>
vars == <<daemonVars, record, handle, pc, at, retried, check, client, answer, results, ran, changed>>

Init ==
    /\ daemon \in {0, 1} \cap (Daemons \cup {0}) /\ born = daemon
    /\ version \in [Daemons -> Versions] /\ \A d \in Daemons : d > daemon => version[d] = Executable
    /\ record = 0
    /\ shape \in Mixes
    /\ need \in [Callers -> Needs]
    /\ bound \in [Callers -> {0, daemon}]
    /\ \A c \in Callers : bound[c] # 0 => TRUE \in Bounds
    /\ pc = [c \in Callers |-> "idle"] /\ at = [c \in Callers |-> 1]
    /\ retried = [c \in Callers |-> FALSE]
    /\ cached = [c \in Callers |-> FALSE] /\ target = [c \in Callers |-> 0]
    /\ client = [c \in Callers |-> "none"] /\ answer = [c \in Callers |-> "none"]
    /\ status = [c \in Callers |-> [i \in Ops |-> "skipped"]]
    /\ told = [c \in Callers |-> "nothing"]
    /\ ran = [c \in Callers |-> [i \in Ops |-> <<>>]]
    /\ changed = [c \in Callers |-> FALSE]

------------------------------------------------------------------------------
GoTo(c, place) == pc' = [pc EXCEPT ![c] = place]

Group(c) == Groups[shape[c]][at[c]]

Marked(c, what) ==
    status' = [status EXCEPT ![c] = [i \in Ops |->
                 IF \E j \in DOMAIN Group(c) : Group(c)[j] = i THEN what ELSE @[i]]]

\* The call returns; its plan goes no further.
Ends(c, err) == GoTo(c, "done") /\ told' = [told EXCEPT ![c] = err]

\* A call that was refused before anything was sent.
Refused(c, err) == Ends(c, err) /\ UNCHANGED <<check, record>>

Checked(c, identity, fromRecord, place) ==
    /\ target' = [target EXCEPT ![c] = identity]
    /\ cached' = [cached EXCEPT ![c] = fromRecord]
    /\ GoTo(c, place)
    /\ UNCHANGED <<told, record>>

Supports(v, c) == v >= need[c]

------------------------------------------------------------------------------
(* checkForDispatch.                                                       *)

Begin(c) ==
    /\ pc[c] = "idle"
    /\ GoTo(c, "check")
    /\ changed' = [changed EXCEPT ![c] = FALSE]
    /\ UNCHANGED <<daemonVars, record, handle, at, retried, check, client, answer, results, ran>>

Reuses(c) ==
    /\ bound[c] = 0 /\ shape[c] \notin {"kill", "stream"} /\ ~retried[c]
    /\ record # 0

CheckBound(c) ==
    /\ pc[c] = "check" /\ bound[c] # 0
    /\ IF Supports(version[bound[c]], c)
       THEN Checked(c, bound[c], FALSE, "run")
       ELSE Refused(c, "version")
    /\ UNCHANGED <<daemonVars, handle, at, retried, client, answer, status, ran, changed>>

UseRecord(c) ==
    /\ pc[c] = "check" /\ Reuses(c)
    /\ IF Supports(version[record], c)
       THEN Checked(c, record, TRUE, "run")
       ELSE Refused(c, "version")
    /\ UNCHANGED <<daemonVars, handle, at, retried, client, answer, status, ran, changed>>

(* The probe reads the daemon at one moment.  Without one the executable's *)
(* own version is asked for, except for kill-server, which has its wish.   *)
ProbedVersion == IF daemon = 0 THEN Executable ELSE version[daemon]

Probe(c) ==
    /\ pc[c] = "check" /\ bound[c] = 0 /\ ~Reuses(c)
    /\ IF daemon = 0 /\ shape[c] = "kill"
       THEN Refused(c, "ok")
       ELSE IF Supports(ProbedVersion, c)
            THEN Checked(c, daemon, FALSE, IF daemon = 0 THEN "run" ELSE "remember")
            ELSE Refused(c, "version")
    /\ UNCHANGED <<daemonVars, handle, at, retried, client, answer, status, ran, changed>>

\* The context ends before the command is sent, or the probe fails: notSent
\* takes a doubt about the probe's own outcome away.
CheckFails(c) ==
    /\ pc[c] \in {"check", "run"}
    /\ Refused(c, "notSent")
    /\ UNCHANGED <<daemonVars, handle, at, retried, client, answer, status, ran, changed>>

Remember(c) ==
    /\ pc[c] = "remember"
    /\ record' = target[c]
    /\ GoTo(c, "run")
    /\ UNCHANGED <<daemonVars, handle, at, retried, check, client, answer, results, ran, changed>>

StartClient(c) ==
    /\ pc[c] = "run"
    /\ GoTo(c, "running")
    /\ client' = [client EXCEPT ![c] = "out"]
    /\ answer' = [answer EXCEPT ![c] = "none"]
    /\ UNCHANGED <<daemonVars, record, handle, at, retried, check, results, ran, changed>>

------------------------------------------------------------------------------
(* tmux.                                                                   *)

Answers(c, what) ==
    /\ client' = [client EXCEPT ![c] = "exited"]
    /\ answer' = [answer EXCEPT ![c] = what]

\* The first k operations of the command list run in daemon d.
Run(c, k, d) ==
    ran' = [ran EXCEPT ![c] = [i \in Ops |->
              IF \E j \in 1..k : Group(c)[j] = i THEN Append(@[i], d) ELSE @[i]]]

Changed == changed' = [c \in Callers |-> TRUE]

\* Mutant: a command checked against the executable runs in any daemon.
AdmitsAnyVersion(c, d) == target[c] \in {0, d}

\* guardCommand: the if-shell in front of the command list.
Admits(c, d) == IF target[c] = 0 THEN version[d] = Executable ELSE target[c] = d

(* The command list runs to its end, or to the command tmux refuses; or    *)
(* the daemon dies over it.  A create may print no ID.                     *)
Executes(c, d) ==
    LET last == Len(Group(c)) IN
    \/ /\ Run(c, last, d)
       /\ \/ Answers(c, "ok")
          \/ shape[c] = "make" /\ at[c] = 1 /\ Answers(c, "noID")
       /\ daemon' = IF shape[c] = "kill" THEN 0 ELSE d
    \/ /\ \E k \in 0..last - 1 : Run(c, k, d)
       /\ Answers(c, "refused")
       /\ daemon' = d
    \/ /\ \E k \in 0..last : Run(c, k, d)
       /\ Answers(c, "died")
       /\ daemon' = 0

TmuxRuns(c) ==
    /\ client[c] = "out" /\ daemon # 0 /\ Admits(c, daemon)
    /\ Executes(c, daemon)
    /\ IF daemon' = daemon THEN UNCHANGED changed ELSE Changed
    /\ UNCHANGED <<born, version, record, handle, pc, at, retried, check, results>>

TmuxRefuses(c) ==
    /\ client[c] = "out" /\ daemon # 0 /\ ~Admits(c, daemon)
    /\ Answers(c, "replaced")
    /\ UNCHANGED <<daemonVars, record, handle, pc, at, retried, check, results, ran, changed>>

\* With an identity the client has -N and starts no daemon.
NobodyThere(c) ==
    /\ client[c] = "out" /\ daemon = 0 /\ target[c] # 0
    /\ Answers(c, "absent")
    /\ UNCHANGED <<daemonVars, record, handle, pc, at, retried, check, results, ran, changed>>

TmuxStarts(c) ==
    /\ client[c] = "out" /\ daemon = 0 /\ target[c] = 0
    /\ born < MaxDaemons
    /\ born' = born + 1
    /\ version' = [version EXCEPT ![born + 1] = Executable]
    /\ Executes(c, born + 1) /\ Changed
    /\ UNCHANGED <<record, handle, pc, at, retried, check, results>>

\* The client of a canceled call was killed before it reached a daemon.
NeverRuns(c) ==
    /\ client[c] = "out" /\ pc[c] = "done"
    /\ client' = [client EXCEPT ![c] = "killed"]
    /\ UNCHANGED <<daemonVars, record, handle, pc, at, retried, check, answer, results, ran, changed>>

DaemonDies ==
    /\ daemon # 0
    /\ daemon' = 0 /\ Changed
    /\ UNCHANGED <<born, version, record, handle, pc, at, retried, check, client, answer, results, ran>>

\* Somebody else starts one, of any version.
DaemonStarts ==
    /\ daemon = 0 /\ born < MaxDaemons
    /\ born' = born + 1 /\ daemon' = born + 1 /\ Changed
    /\ \E v \in Versions : version' = [version EXCEPT ![born + 1] = v]
    /\ UNCHANGED <<record, handle, pc, at, retried, check, client, answer, results, ran>>

------------------------------------------------------------------------------
(* The result, in runCheckedCommand, runCommand and Plan.RunWith.          *)

\* Mutant: a daemon that exited over the command counts as never reached.
RefutedOrDied(c) == cached[c] /\ answer[c] \in {"replaced", "absent", "died"}

\* The record was stale and the command ran nowhere.
Refuted(c) == cached[c] /\ answer[c] \in {"replaced", "absent"}

\* Mutant: what the record led to is final.
RetryKeepsRecord(c) ==
    /\ pc[c] = "running" /\ client[c] = "exited" /\ Refuted(c)
    /\ Ends(c, IF answer[c] = "replaced" THEN "replaced" ELSE "exit")
    /\ UNCHANGED <<daemonVars, record, handle, at, retried, check, client, answer, status, ran, changed>>

(* rememberChecked(nil), whatever another call has recorded by now.        *)
Retry(c) ==
    /\ pc[c] = "running" /\ client[c] = "exited" /\ Refuted(c)
    /\ record' = 0
    /\ retried' = [retried EXCEPT ![c] = TRUE]
    /\ GoTo(c, "check")
    /\ UNCHANGED <<daemonVars, handle, at, check, client, answer, results, ran, changed>>

\* Mutant: a canceled command counts as not sent.
UnknownIsNotSent(c) ==
    /\ pc[c] = "running"
    /\ Ends(c, "notSent")
    /\ UNCHANGED <<daemonVars, record, handle, at, retried, check, client, answer, status, ran, changed>>

\* The context ends and the client is killed, or what it printed is lost.
Unknown(c) ==
    /\ pc[c] = "running"
    /\ Ends(c, "unknown")
    /\ Marked(c, "indeterminate")
    /\ UNCHANGED <<daemonVars, record, handle, at, retried, check, client, answer, ran, changed>>

\* exec.ErrWaitDelay: the server still held the pipe when the client had exited.
PipeStaysOpen(c) ==
    /\ pc[c] = "running" /\ client[c] = "exited"
    /\ Capture = "pipe" /\ shape[c] # "stream" /\ answer[c] \in {"ok", "noID"}
    /\ Ends(c, "plain")
    /\ UNCHANGED <<daemonVars, record, handle, at, retried, check, client, answer, status, ran, changed>>

\* ErrDaemonReplaced from the guard: an error, which marks no operation.
GuardRefuses(c) ==
    /\ pc[c] = "running" /\ client[c] = "exited" /\ ~Refuted(c)
    /\ answer[c] = "replaced" /\ shape[c] # "stream"
    /\ Ends(c, "replaced")
    /\ UNCHANGED <<daemonVars, record, handle, at, retried, check, client, answer, status, ran, changed>>

\* A stream hides the guard's words: daemonNoLongerAtSocket probes.  A probe
\* that itself fails, other than for want of a daemon, finds nothing replaced.
StreamFails(c) ==
    /\ pc[c] = "running" /\ client[c] = "exited"
    /\ shape[c] = "stream" /\ answer[c] # "ok"
    /\ \/ target[c] # 0 /\ daemon # target[c] /\ Ends(c, "replaced") /\ UNCHANGED status
       \/ Ends(c, "exit") /\ Marked(c, "failed")
    /\ UNCHANGED <<daemonVars, record, handle, at, retried, check, client, answer, ran, changed>>

\* attribute, on a failure: which command of a list failed cannot be told.
AttributeFailure(c) ==
    /\ pc[c] = "running" /\ client[c] = "exited" /\ ~Refuted(c) /\ shape[c] # "stream"
    /\ answer[c] \in {"refused", "died", "absent", "noID"}
    /\ Marked(c, IF Len(Group(c)) = 1 THEN "failed" ELSE "indeterminate")
    /\ Ends(c, "exit")
    /\ UNCHANGED <<daemonVars, record, handle, at, retried, check, client, answer, ran, changed>>

\* attribute, on success, and the next dispatch.
AttributeSuccess(c) ==
    /\ pc[c] = "running" /\ client[c] = "exited" /\ answer[c] = "ok"
    /\ Marked(c, "complete")
    /\ retried' = [retried EXCEPT ![c] = FALSE]
    /\ IF at[c] < Len(Groups[shape[c]])
       THEN at' = [at EXCEPT ![c] = @ + 1] /\ GoTo(c, "idle") /\ UNCHANGED told
       ELSE Ends(c, "ok") /\ UNCHANGED at
    /\ UNCHANGED <<daemonVars, record, handle, check, client, answer, ran, changed>>

------------------------------------------------------------------------------
CallerStep(c) ==
    \/ Begin(c) \/ CheckBound(c) \/ UseRecord(c) \/ Probe(c) \/ CheckFails(c) \/ Remember(c)
    \/ StartClient(c) \/ Retry(c) \/ Unknown(c) \/ PipeStaysOpen(c) \/ GuardRefuses(c)
    \/ StreamFails(c) \/ AttributeFailure(c) \/ AttributeSuccess(c)

TmuxStep(c) == TmuxRuns(c) \/ TmuxRefuses(c) \/ NobodyThere(c) \/ TmuxStarts(c) \/ NeverRuns(c)

Next == (\E c \in Callers : CallerStep(c) \/ TmuxStep(c)) \/ DaemonDies \/ DaemonStarts

Spec == Init /\ [][Next]_vars
------------------------------------------------------------------------------
(* Properties.                                                             *)

Statuses == {"complete", "failed", "indeterminate", "skipped"}
Exits    == {"ok", "noID", "refused", "died", "replaced", "absent"}

\* The variables keep their types.
TypeOK ==
    /\ daemon \in 0..born /\ born \in 0..MaxDaemons /\ version \in [Daemons -> Versions]
    /\ record \in 0..born
    /\ shape \in Mixes /\ bound \in [Callers -> 0..born]
    /\ need \in [Callers -> Needs]
    /\ pc \in [Callers -> {"idle", "check", "remember", "run", "running", "done"}]
    /\ at \in [Callers -> Ops] /\ \A c \in Callers : at[c] \in DOMAIN Groups[shape[c]]
    /\ retried \in [Callers -> BOOLEAN] /\ cached \in [Callers -> BOOLEAN]
    /\ target \in [Callers -> 0..born]
    /\ client \in [Callers -> {"none", "out", "exited", "killed"}]
    /\ answer \in [Callers -> Exits \cup {"none"}]
    /\ status \in [Callers -> [Ops -> Statuses]]
    /\ told \in [Callers -> {"nothing", "ok", "exit", "version", "notSent", "unknown", "plain",
                             "replaced"}]
    /\ ran \in [Callers -> [Ops -> Seq(Daemons)]]
    /\ changed \in [Callers -> BOOLEAN]

\* No command runs twice: what is repeated after a stale record ran nowhere.
AtMostOnce == \A c \in Callers, i \in Ops : Len(ran[c][i]) <= 1

\* An operation runs only in a daemon that has the version its handle requires,
\* and only in the daemon its handle carries, if it carries one: whatever came
\* and went between check and command, and whoever wrote the record.
RunsWhereChecked ==
    \A c \in Callers, i \in Ops : \A j \in DOMAIN ran[c][i] :
        /\ version[ran[c][i][j]] >= need[c]
        /\ bound[c] # 0 => ran[c][i][j] = bound[c]

\* What has run of a plan is a beginning of it, now and when a canceled
\* client runs late: nothing after an operation that did not run.
RanIsPrefix == \A c \in Callers : ran[c][2] # <<>> => ran[c][1] # <<>>

\* Every command runs at most once, and in its turn.
DispatchOK == TypeOK /\ AtMostOnce /\ RanIsPrefix

\* What a plan reports is so.  "complete" ran; "skipped" never runs, "failed"
\* did not, unless the daemon died over it, an object was made but not named,
\* or the output was lost in a pipe.
ReportIsTrue ==
    \A c \in Callers, i \in Ops :
        /\ status[c][i] = "complete" => ran[c][i] # <<>>
        /\ pc[c] = "done" /\ answer[c] # "died" /\ told[c] # "plain" =>
             /\ status[c][i] = "skipped" => ran[c][i] = <<>>
             /\ status[c][i] = "failed" /\ answer[c] # "noID" => ran[c][i] = <<>>

\* A call whose handle carries no daemon is told that the daemon was replaced,
\* or is not there, only if one came or went during that very call: the record
\* that an earlier call left never shows.
StaleRecordIsHidden ==
    \A c \in Callers :
        bound[c] = 0 /\ pc[c] = "done" /\ (told[c] = "replaced" \/ (told[c] = "exit" /\ answer[c] = "absent"))
            => changed[c]

\* Not an invariant, although the documentation of OpStatus says it
\* (plan.go:405): a failed operation was refused by tmux, a skipped one was not
\* dispatched.  Not if the daemon dies over it, or the output's pipe stays open.
ReportMeansWhatItSays ==
    \A c \in Callers, i \in Ops :
        pc[c] = "done" /\ shape[c] \in {"pair", "each"} /\ status[c][i] \in {"skipped", "failed"}
            => ran[c][i] = <<>>
=============================================================================
