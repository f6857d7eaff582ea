---------------------------- MODULE Dispatch_proofs ----------------------------
(***************************************************************************)
(* For any number of callers, handles, versions and daemons: a command runs *)
(* at most once and in its turn, and only in a daemon that its handle       *)
(* allows; what a plan reports is so; and a stale record never shows.       *)
(* None is inductive.  The first needs to know which operations still have  *)
(* their turn to come, the second what the guard of a tmux client says, for *)
(* as long as that client may reach a daemon, and that nothing about a      *)
(* daemon changes once it is born; the third what was said of the           *)
(* dispatches before and after the current one, and what a late client can  *)
(* still run; the last that a probed guard names the daemon at the socket   *)
(* until one comes or goes.                                                 *)
(***************************************************************************)
EXTENDS Dispatch, TLAPS

InGroup(c, i) == \E j \in DOMAIN Group(c) : Group(c)[j] = i

\* The operations of c's current dispatch have not run.
Pending(c) ==
    \/ pc[c] \in {"idle", "check", "remember", "run"}
    \/ client[c] = "out"
    \/ answer[c] \in {"replaced", "absent"}

Clients(c) ==
    /\ client[c] = "out" => pc[c] \in {"running", "done"}
    /\ pc[c] = "running" => client[c] \in {"out", "exited"}

Turns(c) ==
    /\ \A i \in Ops : i >= at[c] /\ (Pending(c) \/ ~InGroup(c, i)) => ran[c][i] = <<>>
    /\ pc[c] = "running" /\ client[c] = "exited" /\ answer[c] = "ok" =>
         \A i \in Ops : InGroup(c, i) => ran[c][i] # <<>>
    /\ at[c] = 2 => ran[c][1] # <<>>
    /\ ran[c][2] # <<>> => ran[c][1] # <<>>
    /\ \A i \in Ops : Len(ran[c][i]) <= 1

\* What guards c's command is what its handle allows.
Guarded(c) ==
    pc[c] \in {"remember", "run", "running"} \/ client[c] = "out" =>
        IF target[c] = 0
        THEN Executable >= need[c] /\ bound[c] = 0
        ELSE version[target[c]] >= need[c] /\ (bound[c] # 0 => target[c] = bound[c])

\* c may run in d.
Allowed(c, d) == d \in 1..born /\ version[d] >= need[c] /\ (bound[c] # 0 => d = bound[c])

Placed(c) == \A i \in Ops : \A j \in DOMAIN ran[c][i] : Allowed(c, ran[c][i][j])

DispatchInv == TypeOK /\ \A c \in Callers : Clients(c) /\ Turns(c) /\ Guarded(c) /\ Placed(c)

------------------------------------------------------------------------------
(* The dispatches of a shape.                                              *)

LEMMA GroupsAre ==
    ASSUME NEW s \in Shapes
    PROVE  \/ s = "pair" /\ Groups[s] = << <<1, 2>> >>
           \/ s \in {"each", "make"} /\ Groups[s] = << <<1>>, <<2>> >>
           \/ s \in {"kill", "stream"} /\ Groups[s] = << <<1>> >>
<1>1. s \in {"pair", "each", "make", "kill", "stream"}
  BY DEF Shapes, Groups
<1> QED
  BY <1>1 DEF Groups

\* A dispatch holds both operations, or the one at its own place.
LEMMA GroupIs ==
    ASSUME TypeOK, NEW c \in Callers
    PROVE  /\ at[c] \in Ops /\ Len(Groups[shape[c]]) \in {1, 2}
           /\ \/ Len(Group(c)) = 2 /\ Group(c) = <<1, 2>> /\ at[c] = 1 /\ Len(Groups[shape[c]]) = 1
              \/ Len(Group(c)) = 1 /\ Group(c) = <<at[c]>>
<1>1. shape[c] \in Shapes /\ at[c] \in DOMAIN Groups[shape[c]] /\ at[c] \in Ops
  BY DispatchAssumption DEF TypeOK
<1>2. CASE Groups[shape[c]] = << <<1, 2>> >>
  BY <1>1, <1>2 DEF Group, Ops
<1>3. CASE Groups[shape[c]] = << <<1>>, <<2>> >>
  BY <1>1, <1>3 DEF Group, Ops
<1>4. CASE Groups[shape[c]] = << <<1>> >>
  BY <1>1, <1>4 DEF Group, Ops
<1> QED
  BY <1>1, <1>2, <1>3, <1>4, GroupsAre

\* Which operations a dispatch holds.
LEMMA InGroupIs ==
    ASSUME TypeOK, NEW c \in Callers, NEW i \in Ops
    PROVE  /\ InGroup(c, i) <=> (i = at[c] \/ Len(Group(c)) = 2)
           /\ Len(Group(c)) = 2 => at[c] = 1
           /\ Len(Group(c)) \in {1, 2}
<1>1. CASE Group(c) = <<1, 2>> /\ at[c] = 1
  <2>1. Len(Group(c)) = 2 /\ DOMAIN Group(c) = {1, 2} /\ Group(c)[1] = 1 /\ Group(c)[2] = 2
    BY <1>1
  <2> QED
    BY <1>1, <2>1 DEF InGroup, Ops
<1>2. CASE Group(c) = <<at[c]>>
  <2>1. Len(Group(c)) = 1 /\ DOMAIN Group(c) = {1} /\ Group(c)[1] = at[c]
    BY <1>2
  <2> QED
    BY <1>2, <2>1 DEF InGroup, Ops
<1> QED
  BY <1>1, <1>2, GroupIs

\* Running the first k of a dispatch's operations appends the daemon to theirs.
LEMMA RunAppends ==
    ASSUME TypeOK, NEW c \in Callers, NEW k \in 0..Len(Group(c)), NEW d \in Daemons, Run(c, k, d)
    PROVE  /\ ran' \in [Callers -> [Ops -> Seq(Daemons)]]
           /\ \A b \in Callers : b # c => ran'[b] = ran[b]
           /\ \A i \in Ops : ran'[c][i] = ran[c][i] \/ (InGroup(c, i) /\ ran'[c][i] = Append(ran[c][i], d))
           /\ k = Len(Group(c)) => \A i \in Ops : InGroup(c, i) => ran'[c][i] = Append(ran[c][i], d)
           /\ InGroup(c, 1) /\ ran'[c][2] # ran[c][2] => ran'[c][1] = Append(ran[c][1], d)
<1> DEFINE Taken(i) == \E j \in 1..k : Group(c)[j] = i
<1>1. ran' = [ran EXCEPT ![c] = [i \in Ops |-> IF Taken(i) THEN Append(ran[c][i], d) ELSE ran[c][i]]]
  BY DEF Run
<1>2. ran \in [Callers -> [Ops -> Seq(Daemons)]]
  BY DEF TypeOK
<1>3. /\ Len(Group(c)) \in {1, 2} /\ DOMAIN Group(c) = 1..Len(Group(c))
      /\ Len(Group(c)) = 2 => Group(c)[1] = 1 /\ Group(c)[2] = 2
      /\ Len(Group(c)) = 1 => Group(c)[1] = at[c]
  BY GroupIs
<1>4. \A i \in Ops : Taken(i) => InGroup(c, i)
  BY <1>3 DEF InGroup
<1>5. k = Len(Group(c)) => \A i \in Ops : InGroup(c, i) => Taken(i)
  BY <1>3 DEF InGroup
<1>6. Taken(2) /\ InGroup(c, 1) => Taken(1)
  BY <1>3 DEF InGroup
<1> HIDE DEF Taken
<1>7. \A i \in Ops : ran'[c][i] = IF Taken(i) THEN Append(ran[c][i], d) ELSE ran[c][i]
  BY <1>1, <1>2
<1>8. \A i \in Ops : ran[c][i] \in Seq(Daemons) /\ Append(ran[c][i], d) \in Seq(Daemons)
  BY <1>2
<1>9. [i \in Ops |-> IF Taken(i) THEN Append(ran[c][i], d) ELSE ran[c][i]] \in [Ops -> Seq(Daemons)]
  BY <1>8
<1>10. ran' \in [Callers -> [Ops -> Seq(Daemons)]] /\ \A b \in Callers : b # c => ran'[b] = ran[b]
  BY <1>1, <1>2, <1>9
<1>11. 1 \in Ops /\ 2 \in Ops
  BY DEF Ops
<1> QED
  BY <1>4, <1>5, <1>6, <1>7, <1>10, <1>11

------------------------------------------------------------------------------
(* Type correctness, and what no step does.                                *)

LEMMA MarkedType ==
    ASSUME TypeOK, NEW c \in Callers, NEW what \in Statuses, Marked(c, what)
    PROVE  status' \in [Callers -> [Ops -> Statuses]]
  BY DEF TypeOK, Marked

\* What a check changes, whether it passes or not.
CheckTypes ==
    /\ record \in 0..born
    /\ pc \in [Callers -> {"idle", "check", "remember", "run", "running", "done"}]
    /\ cached \in [Callers -> BOOLEAN] /\ target \in [Callers -> 0..born]
    /\ told \in [Callers -> {"nothing", "ok", "exit", "version", "notSent", "unknown", "plain",
                             "replaced"}]

LEMMA CheckedType ==
    ASSUME TypeOK, NEW c \in Callers, NEW d \in 0..born, NEW b \in BOOLEAN,
           NEW p \in {"remember", "run"}, Checked(c, d, b, p), born' = born
    PROVE  CheckTypes'
  BY DEF TypeOK, CheckTypes, Checked, GoTo

LEMMA RefusedType ==
    ASSUME TypeOK, NEW c \in Callers, NEW e \in {"ok", "version", "notSent"}, Refused(c, e), born' = born
    PROVE  CheckTypes'
  BY DEF TypeOK, CheckTypes, Refused, Ends, GoTo, check

LEMMA CheckType ==
    ASSUME TypeOK, NEW c \in Callers, CheckBound(c) \/ UseRecord(c) \/ Probe(c) \/ CheckFails(c)
    PROVE  TypeOK' /\ UNCHANGED <<daemonVars, handle, ran>>
<1>1. UNCHANGED <<daemonVars, handle, at, retried, client, answer, status, ran, changed>>
  BY DEF CheckBound, UseRecord, Probe, CheckFails
<1>2. born' = born
  BY <1>1 DEF daemonVars
<1>3. /\ bound[c] # 0 => bound[c] \in 0..born
      /\ record \in 0..born /\ daemon \in 0..born
  BY DEF TypeOK
<1>4. \/ \E d \in 0..born, b \in BOOLEAN, p \in {"remember", "run"} : Checked(c, d, b, p)
      \/ \E e \in {"ok", "version", "notSent"} : Refused(c, e)
  <2>1. CASE CheckBound(c)
    <3>1. Checked(c, bound[c], FALSE, "run") \/ Refused(c, "version")
      BY <2>1 DEF CheckBound
    <3>2. bound[c] \in 0..born
      BY DEF TypeOK
    <3> QED
      BY <3>1, <3>2
  <2>2. CASE UseRecord(c)
    <3>1. Checked(c, record, TRUE, "run") \/ Refused(c, "version")
      BY <2>2 DEF UseRecord
    <3> QED
      BY <1>3, <3>1
  <2>3. CASE Probe(c)
    <3>1. \/ Checked(c, daemon, FALSE, IF daemon = 0 THEN "run" ELSE "remember")
          \/ Refused(c, "ok")
          \/ Refused(c, "version")
      BY <2>3 DEF Probe
    <3>2. (IF daemon = 0 THEN "run" ELSE "remember") \in {"remember", "run"}
      OBVIOUS
    <3> QED
      BY <1>3, <3>1, <3>2
  <2>4. CASE CheckFails(c)
    BY <2>4 DEF CheckFails
  <2> QED
    BY <2>1, <2>2, <2>3, <2>4
<1>5. CheckTypes'
  BY <1>2, <1>4, CheckedType, RefusedType
<1> QED
  BY <1>1, <1>5 DEF TypeOK, CheckTypes, daemonVars, handle

\* A step of a caller leaves the daemons alone.
LEMMA CallerType ==
    ASSUME TypeOK, NEW c \in Callers, CallerStep(c)
    PROVE  TypeOK' /\ UNCHANGED <<daemonVars, handle, ran>>
<1> USE DispatchAssumption DEF Daemons
<1>1. CASE Begin(c)
  BY <1>1 DEF TypeOK, Begin, GoTo, daemonVars, handle, check, results
<1>2. CASE CheckBound(c) \/ UseRecord(c) \/ Probe(c) \/ CheckFails(c)
  BY <1>2, CheckType
<1>3. CASE Remember(c)
  BY <1>3 DEF TypeOK, Remember, GoTo, daemonVars, handle, check, results
<1>4. CASE StartClient(c)
  BY <1>4 DEF TypeOK, StartClient, GoTo, daemonVars, handle, check, results
<1>5. CASE Retry(c)
  BY <1>5 DEF TypeOK, Retry, GoTo, daemonVars, handle, check, results
<1>6. CASE Unknown(c)
  <2>1. status' \in [Callers -> [Ops -> Statuses]]
    BY <1>6, MarkedType DEF Unknown, Statuses
  <2> QED
    BY <1>6, <2>1 DEF TypeOK, Unknown, Ends, GoTo, daemonVars, handle, check
<1>7. CASE PipeStaysOpen(c)
  BY <1>7 DEF TypeOK, PipeStaysOpen, Ends, GoTo, daemonVars, handle, check, results
<1>8. CASE GuardRefuses(c)
  BY <1>8 DEF TypeOK, GuardRefuses, Ends, GoTo, daemonVars, handle, check, results
<1>9. CASE StreamFails(c)
  <2>1. status' \in [Callers -> [Ops -> Statuses]]
    BY <1>9, MarkedType DEF StreamFails, Statuses, TypeOK
  <2>2. \E e \in {"replaced", "exit"} : Ends(c, e)
    BY <1>9 DEF StreamFails
  <2> QED
    BY <1>9, <2>1, <2>2 DEF TypeOK, StreamFails, Ends, GoTo, daemonVars, handle, check
<1>10. CASE AttributeFailure(c)
  <2>1. status' \in [Callers -> [Ops -> Statuses]]
    BY <1>10, MarkedType DEF AttributeFailure, Statuses
  <2> QED
    BY <1>10, <2>1 DEF TypeOK, AttributeFailure, Ends, GoTo, daemonVars, handle, check
<1>11. CASE AttributeSuccess(c)
  <2>1. status' \in [Callers -> [Ops -> Statuses]]
    BY <1>11, MarkedType DEF AttributeSuccess, Statuses
  <2>2. /\ at' \in [Callers -> Ops]
        /\ \A b \in Callers : at'[b] \in DOMAIN Groups[shape[b]]
    <3>1. at \in [Callers -> Ops] /\ \A b \in Callers : at[b] \in DOMAIN Groups[shape[b]]
      BY DEF TypeOK
    <3>2. CASE at[c] < Len(Groups[shape[c]])
      <4>1. at' = [at EXCEPT ![c] = @ + 1]
        BY <1>11, <3>2 DEF AttributeSuccess
      <4>2. shape[c] \in Shapes
        BY DEF TypeOK
      <4>3. at[c] + 1 \in Ops /\ at[c] + 1 \in DOMAIN Groups[shape[c]]
        <5>1. CASE Groups[shape[c]] = << <<1, 2>> >>
          BY <3>1, <3>2, <5>1 DEF Ops
        <5>2. CASE Groups[shape[c]] = << <<1>>, <<2>> >>
          BY <3>1, <3>2, <5>2 DEF Ops
        <5>3. CASE Groups[shape[c]] = << <<1>> >>
          BY <3>1, <3>2, <5>3 DEF Ops
        <5> QED
          BY <4>2, <5>1, <5>2, <5>3, GroupsAre
      <4> QED
        BY <3>1, <4>1, <4>3
    <3>3. CASE ~(at[c] < Len(Groups[shape[c]]))
      <4>1. at' = at
        BY <1>11, <3>3 DEF AttributeSuccess
      <4> QED
        BY <3>1, <4>1
    <3> QED
      BY <3>2, <3>3
  <2>3. shape' = shape
    BY <1>11 DEF AttributeSuccess, handle
  <2>4. /\ pc' \in [Callers -> {"idle", "check", "remember", "run", "running", "done"}]
        /\ told' \in [Callers -> {"nothing", "ok", "exit", "version", "notSent", "unknown", "plain",
                                  "replaced"}]
        /\ retried' \in [Callers -> BOOLEAN]
    BY <1>11 DEF AttributeSuccess, TypeOK, Ends, GoTo
  <2> QED
    BY <1>11, <2>1, <2>2, <2>3, <2>4 DEF TypeOK, AttributeSuccess, daemonVars, handle, check
<1> QED
  BY <1>1, <1>2, <1>3, <1>4, <1>5, <1>6, <1>7, <1>8, <1>9, <1>10, <1>11
     DEF CallerStep

\* A daemon once born keeps its version, and handles keep what they carry.
Kept == /\ born' >= born /\ born' \in 0..MaxDaemons
        /\ \A d \in 1..born : version'[d] = version[d]
        /\ UNCHANGED handle

\* A step of tmux, or of the daemon, changes no caller's place.
LEMMA TmuxType ==
    ASSUME TypeOK, NEW c \in Callers, TmuxStep(c)
    PROVE  TypeOK' /\ Kept
<1> USE DispatchAssumption
<1>1. CASE TmuxRuns(c)
  <2>1. daemon \in Daemons
    BY <1>1 DEF TmuxRuns, TypeOK, Daemons
  <2>2. PICK k \in 0..Len(Group(c)) : Run(c, k, daemon)
    <3>1. Len(Group(c)) \in {1, 2}
      BY GroupIs
    <3> QED
      BY <1>1, <3>1 DEF TmuxRuns, Executes
  <2>3. ran' \in [Callers -> [Ops -> Seq(Daemons)]]
    BY <2>1, <2>2, RunAppends
  <2>4. /\ \E a \in {"ok", "noID", "refused", "died"} : Answers(c, a)
        /\ daemon' \in {0, daemon} /\ (Changed \/ changed' = changed)
        /\ UNCHANGED <<born, version, record, handle, pc, at, retried, check, results>>
    BY <1>1 DEF TmuxRuns, Executes
  <2>5. client' \in [Callers -> {"none", "out", "exited", "killed"}]
        /\ answer' \in [Callers -> Exits \cup {"none"}]
    BY <2>4 DEF TypeOK, Answers, Exits
  <2>6. changed' \in [Callers -> BOOLEAN] /\ daemon' \in 0..born
    <3>1. changed \in [Callers -> BOOLEAN] /\ daemon \in 0..born /\ born \in Nat
      BY DEF TypeOK
    <3>2. changed' \in [Callers -> BOOLEAN]
      BY <2>4, <3>1 DEF Changed
    <3> QED
      BY <2>4, <3>1, <3>2
  <2> QED
    BY <2>3, <2>4, <2>5, <2>6 DEF TypeOK, Kept, handle, check, results
<1>2. CASE TmuxRefuses(c)
  BY <1>2 DEF TypeOK, Kept, TmuxRefuses, Answers, Exits, daemonVars, handle, check, results
<1>3. CASE NobodyThere(c)
  BY <1>3 DEF TypeOK, Kept, NobodyThere, Answers, Exits, daemonVars, handle, check, results
<1>4. CASE TmuxStarts(c)
  <2>1. born + 1 \in Daemons
    BY <1>4 DEF TmuxStarts, TypeOK, Daemons
  <2>2. PICK k \in 0..Len(Group(c)) : Run(c, k, born + 1)
    <3>1. Len(Group(c)) \in {1, 2}
      BY GroupIs
    <3> QED
      BY <1>4, <3>1 DEF TmuxStarts, Executes
  <2>3. ran' \in [Callers -> [Ops -> Seq(Daemons)]]
    BY <2>1, <2>2, RunAppends
  <2>4. /\ version' = [version EXCEPT ![born + 1] = Executable]
        /\ born' = born + 1 /\ daemon' \in {0, born + 1} /\ Changed
        /\ \E a \in {"ok", "noID", "refused", "died"} : Answers(c, a)
        /\ UNCHANGED <<record, handle, pc, at, retried, check, results>>
    BY <1>4 DEF TmuxStarts, Executes
  <2>5. client' \in [Callers -> {"none", "out", "exited", "killed"}]
        /\ answer' \in [Callers -> Exits \cup {"none"}] /\ changed' \in [Callers -> BOOLEAN]
    BY <2>4 DEF TypeOK, Answers, Exits, Changed
  <2>6. /\ version' \in [Daemons -> Versions] /\ \A d \in 1..born : version'[d] = version[d]
        /\ born' \in 0..MaxDaemons /\ born' >= born /\ 0..born \subseteq 0..born'
        /\ daemon' \in 0..born'
    BY <2>1, <2>4 DEF TypeOK, Daemons
  <2>7. record' \in 0..born' /\ bound' \in [Callers -> 0..born'] /\ target' \in [Callers -> 0..born']
    BY <2>4, <2>6 DEF TypeOK, handle, check
  <2> QED
    BY <2>3, <2>4, <2>5, <2>6, <2>7 DEF TypeOK, Kept, handle, check, results
<1>5. CASE NeverRuns(c)
  BY <1>5 DEF TypeOK, Kept, NeverRuns, daemonVars, handle, check, results
<1> QED
  BY <1>1, <1>2, <1>3, <1>4, <1>5 DEF TmuxStep

LEMMA DaemonType ==
    ASSUME TypeOK, DaemonDies \/ DaemonStarts
    PROVE  TypeOK' /\ Kept
<1> USE DispatchAssumption
<1>1. CASE DaemonDies
  BY <1>1 DEF TypeOK, Kept, DaemonDies, Changed, handle, check, results
<1>2. CASE DaemonStarts
  <2>1. PICK v \in Versions : version' = [version EXCEPT ![born + 1] = v]
    BY <1>2 DEF DaemonStarts
  <2>2. /\ born' = born + 1 /\ daemon' = born + 1 /\ Changed /\ born < MaxDaemons
        /\ UNCHANGED <<record, handle, pc, at, retried, check, client, answer, results, ran>>
    BY <1>2 DEF DaemonStarts
  <2>3. /\ version' \in [Daemons -> Versions] /\ \A d \in 1..born : version'[d] = version[d]
        /\ born' \in 0..MaxDaemons /\ born' >= born /\ 0..born \subseteq 0..born'
        /\ daemon' \in 0..born'
    BY <2>1, <2>2 DEF TypeOK, Daemons
  <2>4. record' \in 0..born' /\ bound' \in [Callers -> 0..born'] /\ target' \in [Callers -> 0..born']
    BY <2>2, <2>3 DEF TypeOK, handle, check
  <2>5. changed' \in [Callers -> BOOLEAN]
    BY <2>2 DEF TypeOK, Changed
  <2> QED
    BY <2>2, <2>3, <2>4, <2>5 DEF TypeOK, Kept, handle, check, results
<1> QED
  BY <1>1, <1>2

LEMMA TypeStep ==
    ASSUME TypeOK, [Next]_vars
    PROVE  TypeOK' /\ Kept
<1>1. CASE UNCHANGED vars
  BY <1>1 DEF TypeOK, Kept, vars, daemonVars, handle, check, results
<1>2. ASSUME NEW c \in Callers, CallerStep(c)
      PROVE  TypeOK' /\ Kept
  <2>1. TypeOK' /\ UNCHANGED <<daemonVars, handle, ran>>
    BY <1>2, CallerType
  <2> QED
    BY <2>1 DEF TypeOK, Kept, daemonVars
<1> QED
  BY <1>1, <1>2, TmuxType, DaemonType DEF Next

------------------------------------------------------------------------------
(* Each command once, and in its turn.                                     *)

\* The places of the others are untouched by a step of caller c.
LEMMA TurnsOfOthers ==
    ASSUME TypeOK, NEW c \in Callers, NEW b \in Callers, b # c, CallerStep(c) \/ TmuxStep(c)
    PROVE  /\ pc'[b] = pc[b] /\ at'[b] = at[b] /\ client'[b] = client[b] /\ answer'[b] = answer[b]
           /\ target'[b] = target[b] /\ ran'[b] = ran[b] /\ UNCHANGED handle
<1>1. CASE CallerStep(c)
  <2>1. ran' = ran /\ UNCHANGED handle
    BY <1>1, CallerType
  <2>2. pc'[b] = pc[b] /\ at'[b] = at[b] /\ client'[b] = client[b] /\ answer'[b] = answer[b]
    BY <1>1 DEF TypeOK, CallerStep, Begin, CheckBound, UseRecord, Probe, CheckFails, Remember,
       StartClient, Retry, Unknown, PipeStaysOpen, GuardRefuses, StreamFails, AttributeFailure,
       AttributeSuccess, Refused, Checked, Ends, GoTo
  <2>3. target'[b] = target[b]
    BY <1>1 DEF TypeOK, CallerStep, Begin, CheckBound, UseRecord, Probe, CheckFails, Remember,
       StartClient, Retry, Unknown, PipeStaysOpen, GuardRefuses, StreamFails, AttributeFailure,
       AttributeSuccess, Refused, Checked, check
  <2> QED
    BY <2>1, <2>2, <2>3
<1>2. CASE TmuxStep(c)
  <2>1. UNCHANGED <<pc, at, handle, check>>
    BY <1>2 DEF TmuxStep, TmuxRuns, TmuxRefuses, NobodyThere, TmuxStarts, NeverRuns
  <2>2. client'[b] = client[b] /\ answer'[b] = answer[b]
    BY <1>2 DEF TypeOK, TmuxStep, TmuxRuns, Executes, TmuxRefuses, NobodyThere, TmuxStarts,
       NeverRuns, Answers
  <2>3. ran'[b] = ran[b]
    BY <1>2 DEF TypeOK, TmuxStep, TmuxRuns, Executes, TmuxRefuses, NobodyThere, TmuxStarts,
       NeverRuns, Run
  <2> QED
    BY <2>1, <2>2, <2>3 DEF check
<1> QED
  BY <1>1, <1>2

\* A caller that keeps its place keeps its invariants, whatever is born.
LEMMA Undisturbed ==
    ASSUME TypeOK, TypeOK', Kept, NEW b \in Callers, Clients(b), Turns(b), Guarded(b), Placed(b),
           pc'[b] = pc[b], at'[b] = at[b], client'[b] = client[b], answer'[b] = answer[b],
           target'[b] = target[b], ran'[b] = ran[b]
    PROVE  Clients(b)' /\ Turns(b)' /\ Guarded(b)' /\ Placed(b)'
<1>1. UNCHANGED handle
  BY DEF Kept
<1>2. \A i \in Ops : InGroup(b, i)' <=> InGroup(b, i)
  BY <1>1 DEF InGroup, Group, handle
<1>3. Turns(b)' /\ Clients(b)'
  BY <1>2 DEF Turns, Clients, Pending
<1>4. \A d \in 1..born : Allowed(b, d) => Allowed(b, d)'
  BY <1>1 DEF Allowed, Kept, handle, TypeOK
<1>5. Placed(b)'
  BY <1>4 DEF Placed, Allowed
<1>6. target[b] \in 0..born /\ (target[b] # 0 => version'[target[b]] = version[target[b]])
  BY DEF TypeOK, Kept
<1>7. Guarded(b)'
  BY <1>1, <1>6 DEF Guarded, handle
<1> QED
  BY <1>3, <1>5, <1>7

\* A call's own steps run nothing: what it repeats, it knows not to have run.
LEMMA TurnOfCaller ==
    ASSUME TypeOK, NEW c \in Callers, CallerStep(c), Clients(c), Turns(c)
    PROVE  Clients(c)' /\ Turns(c)'
<1>1. ran' = ran /\ UNCHANGED handle
  BY CallerType
<1>2. pc \in [Callers -> {"idle", "check", "remember", "run", "running", "done"}]
  BY DEF TypeOK
<1>3. at \in [Callers -> Ops]
  BY DEF TypeOK
<1>4. CASE at' = at
  <2>1. \A i \in Ops : InGroup(c, i)' <=> InGroup(c, i)
    BY <1>1, <1>4 DEF InGroup, Group, handle
  <2>2. CASE Retry(c)
    <3>1. Pending(c) /\ pc'[c] = "check" /\ client' = client /\ answer' = answer /\ client[c] = "exited"
      BY <1>2, <2>2 DEF Retry, Refuted, Pending, GoTo
    <3> QED
      BY <1>1, <1>4, <2>1, <3>1 DEF Turns, Clients
  <2>3. CASE StartClient(c)
    <3>1. Pending(c) /\ pc'[c] = "running" /\ client'[c] = "out"
      BY <1>2, <2>3 DEF StartClient, Pending, GoTo, TypeOK
    <3> QED
      BY <1>1, <1>4, <2>1, <3>1 DEF Turns, Clients
  <2>4. CASE Begin(c) \/ CheckBound(c) \/ UseRecord(c) \/ Probe(c) \/ Remember(c) \/ CheckFails(c)
    <3>1. /\ Pending(c) /\ pc[c] # "running" /\ pc'[c] \in {"check", "remember", "run", "done"}
          /\ pc[c] # "done" /\ client' = client /\ answer' = answer
      BY <1>2, <2>4 DEF Begin, CheckBound, UseRecord, Probe, Remember, CheckFails, Pending, GoTo,
         Refused, Checked, Ends
    <3> QED
      BY <1>1, <1>4, <2>1, <3>1 DEF Turns, Clients
  <2>5. CASE pc[c] = "running" /\ pc'[c] = "done" /\ client' = client /\ answer' = answer
    <3>1. Pending(c)' => Pending(c)
      BY <2>5 DEF Pending
    <3> QED
      BY <1>1, <1>4, <2>1, <2>5, <3>1 DEF Turns, Clients
  <2>6. CASE \/ Unknown(c) \/ PipeStaysOpen(c) \/ GuardRefuses(c) \/ StreamFails(c)
             \/ AttributeFailure(c)
    <3>1. pc[c] = "running" /\ pc'[c] = "done" /\ client' = client /\ answer' = answer
      BY <1>2, <2>6 DEF Unknown, PipeStaysOpen, GuardRefuses, StreamFails, AttributeFailure,
         Ends, GoTo
    <3> QED
      BY <2>5, <3>1
  <2>7. CASE AttributeSuccess(c)
    <3>1. at[c] \in Nat /\ at \in [Callers -> Ops]
      BY <1>3, GroupIs DEF Ops
    <3>2. ~(at[c] < Len(Groups[shape[c]]))
      <4>1. ASSUME at[c] < Len(Groups[shape[c]]) PROVE FALSE
        <5>1. at' = [at EXCEPT ![c] = @ + 1]
          BY <2>7, <4>1 DEF AttributeSuccess
        <5> QED
          BY <1>4, <3>1, <5>1
      <4> QED
        BY <4>1
    <3>3. pc[c] = "running" /\ pc'[c] = "done" /\ client' = client /\ answer' = answer
      BY <1>2, <2>7, <3>2 DEF AttributeSuccess, Ends, GoTo
    <3> QED
      BY <2>5, <3>3
  <2> QED
    BY <2>2, <2>3, <2>4, <2>6, <2>7 DEF CallerStep
<1>5. CASE at' # at
  <2>1. AttributeSuccess(c)
    BY <1>5 DEF CallerStep, Begin, CheckBound, UseRecord, Probe, CheckFails, Remember, StartClient,
       Retry, Unknown, PipeStaysOpen, GuardRefuses, StreamFails, AttributeFailure
  <2>2. /\ at[c] < Len(Groups[shape[c]]) /\ at' = [at EXCEPT ![c] = @ + 1]
        /\ pc'[c] = "idle" /\ client' = client /\ client[c] = "exited"
        /\ pc[c] = "running" /\ answer[c] = "ok"
    <3>1. at[c] < Len(Groups[shape[c]])
      BY <1>5, <2>1 DEF AttributeSuccess
    <3>2. at' = [at EXCEPT ![c] = @ + 1] /\ GoTo(c, "idle") /\ client' = client
      BY <2>1, <3>1 DEF AttributeSuccess
    <3>3. pc[c] = "running" /\ client[c] = "exited" /\ answer[c] = "ok"
      BY <2>1 DEF AttributeSuccess
    <3> QED
      BY <1>2, <3>1, <3>2, <3>3 DEF GoTo
  <2>3. at[c] = 1 /\ Len(Group(c)) = 1 /\ at'[c] = 2
    <3>1. at[c] \in {1, 2} /\ Len(Groups[shape[c]]) \in {1, 2} /\ at[c] < Len(Groups[shape[c]])
      BY <2>2, GroupIs DEF Ops
    <3>2. at[c] = 1 /\ Len(Groups[shape[c]]) = 2
      <4>1. \A m, n \in {1, 2} : m < n => m = 1 /\ n = 2
        OBVIOUS
      <4> QED
        BY <3>1, <4>1, Zenon
    <3>3. Len(Group(c)) = 1
      BY <3>2, GroupIs
    <3> QED
      BY <1>3, <2>2, <3>2, <3>3
  <2>4. InGroup(c, 1) /\ ~InGroup(c, 2) /\ 1 \in Ops /\ 2 \in Ops
    BY <2>3, InGroupIs DEF Ops
  <2>5. ran[c][1] # <<>> /\ ran[c][2] = <<>>
    BY <2>2, <2>3, <2>4 DEF Turns
  <2>6. \A i \in Ops : i >= 2 => i = 2
    BY DEF Ops
  <2> QED
    BY <1>1, <2>2, <2>3, <2>5, <2>6 DEF Turns, Clients
<1> QED
  BY <1>4, <1>5

\* tmux runs a dispatch's operations when their turn is, and once.
LEMMA TurnOfRun ==
    ASSUME TypeOK, NEW c \in Callers, Clients(c), Turns(c), client[c] = "out",
           NEW k \in 0..Len(Group(c)), NEW d \in Daemons, Run(c, k, d),
           client'[c] = "exited", answer'[c] \in {"ok", "noID", "refused", "died"},
           answer'[c] = "ok" => k = Len(Group(c)),
           UNCHANGED <<pc, at, handle>>
    PROVE  Clients(c)' /\ Turns(c)'
<1>1. /\ ran' \in [Callers -> [Ops -> Seq(Daemons)]]
      /\ \A i \in Ops : ran'[c][i] = ran[c][i] \/ (InGroup(c, i) /\ ran'[c][i] = Append(ran[c][i], d))
      /\ k = Len(Group(c)) => \A i \in Ops : InGroup(c, i) => ran'[c][i] = Append(ran[c][i], d)
      /\ InGroup(c, 1) /\ ran'[c][2] # ran[c][2] => ran'[c][1] = Append(ran[c][1], d)
  BY RunAppends
<1>2. Clients(c)' /\ pc[c] \in {"running", "done"} /\ ~(Pending(c)')
  BY DEF Clients, Pending
<1>3. \A i \in Ops : InGroup(c, i)' <=> InGroup(c, i)
  BY DEF InGroup, Group, handle
<1>4. at[c] \in Ops /\ at'[c] = at[c] /\ 1 \in Ops /\ 2 \in Ops
  BY DEF TypeOK, Ops
<1>5. \A i \in Ops : InGroup(c, i) => i >= at[c]
  BY <1>4, InGroupIs DEF Ops
<1>6. \A i \in Ops : InGroup(c, i) => ran[c][i] = <<>>
  BY <1>5 DEF Turns, Pending
<1>7. Append(<<>>, d) # <<>> /\ Len(Append(<<>>, d)) = 1
  OBVIOUS
<1>8. \A i \in Ops : Len(ran'[c][i]) <= 1
  BY <1>1, <1>6, <1>7 DEF Turns
<1>9. \A i \in Ops : i >= at[c] /\ ~InGroup(c, i) => ran'[c][i] = <<>>
  BY <1>1 DEF Turns
<1>10. answer'[c] = "ok" => \A i \in Ops : InGroup(c, i) => ran'[c][i] # <<>>
  BY <1>1, <1>6, <1>7
<1>11. at[c] = 2 => ran'[c][1] # <<>>
  <2>1. at[c] = 2 => ~InGroup(c, 1)
    BY <1>4, <1>5
  <2> QED
    BY <1>1, <1>4, <2>1 DEF Turns
<1>12. ran'[c][2] # <<>> => ran'[c][1] # <<>>
  <2>1. CASE ran'[c][2] = ran[c][2]
    BY <1>1, <1>4, <1>6, <1>7, <2>1 DEF Turns
  <2>2. CASE ran'[c][2] # ran[c][2] /\ InGroup(c, 1)
    BY <1>1, <1>4, <1>6, <1>7, <2>2
  <2>3. CASE ran'[c][2] # ran[c][2] /\ ~InGroup(c, 1)
    <3>1. at[c] = 2
      BY <1>4, <2>3, InGroupIs DEF Ops
    <3> QED
      BY <1>11, <3>1
  <2> QED
    BY <2>1, <2>2, <2>3
<1> QED
  BY <1>2, <1>3, <1>4, <1>8, <1>9, <1>10, <1>11, <1>12 DEF Turns

------------------------------------------------------------------------------
(* Where a command may run.                                                *)

\* The guard of a command is set by the check and holds until its client ends.
LEMMA GuardOfCaller ==
    ASSUME TypeOK, NEW c \in Callers, CallerStep(c), Clients(c), Guarded(c)
    PROVE  Guarded(c)'
<1>1. UNCHANGED <<daemonVars, handle>>
  BY CallerType
<1>2. /\ pc \in [Callers -> {"idle", "check", "remember", "run", "running", "done"}]
      /\ target \in [Callers -> 0..born] /\ bound \in [Callers -> 0..born]
      /\ record \in 0..born /\ daemon \in 0..born /\ born \in Nat
  BY DEF TypeOK
<1>3. CASE CheckBound(c) \/ UseRecord(c) \/ Probe(c) \/ CheckFails(c)
  <2>1. client' = client
    BY <1>3 DEF CheckBound, UseRecord, Probe, CheckFails
  <2>2. pc[c] \in {"check", "run"} /\ client[c] # "out"
    BY <1>3 DEF CheckBound, UseRecord, Probe, CheckFails, Clients
  <2>3. ASSUME NEW e \in {"ok", "version", "notSent"}, Refused(c, e)
        PROVE  Guarded(c)'
    BY <1>2, <2>1, <2>2, <2>3 DEF Refused, Ends, GoTo, Guarded
  <2>4. ASSUME NEW d \in 0..born, NEW b \in BOOLEAN, NEW p \in {"remember", "run"},
               Checked(c, d, b, p),
               IF d = 0 THEN Executable >= need[c] /\ bound[c] = 0
               ELSE version[d] >= need[c] /\ (bound[c] # 0 => d = bound[c])
        PROVE  Guarded(c)'
    <3>1. target'[c] = d
      BY <1>2, <2>4 DEF Checked
    <3> QED
      BY <1>1, <2>4, <3>1 DEF Guarded, daemonVars, handle
  <2>5. CASE CheckBound(c)
    <3>1. CASE Supports(version[bound[c]], c)
      <4>1. Checked(c, bound[c], FALSE, "run") /\ bound[c] # 0 /\ bound[c] \in 0..born
        BY <1>2, <2>5, <3>1 DEF CheckBound
      <4> QED
        BY <2>4, <3>1, <4>1 DEF Supports
    <3>2. CASE ~Supports(version[bound[c]], c)
      BY <2>3, <2>5, <3>2 DEF CheckBound
    <3> QED
      BY <3>1, <3>2
  <2>6. CASE UseRecord(c)
    <3>1. CASE Supports(version[record], c)
      <4>1. Checked(c, record, TRUE, "run") /\ bound[c] = 0 /\ record # 0
        BY <2>6, <3>1 DEF UseRecord, Reuses
      <4> QED
        BY <1>2, <2>4, <3>1, <4>1 DEF Supports
    <3>2. CASE ~Supports(version[record], c)
      BY <2>3, <2>6, <3>2 DEF UseRecord
    <3> QED
      BY <3>1, <3>2
  <2>7. CASE Probe(c)
    <3>1. CASE Checked(c, daemon, FALSE, IF daemon = 0 THEN "run" ELSE "remember")
               /\ Supports(ProbedVersion, c)
      <4>1. bound[c] = 0
        BY <2>7 DEF Probe
      <4>2. (IF daemon = 0 THEN "run" ELSE "remember") \in {"remember", "run"}
        OBVIOUS
      <4> QED
        BY <1>2, <2>4, <3>1, <4>1, <4>2 DEF Supports, ProbedVersion
    <3>2. CASE Refused(c, "ok") \/ Refused(c, "version")
      BY <2>3, <3>2
    <3> QED
      BY <2>7, <3>1, <3>2 DEF Probe
  <2>8. CASE CheckFails(c)
    BY <2>3, <2>8 DEF CheckFails
  <2> QED
    BY <1>3, <2>5, <2>6, <2>7, <2>8
<1>4. CASE \/ Begin(c) \/ Remember(c) \/ StartClient(c) \/ Retry(c) \/ Unknown(c) \/ PipeStaysOpen(c)
           \/ GuardRefuses(c) \/ StreamFails(c) \/ AttributeFailure(c) \/ AttributeSuccess(c)
  <2>1. target' = target
    BY <1>4 DEF Begin, Remember, StartClient, Retry, Unknown, PipeStaysOpen, GuardRefuses,
       StreamFails, AttributeFailure, AttributeSuccess, check
  <2>2. \/ pc'[c] \in {"idle", "check", "done"} /\ client' = client /\ client[c] # "out"
        \/ pc[c] \in {"remember", "run", "running"}
    BY <1>2, <1>4 DEF Begin, Remember, StartClient, Retry, Unknown, PipeStaysOpen, GuardRefuses,
       StreamFails, AttributeFailure, AttributeSuccess, GoTo, Clients
  <2> QED
    BY <1>1, <2>1, <2>2 DEF Guarded, daemonVars, handle
<1> QED
  BY <1>3, <1>4 DEF CallerStep

\* c may still run in d after the step.
AllowedNext(c, d) == d \in 1..born' /\ version'[d] >= need'[c] /\ (bound'[c] # 0 => d = bound'[c])

LEMMA AllowedKept ==
    ASSUME TypeOK, Kept, NEW c \in Callers, NEW x, Allowed(c, x)
    PROVE  AllowedNext(c, x)
<1>1. born \in Nat /\ born' \in Nat /\ born' >= born
  BY DispatchAssumption DEF TypeOK, Kept
<1>2. bound' = bound /\ need' = need /\ x \in 1..born /\ version'[x] = version[x]
  BY DEF Kept, Allowed, handle
<1> QED
  BY <1>1, <1>2 DEF Allowed, AllowedNext

\* guardCommand and -N: a client that was let in was let into an allowed daemon.
LEMMA PlaceOfRun ==
    ASSUME TypeOK, TypeOK', Kept, NEW c \in Callers, Placed(c),
           NEW k \in 0..Len(Group(c)), NEW d \in Daemons, Run(c, k, d), AllowedNext(c, d)
    PROVE  Placed(c)'
<1>1. \A i \in Ops : ran'[c][i] = ran[c][i] \/ ran'[c][i] = Append(ran[c][i], d)
  BY RunAppends
<1>2. \A x : Allowed(c, x) => AllowedNext(c, x)
  BY AllowedKept
<1>3. \A i \in Ops : \A j \in DOMAIN ran[c][i] : AllowedNext(c, ran[c][i][j])
  BY <1>2 DEF Placed
<1>4. \A i \in Ops : ran[c][i] \in Seq(Daemons)
  BY DEF TypeOK
<1>5. ASSUME NEW i \in Ops, NEW j \in DOMAIN Append(ran[c][i], d)
      PROVE  AllowedNext(c, Append(ran[c][i], d)[j])
  <2>1. \/ j \in DOMAIN ran[c][i] /\ Append(ran[c][i], d)[j] = ran[c][i][j]
        \/ Append(ran[c][i], d)[j] = d
    BY <1>4
  <2> QED
    BY <1>3, <2>1
<1>6. \A i \in Ops : \A j \in DOMAIN ran'[c][i] : AllowedNext(c, ran'[c][i][j])
  BY <1>1, <1>3, <1>5
<1> QED
  BY <1>6 DEF Placed, Allowed, AllowedNext

\* A step of the client: to its turns and to its places.
LEMMA StepOfClient ==
    ASSUME TypeOK, TypeOK', Kept, NEW c \in Callers, TmuxStep(c),
           Clients(c), Turns(c), Guarded(c), Placed(c)
    PROVE  Clients(c)' /\ Turns(c)' /\ Guarded(c)' /\ Placed(c)'
<1>1. UNCHANGED <<pc, at, handle, target>>
  BY DEF TmuxStep, TmuxRuns, TmuxRefuses, NobodyThere, TmuxStarts, NeverRuns, check
<1>2. /\ client \in [Callers -> {"none", "out", "exited", "killed"}]
      /\ answer \in [Callers -> Exits \cup {"none"}]
      /\ target[c] \in 0..born /\ bound[c] \in 0..born /\ born \in Nat
  BY DEF TypeOK
<1>3. client[c] = "out" /\ client'[c] \in {"exited", "killed"}
  BY <1>2 DEF TmuxStep, TmuxRuns, Executes, TmuxRefuses, NobodyThere, TmuxStarts, NeverRuns, Answers
<1>4. Guarded(c)'
  <2>1. target[c] # 0 => version'[target[c]] = version[target[c]]
    BY <1>2 DEF Kept
  <2> QED
    BY <1>1, <1>3, <2>1 DEF Guarded, handle
<1>5. CASE TmuxRuns(c)
  <2>1. daemon \in Daemons /\ daemon \in 1..born /\ Admits(c, daemon)
    <3>1. daemon \in 0..born /\ born \in 0..MaxDaemons
      BY DEF TypeOK
    <3>2. daemon # 0 /\ Admits(c, daemon)
      BY <1>5 DEF TmuxRuns
    <3> QED
      BY <3>1, <3>2, DispatchAssumption DEF Daemons
  <2>2. PICK k \in 0..Len(Group(c)) :
           /\ Run(c, k, daemon) /\ \E a \in {"ok", "noID", "refused", "died"} : Answers(c, a)
           /\ answer'[c] = "ok" => k = Len(Group(c))
    <3>1. Len(Group(c)) \in {1, 2}
      BY GroupIs
    <3> QED
      BY <1>2, <1>5, <3>1 DEF TmuxRuns, Executes, Answers
  <2>3. Clients(c)' /\ Turns(c)'
    <3>1. client'[c] = "exited" /\ answer'[c] \in {"ok", "noID", "refused", "died"}
      BY <1>2, <2>2 DEF Answers
    <3> QED
      BY <1>1, <1>3, <2>1, <2>2, <3>1, TurnOfRun
  <2>4. AllowedNext(c, daemon)
    <3>1. version'[daemon] = version[daemon] /\ daemon \in 1..born'
      BY <1>2, <2>1 DEF Kept, TypeOK
    <3> QED
      BY <1>1, <1>3, <2>1, <3>1 DEF AllowedNext, Admits, Guarded, handle
  <2>5. Placed(c)'
    BY <2>1, <2>2, <2>4, PlaceOfRun
  <2> QED
    BY <1>4, <2>3, <2>5
<1>6. CASE TmuxStarts(c)
  <2>1. born + 1 \in Daemons /\ born' = born + 1 /\ version'[born + 1] = Executable
    BY <1>6 DEF TmuxStarts, TypeOK, Daemons
  <2>2. target[c] = 0
    BY <1>6 DEF TmuxStarts
  <2>3. PICK k \in 0..Len(Group(c)) :
           /\ Run(c, k, born + 1) /\ \E a \in {"ok", "noID", "refused", "died"} : Answers(c, a)
           /\ answer'[c] = "ok" => k = Len(Group(c))
    <3>1. Len(Group(c)) \in {1, 2}
      BY GroupIs
    <3> QED
      BY <1>2, <1>6, <3>1 DEF TmuxStarts, Executes, Answers
  <2>4. Clients(c)' /\ Turns(c)'
    <3>1. client'[c] = "exited" /\ answer'[c] \in {"ok", "noID", "refused", "died"}
      BY <1>2, <2>3 DEF Answers
    <3> QED
      BY <1>1, <1>3, <2>1, <2>3, <3>1, TurnOfRun
  <2>5. AllowedNext(c, born + 1)
    BY <1>1, <1>2, <1>3, <2>1, <2>2 DEF AllowedNext, Guarded, handle
  <2>6. Placed(c)'
    BY <2>1, <2>3, <2>5, PlaceOfRun
  <2> QED
    BY <1>4, <2>4, <2>6
<1>7. CASE TmuxRefuses(c) \/ NobodyThere(c) \/ NeverRuns(c)
  <2>1. ran' = ran
    BY <1>7 DEF TmuxRefuses, NobodyThere, NeverRuns
  <2>2. \/ client'[c] = "exited" /\ answer'[c] \in {"replaced", "absent"}
        \/ client'[c] = "killed" /\ pc[c] = "done"
    BY <1>2, <1>7 DEF TmuxRefuses, NobodyThere, NeverRuns, Answers
  <2>3. \A i \in Ops : InGroup(c, i)' <=> InGroup(c, i)
    BY <1>1 DEF InGroup, Group, handle
  <2>4. Clients(c)' /\ Turns(c)'
    BY <1>1, <1>3, <2>1, <2>2, <2>3 DEF Clients, Turns, Pending
  <2>5. \A x : Allowed(c, x) => AllowedNext(c, x)
    BY AllowedKept
  <2>6. Placed(c)'
    BY <2>1, <2>5 DEF Placed, Allowed, AllowedNext
  <2> QED
    BY <1>4, <2>4, <2>6
<1> QED
  BY <1>5, <1>6, <1>7 DEF TmuxStep

------------------------------------------------------------------------------
LEMMA InvInit == Init => DispatchInv
<1> SUFFICES ASSUME Init PROVE DispatchInv
  OBVIOUS
<1> USE DispatchAssumption
<1>1. TypeOK
  <2>1. shape \in [Callers -> Shapes]
    BY DEF Init
  <2>2. \A c \in Callers : 1 \in DOMAIN Groups[shape[c]]
    <3> SUFFICES ASSUME NEW c \in Callers PROVE 1 \in DOMAIN Groups[shape[c]]
      OBVIOUS
    <3>1. shape[c] \in Shapes
      BY <2>1
    <3>2. CASE Groups[shape[c]] = << <<1, 2>> >>
      BY <3>2
    <3>3. CASE Groups[shape[c]] = << <<1>>, <<2>> >>
      BY <3>3
    <3>4. CASE Groups[shape[c]] = << <<1>> >>
      BY <3>4
    <3> QED
      BY <3>1, <3>2, <3>3, <3>4, GroupsAre
  <2>3. /\ daemon \in 0..born /\ born \in 0..MaxDaemons /\ version \in [Daemons -> Versions]
        /\ record \in 0..born /\ bound \in [Callers -> 0..born] /\ need \in [Callers -> Needs]
        /\ target \in [Callers -> 0..born]
    BY DEF Init, Daemons
  <2>4. at \in [Callers -> Ops] /\ \A c \in Callers : at[c] \in DOMAIN Groups[shape[c]]
    BY <2>2 DEF Init, Ops
  <2>5. ran \in [Callers -> [Ops -> Seq(Daemons)]] /\ status \in [Callers -> [Ops -> Statuses]]
    BY DEF Init, Statuses
  <2> QED
    BY <2>3, <2>4, <2>5 DEF Init, TypeOK
<1>2. ASSUME NEW c \in Callers PROVE Clients(c) /\ Turns(c) /\ Guarded(c) /\ Placed(c)
  <2>1. /\ pc[c] = "idle" /\ client[c] = "none" /\ at[c] = 1
        /\ \A i \in Ops : ran[c][i] = <<>>
    BY DEF Init
  <2>2. 1 \in Ops /\ 2 \in Ops
    BY DEF Ops
  <2> QED
    BY <2>1, <2>2 DEF Clients, Turns, Guarded, Placed
<1> QED
  BY <1>1, <1>2 DEF DispatchInv

LEMMA InvStep == DispatchInv /\ [Next]_vars => DispatchInv'
<1> SUFFICES ASSUME DispatchInv, [Next]_vars PROVE DispatchInv'
  OBVIOUS
<1>1. TypeOK /\ TypeOK' /\ Kept
  BY TypeStep DEF DispatchInv
<1> SUFFICES ASSUME NEW b \in Callers
             PROVE  Clients(b)' /\ Turns(b)' /\ Guarded(b)' /\ Placed(b)'
  BY <1>1 DEF DispatchInv
<1>2. Clients(b) /\ Turns(b) /\ Guarded(b) /\ Placed(b)
  BY DEF DispatchInv
<1>3. CASE UNCHANGED vars
  BY <1>1, <1>2, <1>3, Undisturbed DEF vars, check
<1>4. CASE DaemonDies \/ DaemonStarts
  BY <1>1, <1>2, <1>4, Undisturbed DEF DaemonDies, DaemonStarts, check
<1>5. ASSUME NEW c \in Callers, CallerStep(c) \/ TmuxStep(c)
      PROVE  Clients(b)' /\ Turns(b)' /\ Guarded(b)' /\ Placed(b)'
  <2>1. CASE b # c
    BY <1>1, <1>2, <1>5, <2>1, TurnsOfOthers, Undisturbed
  <2>2. CASE b = c /\ CallerStep(c)
    <3>1. ran' = ran
      BY <1>1, <2>2, CallerType
    <3>2. \A x : Allowed(c, x) => AllowedNext(c, x)
      BY <1>1, AllowedKept
    <3>3. Placed(c)'
      BY <1>2, <2>2, <3>1, <3>2 DEF Placed, Allowed, AllowedNext
    <3> QED
      BY <1>1, <1>2, <2>2, <3>3, TurnOfCaller, GuardOfCaller
  <2>3. CASE b = c /\ TmuxStep(c)
    BY <1>1, <1>2, <2>3, StepOfClient
  <2> QED
    BY <1>5, <2>1, <2>2, <2>3
<1> QED
  BY <1>3, <1>4, <1>5 DEF Next

LEMMA DispatchInvariant == Spec => []DispatchInv
  BY InvInit, InvStep, PTL DEF Spec

\* However many callers share the record and however often the daemon is
\* replaced, runCommand repeats only what ran nowhere, and RunWith goes on only
\* after what ran: each command runs at most once and in its turn.
THEOREM RunsOnceInTurn == Spec => []DispatchOK
<1>1. DispatchInv => DispatchOK
  BY DEF DispatchInv, DispatchOK, AtMostOnce, RanIsPrefix, Turns
<1> QED
  BY <1>1, DispatchInvariant, PTL

\* The guard of guardCommand and the -N of runCheckedCommand let a command run
\* only in a daemon of a version its handle requires, and only in the daemon the
\* handle carries, whatever happened since checkForDispatch.
THEOREM CheckedWhereRun == Spec => []RunsWhereChecked
<1>1. DispatchInv => RunsWhereChecked
  BY DEF DispatchInv, RunsWhereChecked, Placed, Allowed
<1> QED
  BY <1>1, DispatchInvariant, PTL

------------------------------------------------------------------------------
(* What a plan reports.                                                    *)

\* What c's plan says of its operations: those before the current dispatch
\* are complete, and of those after it nothing is said.
Reported(c) ==
    /\ \A i \in Ops : status[c][i] = "complete" => ran[c][i] # <<>>
    /\ \A i \in Ops : i < at[c] => status[c][i] = "complete"
    /\ \A i \in Ops : i >= at[c] /\ (pc[c] # "done" \/ ~InGroup(c, i)) => status[c][i] = "skipped"
    /\ pc[c] = "done" /\ client[c] = "out" => \A i \in Ops : InGroup(c, i) => status[c][i] = "indeterminate"
    /\ client[c] = "exited" => answer[c] # "none"
    /\ answer[c] = "noID" => shape[c] = "make"
    /\ client[c] = "exited" /\ answer[c] = "refused" /\ Len(Group(c)) = 1 => ran[c][at[c]] = <<>>

\* What it says at the end is so.
Truthful(c) ==
    pc[c] = "done" /\ answer[c] # "died" /\ told[c] # "plain" =>
        \A i \in Ops :
            /\ status[c][i] = "skipped" => ran[c][i] = <<>>
            /\ status[c][i] = "failed" /\ answer[c] # "noID" => ran[c][i] = <<>>

------------------------------------------------------------------------------
(* What a stale record leads to.                                           *)

Mistaken(c) == answer[c] \in {"replaced", "absent"}

\* A check that did not come from the record holds until a daemon comes or goes.
Fresh(c) ==
    /\ pc[c] \in {"remember", "run", "running"} =>
         /\ bound[c] = 0 /\ ~cached[c] /\ ~changed[c] => target[c] = daemon
         /\ cached[c] => shape[c] \notin {"kill", "stream"}
    /\ bound[c] = 0 /\ pc[c] = "running" /\ client[c] = "exited" /\ Mistaken(c) => cached[c] \/ changed[c]
    /\ pc[c] = "done" /\ told[c] = "exit" => client[c] # "out"

Hidden(c) ==
    bound[c] = 0 /\ pc[c] = "done" /\ (told[c] = "replaced" \/ (told[c] = "exit" /\ answer[c] = "absent"))
        => changed[c]

ReportInv == \A c \in Callers : Reported(c) /\ Truthful(c) /\ Fresh(c) /\ Hidden(c)

\* Where an operation stands against the dispatch c is in.
LEMMA Order ==
    ASSUME TypeOK, NEW c \in Callers
    PROVE  /\ \A i \in Ops : i < at[c] \/ i >= at[c]
           /\ \A i \in Ops : InGroup(c, i) => i >= at[c] /\ ~(i < at[c])
           /\ at[c] \in Ops /\ at[c] \in Nat
<1>1. at[c] \in Ops
  BY GroupIs
<1>2. at[c] \in {1, 2}
  BY <1>1 DEF Ops
<1>3. ASSUME NEW i \in Ops, InGroup(c, i) PROVE i >= at[c]
  <2>1. i = at[c] \/ at[c] = 1
    BY <1>3, InGroupIs
  <2>2. i \in {1, 2}
    BY DEF Ops
  <2> QED
    BY ONLY <1>2, <2>1, <2>2
<1>4. \A i \in Ops : i \in {1, 2}
  BY DEF Ops
<1> QED
  BY <1>1, <1>2, <1>3, <1>4

LEMMA MarkedIs ==
    ASSUME TypeOK, NEW c \in Callers, NEW what, Marked(c, what)
    PROVE  /\ \A i \in Ops : status'[c][i] = IF InGroup(c, i) THEN what ELSE status[c][i]
           /\ \A b \in Callers : b # c => status'[b] = status[b]
<1>1. status \in [Callers -> [Ops -> Statuses]]
  BY DEF TypeOK
<1> DEFINE new == [i \in Ops |-> IF \E j \in DOMAIN Group(c) : Group(c)[j] = i THEN what ELSE status[c][i]]
<1>2. status' = [status EXCEPT ![c] = new]
  BY DEF Marked
<1>3. \A i \in Ops : new[i] = IF InGroup(c, i) THEN what ELSE status[c][i]
  BY DEF InGroup
<1> HIDE DEF new
<1> QED
  BY <1>1, <1>2, <1>3

\* A call that has not returned goes on: nothing new is said.
LEMMA GoesOn ==
    ASSUME TypeOK, NEW c \in Callers, Reported(c), pc[c] # "done", pc'[c] # "done",
           status' = status, ran' = ran, UNCHANGED <<at, handle>>,
           \/ client'[c] = client[c] /\ answer'[c] = answer[c]
           \/ client'[c] = "out" /\ answer'[c] = "none"
    PROVE  Reported(c)' /\ Truthful(c)'
<1>1. /\ Group(c)' = Group(c) /\ \A i \in Ops : InGroup(c, i)' <=> InGroup(c, i)
      /\ shape' = shape /\ at' = at
  BY DEF InGroup, Group, handle
<1> QED
  BY <1>1 DEF Reported, Truthful

\* A call returns with nothing said of its dispatch, which ran nowhere.
LEMMA SaysNothing ==
    ASSUME TypeOK, NEW c \in Callers, Reported(c), Turns(c), pc[c] # "done", pc'[c] = "done",
           answer[c] # "died" => \A i \in Ops : InGroup(c, i) => ran[c][i] = <<>>, client[c] # "out",
           status' = status, ran' = ran, UNCHANGED <<at, handle, client, answer>>
    PROVE  Reported(c)' /\ Truthful(c)'
<1>1. /\ Group(c)' = Group(c) /\ \A i \in Ops : InGroup(c, i)' <=> InGroup(c, i)
      /\ shape' = shape /\ at' = at
  BY DEF InGroup, Group, handle
<1>2. Reported(c)'
  BY <1>1 DEF Reported
<1>3. \A i \in Ops : status[c][i] \in {"complete", "skipped"} /\ (i < at[c] => status[c][i] = "complete")
  BY Order DEF Reported
<1>4. answer[c] # "died" => \A i \in Ops : i >= at[c] => ran[c][i] = <<>>
  BY DEF Turns
<1>5. \A i \in Ops : i < at[c] \/ i >= at[c]
  BY Order
<1> QED
  BY <1>2, <1>3, <1>4, <1>5 DEF Truthful

\* A call returns and says what of its dispatch.
LEMMA Says ==
    ASSUME TypeOK, NEW c \in Callers, Reported(c), Turns(c), pc[c] = "running", pc'[c] = "done",
           NEW what \in {"complete", "failed", "indeterminate"}, Marked(c, what),
           client[c] = "out" => what = "indeterminate",
           what = "complete" => \A i \in Ops : InGroup(c, i) => ran[c][i] # <<>>,
           what = "failed" /\ answer[c] \notin {"died", "noID"}
             => \A i \in Ops : InGroup(c, i) => ran[c][i] = <<>>,
           ran' = ran, UNCHANGED <<at, handle, client, answer>>
    PROVE  Reported(c)' /\ Truthful(c)'
<1>1. /\ Group(c)' = Group(c) /\ \A i \in Ops : InGroup(c, i)' <=> InGroup(c, i)
      /\ shape' = shape /\ at' = at
  BY DEF InGroup, Group, handle
<1>2. \A i \in Ops : status'[c][i] = IF InGroup(c, i) THEN what ELSE status[c][i]
  BY MarkedIs
<1>3. \A i \in Ops : status[c][i] \in {"complete", "skipped"} /\ (i < at[c] => status[c][i] = "complete")
  BY Order DEF Reported
<1>5. \A i \in Ops : i < at[c] \/ i >= at[c]
  BY Order
<1>6. \A i \in Ops : i < at[c] => ~InGroup(c, i)
  BY Order
<1>7. Reported(c)'
  <2>1. \A i \in Ops : status'[c][i] = "complete" => ran[c][i] # <<>>
    BY <1>2 DEF Reported
  <2>2. \A i \in Ops : i < at[c] => status'[c][i] = "complete"
    BY <1>2, <1>3, <1>6
  <2>3. \A i \in Ops : i >= at[c] /\ ~InGroup(c, i) => status'[c][i] = "skipped"
    BY <1>2 DEF Reported
  <2> QED
    BY <1>1, <1>2, <2>1, <2>2, <2>3 DEF Reported
<1>8. Truthful(c)'
  <2> SUFFICES ASSUME NEW i \in Ops, answer[c] # "died"
               PROVE  /\ status'[c][i] = "skipped" => ran[c][i] = <<>>
                      /\ status'[c][i] = "failed" /\ answer[c] # "noID" => ran[c][i] = <<>>
    BY DEF Truthful
  <2>1. CASE InGroup(c, i)
    BY <1>2, <2>1
  <2>2. CASE ~InGroup(c, i)
    <3>1. i >= at[c] => ran[c][i] = <<>>
      BY <2>2 DEF Turns
    <3> QED
      BY <1>2, <1>3, <1>5, <2>2, <3>1
  <2> QED
    BY <2>1, <2>2
<1> QED
  BY <1>7, <1>8

\* attribute, runCommand and RunWith say what happened.
LEMMA ReportOfCaller ==
    ASSUME TypeOK, NEW c \in Callers, CallerStep(c), Clients(c), Turns(c), Reported(c)
    PROVE  Reported(c)' /\ Truthful(c)'
<1>1. ran' = ran /\ UNCHANGED handle
  BY CallerType
<1>2. /\ pc \in [Callers -> {"idle", "check", "remember", "run", "running", "done"}]
      /\ client \in [Callers -> {"none", "out", "exited", "killed"}]
      /\ answer \in [Callers -> Exits \cup {"none"}]
      /\ told \in [Callers -> {"nothing", "ok", "exit", "version", "notSent", "unknown", "plain",
                               "replaced"}]
  BY DEF TypeOK
<1>3. \A i \in Ops : InGroup(c, i) => i >= at[c]
  BY Order
<1>4. Pending(c) => \A i \in Ops : InGroup(c, i) => ran[c][i] = <<>>
  BY <1>3 DEF Turns
<1>5. CASE Begin(c) \/ Remember(c) \/ StartClient(c) \/ Retry(c)
  <2>1. /\ pc[c] # "done" /\ pc'[c] # "done" /\ UNCHANGED <<at, status>>
        /\ \/ client'[c] = client[c] /\ answer'[c] = answer[c]
           \/ client'[c] = "out" /\ answer'[c] = "none"
    BY <1>2, <1>5 DEF Begin, Remember, StartClient, Retry, GoTo, results
  <2> QED
    BY <1>1, <2>1, GoesOn
<1>6. CASE CheckBound(c) \/ UseRecord(c) \/ Probe(c) \/ CheckFails(c)
  <2>1. pc[c] \in {"check", "run"} /\ UNCHANGED <<at, client, answer, status>>
    BY <1>6 DEF CheckBound, UseRecord, Probe, CheckFails
  <2>2. CASE pc'[c] # "done"
    BY <1>1, <2>1, <2>2, GoesOn
  <2>3. CASE pc'[c] = "done"
    <3>1. client[c] # "out" /\ Pending(c)
      BY <2>1 DEF Clients, Pending
    <3> QED
      BY <1>1, <1>4, <2>1, <2>3, <3>1, SaysNothing
  <2> QED
    BY <2>2, <2>3
<1>7. CASE Unknown(c)
  <2>1. /\ pc[c] = "running" /\ pc'[c] = "done" /\ Marked(c, "indeterminate")
        /\ UNCHANGED <<at, client, answer>>
    BY <1>2, <1>7 DEF Unknown, Ends, GoTo
  <2> QED
    BY <1>1, <2>1, Says
<1>8. CASE PipeStaysOpen(c)
  <2>1. /\ pc[c] = "running" /\ client[c] = "exited" /\ pc'[c] = "done" /\ told'[c] = "plain"
        /\ UNCHANGED <<at, client, answer, status>>
    BY <1>2, <1>8 DEF PipeStaysOpen, Ends, GoTo
  <2>2. /\ Group(c)' = Group(c) /\ \A i \in Ops : InGroup(c, i)' <=> InGroup(c, i)
        /\ shape' = shape
    BY <1>1, <2>1 DEF InGroup, Group, handle
  <2> QED
    BY <1>1, <2>1, <2>2 DEF Reported, Truthful
<1>9. CASE GuardRefuses(c)
  <2>1. /\ pc[c] = "running" /\ client[c] = "exited" /\ answer[c] = "replaced" /\ pc'[c] = "done"
        /\ UNCHANGED <<at, client, answer, status>>
    BY <1>2, <1>9 DEF GuardRefuses, Ends, GoTo
  <2>2. Pending(c)
    BY <2>1 DEF Pending
  <2> QED
    BY <1>1, <1>4, <2>1, <2>2, SaysNothing
<1>10. CASE StreamFails(c)
  <2>1. /\ pc[c] = "running" /\ client[c] = "exited" /\ shape[c] = "stream" /\ answer[c] # "ok"
        /\ UNCHANGED <<at, client, answer>>
    BY <1>10 DEF StreamFails
  <2>2. Len(Group(c)) = 1
    <3>1. shape[c] \in Shapes /\ Groups[shape[c]] = << <<1>> >> /\ at[c] \in DOMAIN Groups[shape[c]]
      BY <2>1, GroupsAre DEF TypeOK, Shapes, Groups
    <3> QED
      BY <3>1 DEF Group
  <2>3. answer[c] \in {"refused", "replaced", "absent"} => \A i \in Ops : InGroup(c, i) => ran[c][i] = <<>>
    <3>1. answer[c] \in {"replaced", "absent"} => Pending(c)
      BY DEF Pending
    <3>2. answer[c] = "refused" => ran[c][at[c]] = <<>>
      BY <2>1, <2>2 DEF Reported
    <3>3. \A i \in Ops : InGroup(c, i) => i = at[c]
      BY <2>2, InGroupIs
    <3> QED
      BY <1>4, <3>1, <3>2, <3>3
  <2>4. answer[c] \in {"refused", "replaced", "absent", "died"}
    BY <1>2, <2>1 DEF Reported, Exits
  <2>5. CASE Ends(c, "replaced") /\ UNCHANGED status
    <3>1. pc'[c] = "done"
      BY <1>2, <2>5 DEF Ends, GoTo
    <3> QED
      BY <1>1, <2>1, <2>3, <2>4, <2>5, <3>1, SaysNothing
  <2>6. CASE Ends(c, "exit") /\ Marked(c, "failed")
    <3>1. pc'[c] = "done"
      BY <1>2, <2>6 DEF Ends, GoTo
    <3> QED
      BY <1>1, <2>1, <2>3, <2>4, <2>6, <3>1, Says
  <2> QED
    BY <1>10, <2>5, <2>6 DEF StreamFails
<1>11. CASE AttributeFailure(c)
  <2>1. /\ pc[c] = "running" /\ client[c] = "exited" /\ answer[c] \in {"refused", "died", "absent", "noID"}
        /\ pc'[c] = "done" /\ UNCHANGED <<at, client, answer>>
        /\ Marked(c, IF Len(Group(c)) = 1 THEN "failed" ELSE "indeterminate")
    BY <1>2, <1>11 DEF AttributeFailure, Ends, GoTo
  <2>2. CASE Len(Group(c)) = 1
    <3>1. answer[c] = "absent" => Pending(c)
      BY DEF Pending
    <3>2. answer[c] = "refused" => ran[c][at[c]] = <<>>
      BY <2>1, <2>2 DEF Reported
    <3>3. \A i \in Ops : InGroup(c, i) => i = at[c]
      BY <2>2, InGroupIs
    <3>4. answer[c] \notin {"died", "noID"} => \A i \in Ops : InGroup(c, i) => ran[c][i] = <<>>
      BY <1>4, <2>1, <3>1, <3>2, <3>3
    <3>5. Marked(c, "failed")
      BY <2>1, <2>2
    <3> QED
      BY <1>1, <2>1, <3>4, <3>5, Says
  <2>3. CASE Len(Group(c)) # 1
    <3>1. Marked(c, "indeterminate")
      BY <2>1, <2>3
    <3> QED
      BY <1>1, <2>1, <3>1, Says
  <2> QED
    BY <2>2, <2>3
<1>12. CASE AttributeSuccess(c) /\ at' = at
  <2>1. /\ pc[c] = "running" /\ client[c] = "exited" /\ answer[c] = "ok" /\ Marked(c, "complete")
        /\ UNCHANGED <<client, answer>>
    BY <1>12 DEF AttributeSuccess
  <2>2. ~(at[c] < Len(Groups[shape[c]]))
    <3>1. ASSUME at[c] < Len(Groups[shape[c]]) PROVE FALSE
      <4>1. at \in [Callers -> Ops] /\ at[c] \in Nat
        BY Order DEF TypeOK
      <4>2. at' = [at EXCEPT ![c] = @ + 1]
        BY <1>12, <3>1 DEF AttributeSuccess
      <4> QED
        BY <1>12, <4>1, <4>2
    <3> QED
      BY <3>1
  <2>3. pc'[c] = "done"
    BY <1>2, <1>12, <2>2 DEF AttributeSuccess, Ends, GoTo
  <2>4. \A i \in Ops : InGroup(c, i) => ran[c][i] # <<>>
    BY <2>1 DEF Turns
  <2> QED
    BY <1>1, <1>12, <2>1, <2>3, <2>4, Says
<1>13. CASE AttributeSuccess(c) /\ at' # at
  <2>1. /\ pc[c] = "running" /\ client[c] = "exited" /\ answer[c] = "ok" /\ Marked(c, "complete")
        /\ UNCHANGED <<client, answer>> /\ at' = [at EXCEPT ![c] = @ + 1] /\ GoTo(c, "idle")
        /\ at[c] < Len(Groups[shape[c]])
    BY <1>13 DEF AttributeSuccess
  <2>2. at[c] = 1 /\ Len(Group(c)) = 1
    <3>1. at[c] \in {1, 2} /\ Len(Groups[shape[c]]) \in {1, 2}
      BY GroupIs DEF Ops
    <3>2. \A m, n \in {1, 2} : m < n => m = 1 /\ n = 2
      OBVIOUS
    <3>3. at[c] = 1 /\ Len(Groups[shape[c]]) = 2
      BY <2>1, <3>1, <3>2, Zenon
    <3> QED
      BY <3>3, GroupIs
  <2>3. at'[c] = 2 /\ pc'[c] = "idle"
    BY <1>2, <2>1, <2>2 DEF GoTo, TypeOK
  <2>4. InGroup(c, 1) /\ ~InGroup(c, 2) /\ 1 \in Ops /\ 2 \in Ops
    BY <2>2, InGroupIs DEF Ops
  <2>5. status'[c][1] = "complete" /\ status'[c][2] = "skipped" /\ ran[c][1] # <<>>
    <3>1. status'[c][1] = "complete" /\ status'[c][2] = status[c][2]
      BY <2>1, <2>4, MarkedIs
    <3>2. status[c][2] = "skipped"
      BY <2>1, <2>2, <2>4 DEF Reported
    <3> QED
      BY <2>1, <2>4, <3>1, <3>2 DEF Turns
  <2>6. \A i \in Ops : i = 1 \/ i = 2
    BY DEF Ops
  <2>7. shape' = shape
    BY <1>1 DEF handle
  <2>8. /\ \A i \in Ops : status'[c][i] = "complete" => ran'[c][i] # <<>>
        /\ \A i \in Ops : i < 2 => status'[c][i] = "complete"
        /\ \A i \in Ops : i >= 2 => status'[c][i] = "skipped"
    BY <1>1, <2>5, <2>6
  <2> QED
    BY <2>1, <2>3, <2>7, <2>8 DEF Reported, Truthful
<1> QED
  BY <1>5, <1>6, <1>7, <1>8, <1>9, <1>10, <1>11, <1>12, <1>13 DEF CallerStep

\* A client that runs, or is refused, leaves what was said before it true.
LEMMA ReportOfClient ==
    ASSUME TypeOK, NEW c \in Callers, TmuxStep(c), Clients(c), Turns(c), Reported(c), Truthful(c)
    PROVE  Reported(c)' /\ Truthful(c)'
<1>1. UNCHANGED <<pc, at, shape, status, told>>
  BY DEF TmuxStep, TmuxRuns, TmuxRefuses, NobodyThere, TmuxStarts, NeverRuns, handle, results
<1>2. /\ client \in [Callers -> {"none", "out", "exited", "killed"}]
      /\ answer \in [Callers -> Exits \cup {"none"}]
  BY DEF TypeOK
<1>3. client[c] = "out" /\ client'[c] \in {"exited", "killed"}
  BY <1>2 DEF TmuxStep, TmuxRuns, Executes, TmuxRefuses, NobodyThere, TmuxStarts, NeverRuns, Answers
<1>4. \A i \in Ops : ran'[c][i] = ran[c][i] \/ (InGroup(c, i) /\ ran'[c][i] # <<>>)
  <2>1. ASSUME NEW k \in 0..Len(Group(c)), NEW d \in Daemons, Run(c, k, d)
        PROVE  \A i \in Ops : ran'[c][i] = ran[c][i] \/ (InGroup(c, i) /\ ran'[c][i] # <<>>)
    <3>1. \A i \in Ops : ran[c][i] \in Seq(Daemons)
      BY DEF TypeOK
    <3>2. \A i \in Ops : Append(ran[c][i], d) # <<>>
      BY <3>1
    <3> QED
      BY <2>1, <3>2, RunAppends
  <2>2. Len(Group(c)) \in {1, 2}
    BY GroupIs
  <2>3. CASE TmuxRuns(c)
    <3>1. daemon \in Daemons
      BY <2>3, DispatchAssumption DEF TmuxRuns, TypeOK, Daemons
    <3>2. \E k \in 0..Len(Group(c)) : Run(c, k, daemon)
      BY <2>2, <2>3 DEF TmuxRuns, Executes
    <3> QED
      BY <2>1, <3>1, <3>2
  <2>4. CASE TmuxStarts(c)
    <3>1. born + 1 \in Daemons
      BY <2>4, DispatchAssumption DEF TmuxStarts, TypeOK, Daemons
    <3>2. \E k \in 0..Len(Group(c)) : Run(c, k, born + 1)
      BY <2>2, <2>4 DEF TmuxStarts, Executes
    <3> QED
      BY <2>1, <3>1, <3>2
  <2>5. CASE TmuxRefuses(c) \/ NobodyThere(c) \/ NeverRuns(c)
    BY <2>5 DEF TmuxRefuses, NobodyThere, NeverRuns
  <2> QED
    BY <2>3, <2>4, <2>5 DEF TmuxStep
<1>5. Group(c)' = Group(c) /\ \A i \in Ops : InGroup(c, i)' <=> InGroup(c, i)
  BY <1>1 DEF InGroup, Group
<1>6. /\ client'[c] = "exited" => answer'[c] # "none"
      /\ answer'[c] = "noID" => shape[c] = "make"
  BY <1>2 DEF TmuxStep, TmuxRuns, Executes, TmuxRefuses, NobodyThere, TmuxStarts, NeverRuns, Answers,
     Reported
<1>7. client'[c] = "exited" /\ answer'[c] = "refused" /\ Len(Group(c)) = 1 => ran'[c][at[c]] = <<>>
  <2> SUFFICES ASSUME client'[c] = "exited", answer'[c] = "refused", Len(Group(c)) = 1
               PROVE  ran'[c][at[c]] = <<>>
    OBVIOUS
  <2>1. Run(c, 0, daemon) \/ Run(c, 0, born + 1)
    BY <1>2 DEF TmuxStep, TmuxRuns, Executes, TmuxRefuses, NobodyThere, TmuxStarts, NeverRuns, Answers
  <2>2. at[c] \in Ops /\ InGroup(c, at[c])
    BY GroupIs, InGroupIs
  <2>3. ran[c][at[c]] = <<>>
    BY <1>3, <2>2 DEF Turns, Pending, Ops
  <2>4. ran'[c][at[c]] = ran[c][at[c]]
    BY <2>1, <2>2 DEF Run, TypeOK
  <2> QED
    BY <2>3, <2>4
<1>8. Reported(c)'
  BY <1>1, <1>3, <1>4, <1>5, <1>6, <1>7 DEF Reported
<1>9. Truthful(c)'
  <2> SUFFICES ASSUME pc[c] = "done", NEW i \in Ops
               PROVE  /\ status[c][i] = "skipped" => ran'[c][i] = <<>>
                      /\ status[c][i] = "failed" => ran'[c][i] = <<>>
    BY <1>1 DEF Truthful
  <2>1. CASE InGroup(c, i)
    BY <1>3, <2>1 DEF Reported
  <2>2. CASE ~InGroup(c, i) /\ i >= at[c]
    <3>1. ran[c][i] = <<>>
      BY <2>2 DEF Turns
    <3> QED
      BY <1>4, <2>2, <3>1
  <2>3. CASE i < at[c]
    BY <2>3 DEF Reported
  <2> QED
    BY <2>1, <2>2, <2>3, Order
<1> QED
  BY <1>8, <1>9

LEMMA FreshOfCaller ==
    ASSUME TypeOK, NEW c \in Callers, CallerStep(c), Clients(c), Reported(c), Fresh(c)
    PROVE  Fresh(c)' /\ Hidden(c)'
<1>1. UNCHANGED <<daemonVars, handle>>
  BY CallerType
<1>2. daemon' = daemon /\ bound' = bound /\ shape' = shape
  BY <1>1 DEF daemonVars, handle
<1>3. /\ pc \in [Callers -> {"idle", "check", "remember", "run", "running", "done"}]
      /\ client \in [Callers -> {"none", "out", "exited", "killed"}]
      /\ answer \in [Callers -> Exits \cup {"none"}]
      /\ told \in [Callers -> {"nothing", "ok", "exit", "version", "notSent", "unknown", "plain",
                               "replaced"}]
      /\ cached \in [Callers -> BOOLEAN] /\ target \in [Callers -> 0..born]
      /\ changed \in [Callers -> BOOLEAN] /\ record \in 0..born
  BY DEF TypeOK
<1>4. ASSUME NEW e \in {"ok", "version", "notSent"}, Refused(c, e)
      PROVE  Fresh(c)' /\ Hidden(c)'
  BY <1>3, <1>4 DEF Refused, Ends, GoTo, Fresh, Hidden
<1>5. ASSUME NEW d \in 0..born, NEW b \in BOOLEAN, NEW p \in {"remember", "run"}, Checked(c, d, b, p),
             changed' = changed,
             bound[c] = 0 /\ ~b => d = daemon, b => shape[c] \notin {"kill", "stream"}
      PROVE  Fresh(c)' /\ Hidden(c)'
  <2>1. target'[c] = d /\ cached'[c] = b /\ pc'[c] = p
    BY <1>3, <1>5 DEF Checked, GoTo
  <2> QED
    BY <1>2, <1>5, <2>1 DEF Fresh, Hidden
<1>6. CASE CheckBound(c)
  <2>1. /\ bound[c] # 0 /\ changed' = changed
        /\ Checked(c, bound[c], FALSE, "run") \/ Refused(c, "version")
    BY <1>6 DEF CheckBound
  <2>2. bound[c] \in 0..born
    BY DEF TypeOK
  <2> QED
    BY <1>4, <1>5, <2>1, <2>2
<1>7. CASE UseRecord(c)
  <2>1. /\ shape[c] \notin {"kill", "stream"} /\ changed' = changed
        /\ Checked(c, record, TRUE, "run") \/ Refused(c, "version")
    BY <1>7 DEF UseRecord, Reuses
  <2> QED
    BY <1>3, <1>4, <1>5, <2>1
<1>8. CASE Probe(c)
  <2>1. /\ changed' = changed
        /\ \/ Checked(c, daemon, FALSE, IF daemon = 0 THEN "run" ELSE "remember")
           \/ Refused(c, "ok")
           \/ Refused(c, "version")
    BY <1>8 DEF Probe
  <2>2. (IF daemon = 0 THEN "run" ELSE "remember") \in {"remember", "run"} /\ daemon \in 0..born
    BY DEF TypeOK
  <2> QED
    BY <1>4, <1>5, <2>1, <2>2
<1>9. CASE CheckFails(c)
  BY <1>4, <1>9 DEF CheckFails
<1>10. CASE Begin(c) \/ Retry(c)
  <2>1. pc'[c] = "check"
    BY <1>3, <1>10 DEF Begin, Retry, GoTo
  <2> QED
    BY <2>1 DEF Fresh, Hidden
<1>11. CASE Remember(c)
  <2>1. /\ pc[c] = "remember" /\ pc'[c] = "run"
        /\ UNCHANGED <<cached, target, client, answer, told, changed>>
    BY <1>3, <1>11 DEF Remember, GoTo, check, results
  <2> QED
    BY <1>2, <2>1 DEF Fresh, Hidden
<1>12. CASE StartClient(c)
  <2>1. /\ pc[c] = "run" /\ pc'[c] = "running" /\ client'[c] = "out"
        /\ UNCHANGED <<cached, target, told, changed>>
    BY <1>3, <1>12 DEF StartClient, GoTo, check, results
  <2> QED
    BY <1>2, <2>1 DEF Fresh, Hidden
<1>13. CASE AttributeSuccess(c)
  <2>1. /\ answer[c] = "ok" /\ client[c] = "exited"
        /\ UNCHANGED <<cached, target, client, answer, changed>>
    BY <1>13 DEF AttributeSuccess, check
  <2>2. pc'[c] = "idle" \/ (pc'[c] = "done" /\ told'[c] = "ok")
    BY <1>3, <1>13 DEF AttributeSuccess, GoTo, Ends
  <2> QED
    BY <2>1, <2>2 DEF Fresh, Hidden
<1>14. CASE Unknown(c) \/ PipeStaysOpen(c)
  <2>1. pc'[c] = "done" /\ told'[c] \in {"unknown", "plain"}
    BY <1>3, <1>14 DEF Unknown, PipeStaysOpen, GoTo, Ends
  <2> QED
    BY <2>1 DEF Fresh, Hidden
<1>15. CASE GuardRefuses(c) \/ AttributeFailure(c)
  <2>1. /\ pc[c] = "running" /\ client[c] = "exited" /\ ~Refuted(c) /\ pc'[c] = "done"
        /\ UNCHANGED <<cached, target, client, answer, changed>>
        /\ answer[c] = "replaced" \/ told'[c] # "replaced"
    BY <1>3, <1>15 DEF GuardRefuses, AttributeFailure, GoTo, Ends, check
  <2>2. bound[c] = 0 /\ answer[c] \in {"replaced", "absent"} => changed[c]
    BY <2>1 DEF Fresh, Mistaken, Refuted
  <2> QED
    BY <1>2, <2>1, <2>2 DEF Fresh, Hidden
<1>16. CASE StreamFails(c)
  <2>1. /\ pc[c] = "running" /\ client[c] = "exited" /\ shape[c] = "stream" /\ pc'[c] = "done"
        /\ UNCHANGED <<cached, target, client, answer, changed>>
        /\ (target[c] # 0 /\ daemon # target[c]) \/ told'[c] # "replaced"
    BY <1>3, <1>16 DEF StreamFails, GoTo, Ends, check
  <2>2. ~cached[c]
    BY <2>1 DEF Fresh
  <2>3. bound[c] = 0 /\ (answer[c] = "absent" \/ daemon # target[c]) => changed[c]
    BY <2>1, <2>2 DEF Fresh, Mistaken
  <2> QED
    BY <1>2, <2>1, <2>3 DEF Fresh, Hidden
<1> QED
  BY <1>6, <1>7, <1>8, <1>9, <1>10, <1>11, <1>12, <1>13, <1>14, <1>15, <1>16 DEF CallerStep

\* What tmux answers to a command that was checked against the daemon there.
LEMMA FreshOfClient ==
    ASSUME TypeOK, NEW c \in Callers, TmuxStep(c), Clients(c), Fresh(c), Hidden(c)
    PROVE  Fresh(c)' /\ Hidden(c)'
<1>1. UNCHANGED <<pc, bound, shape, cached, target, told>>
  BY DEF TmuxStep, TmuxRuns, TmuxRefuses, NobodyThere, TmuxStarts, NeverRuns, handle, check, results
<1>2. /\ client \in [Callers -> {"none", "out", "exited", "killed"}]
      /\ answer \in [Callers -> Exits \cup {"none"}] /\ changed \in [Callers -> BOOLEAN]
  BY DEF TypeOK
<1>3. client[c] = "out" /\ client'[c] \in {"exited", "killed"} /\ pc[c] \in {"running", "done"}
  BY <1>2 DEF TmuxStep, TmuxRuns, Executes, TmuxRefuses, NobodyThere, TmuxStarts, NeverRuns, Answers,
     Clients
<1>4. (daemon' = daemon /\ changed' = changed) \/ changed'[c]
  BY DEF TmuxStep, TmuxRuns, Executes, TmuxRefuses, NobodyThere, TmuxStarts, NeverRuns, Changed,
     daemonVars
<1>5. client'[c] = "exited" /\ Mistaken(c)' =>
        (daemon' = daemon /\ changed' = changed /\ daemon # target[c]) \/ changed'[c]
  <2>1. CASE TmuxRuns(c) \/ TmuxStarts(c)
    <3>1. answer'[c] \in {"ok", "noID", "refused", "died"}
      BY <1>2, <2>1 DEF TmuxRuns, Executes, TmuxStarts, Answers
    <3> QED
      BY <3>1 DEF Mistaken
  <2>2. CASE TmuxRefuses(c)
    <3>1. daemon' = daemon /\ changed' = changed /\ daemon # 0 /\ ~Admits(c, daemon)
      BY <2>2 DEF TmuxRefuses, daemonVars
    <3> QED
      BY <3>1 DEF Admits
  <2>3. CASE NobodyThere(c)
    BY <2>3 DEF NobodyThere, daemonVars
  <2>4. CASE NeverRuns(c)
    BY <1>2, <2>4 DEF NeverRuns
  <2> QED
    BY <2>1, <2>2, <2>3, <2>4 DEF TmuxStep
<1>6. Fresh(c)'
  BY <1>1, <1>3, <1>4, <1>5 DEF Fresh
<1>7. Hidden(c)'
  BY <1>1, <1>3, <1>4 DEF Hidden, Fresh
<1> QED
  BY <1>6, <1>7

\* The daemon, and the steps of others, say nothing to a caller.
LEMMA SaidKept ==
    ASSUME TypeOK, NEW b \in Callers, Reported(b), Truthful(b), Fresh(b), Hidden(b),
           pc'[b] = pc[b], at'[b] = at[b], client'[b] = client[b], answer'[b] = answer[b],
           target'[b] = target[b], cached'[b] = cached[b], ran'[b] = ran[b],
           status'[b] = status[b], told'[b] = told[b], UNCHANGED handle,
           (daemon' = daemon /\ changed'[b] = changed[b]) \/ changed'[b]
    PROVE  Reported(b)' /\ Truthful(b)' /\ Fresh(b)' /\ Hidden(b)'
<1>1. /\ Group(b)' = Group(b) /\ \A i \in Ops : InGroup(b, i)' <=> InGroup(b, i)
      /\ bound' = bound /\ shape' = shape
  BY DEF InGroup, Group, handle
<1>2. Reported(b)' /\ Truthful(b)'
  BY <1>1 DEF Reported, Truthful
<1>3. Fresh(b)' /\ Hidden(b)'
  BY <1>1 DEF Fresh, Hidden, Mistaken
<1> QED
  BY <1>2, <1>3

LEMMA SaidOfOthers ==
    ASSUME TypeOK, NEW c \in Callers, NEW b \in Callers, b # c, CallerStep(c) \/ TmuxStep(c)
    PROVE  /\ cached'[b] = cached[b] /\ status'[b] = status[b] /\ told'[b] = told[b]
           /\ (daemon' = daemon /\ changed'[b] = changed[b]) \/ changed'[b]
<1>1. CASE CallerStep(c)
  <2>1. cached'[b] = cached[b] /\ told'[b] = told[b]
    BY <1>1 DEF TypeOK, CallerStep, Begin, CheckBound, UseRecord, Probe, CheckFails, Remember,
       StartClient, Retry, Unknown, PipeStaysOpen, GuardRefuses, StreamFails, AttributeFailure,
       AttributeSuccess, Refused, Checked, Ends, check, results
  <2>2. daemon' = daemon /\ changed'[b] = changed[b]
    BY <1>1 DEF TypeOK, CallerStep, Begin, CheckBound, UseRecord, Probe, CheckFails, Remember,
       StartClient, Retry, Unknown, PipeStaysOpen, GuardRefuses, StreamFails, AttributeFailure,
       AttributeSuccess, daemonVars
  <2>3. status' = status \/ \E what \in Statuses : Marked(c, what)
    BY <1>1 DEF CallerStep, Begin, CheckBound, UseRecord, Probe, CheckFails, Remember,
       StartClient, Retry, Unknown, PipeStaysOpen, GuardRefuses, StreamFails, AttributeFailure,
       AttributeSuccess, Statuses, results
  <2> QED
    BY <2>1, <2>2, <2>3, MarkedIs
<1>2. CASE TmuxStep(c)
  <2>1. UNCHANGED <<cached, status, told>>
    BY <1>2 DEF TmuxStep, TmuxRuns, TmuxRefuses, NobodyThere, TmuxStarts, NeverRuns, check, results
  <2>2. (daemon' = daemon /\ changed' = changed) \/ changed'[b]
    BY <1>2 DEF TmuxStep, TmuxRuns, Executes, TmuxRefuses, NobodyThere, TmuxStarts, NeverRuns, Changed,
       daemonVars
  <2> QED
    BY <2>1, <2>2
<1> QED
  BY <1>1, <1>2

LEMMA ReportInit == Init => ReportInv
<1> SUFFICES ASSUME Init, NEW c \in Callers PROVE Reported(c) /\ Truthful(c) /\ Fresh(c) /\ Hidden(c)
  BY DEF ReportInv
<1>1. /\ pc[c] = "idle" /\ client[c] = "none" /\ at[c] = 1 /\ answer[c] = "none"
      /\ \A i \in Ops : status[c][i] = "skipped"
  BY DEF Init
<1>2. \A i \in Ops : ~(i < at[c])
  BY <1>1 DEF Ops
<1> QED
  BY <1>1, <1>2 DEF Reported, Truthful, Fresh, Hidden

LEMMA ReportStep == DispatchInv /\ ReportInv /\ [Next]_vars => ReportInv'
<1> SUFFICES ASSUME DispatchInv, ReportInv, [Next]_vars, NEW b \in Callers
             PROVE  Reported(b)' /\ Truthful(b)' /\ Fresh(b)' /\ Hidden(b)'
  BY DEF ReportInv
<1>1. TypeOK /\ Kept /\ Clients(b) /\ Turns(b)
  BY TypeStep DEF DispatchInv
<1>2. Reported(b) /\ Truthful(b) /\ Fresh(b) /\ Hidden(b) /\ UNCHANGED handle
  BY <1>1 DEF ReportInv, Kept
<1>3. CASE UNCHANGED vars
  BY <1>1, <1>2, <1>3, SaidKept DEF vars, daemonVars, check, results
<1>4. CASE DaemonDies \/ DaemonStarts
  <2>1. changed'[b] /\ UNCHANGED <<pc, at, client, answer, target, cached, ran, status, told>>
    BY <1>4 DEF DaemonDies, DaemonStarts, Changed, check, results
  <2> QED
    BY <1>1, <1>2, <2>1, SaidKept
<1>5. ASSUME NEW c \in Callers, CallerStep(c) \/ TmuxStep(c)
      PROVE  Reported(b)' /\ Truthful(b)' /\ Fresh(b)' /\ Hidden(b)'
  <2>1. CASE b # c
    <3>1. /\ pc'[b] = pc[b] /\ at'[b] = at[b] /\ client'[b] = client[b] /\ answer'[b] = answer[b]
          /\ target'[b] = target[b] /\ ran'[b] = ran[b]
      BY <1>1, <1>5, <2>1, TurnsOfOthers
    <3>2. /\ cached'[b] = cached[b] /\ status'[b] = status[b] /\ told'[b] = told[b]
          /\ (daemon' = daemon /\ changed'[b] = changed[b]) \/ changed'[b]
      BY <1>1, <1>5, <2>1, SaidOfOthers
    <3> QED
      BY <1>1, <1>2, <3>1, <3>2, SaidKept
  <2>2. CASE b = c /\ CallerStep(c)
    BY <1>1, <1>2, <2>2, ReportOfCaller, FreshOfCaller
  <2>3. CASE b = c /\ TmuxStep(c)
    BY <1>1, <1>2, <2>3, ReportOfClient, FreshOfClient
  <2> QED
    BY <1>5, <2>1, <2>2, <2>3
<1> QED
  BY <1>3, <1>4, <1>5 DEF Next

LEMMA ReportInvariant == Spec => []ReportInv
  BY DispatchInvariant, ReportInit, ReportStep, PTL DEF Spec

\* PlanResult.Ops, as Plan.RunWith fills it in: whatever daemon came or went,
\* and whenever the client of a canceled call runs, an operation called complete
\* has run and one called skipped or failed has not, the three exceptions aside.
THEOREM ResultIsTrue == Spec => []ReportIsTrue
<1>1. DispatchInv /\ ReportInv => ReportIsTrue
  BY DEF DispatchInv, ReportInv, ReportIsTrue, Reported, Truthful
<1> QED
  BY <1>1, DispatchInvariant, ReportInvariant, PTL

\* What runCommand retries hides a stale record of any age, whoever wrote it: an
\* unbound call fails with ErrDaemonReplaced, or finds nobody there, only if a
\* daemon came or went after it had begun.
THEOREM RecordNeverShows == Spec => []StaleRecordIsHidden
<1>1. ReportInv => StaleRecordIsHidden
  BY DEF ReportInv, StaleRecordIsHidden, Hidden
<1> QED
  BY <1>1, ReportInvariant, PTL
=============================================================================
