---------------------------- MODULE SwapTransaction ----------------------------
(***************************************************************************)
(* mcp-swap: use and revert of an MCP server's entry in the configurations *)
(* of its clients, as a transaction over several files.  A file is taken   *)
(* aside by a rename before its successor is linked in its place; backups  *)
(* and the ledger are published before the configurations, and removed     *)
(* after them.  A failure unwinds what was done; a crash leaves it.        *)
(*                                                                         *)
(* A client may write its own configuration at any moment.  The lock is    *)
(* assumed: there is one transaction at a time, and the kernel frees the   *)
(* lock of a process that crashed.  A node is a file's inode, a path a     *)
(* name of it; temporary and held files have names nobody else knows.      *)
(***************************************************************************)
EXTENDS SequencesExt

CONSTANTS
    Layers,       \* a client's entry in one scope
    Configs,      \* configuration files
    Places,       \* which configuration a layer is in: functions
    Processes,    \* the process that each run may write, from 1; 0 is the client's own entry
    MaxEvents     \* bound: runs, edits, failures and crashes in a behaviour

ASSUME SwapAssumption ==
    /\ Places \subseteq [Layers -> Configs]
    /\ MaxEvents \in Nat
    /\ Processes \in [1..MaxEvents -> Nat \ {0}]

State        == <<"state">>
Config(c)    == <<"config", c>>
Backup(c, n) == <<"backup", c, n>>

Paths == {State} \cup {Config(c) : c \in Configs} \cup {Backup(c, n) : c \in Configs, n \in 0..MaxEvents}

VARIABLES
    place,                  \* which layer is where
    at, data, temps, held,  \* the files: node at a path (0: none), contents, other names
    pc, ops, i, aside,      \* the transaction
    last,                   \* how the one before ended
    edits, seen,            \* changes of a client so far, and files that it may have read
    runs, events,           \* transactions; edits, failures and crashes
    before, calm, alone,    \* history: the files before it; other events in it, and ever
    astray, crashed         \* history: a file moved by mistake or unread was left; a crash

files   == <<at, data, temps, held>>
tx      == <<pc, ops, i, aside>>
history == <<before, calm, alone, astray, crashed>>
vars == <<place, files, tx, last, edits, seen, runs, events, history>>

\* A configuration holds what the client wrote, as a version, and entries.
Init ==
    /\ place \in Places
    /\ LET cs == SetToSeq(Configs) IN
         /\ data = [n \in DOMAIN cs |-> [of |-> cs[n], base |-> 0, entry |-> [l \in Layers |-> 0]]]
         /\ at = [p \in Paths |-> IF \E n \in DOMAIN cs : p = Config(cs[n])
                                  THEN CHOOSE n \in DOMAIN cs : p = Config(cs[n]) ELSE 0]
    /\ temps = {} /\ held = {}
    /\ pc = "idle" /\ ops = <<>> /\ i = 0 /\ aside = 0 /\ last = "none"
    /\ edits = [c \in Configs |-> 0] /\ seen = DOMAIN data
    /\ runs = 0 /\ events = 0
    /\ before = <<at, temps, held>> /\ calm = "yes" /\ alone = TRUE
    /\ astray = FALSE /\ crashed = FALSE

------------------------------------------------------------------------------
(* What a transaction reads.                                               *)

Where(s, e) == CHOOSE j \in DOMAIN s : s[j] = e

\* A file as the ledger remembers it: nativeFileIdentity.
Id(n, contents) == [node |-> n, is |-> contents]

Matches(p, id) == at[p] = id.node /\ data[id.node] = id.is

\* A file with one link.
Single(n) == n \notin temps \cup held

LedgerReadable == at[State] = 0 \/ Single(at[State])

NoLedger == [of |-> "state", next |-> 0, book |-> <<>>]

Ledger == IF at[State] = 0 THEN NoLedger ELSE data[at[State]]
Book   == Ledger.book

Known(l) == l \in DOMAIN Book

Target(l)  == Config(place[l])
Current(l) == data[at[Target(l)]]

With(contents, l, spec) == [contents EXCEPT !.entry[l] = spec]

\* readNativeBackup.
BackupIntact(l) ==
    Matches(Backup(place[l], Book[l].seq), Book[l].backup) /\ Single(Book[l].backup.node)

ArtifactsIntact == LedgerReadable /\ \A l \in DOMAIN Book : BackupIntact(l)

\* Layers of the ledger above l in its file, the lowest first.
Newer(l) ==
    SetToSortSeq({k \in DOMAIN Book : place[k] = place[l] /\ Book[k].seq > Book[l].seq},
                 LAMBDA j, k : Book[j].seq < Book[k].seq)

Newest(l) == IF Newer(l) = <<>> THEN l ELSE Last(Newer(l))

\* managedEntryIntact: contents still hold the process recorded for l.
Managed(contents, l) == contents.entry[l] = Book[l].spec

Op(path, prior, was, new, made) ==
    [path |-> path, prior |-> prior, was |-> was, new |-> new, made |-> made,
     held |-> 0, published |-> FALSE]

Replace(path, new, made) == Op(path, at[path], IF at[path] = 0 THEN <<>> ELSE data[at[path]], new, made)
Delete(path, id)         == Op(path, id.node, id.is, 0, <<>>)

------------------------------------------------------------------------------
(* planNativeUse and stageNativeUse, for layers ls of different files.     *)

Fresh(ls) == SelectSeq(ls, LAMBDA l : ~Known(l))

\* The sequence of a layer, in the ledger or new.
Sequence(ls, l) == IF Known(l) THEN Book[l].seq ELSE Ledger.next + Where(Fresh(ls), l) - 1

UsePossible(ls) ==
    /\ ArtifactsIntact
    /\ \A l \in ToSet(ls) :
         /\ at[Target(l)] # 0
         /\ IF Known(l) THEN Managed(Current(l), l) ELSE at[Backup(place[l], Sequence(ls, l))] = 0

\* planNativeBackupRewrites: the layers whose backups contain l's entry.
Rewrites(l) == Newer(l)

Drifted(l) == ~Matches(Target(l), Book[Newest(l)].expected)

\* Mutant: what was written last is expected, with what the client changed.
ExpectedIsWritten(l, spec, written) == written

(* The file for which l's own backup may be put back whole: not the one    *)
(* just written, if the client has changed it, nor if another layer's      *)
(* backup comes before.                                                    *)
Expected(l, spec, written) ==
    IF ~Known(l) \/ (Newer(l) = <<>> /\ ~Drifted(l))
    THEN written
    ELSE IF Rewrites(l) # <<>> /\ Book[l].expected.is = Book[Rewrites(l)[1]].backup.is
         THEN [Book[l].expected EXCEPT !.is = With(@, l, spec)]
         ELSE Book[l].expected

\* The layers whose backups are written: new ones, and those above another.
Rewritten(ls) == FlattenSeq([j \in DOMAIN ls |-> IF Known(ls[j]) THEN Rewrites(ls[j]) ELSE <<ls[j]>>])

Staged(ls, spec) ==
    LET kept  == Rewritten(ls)
        under(k)   == CHOOSE l \in ToSet(ls) : place[l] = place[k]
        backup(k)  == Id(Len(data) + Where(kept, k),
                         IF Known(k) THEN With(Book[k].backup.is, under(k), spec) ELSE Current(k))
        written(l) == Id(Len(data) + Len(kept) + 1 + Where(ls, l), With(Current(l), l, spec))
        target(l)  ==
          [seq |-> Sequence(ls, l), spec |-> spec,
           backup |-> IF Known(l) THEN Book[l].backup ELSE backup(l),
           expected |-> Expected(l, spec, written(l))]
        above(k)   ==
          [Book[k] EXCEPT !.backup = IF Contains(kept, k) THEN backup(k) ELSE @,
                          !.expected = IF k = Newest(k) /\ ~Drifted(k) THEN written(under(k)) ELSE @]
        book == [k \in DOMAIN Book \cup ToSet(ls) |->
                   IF Contains(ls, k) THEN target(k)
                   ELSE IF \E l \in ToSet(ls) : Known(l) /\ Contains(Newer(l), k) THEN above(k) ELSE Book[k]]
        next == Ledger.next + Len(Fresh(ls))
        replace(p, id) == Replace(p, id.node, id.is)
    IN [backups |-> [j \in DOMAIN kept |-> replace(Backup(place[kept[j]], Sequence(ls, kept[j])), backup(kept[j]))],
        state   |-> <<Replace(State, Len(data) + Len(kept) + 1, [of |-> "state", next |-> next, book |-> book])>>,
        configs |-> [j \in DOMAIN ls |-> replace(Target(ls[j]), written(ls[j]))]]

\* Mutant: the configurations are published before what undoes them.
UseOpsConfigsFirst(ls, spec) ==
    LET s == Staged(ls, spec) IN s.configs \o s.backups \o s.state

UseOps(ls, spec) ==
    LET s == Staged(ls, spec) IN s.backups \o s.state \o s.configs

------------------------------------------------------------------------------
(* planNativeRevert and stageNativeRevert.                                 *)

\* The layers of a revert, the newest first.
Downwards(layers) == SetToSortSeq(layers, LAMBDA j, k : Book[j].seq > Book[k].seq)

\* The step of a revert that leaves the file of step j as step j finds it, or 0.
Previous(ls, j) == Max({0} \cup {k \in 1..j - 1 : place[ls[k]] = place[ls[j]]})

Found(ls, restored, j) ==
    IF Previous(ls, j) = 0 THEN Current(ls[j]) ELSE restored[Previous(ls, j)]

IsExact(ls, restored, j) ==
    IF Previous(ls, j) = 0
    THEN Matches(Target(ls[j]), Book[ls[j]].expected)
    ELSE Book[ls[j]].expected.is = restored[Previous(ls, j)]

\* The whole backup, or the layer's entry alone (restoreEntryChange).
Restored(ls) ==
    LET r[j \in DOMAIN ls] ==
          LET saved == Book[ls[j]].backup.is IN
          IF IsExact(ls, r, j) THEN saved
          ELSE With(Found(ls, r, j), ls[j], saved.entry[ls[j]])
    IN r

RevertPossible(layers) ==
    /\ ArtifactsIntact
    /\ layers # {} /\ layers \subseteq DOMAIN Book
    /\ \A l \in layers : at[Target(l)] # 0 /\ ToSet(Newer(l)) \subseteq layers
    /\ LET ls == Downwards(layers)  r == Restored(ls) IN
         \A j \in DOMAIN ls : IsExact(ls, r, j) \/ Managed(Found(ls, r, j), ls[j])

\* What a layer that stays may be restored for, after each step of the revert.
Inherited(k, ls, r) ==
    LET below(j) == {b \in DOMAIN Book \ ToSet(ls) : place[b] = place[ls[j]] /\ Book[b].seq < Book[ls[j]].seq}
        heir(j)  == k \in below(j) /\ \A b \in below(j) : Book[b].seq <= Book[k].seq
    IN FoldLeftDomain(LAMBDA expected, j :
                        IF heir(j) /\ expected.is = r[j] THEN Id(Len(data) + j, r[j]) ELSE expected,
                      Book[k].expected, ls)

RevertOps(layers) ==
    LET ls == Downwards(layers)  r == Restored(ls)
        book == [k \in DOMAIN Book \ layers |-> [Book[k] EXCEPT !.expected = Inherited(k, ls, r)]]
        config(j) ==
          Op(Target(ls[j]),
             IF Previous(ls, j) = 0 THEN at[Target(ls[j])] ELSE Len(data) + Previous(ls, j),
             Found(ls, r, j), Len(data) + j, r[j])
        state ==
          IF DOMAIN book = {} THEN Delete(State, Id(at[State], Ledger))
          ELSE Replace(State, Len(data) + Len(ls) + 1, [Ledger EXCEPT !.book = book])
    IN [j \in DOMAIN ls |-> config(j)] \o <<state>>
       \o [j \in DOMAIN ls |-> Delete(Backup(place[ls[j]], Book[ls[j]].seq), Book[ls[j]].backup)]

------------------------------------------------------------------------------
(* The transaction, runNativeOperations.                                   *)

Begins(operations) ==
    /\ pc = "idle" /\ runs + events < MaxEvents
    /\ runs' = runs + 1
    /\ ops' = operations
    /\ LET staged  == {o \in ToSet(operations) : o.new # 0}
           made(n) == (CHOOSE o \in staged : o.new = n).made
       IN /\ data' = data \o [k \in 1..Cardinality(staged) |-> made(Len(data) + k)]
          /\ temps' = temps \cup {o.new : o \in staged}
    /\ pc' = "check" /\ i' = 1 /\ calm' = "yes"
    /\ before' = <<at, temps, held>>
    /\ UNCHANGED <<place, at, held, aside, last, edits, seen, events, alone, astray, crashed>>

(* A file cannot be staged, or the ledger not be encoded.  What was staged  *)
(* goes, save what is left: of a use, the configurations staged so far.     *)
StagingFails(left) ==
    /\ pc = "idle" /\ runs + events + 1 < MaxEvents
    /\ runs' = runs + 1 /\ events' = events + 1
    /\ data' = data \o [k \in DOMAIN left |-> left[k].made]
    /\ temps' = temps \cup {Len(data) + k : k \in DOMAIN left}
    /\ last' = "undone" /\ calm' = "unstaged"
    /\ before' = <<at, temps, held>>
    /\ UNCHANGED <<place, at, held, tx, edits, seen, alone, astray, crashed>>

Use == \E layers \in SUBSET Layers \ {{}} :
    LET ls == SetToSeq(layers)  spec == Processes[runs + 1] IN
    /\ \A j, k \in layers : place[j] = place[k] => j = k
    /\ UsePossible(ls)
    /\ \/ Begins(UseOps(ls, spec))
       \/ \E n \in 0..Len(ls) : StagingFails(SubSeq(Staged(ls, spec).configs, 1, n))

Revert == \E layers \in SUBSET Layers :
    RevertPossible(layers) /\ (Begins(RevertOps(layers)) \/ StagingFails(<<>>))

op == ops[i]

Another == runs + events < MaxEvents /\ events' = events + 1

Apart == UNCHANGED <<place, last, edits, runs, before, crashed>>
Rest  == Apart /\ UNCHANGED <<seen, astray>>

(* A file operation fails.  What the first failure of a transaction was is  *)
(* remembered, a second one is too many to promise anything.                *)
FaultAs(failure) ==
    /\ Another
    /\ calm' = IF calm = "yes" THEN failure ELSE "no"
    /\ alone' = (alone /\ calm = "yes")

Fault == FaultAs("failed")

NoFault == UNCHANGED <<events, calm, alone>>

SameFiles == UNCHANGED files

GoTo(there) == pc' = there /\ UNCHANGED <<ops, i, aside>>

\* Mutant: the operation that failed is not unwound itself.
AbortBelow ==
    IF i > 1 THEN pc' = "rollback" /\ i' = i - 1 /\ UNCHANGED <<ops, aside>>
    ELSE pc' = "cleanup" /\ UNCHANGED <<ops, i, aside>>

\* From the failed operation down.
Abort == pc' = "rollback" /\ UNCHANGED <<ops, i, aside>>

Advance ==
    IF i < Len(ops)
    THEN pc' = "check" /\ i' = i + 1
    ELSE pc' = "verify" /\ UNCHANGED i

Down == IF i > 1 THEN pc' = "rollback" /\ i' = i - 1 ELSE pc' = "cleanup" /\ i' = 0

PriorThere == IF op.prior = 0 THEN at[op.path] = 0 ELSE Matches(op.path, Id(op.prior, op.was))
NewThere   == Matches(op.path, Id(op.new, op.made))

\* The beginning of commit.
Check ==
    /\ pc = "check"
    /\ \/ PriorThere /\ NoFault /\ GoTo(IF op.prior = 0 THEN "link" ELSE "rename")
       \/ ~PriorThere /\ NoFault /\ Abort
       \/ Fault /\ Abort
    /\ SameFiles /\ Rest

\* fileJournal.take, in a commit and in a rollback: the file is moved first
\* and looked at afterwards.
Rename(from, to, otherwise) ==
    /\ pc = from
    /\ \/ /\ at[op.path] # 0
          /\ aside' = at[op.path]
          /\ at' = [at EXCEPT ![op.path] = 0]
          /\ held' = held \cup {at[op.path]}
          /\ pc' = to /\ NoFault
       \/ Fault /\ pc' = otherwise /\ UNCHANGED <<at, held, aside>>
    /\ UNCHANGED <<ops, i, data, temps>> /\ Rest

TakeAside == Rename("rename", "judge", "rollback")
TakeBack  == Rename("unpublish", "unjudge", "restore")

\* restore: by a link, which never replaces a file.  What cannot be put back
\* is retained, and may be so although the link was made.
PutBack(n) ==
    \/ /\ NoFault
       /\ IF at[op.path] = 0
          THEN at' = [at EXCEPT ![op.path] = n] /\ held' = held \ {n}
          ELSE UNCHANGED <<at, held>>
    \/ /\ Fault
       /\ UNCHANGED held
       /\ \/ UNCHANGED at
          \/ at[op.path] = 0 /\ at' = [at EXCEPT ![op.path] = n]

KeepAside ==
    /\ pc = "judge" /\ aside = op.prior /\ data[aside] = op.was
    /\ ops' = [ops EXCEPT ![i].held = aside]
    /\ aside' = 0
    /\ IF op.new # 0 THEN pc' = "link" /\ UNCHANGED i ELSE Advance
    /\ NoFault /\ SameFiles /\ Rest

\* Another file, or the directory cannot be synchronised.
RejectAside ==
    /\ pc = "judge"
    /\ IF aside = op.prior /\ data[aside] = op.was THEN Fault ELSE NoFault
    /\ pc' = "putback" /\ UNCHANGED <<ops, i, aside>>
    /\ SameFiles /\ Rest

\* What was moved cannot be read: it stays where it is, and take, which has
\* not recorded the move, tells nobody to put it back.
LeaveAside ==
    /\ pc = "judge"
    /\ FaultAs("moved") /\ astray' = TRUE
    /\ pc' = "rollback" /\ aside' = 0 /\ UNCHANGED <<ops, i>>
    /\ SameFiles /\ Apart /\ UNCHANGED seen

\* The restore of take itself, in a commit and in a rollback.
RestoreAside ==
    /\ pc = "putback"
    /\ PutBack(aside)
    /\ aside' = 0
    /\ astray' = (astray \/ events' # events)
    /\ pc' = IF op.published THEN "restore" ELSE "rollback"
    /\ UNCHANGED <<ops, i, data, temps, seen>> /\ Apart

\* Mutant: the new file is renamed over whatever is there.
PublishOver ==
    /\ pc = "link"
    /\ at' = [at EXCEPT ![op.path] = op.new]
    /\ ops' = [ops EXCEPT ![i].published = TRUE]
    /\ pc' = "confirm" /\ NoFault
    /\ UNCHANGED <<i, aside, data, temps, held>> /\ Rest

Publish ==
    /\ pc = "link"
    /\ IF at[op.path] = 0
       THEN /\ at' = [at EXCEPT ![op.path] = op.new]
            /\ ops' = [ops EXCEPT ![i].published = TRUE]
            /\ seen' = seen \cup {op.new : c \in {d \in Configs : op.path = Config(d)}}
            /\ pc' = "confirm" /\ UNCHANGED <<i, aside>>
       ELSE Abort /\ UNCHANGED <<at, seen>>
    /\ NoFault
    /\ UNCHANGED <<data, temps, held, astray>> /\ Apart

PublishFails ==
    /\ pc = "link"
    /\ Fault /\ Abort /\ SameFiles /\ Rest

Confirm ==
    /\ pc = "confirm"
    /\ \/ NewThere /\ NoFault /\ Advance /\ UNCHANGED <<ops, aside>>
       \/ ~NewThere /\ NoFault /\ Abort
       \/ Fault /\ Abort
    /\ SameFiles /\ Rest

\* verify looks at the last operation on each path.
Verified ==
    \A j \in DOMAIN ops :
        \/ \E k \in j + 1..Len(ops) : ops[k].path = ops[j].path
        \/ IF ops[j].new # 0 THEN Matches(ops[j].path, Id(ops[j].new, ops[j].made))
           ELSE at[ops[j].path] = 0

Verify ==
    /\ pc = "verify"
    /\ \/ Verified /\ NoFault /\ pc' = "finish" /\ i' = 1
       \/ ~Verified /\ NoFault /\ pc' = "rollback" /\ UNCHANGED i
       \/ Fault /\ pc' = "rollback" /\ UNCHANGED i
    /\ UNCHANGED <<ops, aside>> /\ SameFiles /\ Rest

------------------------------------------------------------------------------
\* rollback, operation by operation.
Rollback ==
    /\ pc = "rollback"
    /\ \/ NoFault /\ CASE op.published /\ NewThere -> pc' = "unpublish" /\ UNCHANGED i
                       [] op.published /\ ~NewThere -> Down
                       [] OTHER -> pc' = "restore" /\ UNCHANGED i
       \/ Fault /\ op.published /\ Down
    /\ UNCHANGED <<ops, aside>> /\ SameFiles /\ Rest

Discarded ==
    /\ pc = "unjudge" /\ aside = op.new /\ data[aside] = op.made
    /\ \/ /\ held' = held \ {aside}
          /\ ops' = [ops EXCEPT ![i].published = FALSE] /\ aside' = 0
          /\ pc' = "restore" /\ NoFault
       \/ pc' = "putback" /\ Fault /\ UNCHANGED <<ops, aside, held>>
    /\ UNCHANGED <<i, at, data, temps>> /\ Rest

NotDiscarded ==
    /\ pc = "unjudge"
    /\ \/ /\ aside # op.new \/ data[aside] # op.made
          /\ pc' = "putback" /\ NoFault /\ UNCHANGED <<aside, astray>>
       \/ pc' = "restore" /\ Fault /\ aside' = 0 /\ astray' = TRUE
    /\ UNCHANGED <<ops, i, seen>> /\ SameFiles /\ Apart

Restore ==
    /\ pc = "restore"
    /\ IF op.held # 0 THEN PutBack(op.held) ELSE NoFault /\ UNCHANGED <<at, held>>
    /\ Down
    /\ UNCHANGED <<ops, aside, data, temps>> /\ Rest

Ends(how) == pc' = "idle" /\ ops' = <<>> /\ i' = 0 /\ aside' = 0 /\ last' = how

\* cleanupNativeStages: temporary files that are still as they were written.
CleanUp ==
    /\ pc = "cleanup"
    /\ LET own == {ops[j].new : j \in {k \in DOMAIN ops : ops[k].new # 0 /\ data[ops[k].new] = ops[k].made}} IN
         \/ NoFault /\ temps' = temps \ own
         \/ Fault /\ \E n \in own : temps' = temps \ (own \ {n})
    /\ Ends("undone")
    /\ UNCHANGED <<at, data, held, place, edits, seen, runs, before, astray, crashed>>

\* finish: what was taken aside and the temporary file go, each although the
\* other may stay.
Finish ==
    /\ pc = "finish"
    /\ \E kept \in SUBSET ({op.held, op.new} \ {0}) :
         /\ held' = held \ ({op.held} \ kept)
         /\ temps' = temps \ ({op.new} \ kept)
         /\ IF kept = {} THEN NoFault ELSE Fault
         /\ IF kept # {} THEN Ends("unfinished")
            ELSE IF i < Len(ops) THEN i' = i + 1 /\ UNCHANGED <<pc, ops, aside, last>>
            ELSE Ends("done")
    /\ UNCHANGED <<at, data, place, edits, seen, runs, before, astray, crashed>>

\* The process dies; its lock goes with it.
Crash ==
    /\ pc # "idle" /\ Another
    /\ crashed' = TRUE
    /\ Ends("crashed")
    /\ SameFiles /\ UNCHANGED <<place, edits, seen, runs, before, calm, alone, astray>>

------------------------------------------------------------------------------
(* The clients.                                                            *)

Linked == {n \in DOMAIN data : n \in temps \cup held \/ \E p \in Paths : at[p] = n}

Disturbed ==
    /\ calm' = "no"
    /\ alone' = (alone /\ pc = "idle")

Edited(n) == [data[n] EXCEPT !.base = @ + 1]

\* A client writes its configuration in place.
ClientWrites(c) ==
    /\ Another
    /\ at[Config(c)] # 0
    /\ edits' = [edits EXCEPT ![c] = @ + 1]
    /\ data' = [data EXCEPT ![at[Config(c)]] = Edited(at[Config(c)])]
    /\ Disturbed
    /\ UNCHANGED <<place, at, temps, held, tx, last, seen, runs, before, astray, crashed>>

\* Or renames a new file into place, also when it finds none: from what it
\* read last.
ClientReplaces(c) ==
    /\ Another
    /\ \E n \in seen :
         /\ data[n].of = c
         /\ IF at[Config(c)] # 0 THEN n = at[Config(c)] ELSE data[n].base = edits[c]
         /\ data' = Append(data, Edited(n))
    /\ edits' = [edits EXCEPT ![c] = @ + 1]
    /\ at' = [at EXCEPT ![Config(c)] = Len(data')]
    /\ seen' = seen \cup {Len(data')}
    /\ Disturbed
    /\ UNCHANGED <<place, temps, held, tx, last, runs, before, astray, crashed>>

------------------------------------------------------------------------------
Step ==
    \/ Check \/ TakeAside \/ KeepAside \/ RejectAside \/ LeaveAside \/ RestoreAside
    \/ Publish \/ PublishFails \/ Confirm \/ Verify
    \/ Rollback \/ TakeBack \/ Discarded \/ NotDiscarded \/ Restore \/ CleanUp \/ Finish

Next == Use \/ Revert \/ Step \/ Crash \/ \E c \in Configs : ClientWrites(c) \/ ClientReplaces(c)

Spec == Init /\ [][Next]_vars
------------------------------------------------------------------------------
(* Properties.                                                             *)

\* The variables keep their types: every name is a file's, and a file has its
\* place in the sequence.
TypeOK ==
    /\ place \in Places
    /\ at \in [Paths -> 0..Len(data)] /\ temps \cup held \subseteq DOMAIN data
    /\ \A n \in DOMAIN data : data[n].of \in Configs \cup {"state"}
    /\ pc \in {"idle", "check", "rename", "judge", "link", "confirm", "verify", "finish",
               "putback", "rollback", "unpublish", "unjudge", "restore", "cleanup"}
    /\ i \in 0..Len(ops) /\ (pc = "idle" => ops = <<>>) /\ aside \in 0..Len(data)
    /\ last \in {"none", "done", "undone", "unfinished", "crashed"}
    /\ edits \in [Configs -> 0..MaxEvents] /\ seen \subseteq DOMAIN data /\ runs + events \in 0..MaxEvents
    /\ calm \in {"yes", "failed", "moved", "unstaged", "no"}
    /\ alone \in BOOLEAN /\ astray \in BOOLEAN /\ crashed \in BOOLEAN

Has(n, c, l) == data[n].of = c /\ data[n].entry[l] = 0

\* Nothing of a client's is ever lost: at every moment, whatever fails and
\* wherever the process dies, some file on the disk has the client's own entry
\* of each layer, and some file its last change.
NothingLost ==
    /\ \A l \in Layers : \E n \in Linked : Has(n, place[l], l)
    /\ \A c \in Configs : \E n \in Linked : data[n].of = c /\ data[n].base = edits[c]

\* The disk is as a transaction, done or interrupted, may leave it.
FilesOK == TypeOK /\ NothingLost

\* A file in its place or taken aside; an unpublished one does not count.
Kept(n) == n \in held \/ \E p \in Paths : at[p] = n

\* A copy of the ledger that is kept names l and a backup that is kept and has
\* the client's own entry.
Recorded(l) ==
    \E n \in DOMAIN data :
        /\ Kept(n) /\ data[n].of = "state" /\ l \in DOMAIN data[n].book
        /\ Kept(data[n].book[l].backup.node)
        /\ Has(data[n].book[l].backup.node, place[l], l)

\* A configuration has the entry of use only while a ledger says how to undo
\* it: also between any two steps, and after a crash there.
SwapIsRecorded ==
    alone => \A l \in Layers : at[Target(l)] # 0 /\ Current(l).entry[l] # 0 => Recorded(l)

Undone == before = <<at, temps, held>>

\* One file, and that alone, is in a hold directory instead of its place, beside
\* it at most what a revert of several layers had put there meanwhile.
OneAside ==
    \E p \in Paths :
        /\ before[1][p] # 0 /\ at = [before[1] EXCEPT ![p] = 0] /\ temps = before[2]
        /\ before[3] \cup {before[1][p]} \subseteq held
        /\ \A n \in held \ before[3] : data[n].of = data[before[1][p]].of

\* No file has changed; temporary configurations may be left over.
OnlyStagedLeft ==
    /\ at = before[1] /\ held = before[3] /\ before[2] \subseteq temps
    /\ \A n \in temps \ before[2] : data[n].of \in Configs /\ \A p \in Paths : at[p] # n

\* A transaction in which one thing failed and nobody else wrote has changed
\* nothing: not a file, a link or a temporary name is left behind.  Save for two
\* failures, and then no more than this: a file that was moved and cannot be read
\* stays in its hold directory, and a use leaves the configurations it staged.
FailureIsUndone ==
    last = "undone" /\ pc = "idle" =>
        CASE calm = "moved"           -> OneAside
          [] calm = "unstaged"        -> OnlyStagedLeft
          [] calm \in {"yes", "failed"} -> Undone
          [] OTHER                    -> TRUE

Settled == pc = "idle" /\ ~crashed

\* After any sequence of swaps and reverts the client's last change is in its
\* configuration, which is there: a backup is put back whole only when that
\* drops nothing.  A file left in its hold directory may be the client's.
EditsKept ==
    Settled /\ ~astray => \A c \in Configs : at[Config(c)] # 0 => data[at[Config(c)]].base = edits[c]

\* And each entry is what the ledger says was written last, or else the
\* client's own: reverts unwind to what older layers were swapped to meanwhile.
\* What was left in a hold directory may also be the ledger.
LedgerIsTrue ==
    Settled /\ alone /\ ~astray =>
        \A l \in Layers : at[Target(l)] # 0
            /\ Current(l).entry[l] = IF Known(l) THEN Book[l].spec ELSE 0

\* What is in the configurations after a transaction ended is right, for the
\* clients and for the ledger.
ConfigsAreTrue == EditsKept /\ LedgerIsTrue
=============================================================================
