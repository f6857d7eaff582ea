-------------------------- MODULE NotificationQueue --------------------------
(***************************************************************************)
(* The notification path of a ControlClient: the reader goroutine          *)
(* (readStream) appends records to the bounded controlNotificationQueue,   *)
(* callers of NextNotification take them out one call at a time, and close *)
(* discards whatever is left.  The queue's lock makes append, take, finish *)
(* and Close atomic; everything between two of them interleaves.           *)
(*                                                                         *)
(* A record is its wire sequence number and its length in bytes.           *)
(* How its bytes lie in the ring is left out.                              *)
(***************************************************************************)
EXTENDS Integers, Sequences, SequencesExt

CONSTANTS
    Readers,      \* goroutines calling NextNotification
    HeaderSize,   \* controlNotificationHeaderSize, 12 in the code
    Limit,        \* the queue's byte limit
    Lengths,      \* the record lengths tmux sends
    After,        \* reads want records after this sequence number; 0 in
                  \* NextNotification, the boundary in a pane observation
    MaxWire       \* bound: records on the wire

ASSUME QueueAssumption ==
    /\ HeaderSize \in Nat \ {0}
    /\ Limit \in Nat
    /\ Lengths \subseteq Nat
    /\ After \in Nat
    /\ MaxWire \in Nat

VARIABLES
    wireSequence,     \* records and frames parsed so far by readStream
    queue,            \* the records held, oldest first
    finished, err,    \* the end of the stream and why
    closed,           \* Close ran
    ready,            \* the buffered wake-up value is in the channel
    token,            \* the reader token is in its channel
    readAt, readCtxDone, out,
                      \* per reader: where it is, its context, its outcome
    clientCloses,     \* startClose ran
    clientClosing,    \* the closing channel is closed
    streamDone,       \* readStream returned
    accepted,         \* history: sequence numbers append stored
    delivered         \* history: sequence numbers take returned

queueVars  == <<queue, finished, err, closed, ready>>
readVars   == <<token, readAt, readCtxDone, out>>
closeVars  == <<clientCloses, clientClosing>>
history    == <<accepted, delivered>>
notificationVars == <<wireSequence, queueVars, readVars, closeVars, streamDone, history>>

Record == [seq : 1..MaxWire, len : Lengths]

(* The ways a take can end a stream, and the ways a read can return.  "eof" *)
(* is io.EOF inside the package: NextNotification turns it into "closed" or *)
(* "lost" before the caller sees it.                                       *)
EndErrors == {"overflow", "reader"}
Outcomes  == EndErrors \cup {"none", "record", "ctx", "eof", "closed", "lost"}

\* Bytes the queue retains for a sequence of records.
Used(q) == FoldSeq(LAMBDA n, total : total + HeaderSize + n.len, 0, q)

\* Mutant: the boundary record itself is handed out.
SkippedBeforeInclusive(q, k) ==
    /\ k \in 0..Len(q)
    /\ \A i \in 1..k : q[i].seq < After
    /\ k < Len(q) => q[k + 1].seq >= After

\* The first record after After sits behind k records that a read discards.
SkippedBefore(q, k) ==
    /\ k \in 0..Len(q)
    /\ \A i \in 1..k : q[i].seq <= After
    /\ k < Len(q) => q[k + 1].seq > After
------------------------------------------------------------------------------
QueueInit ==
    /\ wireSequence = 0
    /\ queue = <<>>
    /\ finished = FALSE /\ err = "none" /\ closed = FALSE
    /\ ready = FALSE
    /\ token = TRUE
    /\ readAt = [r \in Readers |-> "idle"]
    /\ readCtxDone = [r \in Readers |-> FALSE]
    /\ out = [r \in Readers |-> "none"]
    /\ clientCloses = FALSE /\ clientClosing = FALSE
    /\ streamDone = FALSE
    /\ accepted = <<>> /\ delivered = <<>>

------------------------------------------------------------------------------
(* The reader goroutine.                                                   *)

\* A record that append stores: the wake-up is a single buffered value.
Store(n) ==
    /\ queue' = Append(queue, n)
    /\ accepted' = Append(accepted, n.seq)
    /\ ready' = TRUE
    /\ UNCHANGED <<finished, err>>

\* The first record that does not fit ends the queue behind what it holds.
Overflow ==
    /\ finished' = TRUE
    /\ err' = "overflow"
    /\ ready' = TRUE
    /\ UNCHANGED <<queue, accepted>>

\* append refuses the record and changes nothing.
Refuse == UNCHANGED <<queue, finished, err, ready, accepted>>

\* readStream hands a notification to append.  An overflowed queue keeps the
\* goroutine reading, for its replies; a closed one ends it in StreamEnds.
Notify ==
    /\ ~streamDone /\ ~closed
    /\ wireSequence < MaxWire
    /\ wireSequence' = wireSequence + 1
    /\ \E len \in Lengths :
         IF finished
         THEN Refuse
         ELSE IF HeaderSize + len > Limit - Used(queue)
              THEN Overflow
              ELSE Store([seq |-> wireSequence', len |-> len])
    /\ UNCHANGED <<closed, readVars, closeVars, streamDone, delivered>>

\* A reply frame, or output of a pane this client does not keep: it takes a
\* sequence number and never reaches the queue.
PassOver ==
    /\ ~streamDone
    /\ wireSequence < MaxWire
    /\ wireSequence' = wireSequence + 1
    /\ UNCHANGED <<queueVars, readVars, closeVars, streamDone, history>>

\* readStream returns: end of file, a read or protocol error, or a close.
\* finish keeps the first end the queue was given.
StreamEnds ==
    /\ ~streamDone
    /\ streamDone' = TRUE
    /\ \E finalErr \in {"none", "reader"} :
         IF closed \/ finished
         THEN UNCHANGED <<finished, err, ready>>
         ELSE /\ finished' = TRUE
              /\ err' = finalErr
              /\ ready' = TRUE
    /\ UNCHANGED <<wireSequence, queue, closed, readVars, closeVars, history>>

------------------------------------------------------------------------------
(* NextNotification.                                                       *)

NextNotification(r) ==
    /\ readAt[r] = "idle"
    /\ readAt' = [readAt EXCEPT ![r] = "acquire"]
    /\ out' = [out EXCEPT ![r] = "none"]
    /\ \E done \in BOOLEAN : readCtxDone' = [readCtxDone EXCEPT ![r] = done]
    /\ UNCHANGED <<wireSequence, queueVars, token, closeVars, streamDone, history>>

CancelRead(r) ==
    /\ readAt[r] # "idle" /\ ~readCtxDone[r]
    /\ readCtxDone' = [readCtxDone EXCEPT ![r] = TRUE]
    /\ UNCHANGED <<wireSequence, queueVars, token, readAt, out, closeVars, streamDone, history>>

\* Mutant: reads are not serialized.
AcquireReaderUnserialized(r) ==
    /\ readAt[r] = "acquire" /\ ~readCtxDone[r]
    /\ readAt' = [readAt EXCEPT ![r] = "loop"]
    /\ UNCHANGED <<wireSequence, queueVars, token, readCtxDone, out, closeVars, streamDone, history>>

\* acquireReader: the one token.  A token received together with a dead
\* context goes straight back.
AcquireReader(r) ==
    /\ readAt[r] = "acquire" /\ token /\ ~readCtxDone[r]
    /\ token' = FALSE
    /\ readAt' = [readAt EXCEPT ![r] = "loop"]
    /\ UNCHANGED <<wireSequence, queueVars, readCtxDone, out, closeVars, streamDone, history>>

AcquireCanceled(r) ==
    /\ readAt[r] = "acquire" /\ readCtxDone[r]
    /\ readAt' = [readAt EXCEPT ![r] = "idle"]
    /\ out' = [out EXCEPT ![r] = "ctx"]
    /\ UNCHANGED <<wireSequence, queueVars, token, readCtxDone, closeVars, streamDone, history>>

Leave(r, outcome) ==
    /\ readAt' = [readAt EXCEPT ![r] = "return"]
    /\ out' = [out EXCEPT ![r] = outcome]

\* Mutant: an early return keeps the token.
NextCanceledKeepsToken(r) ==
    /\ readAt[r] = "loop" /\ readCtxDone[r]
    /\ readAt' = [readAt EXCEPT ![r] = "idle"]
    /\ out' = [out EXCEPT ![r] = "ctx"]
    /\ UNCHANGED <<wireSequence, queueVars, token, readCtxDone, closeVars, streamDone, history>>

\* One turn of next's loop: the context first, then take under the lock.
NextCanceled(r) ==
    /\ readAt[r] = "loop" /\ readCtxDone[r]
    /\ Leave(r, "ctx")
    /\ UNCHANGED <<wireSequence, queueVars, token, readCtxDone, closeVars, streamDone, history>>

TakeClosed(r) ==
    /\ readAt[r] = "loop" /\ ~readCtxDone[r]
    /\ closed
    /\ Leave(r, "closed")
    /\ UNCHANGED <<wireSequence, queueVars, token, readCtxDone, closeVars, streamDone, history>>

TakeRecord(r) ==
    /\ readAt[r] = "loop" /\ ~readCtxDone[r]
    /\ ~closed
    /\ \E k \in 0..Len(queue) :
         /\ SkippedBefore(queue, k)
         /\ k < Len(queue)
         /\ queue' = SubSeq(queue, k + 2, Len(queue))
         /\ delivered' = Append(delivered, queue[k + 1].seq)
    /\ Leave(r, "record")
    /\ UNCHANGED <<wireSequence, finished, err, closed, ready, token, readCtxDone,
                   closeVars, streamDone, accepted>>

\* Mutant: take looks at the end before it looks at the records.
TakeNothingEndFirst(r) ==
    /\ readAt[r] = "loop" /\ ~readCtxDone[r]
    /\ ~closed
    /\ IF finished
       THEN Leave(r, IF err = "none" THEN "eof" ELSE err) /\ UNCHANGED queue
       ELSE /\ SkippedBefore(queue, Len(queue))
            /\ queue' = <<>>
            /\ readAt' = [readAt EXCEPT ![r] = "park"] /\ UNCHANGED out
    /\ UNCHANGED <<wireSequence, finished, err, closed, ready, token, readCtxDone,
                   closeVars, streamDone, history>>

\* Nothing after After is queued: what there was has been discarded, and the
\* read reports the end of the stream or waits for the next wake-up.
TakeNothing(r) ==
    /\ readAt[r] = "loop" /\ ~readCtxDone[r]
    /\ ~closed
    /\ SkippedBefore(queue, Len(queue))
    /\ queue' = <<>>
    /\ IF finished
       THEN Leave(r, IF err = "none" THEN "eof" ELSE err)
       ELSE readAt' = [readAt EXCEPT ![r] = "park"] /\ UNCHANGED out
    /\ UNCHANGED <<wireSequence, finished, err, closed, ready, token, readCtxDone,
                   closeVars, streamDone, history>>

WakeReady(r) ==
    /\ readAt[r] = "park" /\ ready
    /\ ready' = FALSE
    /\ readAt' = [readAt EXCEPT ![r] = "loop"]
    /\ UNCHANGED <<wireSequence, queue, finished, err, closed, token, readCtxDone, out,
                   closeVars, streamDone, history>>

WakeCanceled(r) ==
    /\ readAt[r] = "park" /\ readCtxDone[r]
    /\ Leave(r, "ctx")
    /\ UNCHANGED <<wireSequence, queueVars, token, readCtxDone, closeVars, streamDone, history>>

\* The end of NextNotification: an end of file is named by who asked for it,
\* and the token goes back.
Return(r) ==
    /\ readAt[r] = "return"
    /\ out' = [out EXCEPT ![r] =
                 IF @ # "eof" THEN @ ELSE IF clientCloses THEN "closed" ELSE "lost"]
    /\ readAt' = [readAt EXCEPT ![r] = "idle"]
    /\ token' = TRUE
    /\ UNCHANGED <<wireSequence, queueVars, readCtxDone, closeVars, streamDone, history>>

------------------------------------------------------------------------------
(* Closing the client, as far as notifications are concerned.              *)

StartClientClose ==
    /\ ~clientCloses
    /\ clientCloses' = TRUE
    /\ UNCHANGED <<wireSequence, queueVars, readVars, clientClosing, streamDone, history>>

BeginClientClosing ==
    /\ clientCloses /\ ~clientClosing
    /\ clientClosing' = TRUE
    /\ UNCHANGED <<wireSequence, queueVars, readVars, clientCloses, streamDone, history>>

\* The queue's Close, the last step of the client's close.
CloseQueue ==
    /\ clientClosing /\ ~closed
    /\ closed' = TRUE
    /\ queue' = <<>>
    /\ ready' = TRUE
    /\ UNCHANGED <<wireSequence, finished, err, readVars, closeVars, streamDone, history>>

------------------------------------------------------------------------------
NotificationStep(r) ==
    \/ AcquireReader(r) \/ AcquireCanceled(r)
    \/ NextCanceled(r) \/ TakeClosed(r) \/ TakeRecord(r) \/ TakeNothing(r)
    \/ WakeReady(r) \/ WakeCanceled(r)
    \/ Return(r)

QueueNext ==
    \/ Notify \/ PassOver \/ StreamEnds
    \/ \E r \in Readers : NextNotification(r) \/ CancelRead(r) \/ NotificationStep(r)
    \/ StartClientClose \/ BeginClientClosing \/ CloseQueue

(* A goroutine that can run does; the token's channel serves its waiters   *)
(* in order, so no reader waits for it for ever.  tmux, the callers and    *)
(* the owner of the client owe nothing, but a close once requested runs.   *)
QueueFairness ==
    /\ \A r \in Readers :
         /\ WF_notificationVars(NotificationStep(r))
         /\ SF_notificationVars(AcquireReader(r))
    /\ WF_notificationVars(BeginClientClosing)
    /\ WF_notificationVars(CloseQueue)

QueueSpec == QueueInit /\ [][QueueNext]_notificationVars /\ QueueFairness
------------------------------------------------------------------------------
(* Properties.                                                             *)

\* The variables keep their types.
QueueTypeOK ==
    /\ wireSequence \in 0..MaxWire
    /\ queue \in Seq(Record)
    /\ finished \in BOOLEAN /\ err \in EndErrors \cup {"none"} /\ closed \in BOOLEAN
    /\ ready \in BOOLEAN
    /\ token \in BOOLEAN
    /\ readAt \in [Readers -> {"idle", "acquire", "loop", "park", "return"}]
    /\ readCtxDone \in [Readers -> BOOLEAN]
    /\ out \in [Readers -> Outcomes]
    /\ clientCloses \in BOOLEAN /\ clientClosing \in BOOLEAN
    /\ streamDone \in BOOLEAN
    /\ accepted \in Seq(1..MaxWire)
    /\ delivered \in Seq(1..MaxWire)

\* A reader waiting in next's select while the queue holds a record or has
\* ended finds a wake-up in the channel: no record and no end is slept through
\* (the comment on controlNotificationQueue.reader says why two readers would).
NoLostWakeup ==
    \A r \in Readers :
        readAt[r] = "park" /\ (queue # <<>> \/ finished \/ closed) => ready

\* The two together: the state is one the queue's code can be in, and no reader
\* sleeps through a record or an end.
QueueOK == QueueTypeOK /\ NoLostWakeup

\* What the readers are to get of what append stored, and what is in the queue.
Expected == {s \in ToSet(accepted) : s > After}
Queued   == {queue[i].seq : i \in DOMAIN queue}

InWireOrder(seqs) == \A i, j \in DOMAIN seqs : i < j => seqs[i] < seqs[j]

\* Readers together receive exactly the records append stored, after After,
\* once each and in wire order; only a close may drop a tail of them.
DeliveredInOrder ==
    /\ InWireOrder(accepted) /\ InWireOrder(delivered)
    /\ ToSet(delivered) \subseteq Expected /\ Queued \subseteq ToSet(accepted)
    /\ \A s \in Expected, d \in ToSet(delivered) : s < d => s \in ToSet(delivered)
    /\ ~closed => \A s \in Expected : s \in ToSet(delivered) <=> s \notin Queued

\* A read reports an overflow, a reader error or the end of the stream only
\* when every record queued before it has been handed out: the prefix before
\* a failure is never lost to the failure.
EndAfterPrefix ==
    [][\A r \in Readers :
          out'[r] \in EndErrors \cup {"eof", "lost"} /\ out[r] # out'[r]
             => Expected \subseteq ToSet(delivered)]_notificationVars

\* Nothing is stored after the queue ended, so no later read can find a record
\* behind an overflow: the stream never resumes over a gap.
NoRecordAfterEnd ==
    [][finished => /\ accepted' = accepted
                   /\ (err' = err /\ finished')]_notificationVars

\* What the queue tells of its end: it comes after everything stored before it,
\* and it is the end.
EndIsLast == EndAfterPrefix /\ NoRecordAfterEnd

\* Once the stream ended or the client closed, every read under way returns,
\* whichever of the two came first and however many readers were waiting.
ReadsReturn ==
    \A r \in Readers :
        (finished \/ closed) /\ readAt[r] # "idle" ~> readAt[r] = "idle"

\* Not an invariant, although the documentation of NextNotification says it
\* (control_stream.go:19): a terminal reader error is reported as it is.  Every end of the client
\* matches ErrControlClosed, the overflow being the one exception it names.
EveryEndMatchesClosed ==
    \A r \in Readers :
        readAt[r] = "idle" => out[r] \in {"none", "record", "ctx", "overflow", "closed", "lost"}
=============================================================================
