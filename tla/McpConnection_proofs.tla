------------------------- MODULE McpConnection_proofs -------------------------
(***************************************************************************)
(* A connection of any number of writers and calls keeps its ledger exact,  *)
(* its writes in order and fenced by Close, and its polite clients.  The     *)
(* mutex of the handshake layer says who is at a write; the slot, who is     *)
(* writing; and whatever retires the connection finds it dead for good.      *)
(***************************************************************************)
EXTENDS McpConnection, FiniteSetTheorems, TLAPS

ReplyPlaces == {"slot", "write", "arrived", "written", "settled"}
NotePlaces  == {"noteSlot", "noted", "retireSlot", "retireNote"}

\* Whoever is at a write has the mutex of the handshake layer, and a message
\* of the sort that is written there.
Entered ==
    /\ \A s \in Senders : at[s] \in {"idle", "mutex"} \cup ReplyPlaces \cup NotePlaces
    /\ at[Reader] \in {"read", "admit", "init", "retire", "stopped"} \cup NotePlaces
    /\ \A p \in Writers : mutex = p <=> at[p] \in ReplyPlaces \cup NotePlaces
    /\ \A s \in Senders : at[s] \in ReplyPlaces => msg[s] \in Calls
    /\ \A s \in Senders : at[s] = "mutex" => msg[s] \in Calls \cup {"note", "changed"}
    /\ at[Reader] = "admit" => msg[Reader] \in Calls \cup {"initialized"}
    /\ \A p \in Writers : at[p] \in NotePlaces => msg[p] \in {"note", "changed"}

\* Whoever retires the connection has made it inactive, and one of them owes
\* the instance the news.
Dead ==
    /\ lifetime => ~active
    /\ \A p \in Writers : at[p] \in {"retire", "retireSlot", "retireNote"} => ~active
    /\ note.watched = "retire" => ~active
    /\ \A c \in Closers : closer[c] # "idle" => ~active
    /\ \A a \in Actors : owes[a] => ~active /\ terminals = 0
    /\ \A a, b \in Actors : owes[a] /\ owes[b] => a = b
    /\ terminals > 0 => ~active

\* LedgerIsWork, call by call, and no two work on the reply to one call.
Sending(s) == at[s] \in {"mutex", "slot", "write", "arrived", "written"} /\ msg[s] \in Calls

Worked ==
    /\ active => \A m \in Calls :
         m \in ledger <=> m \in handling \/ \E s \in Senders : Sending(s) /\ msg[s] = m
    /\ terminals > 0 => ledger = {}
    /\ \A s \in Senders : Sending(s) => msg[s] \notin handling
    /\ \A s, t \in Senders : Sending(s) /\ Sending(t) /\ msg[s] = msg[t] => s = t

\* Who writes has the slot, and Close can see that somebody does.
Slotted ==
    /\ \A s \in Senders : at[s] \in {"write", "arrived", "written", "settled"}
         => slot = s /\ note.pc = "none"
    /\ \A s \in Senders : at[s] \in {"write", "arrived", "written"} => committing /\ ~writeDone
    /\ note.pc # "none" => slot # Nobody /\ ~writeDone
    /\ note.pc = "none" => note = NoNote
    /\ \A p \in Writers : at[p] \in {"noted", "retireNote"}
         => note.pc # "none" /\ ~note.released /\ note.watched = "no"

\* What a Close that was in time has seen stays so.
Fenced ==
    /\ CloseFencesWrites
    /\ \A c \in Closers : closer[c] \in {"write", "done"} /\ closeResult[c] = "ok"
         => transport = "closed"

\* A tool-list notification is at its write only after the handshake.
Shaken ==
    /\ WritesInOrder
    /\ \A p \in Writers : at[p] \in NotePlaces /\ msg[p] = "changed" => initialized
    /\ note.pc # "none" /\ note.what = "changed" => initialized

\* A write is let go when it was judged good, or the connection is dead.
Judged == note.released => ~active \/ note.canceled \/ (note.pc = "written" /\ ~Overdue)

\* What a polite client is served is what it thinks is unanswered.
Polite == ~rude =>
    /\ handling \subseteq outstanding
    /\ Cardinality(outstanding) <= MaxSessionCalls
    /\ \A s \in Senders : at[s] \in {"mutex", "slot", "write"} /\ msg[s] \in Calls
         => msg[s] \in outstanding
    /\ at[Reader] = "admit" /\ msg[Reader] \in Calls =>
         /\ msg[Reader] \in outstanding \ handling
         /\ \A s \in Senders : at[s] \in {"mutex", "slot", "write"} => msg[s] # msg[Reader]

ConnectionInv ==
    TypeOK /\ Entered /\ Dead /\ Worked /\ Slotted /\ Fenced /\ Shaken /\ Judged /\ Polite

------------------------------------------------------------------------------
\* Where the others can be, and what they can have in hand.
Stations ==
    {"read", "admit", "init", "retire", "stopped", "idle", "mutex", "slot", "write", "arrived",
     "written", "settled", "noteSlot", "noted", "retireSlot", "retireNote"}

Messages == Calls \cup {"note", "changed", "initialized", Nobody}

NoteType ==
    [pc : {"none", "begun", "write", "timed", "written"}, what : {"note", "changed", Nobody},
     canceled : BOOLEAN, expired : BOOLEAN, watched : {"no", "yes", "retire"},
     released : BOOLEAN, late : BOOLEAN, result : {"ok", "rejected", "fatal", "unsent"}]

ReturnTypes ==
    /\ mutex \in Writers \cup {Nobody}
    /\ at \in [Writers -> Stations] /\ msg \in [Writers -> Messages]
    /\ canceled \in [Writers -> BOOLEAN] /\ expired \in [Writers -> BOOLEAN]

LEMMA InitConnection == Init => ConnectionInv
<1> SUFFICES ASSUME Init PROVE ConnectionInv
  OBVIOUS
<1> USE ConnectionAssumption DEF Init, Writers, Actors, NoNote
<1>1. TypeOK
  <2>1. /\ at \in [Writers -> {"read", "idle"}] /\ msg \in [Writers -> {Nobody}]
        /\ outcome \in [Senders -> [result : {"ok", "rejected", "fatal"}, late : BOOLEAN]]
    OBVIOUS
  <2>2. /\ closer \in [Closers -> {"idle"}] /\ closeResult \in [Closers -> {"none"}]
        /\ owes \in [Actors -> BOOLEAN]
        /\ canceled \in [Writers -> BOOLEAN] /\ expired \in [Writers -> BOOLEAN]
    OBVIOUS
  <2>3. note \in NoteType
    BY DEF NoteType
  <2>4. /\ active \in BOOLEAN /\ committing \in BOOLEAN /\ lifetime \in BOOLEAN
        /\ slot = Nobody /\ writeDone \in BOOLEAN /\ writeLate \in BOOLEAN
        /\ transport = "open" /\ closeExpired \in BOOLEAN /\ closeTimedOut \in BOOLEAN
        /\ mutex = Nobody /\ initialized \in BOOLEAN /\ held \in BOOLEAN
        /\ ledger = {} /\ handling = {} /\ outstanding = {} /\ rude \in BOOLEAN
    OBVIOUS
  <2>5. terminals \in 0..1 /\ reads \in 0..MaxReads /\ notes \in 0..MaxNotes
    OBVIOUS
  <2>6. QED
    BY ONLY <2>1, <2>2, <2>3, <2>4, <2>5 DEF TypeOK, NoteType
<1>2. Entered /\ Dead /\ Slotted /\ Fenced /\ Shaken /\ Judged
  BY DEF Entered, Dead, Slotted, Fenced, Shaken, Judged, ReplyPlaces, NotePlaces,
     CloseFencesWrites, WritesInOrder
<1>3. Worked
  BY DEF Worked, LedgerIsWork, Working, Sending
<1>4. Polite
  BY FS_EmptySet DEF Polite
<1> QED
  BY <1>1, <1>2, <1>3, <1>4 DEF ConnectionInv

LEMMA ReturnIsTyped ==
    ASSUME TypeOK, NEW p \in Writers, NEW failed, Return(p, failed)
    PROVE  ReturnTypes'
  BY DEF TypeOK, ReturnTypes, Stations, Messages, Return, GoTo

\* The variables keep their types.
LEMMA TypeStep ==
    ASSUME ConnectionInv, [Next]_vars
    PROVE  TypeOK'
<1> USE DEF ConnectionInv, TypeOK, connVars, slotVars, closeVars, shakeVars, ledgerVars,
           timeVars, clientVars, bounds
<1>1. CASE ReadEnds
  <2>1. at' \in [Writers -> Stations]
    BY <1>1 DEF ReadEnds, ReaderStops, GoTo, Stations
  <2>2. UNCHANGED <<active, committing, lifetime, slot, writeDone, writeLate, transport,
        closeExpired, closeTimedOut, closer, closeResult, mutex, initialized, held, ledger,
        terminals, msg, outcome, owes, canceled, expired, note, handling, outstanding, rude,
        reads, notes>>
    BY <1>1 DEF ReadEnds, ReaderStops, GoTo
  <2>3. QED
    BY <2>1, <2>2 DEF Stations, Messages, NoteType
<1>2. CASE Admit
  <2>1. ledger' \subseteq Calls
    BY <1>2 DEF Admit, Settled, GoTo
  <2>2. handling' \subseteq Calls
    BY <1>2 DEF Admit, Settled, GoTo
  <2>3. at' \in [Writers -> Stations]
    BY <1>2 DEF Admit, Settled, GoTo, Stations
  <2>4. UNCHANGED <<active, committing, lifetime, slot, writeDone, writeLate, transport,
        closeExpired, closeTimedOut, closer, closeResult, mutex, initialized, held, terminals,
        msg, outcome, owes, canceled, expired, note, outstanding, rude, reads, notes>>
    BY <1>2 DEF Admit, Settled, GoTo
  <2>5. QED
    BY <2>1, <2>2, <2>3, <2>4 DEF Stations, Messages, NoteType
<1>3. CASE RefuseMessage
  <2>1. active' \in BOOLEAN
    BY <1>3 DEF RefuseMessage, Deactivate, GoTo
  <2>2. owes' \in [Actors -> BOOLEAN]
    BY <1>3 DEF RefuseMessage, Deactivate, GoTo, Writers, Actors
  <2>3. at' \in [Writers -> Stations]
    BY <1>3 DEF RefuseMessage, Deactivate, GoTo, Stations
  <2>4. UNCHANGED <<committing, lifetime, slot, writeDone, writeLate, transport, closeExpired,
        closeTimedOut, closer, closeResult, mutex, initialized, held, ledger, terminals, msg,
        outcome, canceled, expired, note, handling, outstanding, rude, reads, notes>>
    BY <1>3 DEF RefuseMessage, Deactivate, GoTo
  <2>5. QED
    BY <2>1, <2>2, <2>3, <2>4 DEF Stations, Messages, NoteType
<1>4. CASE ReadTooLate
  <2>1. at' \in [Writers -> Stations]
    BY <1>4 DEF ReadTooLate, ReaderStops, GoTo, Stations
  <2>2. UNCHANGED <<active, committing, lifetime, slot, writeDone, writeLate, transport,
        closeExpired, closeTimedOut, closer, closeResult, mutex, initialized, held, ledger,
        terminals, msg, outcome, owes, canceled, expired, note, handling, outstanding, rude,
        reads, notes>>
    BY <1>4 DEF ReadTooLate, ReaderStops, GoTo
  <2>3. QED
    BY <2>1, <2>2 DEF Stations, Messages, NoteType
<1>5. CASE RetireRead
  <2>1. lifetime' \in BOOLEAN
    BY <1>5 DEF RetireRead, Disconnect, ReportTerminal, ReaderStops, GoTo
  <2>2. ledger' \subseteq Calls
    BY <1>5 DEF RetireRead, Disconnect, ReportTerminal, ReaderStops, GoTo
  <2>3. terminals' \in 0..1
    BY <1>5 DEF RetireRead, Disconnect, ReportTerminal, ReaderStops, GoTo, Dead, Writers, Actors
  <2>4. owes' \in [Actors -> BOOLEAN]
    BY <1>5 DEF RetireRead, Disconnect, ReportTerminal, ReaderStops, GoTo, Writers, Actors
  <2>5. at' \in [Writers -> Stations]
    BY <1>5 DEF RetireRead, Disconnect, ReportTerminal, ReaderStops, GoTo, Stations
  <2>6. UNCHANGED <<active, committing, slot, writeDone, writeLate, transport, closeExpired,
        closeTimedOut, closer, closeResult, mutex, initialized, held, msg, outcome, canceled,
        expired, note, handling, outstanding, rude, reads, notes>>
    BY <1>5 DEF RetireRead, Disconnect, ReportTerminal, ReaderStops, GoTo
  <2>7. QED
    BY <2>1, <2>2, <2>3, <2>4, <2>5, <2>6 DEF Stations, Messages, NoteType
<1>6. CASE Initialized
  <2>1. mutex' \in Writers \cup {Nobody}
    BY <1>6 DEF Initialized, GoTo, Writers, Actors
  <2>2. initialized' \in BOOLEAN
    BY <1>6 DEF Initialized, GoTo
  <2>3. held' \in BOOLEAN
    BY <1>6 DEF Initialized, GoTo
  <2>4. at' \in [Writers -> Stations]
    BY <1>6 DEF Initialized, GoTo, Stations
  <2>5. msg' \in [Writers -> Messages]
    BY <1>6 DEF Initialized, GoTo, Messages
  <2>6. UNCHANGED <<active, committing, lifetime, slot, writeDone, writeLate, transport,
        closeExpired, closeTimedOut, closer, closeResult, ledger, terminals, outcome, owes,
        canceled, expired, note, handling, outstanding, rude, reads, notes>>
    BY <1>6 DEF Initialized, GoTo
  <2>7. QED
    BY <2>1, <2>2, <2>3, <2>4, <2>5, <2>6 DEF Stations, Messages, NoteType
<1>7. CASE ReadFails
  <2>1. active' \in BOOLEAN
    BY <1>7 DEF ReadFails, Deactivate, GoTo
  <2>2. owes' \in [Actors -> BOOLEAN]
    BY <1>7 DEF ReadFails, Deactivate, GoTo, Writers, Actors
  <2>3. at' \in [Writers -> Stations]
    BY <1>7 DEF ReadFails, Deactivate, GoTo, Stations
  <2>4. UNCHANGED <<committing, lifetime, slot, writeDone, writeLate, transport, closeExpired,
        closeTimedOut, closer, closeResult, mutex, initialized, held, ledger, terminals, msg,
        outcome, canceled, expired, note, handling, outstanding, rude, reads, notes>>
    BY <1>7 DEF ReadFails, Deactivate, GoTo
  <2>5. QED
    BY <2>1, <2>2, <2>3, <2>4 DEF Stations, Messages, NoteType
<1>8. CASE PhysicalBegins
  <2>1. note' \in NoteType
    BY <1>8 DEF PhysicalBegins, NoteType
  <2>2. writeLate' \in BOOLEAN
    BY <1>8 DEF PhysicalBegins
  <2>3. UNCHANGED <<active, committing, lifetime, slot, writeDone, transport, closeExpired,
        closeTimedOut, closer, closeResult, mutex, initialized, held, ledger, terminals, at,
        msg, outcome, owes, canceled, expired, handling, outstanding, rude, reads, notes>>
    BY <1>8 DEF PhysicalBegins
  <2>4. QED
    BY <2>1, <2>2, <2>3 DEF Stations, Messages, NoteType
<1>9. CASE PhysicalEnds
  <2>1. note' \in NoteType
    <3>1. PICK r \in {"ok", "rejected", "fatal"} :
            note' = [note EXCEPT !.pc = "timed", !.late = note.expired, !.result = r]
      BY <1>9 DEF PhysicalEnds
    <3>2. QED
      BY <3>1 DEF NoteType
  <2>2. writeLate' \in BOOLEAN
    BY <1>9 DEF PhysicalEnds
  <2>3. UNCHANGED <<active, committing, lifetime, slot, writeDone, transport, closeExpired,
        closeTimedOut, closer, closeResult, mutex, initialized, held, ledger, terminals, at,
        msg, outcome, owes, canceled, expired, handling, outstanding, rude, reads, notes>>
    BY <1>9 DEF PhysicalEnds
  <2>4. QED
    BY <2>1, <2>2, <2>3 DEF Stations, Messages, NoteType
<1>10. CASE PhysicalReports
  <2>1. note' \in NoteType
    BY <1>10 DEF PhysicalReports, NoteType
  <2>2. UNCHANGED <<active, committing, lifetime, slot, writeDone, writeLate, transport,
        closeExpired, closeTimedOut, closer, closeResult, mutex, initialized, held, ledger,
        terminals, at, msg, outcome, owes, canceled, expired, handling, outstanding, rude,
        reads, notes>>
    BY <1>10 DEF PhysicalReports
  <2>3. QED
    BY <2>1, <2>2 DEF Stations, Messages, NoteType
<1>11. CASE PhysicalLeaves
  <2>1. note' \in NoteType
    BY <1>11 DEF PhysicalLeaves, NoNote, NoteType
  <2>2. writeDone' \in BOOLEAN
    BY <1>11 DEF PhysicalLeaves, NoNote
  <2>3. slot' \in Writers \cup {Nobody}
    BY <1>11 DEF PhysicalLeaves, NoNote, Writers, Actors
  <2>4. UNCHANGED <<active, committing, lifetime, writeLate, transport, closeExpired,
        closeTimedOut, closer, closeResult, mutex, initialized, held, ledger, terminals, at,
        msg, outcome, owes, canceled, expired, handling, outstanding, rude, reads, notes>>
    BY <1>11 DEF PhysicalLeaves, NoNote
  <2>5. QED
    BY <2>1, <2>2, <2>3, <2>4 DEF Stations, Messages, NoteType
<1>12. CASE MonitorJudges
  <2>1. note' \in NoteType
    <3>1. \/ note' = [note EXCEPT !.watched = "no", !.released = TRUE]
          \/ note' = [note EXCEPT !.watched = "retire"]
      BY <1>12 DEF MonitorJudges
    <3>2. CASE note' = [note EXCEPT !.watched = "no", !.released = TRUE]
      BY <3>2 DEF NoteType
    <3>3. CASE note' = [note EXCEPT !.watched = "retire"]
      BY <3>3 DEF NoteType
    <3>4. QED
      BY <3>1, <3>2, <3>3
  <2>2. active' \in BOOLEAN
    BY <1>12 DEF MonitorJudges, Deactivate
  <2>3. owes' \in [Actors -> BOOLEAN]
    BY <1>12 DEF MonitorJudges, Deactivate, Writers, Actors
  <2>4. UNCHANGED <<committing, lifetime, slot, writeDone, writeLate, transport, closeExpired,
        closeTimedOut, closer, closeResult, mutex, initialized, held, ledger, terminals, at,
        msg, outcome, canceled, expired, handling, outstanding, rude, reads, notes>>
    BY <1>12 DEF MonitorJudges, Deactivate
  <2>5. QED
    BY <2>1, <2>2, <2>3, <2>4 DEF Stations, Messages, NoteType
<1>13. CASE MonitorRetires
  <2>1. lifetime' \in BOOLEAN
    BY <1>13 DEF MonitorRetires, Disconnect, ReportTerminal, StartTransportClose
  <2>2. ledger' \subseteq Calls
    BY <1>13 DEF MonitorRetires, Disconnect, ReportTerminal, StartTransportClose
  <2>3. terminals' \in 0..1
    BY <1>13 DEF MonitorRetires, Disconnect, ReportTerminal, StartTransportClose, Dead,
       Writers, Actors
  <2>4. owes' \in [Actors -> BOOLEAN]
    BY <1>13 DEF MonitorRetires, Disconnect, ReportTerminal, StartTransportClose, Writers,
       Actors
  <2>5. transport' \in {"open", "closing", "closed"}
    BY <1>13 DEF MonitorRetires, Disconnect, ReportTerminal, StartTransportClose
  <2>6. note' \in NoteType
    BY <1>13 DEF MonitorRetires, Disconnect, ReportTerminal, StartTransportClose, NoteType
  <2>7. UNCHANGED <<active, committing, slot, writeDone, writeLate, closeExpired, closeTimedOut,
        closer, closeResult, mutex, initialized, held, at, msg, outcome, canceled, expired,
        handling, outstanding, rude, reads, notes>>
    BY <1>13 DEF MonitorRetires, Disconnect, ReportTerminal, StartTransportClose
  <2>8. QED
    BY <2>1, <2>2, <2>3, <2>4, <2>5, <2>6, <2>7 DEF Stations, Messages, NoteType
<1>14. CASE NoteDeadline
  <2>1. note' \in NoteType
    BY <1>14 DEF NoteDeadline, NoteType
  <2>2. UNCHANGED <<active, committing, lifetime, slot, writeDone, writeLate, transport,
        closeExpired, closeTimedOut, closer, closeResult, mutex, initialized, held, ledger,
        terminals, at, msg, outcome, owes, canceled, expired, handling, outstanding, rude,
        reads, notes>>
    BY <1>14 DEF NoteDeadline
  <2>3. QED
    BY <2>1, <2>2 DEF Stations, Messages, NoteType
<1>15. CASE TransportCloses
  <2>1. transport' \in {"open", "closing", "closed"}
    BY <1>15 DEF TransportCloses
  <2>2. closeTimedOut' \in BOOLEAN
    BY <1>15 DEF TransportCloses
  <2>3. UNCHANGED <<active, committing, lifetime, slot, writeDone, writeLate, closeExpired,
        closer, closeResult, mutex, initialized, held, ledger, terminals, at, msg, outcome,
        owes, canceled, expired, note, handling, outstanding, rude, reads, notes>>
    BY <1>15 DEF TransportCloses
  <2>4. QED
    BY <2>1, <2>2, <2>3 DEF Stations, Messages, NoteType
<1>16. CASE CloseDeadline
  <2>1. closeExpired' \in BOOLEAN
    BY <1>16 DEF CloseDeadline
  <2>2. UNCHANGED <<active, committing, lifetime, slot, writeDone, writeLate, transport,
        closeTimedOut, closer, closeResult, mutex, initialized, held, ledger, terminals, at,
        msg, outcome, owes, canceled, expired, note, handling, outstanding, rude, reads, notes>>
    BY <1>16 DEF CloseDeadline
  <2>3. QED
    BY <2>1, <2>2 DEF Stations, Messages, NoteType
<1>17. ASSUME NEW m \in Calls \cup {"initialized"}, ReadMessage(m) PROVE TypeOK'
  <2>1. reads' \in 0..MaxReads
    BY <1>17, ConnectionAssumption DEF ReadMessage, ClientSends, GoTo
  <2>2. outstanding' \subseteq Calls
    BY <1>17 DEF ReadMessage, ClientSends, GoTo
  <2>3. rude' \in BOOLEAN
    BY <1>17 DEF ReadMessage, ClientSends, GoTo
  <2>4. msg' \in [Writers -> Messages]
    BY <1>17 DEF ReadMessage, ClientSends, GoTo, Messages
  <2>5. at' \in [Writers -> Stations]
    BY <1>17 DEF ReadMessage, ClientSends, GoTo, Stations
  <2>6. UNCHANGED <<active, committing, lifetime, slot, writeDone, writeLate, transport,
        closeExpired, closeTimedOut, closer, closeResult, mutex, initialized, held, ledger,
        terminals, outcome, owes, canceled, expired, note, handling, notes>>
    BY <1>17 DEF ReadMessage, ClientSends, GoTo
  <2>7. QED
    BY <2>1, <2>2, <2>3, <2>4, <2>5, <2>6 DEF Stations, Messages, NoteType
<1>18. ASSUME NEW s \in Senders, NEW m \in Calls \cup Kinds, WriteBegins(s, m) PROVE TypeOK'
  <2>1. handling' \subseteq Calls
    BY <1>18 DEF WriteBegins, GoTo
  <2>2. notes' \in 0..MaxNotes
    BY <1>18, ConnectionAssumption DEF WriteBegins, GoTo
  <2>3. msg' \in [Writers -> Messages]
    BY <1>18, ConnectionAssumption DEF WriteBegins, GoTo, Messages
  <2>4. at' \in [Writers -> Stations]
    BY <1>18 DEF WriteBegins, GoTo, Stations
  <2>5. UNCHANGED <<active, committing, lifetime, slot, writeDone, writeLate, transport,
        closeExpired, closeTimedOut, closer, closeResult, mutex, initialized, held, ledger,
        terminals, outcome, owes, canceled, expired, note, outstanding, rude, reads>>
    BY <1>18 DEF WriteBegins, GoTo
  <2>6. QED
    BY <2>1, <2>2, <2>3, <2>4, <2>5 DEF Stations, Messages, NoteType
<1>19. ASSUME NEW s \in Senders, Hold(s) PROVE TypeOK'
  <2>1. held' \in BOOLEAN
    BY <1>19 DEF Hold, GoTo
  <2>2. at' \in [Writers -> Stations]
    BY <1>19 DEF Hold, GoTo, Stations
  <2>3. msg' \in [Writers -> Messages]
    BY <1>19 DEF Hold, GoTo, Messages
  <2>4. UNCHANGED <<active, committing, lifetime, slot, writeDone, writeLate, transport,
        closeExpired, closeTimedOut, closer, closeResult, mutex, initialized, ledger, terminals,
        outcome, owes, canceled, expired, note, handling, outstanding, rude, reads, notes>>
    BY <1>19 DEF Hold, GoTo
  <2>5. QED
    BY <2>1, <2>2, <2>3, <2>4 DEF Stations, Messages, NoteType
<1>20. ASSUME NEW s \in Senders, EnterWrite(s) PROVE TypeOK'
  <2>1. mutex' \in Writers \cup {Nobody}
    BY <1>20 DEF EnterWrite, GoTo, Writers, Actors
  <2>2. at' \in [Writers -> Stations]
    BY <1>20 DEF EnterWrite, GoTo, Stations
  <2>3. UNCHANGED <<active, committing, lifetime, slot, writeDone, writeLate, transport,
        closeExpired, closeTimedOut, closer, closeResult, initialized, held, ledger, terminals,
        msg, outcome, owes, canceled, expired, note, handling, outstanding, rude, reads, notes>>
    BY <1>20 DEF EnterWrite, GoTo
  <2>4. QED
    BY <2>1, <2>2, <2>3 DEF Stations, Messages, NoteType
<1>21. ASSUME NEW s \in Senders, ReplyTakesSlot(s) PROVE TypeOK'
  <2>1. slot' \in Writers \cup {Nobody}
    BY <1>21 DEF ReplyTakesSlot, GoTo, Writers, Actors
  <2>2. committing' \in BOOLEAN
    BY <1>21 DEF ReplyTakesSlot, GoTo
  <2>3. writeDone' \in BOOLEAN
    BY <1>21 DEF ReplyTakesSlot, GoTo
  <2>4. writeLate' \in BOOLEAN
    BY <1>21 DEF ReplyTakesSlot, GoTo
  <2>5. at' \in [Writers -> Stations]
    BY <1>21 DEF ReplyTakesSlot, GoTo, Stations
  <2>6. UNCHANGED <<active, lifetime, transport, closeExpired, closeTimedOut, closer,
        closeResult, mutex, initialized, held, ledger, terminals, msg, outcome, owes, canceled,
        expired, note, handling, outstanding, rude, reads, notes>>
    BY <1>21 DEF ReplyTakesSlot, GoTo
  <2>7. QED
    BY <2>1, <2>2, <2>3, <2>4, <2>5, <2>6 DEF Stations, Messages, NoteType
<1>22. ASSUME NEW s \in Senders, ReplyRefused(s) PROVE TypeOK'
  <2>1. ReturnTypes'
    BY <1>22, ReturnIsTyped DEF ReplyRefused, Writers
  <2>2. UNCHANGED <<active, committing, lifetime, slot, writeDone, writeLate, transport,
        closeExpired, closeTimedOut, closer, closeResult, initialized, held, ledger, terminals,
        outcome, owes, note, handling, outstanding, rude, reads, notes>>
    BY <1>22 DEF ReplyRefused, Return, GoTo
  <2>3. QED
    BY <2>1, <2>2 DEF ReturnTypes, Stations, Messages, NoteType
<1>23. ASSUME NEW s \in Senders, ReplyArrives(s) PROVE TypeOK'
  <2>1. at' \in [Writers -> Stations]
    BY <1>23 DEF ReplyArrives, GoTo, Stations
  <2>2. outstanding' \subseteq Calls
    BY <1>23 DEF ReplyArrives, GoTo
  <2>3. UNCHANGED <<active, committing, lifetime, slot, writeDone, writeLate, transport,
        closeExpired, closeTimedOut, closer, closeResult, mutex, initialized, held, ledger,
        terminals, msg, outcome, owes, canceled, expired, note, handling, rude, reads, notes>>
    BY <1>23 DEF ReplyArrives, GoTo
  <2>4. QED
    BY <2>1, <2>2, <2>3 DEF Stations, Messages, NoteType
<1>24. ASSUME NEW s \in Senders, ReplyWritten(s) PROVE TypeOK'
  <2>1. outcome' \in [Senders -> [result : {"ok", "rejected", "fatal"}, late : BOOLEAN]]
    BY <1>24 DEF ReplyWritten, GoTo
  <2>2. at' \in [Writers -> Stations]
    BY <1>24 DEF ReplyWritten, GoTo, Stations
  <2>3. UNCHANGED <<active, committing, lifetime, slot, writeDone, writeLate, transport,
        closeExpired, closeTimedOut, closer, closeResult, mutex, initialized, held, ledger,
        terminals, msg, owes, canceled, expired, note, handling, outstanding, rude, reads,
        notes>>
    BY <1>24 DEF ReplyWritten, GoTo
  <2>4. QED
    BY <2>1, <2>2, <2>3 DEF Stations, Messages, NoteType
<1>25. ASSUME NEW s \in Senders, Settle(s) PROVE TypeOK'
  <2>1. ledger' \subseteq Calls
    BY <1>25 DEF Settle, GoTo
  <2>2. active' \in BOOLEAN
    BY <1>25 DEF Settle, GoTo
  <2>3. owes' \in [Actors -> BOOLEAN]
    BY <1>25 DEF Settle, GoTo, Writers, Actors
  <2>4. committing' \in BOOLEAN
    BY <1>25 DEF Settle, GoTo
  <2>5. writeDone' \in BOOLEAN
    BY <1>25 DEF Settle, GoTo
  <2>6. writeLate' \in BOOLEAN
    BY <1>25 DEF Settle, GoTo
  <2>7. at' \in [Writers -> Stations]
    BY <1>25 DEF Settle, GoTo, Stations
  <2>8. UNCHANGED <<lifetime, slot, transport, closeExpired, closeTimedOut, closer, closeResult,
        mutex, initialized, held, terminals, msg, outcome, canceled, expired, note, handling,
        outstanding, rude, reads, notes>>
    BY <1>25 DEF Settle, GoTo
  <2>9. QED
    BY <2>1, <2>2, <2>3, <2>4, <2>5, <2>6, <2>7, <2>8 DEF Stations, Messages, NoteType
<1>26. ASSUME NEW s \in Senders, ReplyReturns(s) PROVE TypeOK'
  <2>1. ReturnTypes'
    BY <1>26, ReturnIsTyped DEF ReplyReturns, Writers
  <2>2. slot' \in Writers \cup {Nobody}
    BY <1>26 DEF ReplyReturns, ReportTerminal, Return, GoTo, Writers, Actors
  <2>3. ledger' \subseteq Calls
    BY <1>26 DEF ReplyReturns, ReportTerminal, Return, GoTo
  <2>4. terminals' \in 0..1
    BY <1>26 DEF ReplyReturns, ReportTerminal, Return, GoTo, Dead, Writers, Actors
  <2>5. owes' \in [Actors -> BOOLEAN]
    BY <1>26 DEF ReplyReturns, ReportTerminal, Return, GoTo, Writers, Actors
  <2>6. UNCHANGED <<active, committing, lifetime, writeDone, writeLate, transport, closeExpired,
        closeTimedOut, closer, closeResult, initialized, held, outcome, note, handling,
        outstanding, rude, reads, notes>>
    BY <1>26 DEF ReplyReturns, ReportTerminal, Return, GoTo
  <2>7. QED
    BY <2>1, <2>2, <2>3, <2>4, <2>5, <2>6 DEF ReturnTypes, Stations, Messages, NoteType
<1>27. ASSUME NEW s \in Senders, CancelContext(s) PROVE TypeOK'
  <2>1. note' \in NoteType
    <3>1. note' = note \/ note' = [note EXCEPT !.canceled = TRUE]
      BY <1>27 DEF CancelContext
    <3>2. QED
      BY <3>1 DEF NoteType
  <2>2. canceled' \in [Writers -> BOOLEAN]
    BY <1>27 DEF CancelContext
  <2>3. UNCHANGED <<active, committing, lifetime, slot, writeDone, writeLate, transport,
        closeExpired, closeTimedOut, closer, closeResult, mutex, initialized, held, ledger,
        terminals, at, msg, outcome, owes, expired, handling, outstanding, rude, reads, notes>>
    BY <1>27 DEF CancelContext
  <2>4. QED
    BY <2>1, <2>2, <2>3 DEF Stations, Messages, NoteType
<1>28. ASSUME NEW p \in Writers, NoteTakesSlot(p) PROVE TypeOK'
  <2>1. slot' \in Writers \cup {Nobody}
    BY <1>28 DEF NoteTakesSlot, GivenUp, NoNote, GoTo, Writers, Actors
  <2>2. writeDone' \in BOOLEAN
    BY <1>28 DEF NoteTakesSlot, GivenUp, NoNote, GoTo
  <2>3. writeLate' \in BOOLEAN
    BY <1>28 DEF NoteTakesSlot, GivenUp, NoNote, GoTo
  <2>4. note' \in NoteType
    BY <1>28 DEF NoteTakesSlot, GivenUp, NoNote, GoTo, NoteType, Entered, NotePlaces
  <2>5. at' \in [Writers -> Stations]
    BY <1>28 DEF NoteTakesSlot, GivenUp, NoNote, GoTo, Stations
  <2>6. UNCHANGED <<active, committing, lifetime, transport, closeExpired, closeTimedOut,
        closer, closeResult, mutex, initialized, held, ledger, terminals, msg, outcome, owes,
        canceled, expired, handling, outstanding, rude, reads, notes>>
    BY <1>28 DEF NoteTakesSlot, GivenUp, NoNote, GoTo
  <2>7. QED
    BY <2>1, <2>2, <2>3, <2>4, <2>5, <2>6 DEF Stations, Messages, NoteType
<1>29. ASSUME NEW p \in Writers, NoteGivesUp(p) PROVE TypeOK'
  <2>1. ReturnTypes'
    BY <1>29, ReturnIsTyped DEF NoteGivesUp
  <2>2. UNCHANGED <<active, committing, lifetime, slot, writeDone, writeLate, transport,
        closeExpired, closeTimedOut, closer, closeResult, initialized, held, ledger, terminals,
        outcome, owes, note, handling, outstanding, rude, reads, notes>>
    BY <1>29 DEF NoteGivesUp, GivenUp, Return, GoTo
  <2>3. QED
    BY <2>1, <2>2 DEF ReturnTypes, Stations, Messages, NoteType
<1>30. ASSUME NEW p \in Writers, NoteExpires(p) PROVE TypeOK'
  <2>1. slot' \in Writers \cup {Nobody}
    BY <1>30 DEF NoteExpires, GivenUp, Deactivate, GoTo, Writers, Actors
  <2>2. active' \in BOOLEAN
    BY <1>30 DEF NoteExpires, GivenUp, Deactivate, GoTo
  <2>3. owes' \in [Actors -> BOOLEAN]
    BY <1>30 DEF NoteExpires, GivenUp, Deactivate, GoTo, Writers, Actors
  <2>4. at' \in [Writers -> Stations]
    BY <1>30 DEF NoteExpires, GivenUp, Deactivate, GoTo, Stations
  <2>5. UNCHANGED <<committing, lifetime, writeDone, writeLate, transport, closeExpired,
        closeTimedOut, closer, closeResult, mutex, initialized, held, ledger, terminals, msg,
        outcome, canceled, expired, note, handling, outstanding, rude, reads, notes>>
    BY <1>30 DEF NoteExpires, GivenUp, Deactivate, GoTo
  <2>6. QED
    BY <2>1, <2>2, <2>3, <2>4, <2>5 DEF Stations, Messages, NoteType
<1>31. ASSUME NEW p \in Writers, RetireSlot(p) PROVE TypeOK'
  <2>1. ReturnTypes'
    BY <1>31, ReturnIsTyped DEF RetireSlot
  <2>2. lifetime' \in BOOLEAN
    BY <1>31 DEF RetireSlot, Disconnect, ReportTerminal, StartTransportClose, Return, GoTo
  <2>3. ledger' \subseteq Calls
    BY <1>31 DEF RetireSlot, Disconnect, ReportTerminal, StartTransportClose, Return, GoTo
  <2>4. terminals' \in 0..1
    BY <1>31 DEF RetireSlot, Disconnect, ReportTerminal, StartTransportClose, Return, GoTo,
       Dead, Writers, Actors
  <2>5. owes' \in [Actors -> BOOLEAN]
    BY <1>31 DEF RetireSlot, Disconnect, ReportTerminal, StartTransportClose, Return, GoTo,
       Writers, Actors
  <2>6. transport' \in {"open", "closing", "closed"}
    BY <1>31 DEF RetireSlot, Disconnect, ReportTerminal, StartTransportClose, Return, GoTo
  <2>7. slot' \in Writers \cup {Nobody}
    BY <1>31 DEF RetireSlot, Disconnect, ReportTerminal, StartTransportClose, Return, GoTo,
       Writers, Actors
  <2>8. UNCHANGED <<active, committing, writeDone, writeLate, closeExpired, closeTimedOut,
        closer, closeResult, initialized, held, outcome, note, handling, outstanding, rude,
        reads, notes>>
    BY <1>31 DEF RetireSlot, Disconnect, ReportTerminal, StartTransportClose, Return, GoTo
  <2>9. QED
    BY <2>1, <2>2, <2>3, <2>4, <2>5, <2>6, <2>7, <2>8 DEF ReturnTypes, Stations, Messages,
       NoteType
<1>32. ASSUME NEW p \in Writers, NoteSent(p) PROVE TypeOK'
  <2>1. ReturnTypes'
    BY <1>32, ReturnIsTyped DEF NoteSent
  <2>2. note' \in NoteType
    BY <1>32 DEF NoteSent, Release, Return, GoTo, NoteType
  <2>3. UNCHANGED <<active, committing, lifetime, slot, writeDone, writeLate, transport,
        closeExpired, closeTimedOut, closer, closeResult, initialized, held, ledger, terminals,
        outcome, owes, handling, outstanding, rude, reads, notes>>
    BY <1>32 DEF NoteSent, Release, Return, GoTo
  <2>4. QED
    BY <2>1, <2>2, <2>3 DEF ReturnTypes, Stations, Messages, NoteType
<1>33. ASSUME NEW p \in Writers, NoteBroke(p) PROVE TypeOK'
  <2>1. active' \in BOOLEAN
    BY <1>33 DEF NoteBroke, Deactivate, GoTo
  <2>2. owes' \in [Actors -> BOOLEAN]
    BY <1>33 DEF NoteBroke, Deactivate, GoTo, Writers, Actors
  <2>3. at' \in [Writers -> Stations]
    BY <1>33 DEF NoteBroke, Deactivate, GoTo, Stations
  <2>4. UNCHANGED <<committing, lifetime, slot, writeDone, writeLate, transport, closeExpired,
        closeTimedOut, closer, closeResult, mutex, initialized, held, ledger, terminals, msg,
        outcome, canceled, expired, note, handling, outstanding, rude, reads, notes>>
    BY <1>33 DEF NoteBroke, Deactivate, GoTo
  <2>5. QED
    BY <2>1, <2>2, <2>3, <2>4 DEF Stations, Messages, NoteType
<1>34. ASSUME NEW p \in Writers, NoteQuarantined(p) PROVE TypeOK'
  <2>1. ReturnTypes'
    BY <1>34, ReturnIsTyped DEF NoteQuarantined
  <2>2. note' \in NoteType
    BY <1>34 DEF NoteQuarantined, GivenUp, Return, GoTo, NoteType
  <2>3. UNCHANGED <<active, committing, lifetime, slot, writeDone, writeLate, transport,
        closeExpired, closeTimedOut, closer, closeResult, initialized, held, ledger, terminals,
        outcome, owes, handling, outstanding, rude, reads, notes>>
    BY <1>34 DEF NoteQuarantined, GivenUp, Return, GoTo
  <2>4. QED
    BY <2>1, <2>2, <2>3 DEF ReturnTypes, Stations, Messages, NoteType
<1>35. ASSUME NEW p \in Writers, NoteTimesOut(p) PROVE TypeOK'
  <2>1. active' \in BOOLEAN
    BY <1>35 DEF NoteTimesOut, GivenUp, Deactivate, GoTo
  <2>2. owes' \in [Actors -> BOOLEAN]
    BY <1>35 DEF NoteTimesOut, GivenUp, Deactivate, GoTo, Writers, Actors
  <2>3. at' \in [Writers -> Stations]
    BY <1>35 DEF NoteTimesOut, GivenUp, Deactivate, GoTo, Stations
  <2>4. UNCHANGED <<committing, lifetime, slot, writeDone, writeLate, transport, closeExpired,
        closeTimedOut, closer, closeResult, mutex, initialized, held, ledger, terminals, msg,
        outcome, canceled, expired, note, handling, outstanding, rude, reads, notes>>
    BY <1>35 DEF NoteTimesOut, GivenUp, Deactivate, GoTo
  <2>5. QED
    BY <2>1, <2>2, <2>3, <2>4 DEF Stations, Messages, NoteType
<1>36. ASSUME NEW p \in Writers, NoteTimesOutCanceled(p) PROVE TypeOK'
  <2>1. ReturnTypes'
    BY <1>36, ReturnIsTyped DEF NoteTimesOutCanceled
  <2>2. note' \in NoteType
    BY <1>36 DEF NoteTimesOutCanceled, GivenUp, Release, Return, GoTo, NoteType
  <2>3. UNCHANGED <<active, committing, lifetime, slot, writeDone, writeLate, transport,
        closeExpired, closeTimedOut, closer, closeResult, initialized, held, ledger, terminals,
        outcome, owes, handling, outstanding, rude, reads, notes>>
    BY <1>36 DEF NoteTimesOutCanceled, GivenUp, Release, Return, GoTo
  <2>4. QED
    BY <2>1, <2>2, <2>3 DEF ReturnTypes, Stations, Messages, NoteType
<1>37. ASSUME NEW p \in Writers, RetireNote(p) PROVE TypeOK'
  <2>1. ReturnTypes'
    BY <1>37, ReturnIsTyped DEF RetireNote
  <2>2. lifetime' \in BOOLEAN
    BY <1>37 DEF RetireNote, Disconnect, ReportTerminal, StartTransportClose, Release, Return,
       GoTo
  <2>3. ledger' \subseteq Calls
    BY <1>37 DEF RetireNote, Disconnect, ReportTerminal, StartTransportClose, Release, Return,
       GoTo
  <2>4. terminals' \in 0..1
    BY <1>37 DEF RetireNote, Disconnect, ReportTerminal, StartTransportClose, Release, Return,
       GoTo, Dead, Writers, Actors
  <2>5. owes' \in [Actors -> BOOLEAN]
    BY <1>37 DEF RetireNote, Disconnect, ReportTerminal, StartTransportClose, Release, Return,
       GoTo, Writers, Actors
  <2>6. transport' \in {"open", "closing", "closed"}
    BY <1>37 DEF RetireNote, Disconnect, ReportTerminal, StartTransportClose, Release, Return,
       GoTo
  <2>7. note' \in NoteType
    BY <1>37 DEF RetireNote, Disconnect, ReportTerminal, StartTransportClose, Release, Return,
       GoTo, NoteType
  <2>8. UNCHANGED <<active, committing, slot, writeDone, writeLate, closeExpired, closeTimedOut,
        closer, closeResult, initialized, held, outcome, handling, outstanding, rude, reads,
        notes>>
    BY <1>37 DEF RetireNote, Disconnect, ReportTerminal, StartTransportClose, Release, Return,
       GoTo
  <2>9. QED
    BY <2>1, <2>2, <2>3, <2>4, <2>5, <2>6, <2>7, <2>8 DEF ReturnTypes, Stations, Messages,
       NoteType
<1>38. ASSUME NEW p \in Writers, QueueDeadline(p) PROVE TypeOK'
  <2>1. expired' \in [Writers -> BOOLEAN]
    BY <1>38 DEF QueueDeadline
  <2>2. UNCHANGED <<active, committing, lifetime, slot, writeDone, writeLate, transport,
        closeExpired, closeTimedOut, closer, closeResult, mutex, initialized, held, ledger,
        terminals, at, msg, outcome, owes, canceled, note, handling, outstanding, rude, reads,
        notes>>
    BY <1>38 DEF QueueDeadline
  <2>3. QED
    BY <2>1, <2>2 DEF Stations, Messages, NoteType
<1>39. ASSUME NEW c \in Closers, CloseBegins(c) PROVE TypeOK'
  <2>1. active' \in BOOLEAN
    BY <1>39 DEF CloseBegins, Deactivate
  <2>2. owes' \in [Actors -> BOOLEAN]
    BY <1>39 DEF CloseBegins, Deactivate, Writers, Actors
  <2>3. closer' \in [Closers -> {"idle", "deactivated", "transport", "write", "done"}]
    BY <1>39 DEF CloseBegins, Deactivate, Writers, Actors
  <2>4. UNCHANGED <<committing, lifetime, slot, writeDone, writeLate, transport, closeExpired,
        closeTimedOut, closeResult, mutex, initialized, held, ledger, terminals, at, msg,
        outcome, canceled, expired, note, handling, outstanding, rude, reads, notes>>
    BY <1>39 DEF CloseBegins, Deactivate
  <2>5. QED
    BY <2>1, <2>2, <2>3, <2>4 DEF Stations, Messages, NoteType
<1>40. ASSUME NEW c \in Closers, CloseStarts(c) PROVE TypeOK'
  <2>1. lifetime' \in BOOLEAN
    BY <1>40 DEF CloseStarts, Disconnect, ReportTerminal, StartTransportClose
  <2>2. ledger' \subseteq Calls
    BY <1>40 DEF CloseStarts, Disconnect, ReportTerminal, StartTransportClose
  <2>3. terminals' \in 0..1
    BY <1>40 DEF CloseStarts, Disconnect, ReportTerminal, StartTransportClose, Dead, Writers,
       Actors
  <2>4. owes' \in [Actors -> BOOLEAN]
    BY <1>40 DEF CloseStarts, Disconnect, ReportTerminal, StartTransportClose, Writers, Actors
  <2>5. transport' \in {"open", "closing", "closed"}
    BY <1>40 DEF CloseStarts, Disconnect, ReportTerminal, StartTransportClose
  <2>6. closer' \in [Closers -> {"idle", "deactivated", "transport", "write", "done"}]
    BY <1>40 DEF CloseStarts, Disconnect, ReportTerminal, StartTransportClose, Writers, Actors
  <2>7. UNCHANGED <<active, committing, slot, writeDone, writeLate, closeExpired, closeTimedOut,
        closeResult, mutex, initialized, held, at, msg, outcome, canceled, expired, note,
        handling, outstanding, rude, reads, notes>>
    BY <1>40 DEF CloseStarts, Disconnect, ReportTerminal, StartTransportClose
  <2>8. QED
    BY <2>1, <2>2, <2>3, <2>4, <2>5, <2>6, <2>7 DEF Stations, Messages, NoteType
<1>41. ASSUME NEW c \in Closers, CloseSeesTransport(c) PROVE TypeOK'
  <2>1. closer' \in [Closers -> {"idle", "deactivated", "transport", "write", "done"}]
    BY <1>41 DEF CloseSeesTransport, Writers, Actors
  <2>2. closeTimedOut' \in BOOLEAN
    BY <1>41 DEF CloseSeesTransport
  <2>3. closeResult' \in [Closers -> {"none", "ok", "timeout"}]
    BY <1>41 DEF CloseSeesTransport
  <2>4. UNCHANGED <<active, committing, lifetime, slot, writeDone, writeLate, transport,
        closeExpired, mutex, initialized, held, ledger, terminals, at, msg, outcome, owes,
        canceled, expired, note, handling, outstanding, rude, reads, notes>>
    BY <1>41 DEF CloseSeesTransport
  <2>5. QED
    BY <2>1, <2>2, <2>3, <2>4 DEF Stations, Messages, NoteType
<1>42. ASSUME NEW c \in Closers, CloseSeesWrite(c) PROVE TypeOK'
  <2>1. closer' \in [Closers -> {"idle", "deactivated", "transport", "write", "done"}]
    BY <1>42 DEF CloseSeesWrite, Writers, Actors
  <2>2. closeTimedOut' \in BOOLEAN
    BY <1>42 DEF CloseSeesWrite
  <2>3. closeResult' \in [Closers -> {"none", "ok", "timeout"}]
    BY <1>42 DEF CloseSeesWrite
  <2>4. lifetime' \in BOOLEAN
    BY <1>42 DEF CloseSeesWrite
  <2>5. UNCHANGED <<active, committing, slot, writeDone, writeLate, transport, closeExpired,
        mutex, initialized, held, ledger, terminals, at, msg, outcome, owes, canceled, expired,
        note, handling, outstanding, rude, reads, notes>>
    BY <1>42 DEF CloseSeesWrite
  <2>6. QED
    BY <2>1, <2>2, <2>3, <2>4, <2>5 DEF Stations, Messages, NoteType
<1>43. CASE UNCHANGED vars
  BY <1>43 DEF vars
<1>44. QED
  BY <1>1, <1>2, <1>3, <1>4, <1>5, <1>6, <1>7, <1>8, <1>9, <1>10, <1>11, <1>12, <1>13, <1>14,
     <1>15, <1>16, <1>17, <1>18, <1>19, <1>20, <1>21, <1>22, <1>23, <1>24, <1>25, <1>26, <1>27,
     <1>28, <1>29, <1>30, <1>31, <1>32, <1>33, <1>34, <1>35, <1>36, <1>37, <1>38, <1>39, <1>40,
     <1>41, <1>42, <1>43
     DEF Next, ServerStep, ReaderStep, SenderStep, NoteStep, PhysicalStep, CloserStep

\* Return gives back the mutex with the place and the message.
LEMMA ReturnEnters ==
    ASSUME TypeOK, Entered, NEW p \in Writers, NEW failed, Return(p, failed), mutex = p
    PROVE  Entered'
<1> USE ConnectionAssumption DEF TypeOK, Entered, ReplyPlaces, NotePlaces, Writers, Return, GoTo
<1>1. /\ mutex' = Nobody /\ msg'[p] = Nobody
      /\ at'[p] = "idle" \/ (p = Reader /\ at'[p] \in {"stopped", "read"})
      /\ p # Reader => at'[p] = "idle"
  OBVIOUS
<1>2. \A q \in Writers : q # p => at'[q] = at[q] /\ msg'[q] = msg[q]
  OBVIOUS
<1>3. \A q \in Writers : at'[q] \notin ReplyPlaces \cup NotePlaces
  BY <1>1, <1>2
<1>4. QED
  BY <1>1, <1>2, <1>3

\* One goes through the mutex at a time, with its message.
LEMMA EnteredStep ==
    ASSUME TypeOK, Entered, [Next]_vars
    PROVE  Entered'
<1> USE DEF TypeOK, Entered, ReplyPlaces, NotePlaces, connVars, slotVars, closeVars, shakeVars,
           ledgerVars, timeVars, clientVars, bounds, Writers, Actors
<1>1. CASE ReadEnds
  BY <1>1 DEF ReadEnds, ReaderStops, GoTo
<1>2. CASE Admit
  BY <1>2 DEF Admit, Settled, GoTo
<1>3. CASE RefuseMessage
  BY <1>3 DEF RefuseMessage, Deactivate, GoTo
<1>4. CASE ReadTooLate
  BY <1>4 DEF ReadTooLate, ReaderStops, GoTo
<1>5. CASE RetireRead
  BY <1>5 DEF RetireRead, Disconnect, ReportTerminal, ReaderStops, GoTo
<1>6. CASE Initialized
  BY <1>6, ConnectionAssumption DEF Initialized, GoTo
<1>7. CASE ReadFails
  BY <1>7 DEF ReadFails, Deactivate, GoTo
<1>8. CASE PhysicalBegins
  BY <1>8 DEF PhysicalBegins
<1>9. CASE PhysicalEnds
  BY <1>9 DEF PhysicalEnds
<1>10. CASE PhysicalReports
  BY <1>10 DEF PhysicalReports
<1>11. CASE PhysicalLeaves
  BY <1>11 DEF PhysicalLeaves, NoNote
<1>12. CASE MonitorJudges
  BY <1>12 DEF MonitorJudges, Deactivate
<1>13. CASE MonitorRetires
  BY <1>13 DEF MonitorRetires, Disconnect, ReportTerminal, StartTransportClose
<1>14. CASE NoteDeadline
  BY <1>14 DEF NoteDeadline
<1>15. CASE TransportCloses
  BY <1>15 DEF TransportCloses
<1>16. CASE CloseDeadline
  BY <1>16 DEF CloseDeadline
<1>17. ASSUME NEW m \in Calls \cup {"initialized"}, ReadMessage(m) PROVE Entered'
  BY <1>17 DEF ReadMessage, ClientSends, GoTo
<1>18. ASSUME NEW s \in Senders, NEW m \in Calls \cup Kinds, WriteBegins(s, m) PROVE Entered'
  BY <1>18, ConnectionAssumption DEF WriteBegins, GoTo
<1>19. ASSUME NEW s \in Senders, Hold(s) PROVE Entered'
  BY <1>19 DEF Hold, GoTo
<1>20. ASSUME NEW s \in Senders, EnterWrite(s) PROVE Entered'
  BY <1>20, ConnectionAssumption DEF EnterWrite, GoTo
<1>21. ASSUME NEW s \in Senders, ReplyTakesSlot(s) PROVE Entered'
  BY <1>21 DEF ReplyTakesSlot, GoTo
<1>22. ASSUME NEW s \in Senders, ReplyRefused(s) PROVE Entered'
  BY <1>22, ReturnEnters, ConnectionAssumption DEF ReplyRefused
<1>23. ASSUME NEW s \in Senders, ReplyArrives(s) PROVE Entered'
  BY <1>23 DEF ReplyArrives, GoTo
<1>24. ASSUME NEW s \in Senders, ReplyWritten(s) PROVE Entered'
  BY <1>24 DEF ReplyWritten, GoTo
<1>25. ASSUME NEW s \in Senders, Settle(s) PROVE Entered'
  BY <1>25 DEF Settle, GoTo
<1>26. ASSUME NEW s \in Senders, ReplyReturns(s) PROVE Entered'
  BY <1>26, ReturnEnters, ConnectionAssumption DEF ReplyReturns
<1>27. ASSUME NEW s \in Senders, CancelContext(s) PROVE Entered'
  BY <1>27 DEF CancelContext
<1>28. ASSUME NEW p \in Writers, NoteTakesSlot(p) PROVE Entered'
  BY <1>28 DEF NoteTakesSlot, GivenUp, NoNote, GoTo
<1>29. ASSUME NEW p \in Writers, NoteGivesUp(p) PROVE Entered'
  BY <1>29, ReturnEnters, ConnectionAssumption DEF NoteGivesUp
<1>30. ASSUME NEW p \in Writers, NoteExpires(p) PROVE Entered'
  BY <1>30 DEF NoteExpires, GivenUp, Deactivate, GoTo
<1>31. ASSUME NEW p \in Writers, RetireSlot(p) PROVE Entered'
  BY <1>31, ReturnEnters, ConnectionAssumption DEF RetireSlot
<1>32. ASSUME NEW p \in Writers, NoteSent(p) PROVE Entered'
  BY <1>32, ReturnEnters, ConnectionAssumption DEF NoteSent
<1>33. ASSUME NEW p \in Writers, NoteBroke(p) PROVE Entered'
  BY <1>33 DEF NoteBroke, Deactivate, GoTo
<1>34. ASSUME NEW p \in Writers, NoteQuarantined(p) PROVE Entered'
  BY <1>34, ReturnEnters, ConnectionAssumption DEF NoteQuarantined
<1>35. ASSUME NEW p \in Writers, NoteTimesOut(p) PROVE Entered'
  BY <1>35 DEF NoteTimesOut, GivenUp, Deactivate, GoTo
<1>36. ASSUME NEW p \in Writers, NoteTimesOutCanceled(p) PROVE Entered'
  BY <1>36, ReturnEnters, ConnectionAssumption DEF NoteTimesOutCanceled
<1>37. ASSUME NEW p \in Writers, RetireNote(p) PROVE Entered'
  BY <1>37, ReturnEnters, ConnectionAssumption DEF RetireNote
<1>38. ASSUME NEW p \in Writers, QueueDeadline(p) PROVE Entered'
  BY <1>38 DEF QueueDeadline
<1>39. ASSUME NEW c \in Closers, CloseBegins(c) PROVE Entered'
  BY <1>39 DEF CloseBegins, Deactivate
<1>40. ASSUME NEW c \in Closers, CloseStarts(c) PROVE Entered'
  BY <1>40 DEF CloseStarts, Disconnect, ReportTerminal, StartTransportClose
<1>41. ASSUME NEW c \in Closers, CloseSeesTransport(c) PROVE Entered'
  BY <1>41 DEF CloseSeesTransport
<1>42. ASSUME NEW c \in Closers, CloseSeesWrite(c) PROVE Entered'
  BY <1>42 DEF CloseSeesWrite
<1>43. CASE UNCHANGED vars
  BY <1>43 DEF vars
<1>44. QED
  BY <1>1, <1>2, <1>3, <1>4, <1>5, <1>6, <1>7, <1>8, <1>9, <1>10, <1>11, <1>12, <1>13, <1>14,
     <1>15, <1>16, <1>17, <1>18, <1>19, <1>20, <1>21, <1>22, <1>23, <1>24, <1>25, <1>26, <1>27,
     <1>28, <1>29, <1>30, <1>31, <1>32, <1>33, <1>34, <1>35, <1>36, <1>37, <1>38, <1>39, <1>40,
     <1>41, <1>42, <1>43
     DEF Next, ServerStep, ReaderStep, SenderStep, NoteStep, PhysicalStep, CloserStep

\* Nobody brings a connection back, nor reports its end twice.
LEMMA DeadStep ==
    ASSUME TypeOK, Entered, Dead, [Next]_vars
    PROVE  Dead'
<1> USE DEF TypeOK, Dead, connVars, slotVars, closeVars, shakeVars, ledgerVars, timeVars,
           clientVars, bounds, Writers, Actors
<1>1. CASE ReadEnds
  BY <1>1 DEF ReadEnds, ReaderStops, GoTo
<1>2. CASE Admit
  BY <1>2 DEF Admit, Settled, GoTo
<1>3. CASE RefuseMessage
  BY <1>3 DEF RefuseMessage, Deactivate, GoTo
<1>4. CASE ReadTooLate
  BY <1>4 DEF ReadTooLate, ReaderStops, GoTo
<1>5. CASE RetireRead
  BY <1>5 DEF RetireRead, Disconnect, ReportTerminal, ReaderStops, GoTo
<1>6. CASE Initialized
  BY <1>6 DEF Initialized, GoTo
<1>7. CASE ReadFails
  BY <1>7 DEF ReadFails, Deactivate, GoTo
<1>8. CASE PhysicalBegins
  BY <1>8 DEF PhysicalBegins
<1>9. CASE PhysicalEnds
  BY <1>9 DEF PhysicalEnds
<1>10. CASE PhysicalReports
  BY <1>10 DEF PhysicalReports
<1>11. CASE PhysicalLeaves
  BY <1>11 DEF PhysicalLeaves, NoNote
<1>12. CASE MonitorJudges
  <2>1. CASE /\ note' = [note EXCEPT !.watched = "no", !.released = TRUE]
             /\ UNCHANGED <<connVars, owes>>
    BY <1>12, <2>1 DEF MonitorJudges
  <2>2. CASE Deactivate("monitor") /\ UNCHANGED lifetime
    BY <1>12, <2>2 DEF MonitorJudges, Deactivate
  <2>3. QED
    BY <1>12, <2>1, <2>2 DEF MonitorJudges
<1>13. CASE MonitorRetires
  BY <1>13 DEF MonitorRetires, Disconnect, ReportTerminal, StartTransportClose
<1>14. CASE NoteDeadline
  BY <1>14 DEF NoteDeadline
<1>15. CASE TransportCloses
  BY <1>15 DEF TransportCloses
<1>16. CASE CloseDeadline
  BY <1>16 DEF CloseDeadline
<1>17. ASSUME NEW m \in Calls \cup {"initialized"}, ReadMessage(m) PROVE Dead'
  BY <1>17 DEF ReadMessage, ClientSends, GoTo
<1>18. ASSUME NEW s \in Senders, NEW m \in Calls \cup Kinds, WriteBegins(s, m) PROVE Dead'
  BY <1>18 DEF WriteBegins, GoTo
<1>19. ASSUME NEW s \in Senders, Hold(s) PROVE Dead'
  BY <1>19 DEF Hold, GoTo
<1>20. ASSUME NEW s \in Senders, EnterWrite(s) PROVE Dead'
  BY <1>20 DEF EnterWrite, GoTo
<1>21. ASSUME NEW s \in Senders, ReplyTakesSlot(s) PROVE Dead'
  BY <1>21 DEF ReplyTakesSlot, GoTo
<1>22. ASSUME NEW s \in Senders, ReplyRefused(s) PROVE Dead'
  BY <1>22 DEF ReplyRefused, Return, GoTo
<1>23. ASSUME NEW s \in Senders, ReplyArrives(s) PROVE Dead'
  BY <1>23 DEF ReplyArrives, GoTo
<1>24. ASSUME NEW s \in Senders, ReplyWritten(s) PROVE Dead'
  BY <1>24 DEF ReplyWritten, GoTo
<1>25. ASSUME NEW s \in Senders, Settle(s) PROVE Dead'
  <2>1. CASE outcome[s].result = "fatal"
    BY <1>25, <2>1 DEF Settle, GoTo
  <2>2. CASE outcome[s].result # "fatal"
    BY <1>25, <2>2 DEF Settle, GoTo
  <2>3. QED
    BY <2>1, <2>2
<1>26. ASSUME NEW s \in Senders, ReplyReturns(s) PROVE Dead'
  BY <1>26 DEF ReplyReturns, ReportTerminal, Return, GoTo
<1>27. ASSUME NEW s \in Senders, CancelContext(s) PROVE Dead'
  BY <1>27 DEF CancelContext
<1>28. ASSUME NEW p \in Writers, NoteTakesSlot(p) PROVE Dead'
  BY <1>28 DEF NoteTakesSlot, GivenUp, NoNote, GoTo
<1>29. ASSUME NEW p \in Writers, NoteGivesUp(p) PROVE Dead'
  BY <1>29 DEF NoteGivesUp, GivenUp, Return, GoTo
<1>30. ASSUME NEW p \in Writers, NoteExpires(p) PROVE Dead'
  BY <1>30 DEF NoteExpires, GivenUp, Deactivate, GoTo
<1>31. ASSUME NEW p \in Writers, RetireSlot(p) PROVE Dead'
  BY <1>31 DEF RetireSlot, Disconnect, ReportTerminal, StartTransportClose, Return, GoTo
<1>32. ASSUME NEW p \in Writers, NoteSent(p) PROVE Dead'
  BY <1>32 DEF NoteSent, Release, Return, GoTo
<1>33. ASSUME NEW p \in Writers, NoteBroke(p) PROVE Dead'
  BY <1>33 DEF NoteBroke, Deactivate, GoTo
<1>34. ASSUME NEW p \in Writers, NoteQuarantined(p) PROVE Dead'
  BY <1>34 DEF NoteQuarantined, GivenUp, Return, GoTo
<1>35. ASSUME NEW p \in Writers, NoteTimesOut(p) PROVE Dead'
  BY <1>35 DEF NoteTimesOut, GivenUp, Deactivate, GoTo
<1>36. ASSUME NEW p \in Writers, NoteTimesOutCanceled(p) PROVE Dead'
  BY <1>36 DEF NoteTimesOutCanceled, GivenUp, Release, Return, GoTo
<1>37. ASSUME NEW p \in Writers, RetireNote(p) PROVE Dead'
  BY <1>37 DEF RetireNote, Disconnect, ReportTerminal, StartTransportClose, Release, Return,
     GoTo
<1>38. ASSUME NEW p \in Writers, QueueDeadline(p) PROVE Dead'
  BY <1>38 DEF QueueDeadline
<1>39. ASSUME NEW c \in Closers, CloseBegins(c) PROVE Dead'
  BY <1>39 DEF CloseBegins, Deactivate
<1>40. ASSUME NEW c \in Closers, CloseStarts(c) PROVE Dead'
  BY <1>40 DEF CloseStarts, Disconnect, ReportTerminal, StartTransportClose
<1>41. ASSUME NEW c \in Closers, CloseSeesTransport(c) PROVE Dead'
  BY <1>41 DEF CloseSeesTransport
<1>42. ASSUME NEW c \in Closers, CloseSeesWrite(c) PROVE Dead'
  BY <1>42 DEF CloseSeesWrite
<1>43. CASE UNCHANGED vars
  BY <1>43 DEF vars
<1>44. QED
  BY <1>1, <1>2, <1>3, <1>4, <1>5, <1>6, <1>7, <1>8, <1>9, <1>10, <1>11, <1>12, <1>13, <1>14,
     <1>15, <1>16, <1>17, <1>18, <1>19, <1>20, <1>21, <1>22, <1>23, <1>24, <1>25, <1>26, <1>27,
     <1>28, <1>29, <1>30, <1>31, <1>32, <1>33, <1>34, <1>35, <1>36, <1>37, <1>38, <1>39, <1>40,
     <1>41, <1>42, <1>43
     DEF Next, ServerStep, ReaderStep, SenderStep, NoteStep, PhysicalStep, CloserStep

\* The ledger follows the calls.
LEMMA WorkedStep ==
    ASSUME TypeOK, Entered, Dead, Worked, [Next]_vars
    PROVE  Worked'
<1> USE DEF TypeOK, Worked, Sending, connVars, slotVars, closeVars, shakeVars, ledgerVars,
           timeVars, clientVars, bounds, Writers, Actors
<1>1. CASE ReadEnds
  BY <1>1 DEF ReadEnds, ReaderStops, GoTo
<1>2. CASE Admit
  <2> DEFINE m == msg[Reader]
  <2>1. /\ active /\ m \notin ledger
        /\ ledger' = ledger \cup ({m} \cap Calls) /\ handling' = handling \cup ({m} \cap Calls)
        /\ UNCHANGED <<active, terminals, msg>>
    BY <1>2 DEF Admit, Refusal
  <2>2. \A s \in Senders : at'[s] = at[s]
    BY <1>2, ConnectionAssumption DEF Admit, GoTo
  <2>3. terminals = 0
    BY <2>1 DEF Dead
  <2>4. QED
    BY <2>1, <2>2, <2>3
<1>3. CASE RefuseMessage
  BY <1>3 DEF RefuseMessage, Deactivate, GoTo
<1>4. CASE ReadTooLate
  BY <1>4 DEF ReadTooLate, ReaderStops, GoTo
<1>5. CASE RetireRead
  BY <1>5, ConnectionAssumption DEF RetireRead, Disconnect, ReportTerminal, ReaderStops, GoTo,
     Dead
<1>6. CASE Initialized
  BY <1>6, ConnectionAssumption DEF Initialized, GoTo, Dead
<1>7. CASE ReadFails
  BY <1>7 DEF ReadFails, Deactivate, GoTo
<1>8. CASE PhysicalBegins
  BY <1>8 DEF PhysicalBegins
<1>9. CASE PhysicalEnds
  BY <1>9 DEF PhysicalEnds
<1>10. CASE PhysicalReports
  BY <1>10 DEF PhysicalReports
<1>11. CASE PhysicalLeaves
  BY <1>11 DEF PhysicalLeaves, NoNote
<1>12. CASE MonitorJudges
  BY <1>12 DEF MonitorJudges, Deactivate
<1>13. CASE MonitorRetires
  BY <1>13, ConnectionAssumption DEF MonitorRetires, Disconnect, ReportTerminal,
     StartTransportClose, Dead
<1>14. CASE NoteDeadline
  BY <1>14 DEF NoteDeadline
<1>15. CASE TransportCloses
  BY <1>15 DEF TransportCloses
<1>16. CASE CloseDeadline
  BY <1>16 DEF CloseDeadline
<1>17. ASSUME NEW m \in Calls \cup {"initialized"}, ReadMessage(m) PROVE Worked'
  BY <1>17 DEF ReadMessage, ClientSends, GoTo
<1>18. ASSUME NEW s \in Senders, NEW m \in Calls \cup Kinds, WriteBegins(s, m) PROVE Worked'
  <2>1. m \notin Kinds => m \in Calls
    BY ConnectionAssumption
  <2>2. CASE m \in handling
    <3>1. /\ handling' = handling \ {m} /\ m \in Calls
          /\ Sending(s)' /\ msg'[s] = m
      <4>1. m \in Calls /\ m \notin Kinds
        <5>1. m \in Calls
          BY <2>2
        <5>2. m \notin {"note", "changed"}
          BY ONLY <5>1, ConnectionAssumption
        <5>3. QED
          BY ONLY <5>1, <5>2, ConnectionAssumption
      <4>2. handling' = handling \ {m} /\ at'[s] = "mutex" /\ msg'[s] = m
        BY <1>18, <4>1, ConnectionAssumption DEF WriteBegins, GoTo
      <4>3. QED
        BY <4>1, <4>2
    <3>2. ~Sending(s) /\ \A t \in Senders : t # s => (Sending(t)' <=> Sending(t)) /\ msg'[t] = msg[t]
      BY <1>18 DEF WriteBegins, GoTo
    <3>3. UNCHANGED <<active, ledger, terminals>>
      BY <1>18 DEF WriteBegins
    <3>4. QED
      BY <2>2, <3>1, <3>2, <3>3
  <2>3. CASE m \notin handling
    <3>1. handling' = handling /\ ~Sending(s)' /\ ~Sending(s)
      BY <1>18, <2>3, ConnectionAssumption DEF WriteBegins, GoTo
    <3>2. \A t \in Senders : t # s => (Sending(t)' <=> Sending(t)) /\ msg'[t] = msg[t]
      BY <1>18 DEF WriteBegins, GoTo
    <3>3. UNCHANGED <<active, ledger, terminals>>
      BY <1>18 DEF WriteBegins
    <3>4. QED
      BY <3>1, <3>2, <3>3
  <2>4. QED
    BY <2>2, <2>3
<1>19. ASSUME NEW s \in Senders, Hold(s) PROVE Worked'
  BY <1>19, ConnectionAssumption DEF Hold, GoTo, Dead
<1>20. ASSUME NEW s \in Senders, EnterWrite(s) PROVE Worked'
  BY <1>20 DEF EnterWrite, GoTo
<1>21. ASSUME NEW s \in Senders, ReplyTakesSlot(s) PROVE Worked'
  BY <1>21 DEF ReplyTakesSlot, GoTo
<1>22. ASSUME NEW s \in Senders, ReplyRefused(s) PROVE Worked'
  BY <1>22, ConnectionAssumption DEF ReplyRefused, Return, GoTo, Dead
<1>23. ASSUME NEW s \in Senders, ReplyArrives(s) PROVE Worked'
  BY <1>23 DEF ReplyArrives, GoTo
<1>24. ASSUME NEW s \in Senders, ReplyWritten(s) PROVE Worked'
  BY <1>24 DEF ReplyWritten, GoTo
<1>25. ASSUME NEW s \in Senders, Settle(s) PROVE Worked'
  BY <1>25 DEF Settle, GoTo
<1>26. ASSUME NEW s \in Senders, ReplyReturns(s) PROVE Worked'
  BY <1>26, ConnectionAssumption DEF ReplyReturns, ReportTerminal, Return, GoTo, Dead
<1>27. ASSUME NEW s \in Senders, CancelContext(s) PROVE Worked'
  BY <1>27 DEF CancelContext
<1>28. ASSUME NEW p \in Writers, NoteTakesSlot(p) PROVE Worked'
  BY <1>28, ConnectionAssumption DEF NoteTakesSlot, GivenUp, NoNote, GoTo, Dead
<1>29. ASSUME NEW p \in Writers, NoteGivesUp(p) PROVE Worked'
  BY <1>29 DEF NoteGivesUp, GivenUp, Return, GoTo
<1>30. ASSUME NEW p \in Writers, NoteExpires(p) PROVE Worked'
  BY <1>30 DEF NoteExpires, GivenUp, Deactivate, GoTo
<1>31. ASSUME NEW p \in Writers, RetireSlot(p) PROVE Worked'
  BY <1>31, ConnectionAssumption DEF RetireSlot, Disconnect, ReportTerminal,
     StartTransportClose, Return, GoTo, Dead
<1>32. ASSUME NEW p \in Writers, NoteSent(p) PROVE Worked'
  BY <1>32 DEF NoteSent, Release, Return, GoTo
<1>33. ASSUME NEW p \in Writers, NoteBroke(p) PROVE Worked'
  BY <1>33 DEF NoteBroke, Deactivate, GoTo
<1>34. ASSUME NEW p \in Writers, NoteQuarantined(p) PROVE Worked'
  BY <1>34 DEF NoteQuarantined, GivenUp, Return, GoTo
<1>35. ASSUME NEW p \in Writers, NoteTimesOut(p) PROVE Worked'
  BY <1>35 DEF NoteTimesOut, GivenUp, Deactivate, GoTo
<1>36. ASSUME NEW p \in Writers, NoteTimesOutCanceled(p) PROVE Worked'
  BY <1>36 DEF NoteTimesOutCanceled, GivenUp, Release, Return, GoTo
<1>37. ASSUME NEW p \in Writers, RetireNote(p) PROVE Worked'
  BY <1>37, ConnectionAssumption DEF RetireNote, Disconnect, ReportTerminal,
     StartTransportClose, Release, Return, GoTo, Dead
<1>38. ASSUME NEW p \in Writers, QueueDeadline(p) PROVE Worked'
  BY <1>38 DEF QueueDeadline
<1>39. ASSUME NEW c \in Closers, CloseBegins(c) PROVE Worked'
  BY <1>39 DEF CloseBegins, Deactivate
<1>40. ASSUME NEW c \in Closers, CloseStarts(c) PROVE Worked'
  BY <1>40, ConnectionAssumption DEF CloseStarts, Disconnect, ReportTerminal,
     StartTransportClose, Dead
<1>41. ASSUME NEW c \in Closers, CloseSeesTransport(c) PROVE Worked'
  BY <1>41 DEF CloseSeesTransport
<1>42. ASSUME NEW c \in Closers, CloseSeesWrite(c) PROVE Worked'
  BY <1>42 DEF CloseSeesWrite
<1>43. CASE UNCHANGED vars
  BY <1>43 DEF vars
<1>44. QED
  BY <1>1, <1>2, <1>3, <1>4, <1>5, <1>6, <1>7, <1>8, <1>9, <1>10, <1>11, <1>12, <1>13, <1>14,
     <1>15, <1>16, <1>17, <1>18, <1>19, <1>20, <1>21, <1>22, <1>23, <1>24, <1>25, <1>26, <1>27,
     <1>28, <1>29, <1>30, <1>31, <1>32, <1>33, <1>34, <1>35, <1>36, <1>37, <1>38, <1>39, <1>40,
     <1>41, <1>42, <1>43
     DEF Next, ServerStep, ReaderStep, SenderStep, NoteStep, PhysicalStep, CloserStep

\* The slot goes from one write to the next.
LEMMA SlottedStep ==
    ASSUME TypeOK, Entered, Slotted, [Next]_vars
    PROVE  Slotted'
<1> USE DEF TypeOK, Slotted, Entered, ReplyPlaces, NotePlaces, connVars, slotVars, closeVars,
           shakeVars, ledgerVars, timeVars, clientVars, bounds, Writers, Actors
<1>1. CASE ReadEnds
  BY <1>1 DEF ReadEnds, ReaderStops, GoTo
<1>2. CASE Admit
  BY <1>2 DEF Admit, Settled, GoTo
<1>3. CASE RefuseMessage
  BY <1>3 DEF RefuseMessage, Deactivate, GoTo
<1>4. CASE ReadTooLate
  BY <1>4 DEF ReadTooLate, ReaderStops, GoTo
<1>5. CASE RetireRead
  BY <1>5 DEF RetireRead, Disconnect, ReportTerminal, ReaderStops, GoTo
<1>6. CASE Initialized
  BY <1>6 DEF Initialized, GoTo
<1>7. CASE ReadFails
  BY <1>7 DEF ReadFails, Deactivate, GoTo
<1>8. CASE PhysicalBegins
  BY <1>8 DEF PhysicalBegins
<1>9. CASE PhysicalEnds
  BY <1>9 DEF PhysicalEnds
<1>10. CASE PhysicalReports
  BY <1>10 DEF PhysicalReports
<1>11. CASE PhysicalLeaves
  BY <1>11 DEF PhysicalLeaves, NoNote
<1>12. CASE MonitorJudges
  <2>1. CASE /\ note' = [note EXCEPT !.watched = "no", !.released = TRUE]
             /\ UNCHANGED <<connVars, owes>>
    BY <1>12, <2>1 DEF MonitorJudges, NoNote
  <2>2. CASE note' = [note EXCEPT !.watched = "retire"] /\ UNCHANGED committing
    BY <1>12, <2>2 DEF MonitorJudges, NoNote
  <2>3. QED
    BY <1>12, <2>1, <2>2 DEF MonitorJudges, Deactivate
<1>13. CASE MonitorRetires
  BY <1>13, ConnectionAssumption DEF MonitorRetires, Disconnect, ReportTerminal,
     StartTransportClose, NoNote
<1>14. CASE NoteDeadline
  BY <1>14 DEF NoteDeadline
<1>15. CASE TransportCloses
  BY <1>15 DEF TransportCloses
<1>16. CASE CloseDeadline
  BY <1>16 DEF CloseDeadline
<1>17. ASSUME NEW m \in Calls \cup {"initialized"}, ReadMessage(m) PROVE Slotted'
  BY <1>17 DEF ReadMessage, ClientSends, GoTo
<1>18. ASSUME NEW s \in Senders, NEW m \in Calls \cup Kinds, WriteBegins(s, m) PROVE Slotted'
  BY <1>18 DEF WriteBegins, GoTo
<1>19. ASSUME NEW s \in Senders, Hold(s) PROVE Slotted'
  BY <1>19 DEF Hold, GoTo
<1>20. ASSUME NEW s \in Senders, EnterWrite(s) PROVE Slotted'
  BY <1>20 DEF EnterWrite, GoTo
<1>21. ASSUME NEW s \in Senders, ReplyTakesSlot(s) PROVE Slotted'
  BY <1>21 DEF ReplyTakesSlot, GoTo
<1>22. ASSUME NEW s \in Senders, ReplyRefused(s) PROVE Slotted'
  BY <1>22 DEF ReplyRefused, Return, GoTo
<1>23. ASSUME NEW s \in Senders, ReplyArrives(s) PROVE Slotted'
  BY <1>23 DEF ReplyArrives, GoTo
<1>24. ASSUME NEW s \in Senders, ReplyWritten(s) PROVE Slotted'
  BY <1>24 DEF ReplyWritten, GoTo
<1>25. ASSUME NEW s \in Senders, Settle(s) PROVE Slotted'
  BY <1>25 DEF Settle, GoTo
<1>26. ASSUME NEW s \in Senders, ReplyReturns(s) PROVE Slotted'
  BY <1>26 DEF ReplyReturns, ReportTerminal, Return, GoTo
<1>27. ASSUME NEW s \in Senders, CancelContext(s) PROVE Slotted'
  BY <1>27 DEF CancelContext
<1>28. ASSUME NEW p \in Writers, NoteTakesSlot(p) PROVE Slotted'
  BY <1>28, ConnectionAssumption DEF NoteTakesSlot, GivenUp, NoNote, GoTo
<1>29. ASSUME NEW p \in Writers, NoteGivesUp(p) PROVE Slotted'
  BY <1>29 DEF NoteGivesUp, GivenUp, Return, GoTo
<1>30. ASSUME NEW p \in Writers, NoteExpires(p) PROVE Slotted'
  BY <1>30 DEF NoteExpires, GivenUp, Deactivate, GoTo
<1>31. ASSUME NEW p \in Writers, RetireSlot(p) PROVE Slotted'
  BY <1>31 DEF RetireSlot, Disconnect, ReportTerminal, StartTransportClose, Return, GoTo
<1>32. ASSUME NEW p \in Writers, NoteSent(p) PROVE Slotted'
  BY <1>32 DEF NoteSent, Release, Return, GoTo
<1>33. ASSUME NEW p \in Writers, NoteBroke(p) PROVE Slotted'
  BY <1>33 DEF NoteBroke, Deactivate, GoTo
<1>34. ASSUME NEW p \in Writers, NoteQuarantined(p) PROVE Slotted'
  BY <1>34 DEF NoteQuarantined, GivenUp, Return, GoTo
<1>35. ASSUME NEW p \in Writers, NoteTimesOut(p) PROVE Slotted'
  BY <1>35 DEF NoteTimesOut, GivenUp, Deactivate, GoTo
<1>36. ASSUME NEW p \in Writers, NoteTimesOutCanceled(p) PROVE Slotted'
  BY <1>36 DEF NoteTimesOutCanceled, GivenUp, Release, Return, GoTo
<1>37. ASSUME NEW p \in Writers, RetireNote(p) PROVE Slotted'
  BY <1>37 DEF RetireNote, Disconnect, ReportTerminal, StartTransportClose, Release, Return,
     GoTo
<1>38. ASSUME NEW p \in Writers, QueueDeadline(p) PROVE Slotted'
  BY <1>38 DEF QueueDeadline
<1>39. ASSUME NEW c \in Closers, CloseBegins(c) PROVE Slotted'
  BY <1>39 DEF CloseBegins, Deactivate
<1>40. ASSUME NEW c \in Closers, CloseStarts(c) PROVE Slotted'
  BY <1>40 DEF CloseStarts, Disconnect, ReportTerminal, StartTransportClose
<1>41. ASSUME NEW c \in Closers, CloseSeesTransport(c) PROVE Slotted'
  BY <1>41 DEF CloseSeesTransport
<1>42. ASSUME NEW c \in Closers, CloseSeesWrite(c) PROVE Slotted'
  BY <1>42 DEF CloseSeesWrite
<1>43. CASE UNCHANGED vars
  BY <1>43 DEF vars
<1>44. QED
  BY <1>1, <1>2, <1>3, <1>4, <1>5, <1>6, <1>7, <1>8, <1>9, <1>10, <1>11, <1>12, <1>13, <1>14,
     <1>15, <1>16, <1>17, <1>18, <1>19, <1>20, <1>21, <1>22, <1>23, <1>24, <1>25, <1>26, <1>27,
     <1>28, <1>29, <1>30, <1>31, <1>32, <1>33, <1>34, <1>35, <1>36, <1>37, <1>38, <1>39, <1>40,
     <1>41, <1>42, <1>43
     DEF Next, ServerStep, ReaderStep, SenderStep, NoteStep, PhysicalStep, CloserStep

\* No write begins behind a Close.
LEMMA FencedStep ==
    ASSUME TypeOK, Dead, Slotted, Fenced, [Next]_vars
    PROVE  Fenced'
<1> USE DEF TypeOK, Fenced, CloseFencesWrites, Writing, connVars, slotVars, closeVars,
           shakeVars, ledgerVars, timeVars, clientVars, bounds, Writers, Actors
<1>1. CASE ReadEnds
  BY <1>1 DEF ReadEnds, ReaderStops, GoTo
<1>2. CASE Admit
  BY <1>2 DEF Admit, Settled, GoTo
<1>3. CASE RefuseMessage
  BY <1>3 DEF RefuseMessage, Deactivate, GoTo
<1>4. CASE ReadTooLate
  BY <1>4 DEF ReadTooLate, ReaderStops, GoTo
<1>5. CASE RetireRead
  BY <1>5 DEF RetireRead, Disconnect, ReportTerminal, ReaderStops, GoTo
<1>6. CASE Initialized
  BY <1>6 DEF Initialized, GoTo
<1>7. CASE ReadFails
  BY <1>7 DEF ReadFails, Deactivate, GoTo
<1>8. CASE PhysicalBegins
  BY <1>8 DEF PhysicalBegins
<1>9. CASE PhysicalEnds
  BY <1>9 DEF PhysicalEnds
<1>10. CASE PhysicalReports
  BY <1>10 DEF PhysicalReports
<1>11. CASE PhysicalLeaves
  BY <1>11 DEF PhysicalLeaves, NoNote
<1>12. CASE MonitorJudges
  BY <1>12 DEF MonitorJudges, Deactivate
<1>13. CASE MonitorRetires
  BY <1>13 DEF MonitorRetires, Disconnect, ReportTerminal, StartTransportClose
<1>14. CASE NoteDeadline
  BY <1>14 DEF NoteDeadline
<1>15. CASE TransportCloses
  BY <1>15 DEF TransportCloses
<1>16. CASE CloseDeadline
  BY <1>16 DEF CloseDeadline
<1>17. ASSUME NEW m \in Calls \cup {"initialized"}, ReadMessage(m) PROVE Fenced'
  BY <1>17 DEF ReadMessage, ClientSends, GoTo
<1>18. ASSUME NEW s \in Senders, NEW m \in Calls \cup Kinds, WriteBegins(s, m) PROVE Fenced'
  BY <1>18 DEF WriteBegins, GoTo
<1>19. ASSUME NEW s \in Senders, Hold(s) PROVE Fenced'
  BY <1>19 DEF Hold, GoTo
<1>20. ASSUME NEW s \in Senders, EnterWrite(s) PROVE Fenced'
  BY <1>20 DEF EnterWrite, GoTo
<1>21. ASSUME NEW s \in Senders, ReplyTakesSlot(s) PROVE Fenced'
  BY <1>21 DEF ReplyTakesSlot, GoTo, Dead
<1>22. ASSUME NEW s \in Senders, ReplyRefused(s) PROVE Fenced'
  BY <1>22 DEF ReplyRefused, Return, GoTo
<1>23. ASSUME NEW s \in Senders, ReplyArrives(s) PROVE Fenced'
  BY <1>23 DEF ReplyArrives, GoTo
<1>24. ASSUME NEW s \in Senders, ReplyWritten(s) PROVE Fenced'
  BY <1>24 DEF ReplyWritten, GoTo
<1>25. ASSUME NEW s \in Senders, Settle(s) PROVE Fenced'
  BY <1>25 DEF Settle, GoTo
<1>26. ASSUME NEW s \in Senders, ReplyReturns(s) PROVE Fenced'
  BY <1>26 DEF ReplyReturns, ReportTerminal, Return, GoTo
<1>27. ASSUME NEW s \in Senders, CancelContext(s) PROVE Fenced'
  BY <1>27 DEF CancelContext
<1>28. ASSUME NEW p \in Writers, NoteTakesSlot(p) PROVE Fenced'
  BY <1>28 DEF NoteTakesSlot, GivenUp, NoNote, GoTo, Dead
<1>29. ASSUME NEW p \in Writers, NoteGivesUp(p) PROVE Fenced'
  BY <1>29 DEF NoteGivesUp, GivenUp, Return, GoTo
<1>30. ASSUME NEW p \in Writers, NoteExpires(p) PROVE Fenced'
  BY <1>30 DEF NoteExpires, GivenUp, Deactivate, GoTo
<1>31. ASSUME NEW p \in Writers, RetireSlot(p) PROVE Fenced'
  BY <1>31 DEF RetireSlot, Disconnect, ReportTerminal, StartTransportClose, Return, GoTo
<1>32. ASSUME NEW p \in Writers, NoteSent(p) PROVE Fenced'
  BY <1>32 DEF NoteSent, Release, Return, GoTo
<1>33. ASSUME NEW p \in Writers, NoteBroke(p) PROVE Fenced'
  BY <1>33 DEF NoteBroke, Deactivate, GoTo
<1>34. ASSUME NEW p \in Writers, NoteQuarantined(p) PROVE Fenced'
  BY <1>34 DEF NoteQuarantined, GivenUp, Return, GoTo
<1>35. ASSUME NEW p \in Writers, NoteTimesOut(p) PROVE Fenced'
  BY <1>35 DEF NoteTimesOut, GivenUp, Deactivate, GoTo
<1>36. ASSUME NEW p \in Writers, NoteTimesOutCanceled(p) PROVE Fenced'
  BY <1>36 DEF NoteTimesOutCanceled, GivenUp, Release, Return, GoTo
<1>37. ASSUME NEW p \in Writers, RetireNote(p) PROVE Fenced'
  BY <1>37 DEF RetireNote, Disconnect, ReportTerminal, StartTransportClose, Release, Return,
     GoTo
<1>38. ASSUME NEW p \in Writers, QueueDeadline(p) PROVE Fenced'
  BY <1>38 DEF QueueDeadline
<1>39. ASSUME NEW c \in Closers, CloseBegins(c) PROVE Fenced'
  BY <1>39 DEF CloseBegins, Deactivate
<1>40. ASSUME NEW c \in Closers, CloseStarts(c) PROVE Fenced'
  BY <1>40 DEF CloseStarts, Disconnect, ReportTerminal, StartTransportClose
<1>41. ASSUME NEW c \in Closers, CloseSeesTransport(c) PROVE Fenced'
  BY <1>41 DEF CloseSeesTransport
<1>42. ASSUME NEW c \in Closers, CloseSeesWrite(c) PROVE Fenced'
  BY <1>42 DEF CloseSeesWrite, Slotted
<1>43. CASE UNCHANGED vars
  BY <1>43 DEF vars
<1>44. QED
  BY <1>1, <1>2, <1>3, <1>4, <1>5, <1>6, <1>7, <1>8, <1>9, <1>10, <1>11, <1>12, <1>13, <1>14,
     <1>15, <1>16, <1>17, <1>18, <1>19, <1>20, <1>21, <1>22, <1>23, <1>24, <1>25, <1>26, <1>27,
     <1>28, <1>29, <1>30, <1>31, <1>32, <1>33, <1>34, <1>35, <1>36, <1>37, <1>38, <1>39, <1>40,
     <1>41, <1>42, <1>43
     DEF Next, ServerStep, ReaderStep, SenderStep, NoteStep, PhysicalStep, CloserStep

\* The order of the handshake is kept.
LEMMA ShakenStep ==
    ASSUME TypeOK, Entered, Slotted, Shaken, [Next]_vars
    PROVE  Shaken'
<1> USE DEF TypeOK, Shaken, WritesInOrder, NotePlaces, connVars, slotVars, closeVars, shakeVars,
           ledgerVars, timeVars, clientVars, bounds, Writers, Actors
<1>1. CASE ReadEnds
  BY <1>1 DEF ReadEnds, ReaderStops, GoTo
<1>2. CASE Admit
  BY <1>2 DEF Admit, Settled, GoTo
<1>3. CASE RefuseMessage
  BY <1>3 DEF RefuseMessage, Deactivate, GoTo
<1>4. CASE ReadTooLate
  BY <1>4 DEF ReadTooLate, ReaderStops, GoTo
<1>5. CASE RetireRead
  BY <1>5 DEF RetireRead, Disconnect, ReportTerminal, ReaderStops, GoTo
<1>6. CASE Initialized
  BY <1>6 DEF Initialized, GoTo
<1>7. CASE ReadFails
  BY <1>7 DEF ReadFails, Deactivate, GoTo
<1>8. CASE PhysicalBegins
  BY <1>8 DEF PhysicalBegins, Slotted
<1>9. CASE PhysicalEnds
  BY <1>9 DEF PhysicalEnds
<1>10. CASE PhysicalReports
  BY <1>10 DEF PhysicalReports
<1>11. CASE PhysicalLeaves
  BY <1>11 DEF PhysicalLeaves, NoNote
<1>12. CASE MonitorJudges
  BY <1>12 DEF MonitorJudges, Deactivate
<1>13. CASE MonitorRetires
  BY <1>13 DEF MonitorRetires, Disconnect, ReportTerminal, StartTransportClose
<1>14. CASE NoteDeadline
  BY <1>14 DEF NoteDeadline
<1>15. CASE TransportCloses
  BY <1>15 DEF TransportCloses
<1>16. CASE CloseDeadline
  BY <1>16 DEF CloseDeadline
<1>17. ASSUME NEW m \in Calls \cup {"initialized"}, ReadMessage(m) PROVE Shaken'
  BY <1>17 DEF ReadMessage, ClientSends, GoTo
<1>18. ASSUME NEW s \in Senders, NEW m \in Calls \cup Kinds, WriteBegins(s, m) PROVE Shaken'
  BY <1>18 DEF WriteBegins, GoTo
<1>19. ASSUME NEW s \in Senders, Hold(s) PROVE Shaken'
  BY <1>19 DEF Hold, GoTo
<1>20. ASSUME NEW s \in Senders, EnterWrite(s) PROVE Shaken'
  BY <1>20 DEF EnterWrite, GoTo
<1>21. ASSUME NEW s \in Senders, ReplyTakesSlot(s) PROVE Shaken'
  BY <1>21, ConnectionAssumption DEF ReplyTakesSlot, GoTo, Slotted, NoNote
<1>22. ASSUME NEW s \in Senders, ReplyRefused(s) PROVE Shaken'
  BY <1>22 DEF ReplyRefused, Return, GoTo
<1>23. ASSUME NEW s \in Senders, ReplyArrives(s) PROVE Shaken'
  BY <1>23 DEF ReplyArrives, GoTo
<1>24. ASSUME NEW s \in Senders, ReplyWritten(s) PROVE Shaken'
  BY <1>24 DEF ReplyWritten, GoTo
<1>25. ASSUME NEW s \in Senders, Settle(s) PROVE Shaken'
  BY <1>25 DEF Settle, GoTo
<1>26. ASSUME NEW s \in Senders, ReplyReturns(s) PROVE Shaken'
  BY <1>26 DEF ReplyReturns, ReportTerminal, Return, GoTo
<1>27. ASSUME NEW s \in Senders, CancelContext(s) PROVE Shaken'
  BY <1>27 DEF CancelContext
<1>28. ASSUME NEW p \in Writers, NoteTakesSlot(p) PROVE Shaken'
  BY <1>28 DEF NoteTakesSlot, GivenUp, NoNote, GoTo
<1>29. ASSUME NEW p \in Writers, NoteGivesUp(p) PROVE Shaken'
  BY <1>29 DEF NoteGivesUp, GivenUp, Return, GoTo
<1>30. ASSUME NEW p \in Writers, NoteExpires(p) PROVE Shaken'
  BY <1>30 DEF NoteExpires, GivenUp, Deactivate, GoTo
<1>31. ASSUME NEW p \in Writers, RetireSlot(p) PROVE Shaken'
  BY <1>31 DEF RetireSlot, Disconnect, ReportTerminal, StartTransportClose, Return, GoTo
<1>32. ASSUME NEW p \in Writers, NoteSent(p) PROVE Shaken'
  BY <1>32 DEF NoteSent, Release, Return, GoTo
<1>33. ASSUME NEW p \in Writers, NoteBroke(p) PROVE Shaken'
  BY <1>33 DEF NoteBroke, Deactivate, GoTo
<1>34. ASSUME NEW p \in Writers, NoteQuarantined(p) PROVE Shaken'
  BY <1>34 DEF NoteQuarantined, GivenUp, Return, GoTo
<1>35. ASSUME NEW p \in Writers, NoteTimesOut(p) PROVE Shaken'
  BY <1>35 DEF NoteTimesOut, GivenUp, Deactivate, GoTo
<1>36. ASSUME NEW p \in Writers, NoteTimesOutCanceled(p) PROVE Shaken'
  BY <1>36 DEF NoteTimesOutCanceled, GivenUp, Release, Return, GoTo
<1>37. ASSUME NEW p \in Writers, RetireNote(p) PROVE Shaken'
  BY <1>37 DEF RetireNote, Disconnect, ReportTerminal, StartTransportClose, Release, Return,
     GoTo
<1>38. ASSUME NEW p \in Writers, QueueDeadline(p) PROVE Shaken'
  BY <1>38 DEF QueueDeadline
<1>39. ASSUME NEW c \in Closers, CloseBegins(c) PROVE Shaken'
  BY <1>39 DEF CloseBegins, Deactivate
<1>40. ASSUME NEW c \in Closers, CloseStarts(c) PROVE Shaken'
  BY <1>40 DEF CloseStarts, Disconnect, ReportTerminal, StartTransportClose
<1>41. ASSUME NEW c \in Closers, CloseSeesTransport(c) PROVE Shaken'
  BY <1>41 DEF CloseSeesTransport
<1>42. ASSUME NEW c \in Closers, CloseSeesWrite(c) PROVE Shaken'
  BY <1>42 DEF CloseSeesWrite
<1>43. CASE UNCHANGED vars
  BY <1>43 DEF vars
<1>44. QED
  BY <1>1, <1>2, <1>3, <1>4, <1>5, <1>6, <1>7, <1>8, <1>9, <1>10, <1>11, <1>12, <1>13, <1>14,
     <1>15, <1>16, <1>17, <1>18, <1>19, <1>20, <1>21, <1>22, <1>23, <1>24, <1>25, <1>26, <1>27,
     <1>28, <1>29, <1>30, <1>31, <1>32, <1>33, <1>34, <1>35, <1>36, <1>37, <1>38, <1>39, <1>40,
     <1>41, <1>42, <1>43
     DEF Next, ServerStep, ReaderStep, SenderStep, NoteStep, PhysicalStep, CloserStep

\* Nobody lets a write go without a judgement.
LEMMA JudgedStep ==
    ASSUME TypeOK, Dead, Slotted, Judged, [Next]_vars
    PROVE  Judged'
<1> USE DEF TypeOK, Dead, Judged, Overdue, connVars, slotVars, closeVars, shakeVars, ledgerVars,
           timeVars, clientVars, bounds, Writers, Actors
<1>1. CASE ReadEnds
  BY <1>1 DEF ReadEnds, ReaderStops, GoTo
<1>2. CASE Admit
  BY <1>2 DEF Admit, Settled, GoTo
<1>3. CASE RefuseMessage
  BY <1>3 DEF RefuseMessage, Deactivate, GoTo
<1>4. CASE ReadTooLate
  BY <1>4 DEF ReadTooLate, ReaderStops, GoTo
<1>5. CASE RetireRead
  BY <1>5 DEF RetireRead, Disconnect, ReportTerminal, ReaderStops, GoTo
<1>6. CASE Initialized
  BY <1>6 DEF Initialized, GoTo
<1>7. CASE ReadFails
  BY <1>7 DEF ReadFails, Deactivate, GoTo
<1>8. CASE PhysicalBegins
  BY <1>8 DEF PhysicalBegins
<1>9. CASE PhysicalEnds
  BY <1>9 DEF PhysicalEnds
<1>10. CASE PhysicalReports
  BY <1>10 DEF PhysicalReports
<1>11. CASE PhysicalLeaves
  BY <1>11 DEF PhysicalLeaves, NoNote
<1>12. CASE MonitorJudges
  BY <1>12 DEF MonitorJudges, Deactivate
<1>13. CASE MonitorRetires
  BY <1>13 DEF MonitorRetires, Disconnect, ReportTerminal, StartTransportClose
<1>14. CASE NoteDeadline
  BY <1>14 DEF NoteDeadline
<1>15. CASE TransportCloses
  BY <1>15 DEF TransportCloses
<1>16. CASE CloseDeadline
  BY <1>16 DEF CloseDeadline
<1>17. ASSUME NEW m \in Calls \cup {"initialized"}, ReadMessage(m) PROVE Judged'
  BY <1>17 DEF ReadMessage, ClientSends, GoTo
<1>18. ASSUME NEW s \in Senders, NEW m \in Calls \cup Kinds, WriteBegins(s, m) PROVE Judged'
  BY <1>18 DEF WriteBegins, GoTo
<1>19. ASSUME NEW s \in Senders, Hold(s) PROVE Judged'
  BY <1>19 DEF Hold, GoTo
<1>20. ASSUME NEW s \in Senders, EnterWrite(s) PROVE Judged'
  BY <1>20 DEF EnterWrite, GoTo
<1>21. ASSUME NEW s \in Senders, ReplyTakesSlot(s) PROVE Judged'
  BY <1>21 DEF ReplyTakesSlot, GoTo
<1>22. ASSUME NEW s \in Senders, ReplyRefused(s) PROVE Judged'
  BY <1>22 DEF ReplyRefused, Return, GoTo
<1>23. ASSUME NEW s \in Senders, ReplyArrives(s) PROVE Judged'
  BY <1>23 DEF ReplyArrives, GoTo
<1>24. ASSUME NEW s \in Senders, ReplyWritten(s) PROVE Judged'
  BY <1>24 DEF ReplyWritten, GoTo
<1>25. ASSUME NEW s \in Senders, Settle(s) PROVE Judged'
  BY <1>25 DEF Settle, GoTo
<1>26. ASSUME NEW s \in Senders, ReplyReturns(s) PROVE Judged'
  BY <1>26 DEF ReplyReturns, ReportTerminal, Return, GoTo
<1>27. ASSUME NEW s \in Senders, CancelContext(s) PROVE Judged'
  BY <1>27 DEF CancelContext
<1>28. ASSUME NEW p \in Writers, NoteTakesSlot(p) PROVE Judged'
  BY <1>28 DEF NoteTakesSlot, GivenUp, NoNote, GoTo
<1>29. ASSUME NEW p \in Writers, NoteGivesUp(p) PROVE Judged'
  BY <1>29 DEF NoteGivesUp, GivenUp, Return, GoTo
<1>30. ASSUME NEW p \in Writers, NoteExpires(p) PROVE Judged'
  BY <1>30 DEF NoteExpires, GivenUp, Deactivate, GoTo
<1>31. ASSUME NEW p \in Writers, RetireSlot(p) PROVE Judged'
  BY <1>31 DEF RetireSlot, Disconnect, ReportTerminal, StartTransportClose, Return, GoTo
<1>32. ASSUME NEW p \in Writers, NoteSent(p) PROVE Judged'
  BY <1>32 DEF NoteSent, Release, Return, GoTo, Breaks
<1>33. ASSUME NEW p \in Writers, NoteBroke(p) PROVE Judged'
  BY <1>33 DEF NoteBroke, Deactivate, GoTo
<1>34. ASSUME NEW p \in Writers, NoteQuarantined(p) PROVE Judged'
  BY <1>34 DEF NoteQuarantined, GivenUp, Return, GoTo
<1>35. ASSUME NEW p \in Writers, NoteTimesOut(p) PROVE Judged'
  BY <1>35 DEF NoteTimesOut, GivenUp, Deactivate, GoTo
<1>36. ASSUME NEW p \in Writers, NoteTimesOutCanceled(p) PROVE Judged'
  BY <1>36 DEF NoteTimesOutCanceled, GivenUp, Release, Return, GoTo
<1>37. ASSUME NEW p \in Writers, RetireNote(p) PROVE Judged'
  BY <1>37 DEF RetireNote, Disconnect, ReportTerminal, StartTransportClose, Release, Return,
     GoTo
<1>38. ASSUME NEW p \in Writers, QueueDeadline(p) PROVE Judged'
  BY <1>38 DEF QueueDeadline
<1>39. ASSUME NEW c \in Closers, CloseBegins(c) PROVE Judged'
  BY <1>39 DEF CloseBegins, Deactivate
<1>40. ASSUME NEW c \in Closers, CloseStarts(c) PROVE Judged'
  BY <1>40 DEF CloseStarts, Disconnect, ReportTerminal, StartTransportClose
<1>41. ASSUME NEW c \in Closers, CloseSeesTransport(c) PROVE Judged'
  BY <1>41 DEF CloseSeesTransport
<1>42. ASSUME NEW c \in Closers, CloseSeesWrite(c) PROVE Judged'
  BY <1>42 DEF CloseSeesWrite
<1>43. CASE UNCHANGED vars
  BY <1>43 DEF vars
<1>44. QED
  BY <1>1, <1>2, <1>3, <1>4, <1>5, <1>6, <1>7, <1>8, <1>9, <1>10, <1>11, <1>12, <1>13, <1>14,
     <1>15, <1>16, <1>17, <1>18, <1>19, <1>20, <1>21, <1>22, <1>23, <1>24, <1>25, <1>26, <1>27,
     <1>28, <1>29, <1>30, <1>31, <1>32, <1>33, <1>34, <1>35, <1>36, <1>37, <1>38, <1>39, <1>40,
     <1>41, <1>42, <1>43
     DEF Next, ServerStep, ReaderStep, SenderStep, NoteStep, PhysicalStep, CloserStep

LEMMA OutstandingFinite ==
    ASSUME TypeOK
    PROVE  IsFiniteSet(outstanding)
  BY ConnectionAssumption, FS_Subset DEF TypeOK

\* What the client thinks of its calls.
LEMMA PoliteStep ==
    ASSUME TypeOK, Entered, Worked, Polite, [Next]_vars
    PROVE  Polite'
<1> USE DEF TypeOK, Polite, connVars, slotVars, closeVars, shakeVars, ledgerVars, timeVars,
           clientVars, bounds, Writers, Actors
<1>1. CASE ReadEnds
  BY <1>1 DEF ReadEnds, ReaderStops, GoTo
<1>2. CASE Admit
  BY <1>2 DEF Admit, Settled, GoTo
<1>3. CASE RefuseMessage
  BY <1>3 DEF RefuseMessage, Deactivate, GoTo
<1>4. CASE ReadTooLate
  BY <1>4 DEF ReadTooLate, ReaderStops, GoTo
<1>5. CASE RetireRead
  BY <1>5 DEF RetireRead, Disconnect, ReportTerminal, ReaderStops, GoTo
<1>6. CASE Initialized
  BY <1>6 DEF Initialized, GoTo
<1>7. CASE ReadFails
  BY <1>7 DEF ReadFails, Deactivate, GoTo
<1>8. CASE PhysicalBegins
  BY <1>8 DEF PhysicalBegins
<1>9. CASE PhysicalEnds
  BY <1>9 DEF PhysicalEnds
<1>10. CASE PhysicalReports
  BY <1>10 DEF PhysicalReports
<1>11. CASE PhysicalLeaves
  BY <1>11 DEF PhysicalLeaves, NoNote
<1>12. CASE MonitorJudges
  BY <1>12 DEF MonitorJudges, Deactivate
<1>13. CASE MonitorRetires
  BY <1>13 DEF MonitorRetires, Disconnect, ReportTerminal, StartTransportClose
<1>14. CASE NoteDeadline
  BY <1>14 DEF NoteDeadline
<1>15. CASE TransportCloses
  BY <1>15 DEF TransportCloses
<1>16. CASE CloseDeadline
  BY <1>16 DEF CloseDeadline
<1>17. ASSUME NEW m \in Calls \cup {"initialized"}, ReadMessage(m) PROVE Polite'
  <2>1. /\ outstanding' = outstanding \cup ({m} \cap Calls)
        /\ rude' = (rude \/ m \in outstanding \/ Cardinality(outstanding') > MaxSessionCalls)
    BY ONLY <1>17 DEF ReadMessage, ClientSends
  <2>2. /\ at'[Reader] = "admit" /\ msg'[Reader] = m
        /\ \A s \in Senders : at'[s] = at[s] /\ msg'[s] = msg[s]
        /\ handling' = handling
    BY <1>17, ConnectionAssumption DEF ReadMessage, GoTo
  <2>3. IsFiniteSet(outstanding') /\ Cardinality(outstanding') \in Nat
    BY <2>1, ConnectionAssumption, FS_Subset, FS_CardinalityType
  <2>4. ASSUME ~rude' PROVE ~rude /\ m \notin outstanding /\ Cardinality(outstanding') <= MaxSessionCalls
    <3>1. ~rude /\ m \notin outstanding /\ ~(Cardinality(outstanding') > MaxSessionCalls)
      BY ONLY <2>1, <2>4
    <3>2. QED
      BY ONLY <3>1, <2>3, ConnectionAssumption
  <2>5. QED
    BY <2>1, <2>2, <2>4
<1>18. ASSUME NEW s \in Senders, NEW m \in Calls \cup Kinds, WriteBegins(s, m) PROVE Polite'
  <2>1. /\ handling' \subseteq handling /\ msg'[s] = m /\ at'[s] = "mutex" /\ at[s] = "idle"
        /\ m \in Calls => m \in handling
        /\ \A t \in Senders : t # s => at'[t] = at[t] /\ msg'[t] = msg[t]
        /\ at'[Reader] = at[Reader] /\ msg'[Reader] = msg[Reader]
        /\ UNCHANGED <<outstanding, rude>>
    BY <1>18, ConnectionAssumption DEF WriteBegins, GoTo
  <2>2. QED
    BY <2>1
<1>19. ASSUME NEW s \in Senders, Hold(s) PROVE Polite'
  BY <1>19 DEF Hold, GoTo
<1>20. ASSUME NEW s \in Senders, EnterWrite(s) PROVE Polite'
  BY <1>20 DEF EnterWrite, GoTo
<1>21. ASSUME NEW s \in Senders, ReplyTakesSlot(s) PROVE Polite'
  BY <1>21 DEF ReplyTakesSlot, GoTo
<1>22. ASSUME NEW s \in Senders, ReplyRefused(s) PROVE Polite'
  BY <1>22 DEF ReplyRefused, Return, GoTo
<1>23. ASSUME NEW s \in Senders, ReplyArrives(s) PROVE Polite'
  <2>1. PICK x : x = msg[s]
    OBVIOUS
  <2>2. /\ outstanding' = outstanding \ {x} /\ at[s] = "write" /\ at'[s] = "arrived"
        /\ \A t \in Senders : t # s => at'[t] = at[t]
        /\ at'[Reader] = at[Reader]
        /\ UNCHANGED <<msg, handling, rude>>
    BY <1>23, <2>1, ConnectionAssumption DEF ReplyArrives, GoTo
  <2>3. Cardinality(outstanding') <= Cardinality(outstanding) /\ Cardinality(outstanding') \in Nat
    BY <2>2, OutstandingFinite, FS_Subset, FS_CardinalityType
  <2>4. x \in Calls /\ x \notin handling /\ Sending(s)
    BY <2>1, <2>2 DEF Entered, ReplyPlaces, Worked, Sending
  <2>5. \A t \in Senders : t # s /\ at[t] \in {"mutex", "slot", "write"} => msg[t] # x
    BY <2>1, <2>4 DEF Worked, Sending
  <2>6. QED
    BY <2>1, <2>2, <2>3, <2>4, <2>5, ConnectionAssumption, OutstandingFinite, FS_CardinalityType
<1>24. ASSUME NEW s \in Senders, ReplyWritten(s) PROVE Polite'
  BY <1>24 DEF ReplyWritten, GoTo
<1>25. ASSUME NEW s \in Senders, Settle(s) PROVE Polite'
  BY <1>25 DEF Settle, GoTo
<1>26. ASSUME NEW s \in Senders, ReplyReturns(s) PROVE Polite'
  BY <1>26 DEF ReplyReturns, ReportTerminal, Return, GoTo
<1>27. ASSUME NEW s \in Senders, CancelContext(s) PROVE Polite'
  BY <1>27 DEF CancelContext
<1>28. ASSUME NEW p \in Writers, NoteTakesSlot(p) PROVE Polite'
  BY <1>28 DEF NoteTakesSlot, GivenUp, NoNote, GoTo
<1>29. ASSUME NEW p \in Writers, NoteGivesUp(p) PROVE Polite'
  BY <1>29 DEF NoteGivesUp, GivenUp, Return, GoTo
<1>30. ASSUME NEW p \in Writers, NoteExpires(p) PROVE Polite'
  BY <1>30 DEF NoteExpires, GivenUp, Deactivate, GoTo
<1>31. ASSUME NEW p \in Writers, RetireSlot(p) PROVE Polite'
  BY <1>31 DEF RetireSlot, Disconnect, ReportTerminal, StartTransportClose, Return, GoTo
<1>32. ASSUME NEW p \in Writers, NoteSent(p) PROVE Polite'
  BY <1>32 DEF NoteSent, Release, Return, GoTo
<1>33. ASSUME NEW p \in Writers, NoteBroke(p) PROVE Polite'
  BY <1>33 DEF NoteBroke, Deactivate, GoTo
<1>34. ASSUME NEW p \in Writers, NoteQuarantined(p) PROVE Polite'
  BY <1>34 DEF NoteQuarantined, GivenUp, Return, GoTo
<1>35. ASSUME NEW p \in Writers, NoteTimesOut(p) PROVE Polite'
  BY <1>35 DEF NoteTimesOut, GivenUp, Deactivate, GoTo
<1>36. ASSUME NEW p \in Writers, NoteTimesOutCanceled(p) PROVE Polite'
  BY <1>36 DEF NoteTimesOutCanceled, GivenUp, Release, Return, GoTo
<1>37. ASSUME NEW p \in Writers, RetireNote(p) PROVE Polite'
  BY <1>37 DEF RetireNote, Disconnect, ReportTerminal, StartTransportClose, Release, Return,
     GoTo
<1>38. ASSUME NEW p \in Writers, QueueDeadline(p) PROVE Polite'
  BY <1>38 DEF QueueDeadline
<1>39. ASSUME NEW c \in Closers, CloseBegins(c) PROVE Polite'
  BY <1>39 DEF CloseBegins, Deactivate
<1>40. ASSUME NEW c \in Closers, CloseStarts(c) PROVE Polite'
  BY <1>40 DEF CloseStarts, Disconnect, ReportTerminal, StartTransportClose
<1>41. ASSUME NEW c \in Closers, CloseSeesTransport(c) PROVE Polite'
  BY <1>41 DEF CloseSeesTransport
<1>42. ASSUME NEW c \in Closers, CloseSeesWrite(c) PROVE Polite'
  BY <1>42 DEF CloseSeesWrite
<1>43. CASE UNCHANGED vars
  BY <1>43 DEF vars
<1>44. QED
  BY <1>1, <1>2, <1>3, <1>4, <1>5, <1>6, <1>7, <1>8, <1>9, <1>10, <1>11, <1>12, <1>13, <1>14,
     <1>15, <1>16, <1>17, <1>18, <1>19, <1>20, <1>21, <1>22, <1>23, <1>24, <1>25, <1>26, <1>27,
     <1>28, <1>29, <1>30, <1>31, <1>32, <1>33, <1>34, <1>35, <1>36, <1>37, <1>38, <1>39, <1>40,
     <1>41, <1>42, <1>43
     DEF Next, ServerStep, ReaderStep, SenderStep, NoteStep, PhysicalStep, CloserStep

\* The physical write gives up the slot only when it was let go.
LEMMA LeavesJudged ==
    ASSUME TypeOK, [Next]_vars, NoteLeaves
    PROVE  note.released
<1> USE DEF TypeOK, NoteLeaves, connVars, slotVars, closeVars, shakeVars, ledgerVars, timeVars,
           clientVars, bounds, Writers, Actors
<1>1. CASE ReadEnds
  BY <1>1 DEF ReadEnds, ReaderStops, GoTo
<1>2. CASE Admit
  BY <1>2 DEF Admit, Settled, GoTo
<1>3. CASE RefuseMessage
  BY <1>3 DEF RefuseMessage, Deactivate, GoTo
<1>4. CASE ReadTooLate
  BY <1>4 DEF ReadTooLate, ReaderStops, GoTo
<1>5. CASE RetireRead
  BY <1>5 DEF RetireRead, Disconnect, ReportTerminal, ReaderStops, GoTo
<1>6. CASE Initialized
  BY <1>6 DEF Initialized, GoTo
<1>7. CASE ReadFails
  BY <1>7 DEF ReadFails, Deactivate, GoTo
<1>8. CASE PhysicalBegins
  BY <1>8 DEF PhysicalBegins
<1>9. CASE PhysicalEnds
  BY <1>9 DEF PhysicalEnds
<1>10. CASE PhysicalReports
  BY <1>10 DEF PhysicalReports
<1>11. CASE PhysicalLeaves
  BY <1>11 DEF PhysicalLeaves, NoNote
<1>12. CASE MonitorJudges
  BY <1>12 DEF MonitorJudges, Deactivate
<1>13. CASE MonitorRetires
  BY <1>13 DEF MonitorRetires, Disconnect, ReportTerminal, StartTransportClose
<1>14. CASE NoteDeadline
  BY <1>14 DEF NoteDeadline
<1>15. CASE TransportCloses
  BY <1>15 DEF TransportCloses
<1>16. CASE CloseDeadline
  BY <1>16 DEF CloseDeadline
<1>17. ASSUME NEW m \in Calls \cup {"initialized"}, ReadMessage(m) PROVE note.released
  BY <1>17 DEF ReadMessage, ClientSends, GoTo
<1>18. ASSUME NEW s \in Senders, NEW m \in Calls \cup Kinds, WriteBegins(s, m)
       PROVE note.released
  BY <1>18 DEF WriteBegins, GoTo
<1>19. ASSUME NEW s \in Senders, Hold(s) PROVE note.released
  BY <1>19 DEF Hold, GoTo
<1>20. ASSUME NEW s \in Senders, EnterWrite(s) PROVE note.released
  BY <1>20 DEF EnterWrite, GoTo
<1>21. ASSUME NEW s \in Senders, ReplyTakesSlot(s) PROVE note.released
  BY <1>21 DEF ReplyTakesSlot, GoTo
<1>22. ASSUME NEW s \in Senders, ReplyRefused(s) PROVE note.released
  BY <1>22 DEF ReplyRefused, Return, GoTo
<1>23. ASSUME NEW s \in Senders, ReplyArrives(s) PROVE note.released
  BY <1>23 DEF ReplyArrives, GoTo
<1>24. ASSUME NEW s \in Senders, ReplyWritten(s) PROVE note.released
  BY <1>24 DEF ReplyWritten, GoTo
<1>25. ASSUME NEW s \in Senders, Settle(s) PROVE note.released
  BY <1>25 DEF Settle, GoTo
<1>26. ASSUME NEW s \in Senders, ReplyReturns(s) PROVE note.released
  BY <1>26 DEF ReplyReturns, ReportTerminal, Return, GoTo
<1>27. ASSUME NEW s \in Senders, CancelContext(s) PROVE note.released
  BY <1>27 DEF CancelContext
<1>28. ASSUME NEW p \in Writers, NoteTakesSlot(p) PROVE note.released
  BY <1>28 DEF NoteTakesSlot, GivenUp, NoNote, GoTo
<1>29. ASSUME NEW p \in Writers, NoteGivesUp(p) PROVE note.released
  BY <1>29 DEF NoteGivesUp, GivenUp, Return, GoTo
<1>30. ASSUME NEW p \in Writers, NoteExpires(p) PROVE note.released
  BY <1>30 DEF NoteExpires, GivenUp, Deactivate, GoTo
<1>31. ASSUME NEW p \in Writers, RetireSlot(p) PROVE note.released
  BY <1>31 DEF RetireSlot, Disconnect, ReportTerminal, StartTransportClose, Return, GoTo
<1>32. ASSUME NEW p \in Writers, NoteSent(p) PROVE note.released
  BY <1>32 DEF NoteSent, Release, Return, GoTo
<1>33. ASSUME NEW p \in Writers, NoteBroke(p) PROVE note.released
  BY <1>33 DEF NoteBroke, Deactivate, GoTo
<1>34. ASSUME NEW p \in Writers, NoteQuarantined(p) PROVE note.released
  BY <1>34 DEF NoteQuarantined, GivenUp, Return, GoTo
<1>35. ASSUME NEW p \in Writers, NoteTimesOut(p) PROVE note.released
  BY <1>35 DEF NoteTimesOut, GivenUp, Deactivate, GoTo
<1>36. ASSUME NEW p \in Writers, NoteTimesOutCanceled(p) PROVE note.released
  BY <1>36 DEF NoteTimesOutCanceled, GivenUp, Release, Return, GoTo
<1>37. ASSUME NEW p \in Writers, RetireNote(p) PROVE note.released
  BY <1>37 DEF RetireNote, Disconnect, ReportTerminal, StartTransportClose, Release, Return,
     GoTo
<1>38. ASSUME NEW p \in Writers, QueueDeadline(p) PROVE note.released
  BY <1>38 DEF QueueDeadline
<1>39. ASSUME NEW c \in Closers, CloseBegins(c) PROVE note.released
  BY <1>39 DEF CloseBegins, Deactivate
<1>40. ASSUME NEW c \in Closers, CloseStarts(c) PROVE note.released
  BY <1>40 DEF CloseStarts, Disconnect, ReportTerminal, StartTransportClose
<1>41. ASSUME NEW c \in Closers, CloseSeesTransport(c) PROVE note.released
  BY <1>41 DEF CloseSeesTransport
<1>42. ASSUME NEW c \in Closers, CloseSeesWrite(c) PROVE note.released
  BY <1>42 DEF CloseSeesWrite
<1>43. CASE UNCHANGED vars
  BY <1>43 DEF vars
<1>44. QED
  BY <1>1, <1>2, <1>3, <1>4, <1>5, <1>6, <1>7, <1>8, <1>9, <1>10, <1>11, <1>12, <1>13, <1>14,
     <1>15, <1>16, <1>17, <1>18, <1>19, <1>20, <1>21, <1>22, <1>23, <1>24, <1>25, <1>26, <1>27,
     <1>28, <1>29, <1>30, <1>31, <1>32, <1>33, <1>34, <1>35, <1>36, <1>37, <1>38, <1>39, <1>40,
     <1>41, <1>42, <1>43
     DEF Next, ServerStep, ReaderStep, SenderStep, NoteStep, PhysicalStep, CloserStep

\* The reader takes a message as long as the client is polite.
LEMMA AdmitOrRude ==
    ASSUME ConnectionInv, [Next]_vars, at[Reader] = "admit", at'[Reader] = "retire"
    PROVE  rude
<1> USE DEF ConnectionInv, connVars, slotVars, closeVars, shakeVars, ledgerVars, timeVars,
           clientVars, bounds, Writers, Actors
<1>1. CASE ReadEnds
  BY <1>1, ConnectionAssumption DEF ReadEnds, ReaderStops, GoTo, TypeOK
<1>2. CASE Admit
  BY <1>2, ConnectionAssumption DEF Admit, Settled, GoTo, TypeOK
<1>3. CASE RefuseMessage
  <2> DEFINE m == msg[Reader]
  <2> SUFFICES ASSUME ~rude PROVE FALSE
    OBVIOUS
  <2>1. active /\ ~committing /\ Refusal(m) # "none"
    BY <1>3 DEF RefuseMessage, Settled
  <2>2. CASE m \in Calls
    <3>1. \A s \in Senders : Sending(s) => msg[s] \in outstanding /\ msg[s] # m
      BY <2>1, <2>2 DEF Polite, Slotted, Sending
    <3>2. ledger \subseteq outstanding \ {m}
      BY <2>1, <2>2, <3>1 DEF Worked, Polite, TypeOK
    <3>3. /\ IsFiniteSet(outstanding) /\ m \in outstanding
          /\ Cardinality(outstanding) <= MaxSessionCalls
      BY <2>2, OutstandingFinite DEF Polite
    <3>4. /\ IsFiniteSet(outstanding \ {m})
          /\ Cardinality(outstanding \ {m}) = Cardinality(outstanding) - 1
      BY <3>3, FS_RemoveElement
    <3>5. Cardinality(ledger) <= Cardinality(outstanding \ {m})
      BY <3>2, <3>4, FS_Subset
    <3>6. Cardinality(ledger) \in Nat /\ Cardinality(outstanding) \in Nat
      BY <3>2, <3>3, <3>4, FS_Subset, FS_CardinalityType
    <3>7. ~(Cardinality(ledger) >= MaxSessionCalls) /\ m \notin ledger
      BY <3>2, <3>3, <3>4, <3>5, <3>6, ConnectionAssumption
    <3>8. QED
      BY <2>1, <3>7 DEF Refusal
  <2>3. CASE m \notin Calls
    BY <2>1, <2>3 DEF Refusal, TypeOK
  <2>4. QED
    BY <2>2, <2>3
<1>4. CASE ReadTooLate
  BY <1>4, ConnectionAssumption DEF ReadTooLate, ReaderStops, GoTo, TypeOK
<1>5. CASE RetireRead
  BY <1>5, ConnectionAssumption DEF RetireRead, Disconnect, ReportTerminal, ReaderStops, GoTo,
     TypeOK
<1>6. CASE Initialized
  BY <1>6, ConnectionAssumption DEF Initialized, GoTo, TypeOK
<1>7. CASE ReadFails
  BY <1>7, ConnectionAssumption DEF ReadFails, Deactivate, GoTo, TypeOK
<1>8. CASE PhysicalBegins
  BY <1>8, ConnectionAssumption DEF PhysicalBegins, TypeOK
<1>9. CASE PhysicalEnds
  BY <1>9, ConnectionAssumption DEF PhysicalEnds, TypeOK
<1>10. CASE PhysicalReports
  BY <1>10, ConnectionAssumption DEF PhysicalReports, TypeOK
<1>11. CASE PhysicalLeaves
  BY <1>11, ConnectionAssumption DEF PhysicalLeaves, NoNote, TypeOK
<1>12. CASE MonitorJudges
  BY <1>12, ConnectionAssumption DEF MonitorJudges, Deactivate, TypeOK
<1>13. CASE MonitorRetires
  BY <1>13, ConnectionAssumption DEF MonitorRetires, Disconnect, ReportTerminal,
     StartTransportClose, TypeOK
<1>14. CASE NoteDeadline
  BY <1>14, ConnectionAssumption DEF NoteDeadline, TypeOK
<1>15. CASE TransportCloses
  BY <1>15, ConnectionAssumption DEF TransportCloses, TypeOK
<1>16. CASE CloseDeadline
  BY <1>16, ConnectionAssumption DEF CloseDeadline, TypeOK
<1>17. ASSUME NEW m \in Calls \cup {"initialized"}, ReadMessage(m) PROVE rude
  BY <1>17, ConnectionAssumption DEF ReadMessage, ClientSends, GoTo, TypeOK
<1>18. ASSUME NEW s \in Senders, NEW m \in Calls \cup Kinds, WriteBegins(s, m) PROVE rude
  BY <1>18, ConnectionAssumption DEF WriteBegins, GoTo, TypeOK
<1>19. ASSUME NEW s \in Senders, Hold(s) PROVE rude
  BY <1>19, ConnectionAssumption DEF Hold, GoTo, TypeOK
<1>20. ASSUME NEW s \in Senders, EnterWrite(s) PROVE rude
  BY <1>20, ConnectionAssumption DEF EnterWrite, GoTo, TypeOK
<1>21. ASSUME NEW s \in Senders, ReplyTakesSlot(s) PROVE rude
  BY <1>21, ConnectionAssumption DEF ReplyTakesSlot, GoTo, TypeOK
<1>22. ASSUME NEW s \in Senders, ReplyRefused(s) PROVE rude
  BY <1>22, ConnectionAssumption DEF ReplyRefused, Return, GoTo, TypeOK
<1>23. ASSUME NEW s \in Senders, ReplyArrives(s) PROVE rude
  BY <1>23, ConnectionAssumption DEF ReplyArrives, GoTo, TypeOK
<1>24. ASSUME NEW s \in Senders, ReplyWritten(s) PROVE rude
  BY <1>24, ConnectionAssumption DEF ReplyWritten, GoTo, TypeOK
<1>25. ASSUME NEW s \in Senders, Settle(s) PROVE rude
  BY <1>25, ConnectionAssumption DEF Settle, GoTo, TypeOK
<1>26. ASSUME NEW s \in Senders, ReplyReturns(s) PROVE rude
  BY <1>26, ConnectionAssumption DEF ReplyReturns, ReportTerminal, Return, GoTo, TypeOK
<1>27. ASSUME NEW s \in Senders, CancelContext(s) PROVE rude
  BY <1>27, ConnectionAssumption DEF CancelContext, TypeOK
<1>28. ASSUME NEW p \in Writers, NoteTakesSlot(p) PROVE rude
  BY <1>28, ConnectionAssumption DEF NoteTakesSlot, GivenUp, NoNote, GoTo, TypeOK, Entered,
     ReplyPlaces, NotePlaces
<1>29. ASSUME NEW p \in Writers, NoteGivesUp(p) PROVE rude
  BY <1>29, ConnectionAssumption DEF NoteGivesUp, GivenUp, Return, GoTo, TypeOK, Entered,
     ReplyPlaces, NotePlaces
<1>30. ASSUME NEW p \in Writers, NoteExpires(p) PROVE rude
  BY <1>30, ConnectionAssumption DEF NoteExpires, GivenUp, Deactivate, GoTo, TypeOK, Entered,
     ReplyPlaces, NotePlaces
<1>31. ASSUME NEW p \in Writers, RetireSlot(p) PROVE rude
  BY <1>31, ConnectionAssumption DEF RetireSlot, Disconnect, ReportTerminal,
     StartTransportClose, Return, GoTo, TypeOK, Entered, ReplyPlaces, NotePlaces
<1>32. ASSUME NEW p \in Writers, NoteSent(p) PROVE rude
  BY <1>32, ConnectionAssumption DEF NoteSent, Release, Return, GoTo, TypeOK, Entered,
     ReplyPlaces, NotePlaces
<1>33. ASSUME NEW p \in Writers, NoteBroke(p) PROVE rude
  BY <1>33, ConnectionAssumption DEF NoteBroke, Deactivate, GoTo, TypeOK, Entered,
     ReplyPlaces, NotePlaces
<1>34. ASSUME NEW p \in Writers, NoteQuarantined(p) PROVE rude
  BY <1>34, ConnectionAssumption DEF NoteQuarantined, GivenUp, Return, GoTo, TypeOK, Entered,
     ReplyPlaces, NotePlaces
<1>35. ASSUME NEW p \in Writers, NoteTimesOut(p) PROVE rude
  BY <1>35, ConnectionAssumption DEF NoteTimesOut, GivenUp, Deactivate, GoTo, TypeOK, Entered,
     ReplyPlaces, NotePlaces
<1>36. ASSUME NEW p \in Writers, NoteTimesOutCanceled(p) PROVE rude
  BY <1>36, ConnectionAssumption DEF NoteTimesOutCanceled, GivenUp, Release, Return, GoTo,
     TypeOK, Entered, ReplyPlaces, NotePlaces
<1>37. ASSUME NEW p \in Writers, RetireNote(p) PROVE rude
  BY <1>37, ConnectionAssumption DEF RetireNote, Disconnect, ReportTerminal,
     StartTransportClose, Release, Return, GoTo, TypeOK, Entered, ReplyPlaces, NotePlaces
<1>38. ASSUME NEW p \in Writers, QueueDeadline(p) PROVE rude
  BY <1>38, ConnectionAssumption DEF QueueDeadline, TypeOK, Entered, ReplyPlaces, NotePlaces
<1>39. ASSUME NEW c \in Closers, CloseBegins(c) PROVE rude
  BY <1>39, ConnectionAssumption DEF CloseBegins, Deactivate, TypeOK
<1>40. ASSUME NEW c \in Closers, CloseStarts(c) PROVE rude
  BY <1>40, ConnectionAssumption DEF CloseStarts, Disconnect, ReportTerminal,
     StartTransportClose, TypeOK
<1>41. ASSUME NEW c \in Closers, CloseSeesTransport(c) PROVE rude
  BY <1>41, ConnectionAssumption DEF CloseSeesTransport, TypeOK
<1>42. ASSUME NEW c \in Closers, CloseSeesWrite(c) PROVE rude
  BY <1>42, ConnectionAssumption DEF CloseSeesWrite, TypeOK
<1>43. CASE UNCHANGED vars
  BY <1>43 DEF vars
<1>44. QED
  BY <1>1, <1>2, <1>3, <1>4, <1>5, <1>6, <1>7, <1>8, <1>9, <1>10, <1>11, <1>12, <1>13, <1>14,
     <1>15, <1>16, <1>17, <1>18, <1>19, <1>20, <1>21, <1>22, <1>23, <1>24, <1>25, <1>26, <1>27,
     <1>28, <1>29, <1>30, <1>31, <1>32, <1>33, <1>34, <1>35, <1>36, <1>37, <1>38, <1>39, <1>40,
     <1>41, <1>42, <1>43
     DEF Next, ServerStep, ReaderStep, SenderStep, NoteStep, PhysicalStep, CloserStep

LEMMA ConnectionStep == ConnectionInv /\ [Next]_vars => ConnectionInv'
<1> SUFFICES ASSUME ConnectionInv, [Next]_vars
             PROVE  ConnectionInv'
  OBVIOUS
<1> USE DEF ConnectionInv
<1>1. TypeOK'
  BY TypeStep
<1>2. Entered'
  BY EnteredStep
<1>3. Dead'
  BY DeadStep
<1>4. Worked'
  BY WorkedStep
<1>5. Slotted'
  BY SlottedStep
<1>6. Fenced'
  BY FencedStep
<1>7. Shaken'
  BY ShakenStep
<1>8. Judged'
  BY JudgedStep
<1>9. Polite'
  BY PoliteStep
<1>10. QED
  BY <1>1, <1>2, <1>3, <1>4, <1>5, <1>6, <1>7, <1>8, <1>9

LEMMA Connected == Spec => []ConnectionInv
<1>1. QED
  BY InitConnection, ConnectionStep, PTL DEF Spec

\* The ledger is exactly the work at hand, seen as a set.
LEMMA LedgerExact == ConnectionInv => LedgerIsWork
<1> SUFFICES ASSUME ConnectionInv PROVE LedgerIsWork
  OBVIOUS
<1> USE DEF ConnectionInv
<1>1. ASSUME active PROVE ledger = Working \cap Calls
  <2>1. \A m \in Calls : m \in Working <=> m \in handling \/ \E s \in Senders : Sending(s) /\ msg[s] = m
    BY DEF Working, Sending
  <2>2. \A m \in Calls : m \in ledger <=> m \in Working
    BY <1>1, <2>1 DEF Worked
  <2>3. ledger \subseteq Calls
    BY DEF TypeOK
  <2>4. QED
    BY <2>2, <2>3
<1>2. QED
  BY <1>1 DEF LedgerIsWork, Worked

\* For any writers, calls and limit: while the connection lives its ledger
\* holds exactly the calls somebody still works on, whatever Settle, admit and
\* deactivate do in between; after onTerminal it stays empty.
THEOREM ConnectionCorrect == Spec => []ConnectionOK
<1>1. ConnectionInv => ConnectionOK
  BY LedgerExact DEF ConnectionInv, ConnectionOK
<1>2. QED
  BY <1>1, Connected, PTL

\* A Close that was in time leaves no write behind and lets none begin, and
\* the handshake layer keeps one message at a time and its order.
THEOREM WritesFenced == Spec => []WritesOK
<1>1. ConnectionInv => WritesOK
  BY DEF ConnectionInv, WritesOK, Fenced, Shaken
<1>2. QED
  BY <1>1, Connected, PTL

\* A notification that came too late or broke the transport gives up the slot
\* only once the connection is retired: writeNotification and its monitor.
THEOREM OverdueRetires == Spec => OverdueNoteRetires
<1>1. ConnectionInv /\ [Next]_vars => [NoteLeaves /\ Overdue /\ ~note.canceled => ~active]_vars
  BY LeavesJudged DEF ConnectionInv, Judged
<1>2. QED
  BY <1>1, Connected, PTL DEF Spec, OverdueNoteRetires

\* A client that keeps to the limit, and to one use of a request ID at a time,
\* is never refused, although it has its reply before the call is settled.
THEOREM PoliteAdmitted == Spec => PoliteClientAdmitted
<1>1. ConnectionInv /\ [Next]_vars => [at[Reader] = "admit" /\ at'[Reader] = "retire" => rude]_vars
  BY AdmitOrRude
<1>2. QED
  BY <1>1, Connected, PTL DEF Spec, PoliteClientAdmitted
=============================================================================
