--------------------------- MODULE LanePool_proofs ---------------------------
(***************************************************************************)
(* For any number of lanes, callers and commands: the lane pool hands out  *)
(* every lane it has, once, and idle; Close forgets no client; and what a  *)
(* caller is told of its command is so, as RequestOutcome promises it.     *)
(***************************************************************************)
EXTENDS LanePool, FiniteSetTheorems, TLAPS

LEMMA InitType == Init => TypeOK
<1> SUFFICES ASSUME Init PROVE TypeOK
  OBVIOUS
<1> USE PoolAssumption DEF Init
<1>1. live \in Int
  BY FS_CardinalityType
<1>2. /\ pc \in [Callers -> Places] /\ got \in [Callers -> Outcomes]
      /\ answer \in [Requests -> Outcomes] /\ failure \in Outcomes
  BY DEF Places, Outcomes
<1>3. /\ req \in [Callers -> 0..MaxRequests] /\ at \in [Callers -> Clients \cup {NoClient}]
      /\ made \in 0..MaxRequests /\ wire \in [Clients -> 0..MaxRequests]
  OBVIOUS
<1>4. /\ ctxDone \in [Requests -> BOOLEAN] /\ gone \in [Clients -> BOOLEAN]
      /\ closed \in [Clients -> BOOLEAN] /\ sent \in [Requests -> BOOLEAN]
      /\ ran \in [Requests -> BOOLEAN]
  OBVIOUS
<1>5. /\ fence \in [Lanes -> {"none", "crossing", "closing"}]
      /\ drainer \in Lanes \cup {NoClient}
  OBVIOUS
<1>6. /\ free \subseteq Lanes /\ opened \subseteq Requests /\ exclusive \subseteq Requests
      /\ retiring \subseteq Requests /\ collected \subseteq Clients
  OBVIOUS
<1>7. /\ drained \in BOOLEAN /\ stopped \in BOOLEAN
      /\ closePhase \in {"open", "stopped", "collected", "closed"}
  OBVIOUS
<1> QED
  BY <1>1, <1>2, <1>3, <1>4, <1>5, <1>6, <1>7, Zenon DEF TypeOK

\* What a caller's step can change at most, and to what.
CallTypes ==
    /\ pc' \in [Callers -> Places]
    /\ req' \in [Callers -> 0..MaxRequests]
    /\ at' \in [Callers -> Clients \cup {NoClient}]
    /\ got' \in [Callers -> Outcomes]
    /\ made' \in 0..MaxRequests
    /\ ctxDone' \in [Requests -> BOOLEAN]
    /\ answer' \in [Requests -> Outcomes]

LEMMA TellType ==
    ASSUME TypeOK, NEW c \in Callers, NEW o \in Outcomes, Tell(c, o),
           UNCHANGED <<req, got, made, ctxDone>>
    PROVE  CallTypes
BY DEF TypeOK, Tell, GoTo, CallTypes, Places

LEMMA GoToType ==
    ASSUME TypeOK, NEW c \in Callers, NEW p \in Places, GoTo(c, p),
           UNCHANGED <<req, at, got, made, ctxDone, answer>>
    PROVE  CallTypes
BY DEF TypeOK, GoTo, CallTypes, Places

LEMMA ReturnType ==
    ASSUME TypeOK, NEW c \in Callers, NEW o \in Outcomes, ClientReturns(c, o)
    PROVE  CallTypes
<1>1. pc' \in [Callers -> Places]
  BY DEF TypeOK, ClientReturns, GoTo, Places
<1> QED
  BY <1>1 DEF TypeOK, ClientReturns, CallTypes

LEMMA OutcomeWords ==
    /\ {"ok", "ctx", "closed", "lost", "open", "abandoned", "unknown", "none"} \subseteq Outcomes
    /\ TypeOK => DrainError \in Outcomes
BY DEF Outcomes, NotRun, DrainError, TypeOK

\* Everything else a step can change, and to what.
OtherTypes ==
    /\ free' \subseteq Lanes /\ live' \in Int /\ failure' \in Outcomes
    /\ drained' \in BOOLEAN /\ stopped' \in BOOLEAN
    /\ fence' \in [Lanes -> {"none", "crossing", "closing"}]
    /\ drainer' \in Lanes \cup {NoClient}
    /\ opened' \subseteq Requests /\ exclusive' \subseteq Requests /\ retiring' \subseteq Requests
    /\ wire' \in [Clients -> 0..MaxRequests]
    /\ gone' \in [Clients -> BOOLEAN] /\ closed' \in [Clients -> BOOLEAN]
    /\ closePhase' \in {"open", "stopped", "collected", "closed"}
    /\ collected' \subseteq Clients
    /\ sent' \in [Requests -> BOOLEAN] /\ ran' \in [Requests -> BOOLEAN]

LEMMA Assemble == CallTypes /\ OtherTypes => TypeOK'
BY DEF CallTypes, OtherTypes, TypeOK

LEMMA SameCallTypes == TypeOK /\ UNCHANGED callVars => CallTypes
BY DEF TypeOK, callVars, CallTypes

LEMMA SameOtherTypes ==
    TypeOK /\ UNCHANGED <<poolVars, exclVars, clientVars, closeVars, history>> => OtherTypes
BY DEF TypeOK, OtherTypes, poolVars, exclVars, clientVars, closeVars, history

LEMMA RetireType ==
    ASSUME TypeOK, NEW x \in Lanes, NEW o \in Outcomes, Retire(x, o),
           fence' \in [Lanes -> {"none", "crossing", "closing"}],
           UNCHANGED <<exclVars, clientVars, closeVars, history>>
    PROVE  OtherTypes
BY DEF TypeOK, Retire, OtherTypes, exclVars, clientVars, closeVars, history

LEMMA CloseRetiredType ==
    ASSUME TypeOK, NEW x \in Lanes \cup Requests, CloseRetired(x),
           fence' \in [Lanes -> {"none", "crossing", "closing"}],
           UNCHANGED <<exclVars, closeVars, history>>
    PROVE  OtherTypes
BY DEF TypeOK, CloseRetired, OtherTypes, Clients, exclVars, closeVars, history

(***************************************************************************)
(* The type invariant needs to know what a caller holds where.             *)
(***************************************************************************)
Sites ==
    \A c \in Callers :
        /\ pc[c] # "idle" => req[c] \in Requests
        /\ pc[c] \in {"taken", "closing"} => at[c] \in Lanes
        /\ pc[c] \in {"call", "wait", "release"} => at[c] \in Clients
        /\ pc[c] \in {"adopt", "retire"} => at[c] \in Requests

\* A caller's step keeps the types.
LEMMA CallerType ==
    ASSUME TypeOK, Sites, NEW c \in Callers, Call(c) \/ CancelContext(c) \/ CallerStep(c)
    PROVE  TypeOK'
<1> USE OutcomeWords
<1>1. CASE Call(c)
  <2>1. CallTypes
    <3>1. made' \in 0..MaxRequests
      BY <1>1, PoolAssumption DEF TypeOK, Call
    <3>2. pc' \in [Callers -> Places]
      BY <1>1 DEF TypeOK, Call, GoTo, Places
    <3> QED
      BY <1>1, <3>1, <3>2 DEF TypeOK, Call, CallTypes
  <2>2. OtherTypes
    BY <1>1, SameOtherTypes DEF Call
  <2> QED
    BY <2>1, <2>2, Assemble
<1>2. CASE CancelContext(c)
  <2>1. CallTypes
    BY <1>2 DEF TypeOK, CancelContext, CallTypes
  <2>2. OtherTypes
    BY <1>2, SameOtherTypes DEF CancelContext
  <2> QED
    BY <2>1, <2>2, Assemble
<1>3. CASE AcquireCheck(c) \/ AcquireGivesUp(c) \/ ExclusiveCheck(c) \/ OpenFails(c)
  <2>1. UNCHANGED <<req, got, made, ctxDone>>
    BY <1>3 DEF AcquireCheck, AcquireGivesUp, ExclusiveCheck, OpenFails
  <2>2. OtherTypes
    BY <1>3, SameOtherTypes DEF AcquireCheck, AcquireGivesUp, ExclusiveCheck, OpenFails
  <2>3. \/ \E o \in Outcomes : Tell(c, o)
        \/ \E p \in Places : GoTo(c, p) /\ UNCHANGED <<at, answer>>
    BY <1>3 DEF AcquireCheck, AcquireGivesUp, ExclusiveCheck, OpenFails, Places
  <2>4. CallTypes
    BY <2>1, <2>3, TellType, GoToType
  <2> QED
    BY <2>2, <2>4, Assemble
<1>4. CASE AcquireLane(c)
  <2>1. CallTypes
    BY <1>4 DEF TypeOK, AcquireLane, CallTypes, GoTo, Places, Clients
  <2>2. OtherTypes
    BY <1>4 DEF TypeOK, AcquireLane, OtherTypes, exclVars, clientVars, closeVars, history
  <2> QED
    BY <2>1, <2>2, Assemble
<1>5. CASE Recheck(c)
  <2>1. UNCHANGED <<req, got, made, ctxDone>>
    BY <1>5 DEF Recheck
  <2>2. \/ \E o \in Outcomes : Tell(c, o)
        \/ \E p \in Places : GoTo(c, p) /\ UNCHANGED <<at, answer>>
    BY <1>5 DEF Recheck, Places
  <2>3. CallTypes
    BY <2>1, <2>2, TellType, GoToType
  <2>4. free' \subseteq Lanes
    BY <1>5 DEF Recheck, Sites, TypeOK
  <2>5. OtherTypes
    BY <2>4, <1>5 DEF TypeOK, Recheck, OtherTypes, exclVars, clientVars, closeVars, history
  <2> QED
    BY <2>3, <2>5, Assemble
<1>6. CASE NotSent(c) \/ SendFails(c) \/ WaitEnds(c)
  <2>1. \E o \in Outcomes : ClientReturns(c, o)
    BY <1>6 DEF NotSent, SendFails, WaitEnds
  <2>2. CallTypes
    BY <2>1, ReturnType
  <2>3. sent' \in [Requests -> BOOLEAN] /\ UNCHANGED <<poolVars, exclVars, clientVars, closeVars, ran>>
    BY <1>6 DEF NotSent, SendFails, WaitEnds, TypeOK, history
  <2>4. OtherTypes
    BY <2>3 DEF TypeOK, OtherTypes, poolVars, exclVars, clientVars, closeVars
  <2> QED
    BY <2>2, <2>4, Assemble
<1>7. CASE Send(c)
  <2>1. CallTypes
    BY <1>7, GoToType DEF Send, Places
  <2>2. wire' \in [Clients -> 0..MaxRequests] /\ sent' \in [Requests -> BOOLEAN]
    BY <1>7 DEF Send, TypeOK
  <2>3. OtherTypes
    BY <2>2, <1>7 DEF TypeOK, Send, OtherTypes, poolVars, exclVars, closeVars
  <2> QED
    BY <2>1, <2>3, Assemble
<1>8. CASE ReleaseToFree(c) \/ ReleaseToFence(c)
  <2>1. \E o \in Outcomes : Tell(c, o)
    BY <1>8 DEF ReleaseToFree, ReleaseToFence, TypeOK
  <2>2. CallTypes
    BY <2>1, <1>8, TellType DEF ReleaseToFree, ReleaseToFence
  <2>3. /\ free' \subseteq Lanes
        /\ fence' \in [Lanes -> {"none", "crossing", "closing"}]
    BY <1>8 DEF ReleaseToFree, ReleaseToFence, TypeOK
  <2>4. OtherTypes
    BY <2>3, <1>8 DEF TypeOK, ReleaseToFree, ReleaseToFence, OtherTypes, exclVars, clientVars,
       closeVars, history
  <2> QED
    BY <2>2, <2>4, Assemble
<1>9. CASE ReleaseRetires(c)
  <2>1. CallTypes
    BY <1>9, GoToType DEF ReleaseRetires, Places
  <2>2. got[c] \in Outcomes /\ at[c] \in Lanes
    BY <1>9 DEF ReleaseRetires, TypeOK
  <2>3. fence' \in [Lanes -> {"none", "crossing", "closing"}]
    BY <1>9 DEF ReleaseRetires, TypeOK
  <2>4. OtherTypes
    BY <2>2, <2>3, <1>9, RetireType DEF ReleaseRetires
  <2> QED
    BY <2>1, <2>4, Assemble
<1>10. CASE ReleaseCloses(c)
  <2>1. got[c] \in Outcomes /\ at[c] \in Lanes
    BY <1>10 DEF ReleaseCloses, TypeOK, Sites
  <2>2. CallTypes
    BY <2>1, <1>10, TellType DEF ReleaseCloses
  <2>3. fence' \in [Lanes -> {"none", "crossing", "closing"}]
    BY <1>10 DEF ReleaseCloses, TypeOK
  <2>4. OtherTypes
    BY <2>1, <2>3, <1>10, CloseRetiredType DEF ReleaseCloses
  <2> QED
    BY <2>2, <2>4, Assemble
<1>11. CASE OpenClient(c)
  <2>1. req[c] \in Requests /\ req[c] \in Clients
    BY <1>11 DEF OpenClient, Sites, Clients
  <2>2. CallTypes
    BY <2>1, <1>11 DEF TypeOK, OpenClient, CallTypes, GoTo, Places
  <2>3. OtherTypes
    BY <2>1, <1>11 DEF TypeOK, OpenClient, OtherTypes, poolVars, clientVars, closeVars, history
  <2> QED
    BY <2>2, <2>3, Assemble
<1>12. CASE Adopt(c)
  <2>1. at[c] \in Requests
    BY <1>12 DEF Adopt, Sites
  <2>2. \/ \E o \in Outcomes : Tell(c, o)
        \/ \E p \in Places : GoTo(c, p) /\ UNCHANGED <<at, answer>>
    BY <1>12 DEF Adopt, Places
  <2>3. CallTypes
    BY <2>2, <1>12, TellType, GoToType DEF Adopt
  <2>4. exclusive' \subseteq Requests /\ closed' \in [Clients -> BOOLEAN]
    BY <2>1, <1>12 DEF Adopt, TypeOK
  <2>5. OtherTypes
    BY <2>4, <1>12 DEF TypeOK, Adopt, OtherTypes, poolVars, closeVars, history
  <2> QED
    BY <2>3, <2>5, Assemble
<1>13. CASE ReleaseExclusive(c)
  <2>1. \/ \E o \in Outcomes : Tell(c, o)
        \/ \E p \in Places : GoTo(c, p) /\ UNCHANGED <<at, answer>>
    BY <1>13 DEF ReleaseExclusive, Places, TypeOK
  <2>2. CallTypes
    BY <2>1, <1>13, TellType, GoToType DEF ReleaseExclusive
  <2>3. OtherTypes
    BY <1>13 DEF TypeOK, ReleaseExclusive, OtherTypes, poolVars, clientVars, closeVars, history
  <2> QED
    BY <2>2, <2>3, Assemble
<1>14. CASE RetireReturns(c)
  <2>1. \E o \in Outcomes : Tell(c, o)
    BY <1>14 DEF RetireReturns, TypeOK
  <2>2. CallTypes
    BY <2>1, <1>14, TellType DEF RetireReturns
  <2>3. OtherTypes
    BY <1>14, SameOtherTypes DEF RetireReturns
  <2> QED
    BY <2>2, <2>3, Assemble
<1> QED
  BY <1>1, <1>2, <1>3, <1>4, <1>5, <1>6, <1>7, <1>8, <1>9, <1>10, <1>11, <1>12, <1>13, <1>14
     DEF CallerStep

\* ... and so does every step that is not a caller's.
LEMMA BackgroundType ==
    ASSUME TypeOK,
           \/ \E x \in Lanes : FenceStep(x)
           \/ \E x \in Requests : RetireStep(x)
           \/ \E x \in Clients : TmuxRuns(x) \/ TmuxReplies(x) \/ StreamLost(x)
           \/ Stop \/ CloseStep
           \/ UNCHANGED vars
    PROVE  TypeOK'
<1> USE OutcomeWords
<1>1. ASSUME NEW x \in Lanes, FenceStep(x)
      PROVE  TypeOK'
  <2>1. CallTypes
    BY <1>1, SameCallTypes DEF FenceStep, FenceCrossed, FenceFails, FenceCloses
  <2>2. fence' \in [Lanes -> {"none", "crossing", "closing"}]
    BY <1>1 DEF FenceStep, FenceCrossed, FenceFails, FenceCloses, TypeOK
  <2>3. CASE FenceCrossed(x)
    <3>1. OtherTypes
      BY <2>2, <2>3 DEF TypeOK, FenceCrossed, OtherTypes, exclVars, clientVars, closeVars, history
    <3> QED
      BY <2>1, <3>1, Assemble
  <2>4. CASE FenceFails(x)
    <3>1. \E o \in Outcomes : Retire(x, o)
      BY <2>4 DEF FenceFails
    <3>2. OtherTypes
      BY <2>2, <2>4, <3>1, RetireType DEF FenceFails
    <3> QED
      BY <2>1, <3>2, Assemble
  <2>5. CASE FenceCloses(x)
    <3>1. OtherTypes
      BY <2>2, <2>5, CloseRetiredType DEF FenceCloses
    <3> QED
      BY <2>1, <3>1, Assemble
  <2> QED
    BY <1>1, <2>3, <2>4, <2>5 DEF FenceStep
<1>2. ASSUME NEW x \in Requests, RetireStep(x)
      PROVE  TypeOK'
  <2>1. CallTypes
    BY <1>2, SameCallTypes DEF RetireStep, RetireCloses, RetireForgets
  <2>2. /\ closed' \in [Clients -> BOOLEAN]
        /\ exclusive' \subseteq Requests /\ retiring' \subseteq Requests /\ opened' = opened
        /\ UNCHANGED <<poolVars, wire, gone, closeVars, history>>
    BY <1>2 DEF RetireStep, RetireCloses, RetireForgets, TypeOK, exclVars, clientVars
  <2>3. OtherTypes
    BY <2>2 DEF TypeOK, OtherTypes, poolVars, closeVars, history
  <2> QED
    BY <2>1, <2>3, Assemble
<1>3. ASSUME NEW x \in Clients, TmuxRuns(x) \/ StreamLost(x)
      PROVE  TypeOK'
  <2>1. CallTypes
    BY <1>3, SameCallTypes DEF TmuxRuns, StreamLost
  <2>2. OtherTypes
    BY <1>3 DEF TmuxRuns, StreamLost, TypeOK, OtherTypes, poolVars, exclVars, clientVars,
       closeVars, history
  <2> QED
    BY <2>1, <2>2, Assemble
<1>4. ASSUME NEW x \in Clients, TmuxReplies(x)
      PROVE  TypeOK'
  <2>1. UNCHANGED callVars \/ \E c \in Callers : ClientReturns(c, "ok")
    BY <1>4 DEF TmuxReplies
  <2>2. CallTypes
    BY <2>1, SameCallTypes, ReturnType
  <2>3. wire' \in [Clients -> 0..MaxRequests]
    BY <1>4, PoolAssumption DEF TmuxReplies, TypeOK
  <2>4. OtherTypes
    BY <1>4, <2>3 DEF TmuxReplies, TypeOK, OtherTypes, poolVars, exclVars, closeVars, history
  <2> QED
    BY <2>2, <2>4, Assemble
<1>5. CASE Stop \/ CloseStep
  <2>1. CallTypes
    BY <1>5, SameCallTypes DEF Stop, CloseStep, Collect, CloseCollected
  <2>2. /\ stopped' \in BOOLEAN /\ collected' \subseteq Clients
        /\ closed' \in [Clients -> BOOLEAN]
        /\ closePhase' \in {"open", "stopped", "collected", "closed"}
        /\ UNCHANGED <<free, live, failure, drained, fence, drainer, exclVars, wire, gone, history>>
    BY <1>5 DEF Stop, CloseStep, Collect, CloseCollected, TypeOK, Clients, poolVars, clientVars
  <2>3. OtherTypes
    BY <2>2 DEF TypeOK, OtherTypes, exclVars, history
  <2> QED
    BY <2>1, <2>3, Assemble
<1>6. CASE UNCHANGED vars
  BY <1>6, SameCallTypes, SameOtherTypes, Assemble DEF vars
<1> QED
  BY <1>1, <1>2, <1>3, <1>4, <1>5, <1>6

LEMMA TypeStep == TypeOK /\ Sites /\ [Next]_vars => TypeOK'
BY CallerType, BackgroundType DEF Next

(***************************************************************************)
(* The places of a lane, in the parts that the steps disturb one by one.   *)
(***************************************************************************)
OnePlace ==
    /\ \A x \in free : ~Held(x) /\ ~Crossing(x)
    /\ \A x \in Lanes : Held(x) => ~Crossing(x)
    /\ \A c, d \in Callers, x \in Lanes : Holds(c, x) /\ Holds(d, x) => c = d

\* A lane that is free, or about to be, or about to be written to, has no
\* reply outstanding.
Quiet ==
    /\ FreeLaneIsIdle
    /\ \A c \in Callers : at[c] \in Lanes =>
         /\ pc[c] \in {"taken", "call"} => wire[at[c]] = 0
         /\ pc[c] = "release" /\ Survives(got[c]) => wire[at[c]] = 0

Structure == TypeOK /\ Sites /\ OnePlace /\ Quiet

\* The lanes in service stay, or one of them is retired.
SameService ==
    /\ InService' = InService
    /\ UNCHANGED <<live, drainer>>
    /\ drained' => drained \/ drainer \in Lanes

OneRetired ==
    \E x \in InService, o \in Outcomes : Retire(x, o) /\ InService' = InService \ {x}

\* A caller moves without touching a lane or the client it holds.
LEMMA CallerMoves ==
    ASSUME Structure, NEW c \in Callers, CallTypes,
           \A d \in Callers \ {c} : pc'[d] = pc[d] /\ at'[d] = at[d] /\ got'[d] = got[d] /\ req'[d] = req[d],
           \A x \in Lanes : Holds(c, x)' = Holds(c, x),
           UNCHANGED <<free, live, drainer, drained, fence>>
    PROVE  OnePlace' /\ SameService
<1>1. \A d \in Callers, x \in Lanes : Holds(d, x)' = Holds(d, x)
  BY DEF Holds
<1>2. \A x \in Lanes : Held(x)' = Held(x)
  BY <1>1 DEF Held
<1>3. \A x \in Lanes : Crossing(x)' = Crossing(x)
  BY DEF Crossing
<1>4. free \subseteq Lanes
  BY DEF Structure, TypeOK
<1>5. OnePlace'
  BY <1>1, <1>2, <1>3, <1>4 DEF OnePlace, Structure
<1>6. InService' = InService
  BY <1>2, <1>3 DEF InService
<1> QED
  BY <1>5, <1>6 DEF SameService

\* Steps of the background that leave callers and lanes where they are.
LEMMA NobodyMoves ==
    ASSUME Structure, UNCHANGED <<callVars, free, live, drainer, drained, fence>>
    PROVE  OnePlace' /\ SameService /\ Sites'
<1>1. \A d \in Callers, x \in Lanes : Holds(d, x)' = Holds(d, x)
  BY DEF Holds, callVars
<1>2. \A x \in Lanes : Held(x)' = Held(x) /\ Crossing(x)' = Crossing(x)
  BY <1>1 DEF Held, Crossing
<1>3. free \subseteq Lanes
  BY DEF Structure, TypeOK
<1>4. OnePlace'
  BY <1>1, <1>2, <1>3 DEF OnePlace, Structure
<1>5. InService' = InService
  BY <1>2 DEF InService
<1>6. Sites'
  BY DEF Sites, Structure, callVars
<1> QED
  BY <1>4, <1>5, <1>6 DEF SameService

\* Sites by itself: each step of a caller.
LEMMA SitesStep ==
    ASSUME TypeOK, Sites, [Next]_vars
    PROVE  Sites'
<1> USE DEF TypeOK, Sites, Tell, GoTo, ClientReturns
<1>1. ASSUME NEW c \in Callers, Call(c)
      PROVE  Sites'
  <2>1. made' \in Requests
    BY <1>1, PoolAssumption DEF Call, Requests
  <2> QED
    BY <1>1, <2>1 DEF Call
<1>2. ASSUME NEW c \in Callers, CancelContext(c) \/ AcquireCheck(c) \/ AcquireGivesUp(c)
                                 \/ Recheck(c) \/ ExclusiveCheck(c) \/ OpenFails(c)
      PROVE  Sites'
  BY <1>2 DEF CancelContext, AcquireCheck, AcquireGivesUp, Recheck, ExclusiveCheck, OpenFails, Clients
<1>3. ASSUME NEW c \in Callers, AcquireLane(c)
      PROVE  Sites'
  BY <1>3 DEF AcquireLane
<1>4. ASSUME NEW c \in Callers, NotSent(c) \/ Send(c) \/ SendFails(c) \/ WaitEnds(c)
      PROVE  Sites'
  BY <1>4 DEF NotSent, Send, SendFails, WaitEnds
<1>5. ASSUME NEW c \in Callers, ReleaseToFree(c) \/ ReleaseToFence(c) \/ ReleaseRetires(c)
                                 \/ ReleaseCloses(c) \/ RetireReturns(c)
      PROVE  Sites'
  BY <1>5 DEF ReleaseToFree, ReleaseToFence, ReleaseRetires, ReleaseCloses, RetireReturns
<1>6. ASSUME NEW c \in Callers, OpenClient(c) \/ Adopt(c) \/ ReleaseExclusive(c)
      PROVE  Sites'
  BY <1>6 DEF OpenClient, Adopt, ReleaseExclusive, Clients
<1>7. ASSUME NEW x \in Clients, TmuxReplies(x)
      PROVE  Sites'
  BY <1>7 DEF TmuxReplies, callVars
<1>8. CASE UNCHANGED callVars
  BY <1>8 DEF callVars
<1>9. CASE \/ \E x \in Lanes : FenceStep(x)
           \/ \E x \in Requests : RetireStep(x)
           \/ \E x \in Clients : TmuxRuns(x) \/ StreamLost(x)
           \/ Stop \/ CloseStep
           \/ UNCHANGED vars
  BY <1>8, <1>9 DEF FenceStep, FenceCrossed, FenceFails, FenceCloses, RetireStep, RetireCloses,
     RetireForgets, TmuxRuns, StreamLost, Stop, CloseStep, Collect, CloseCollected, vars
<1> QED
  BY <1>1, <1>2, <1>3, <1>4, <1>5, <1>6, <1>7, <1>9 DEF Next, CallerStep

\* Callers on their way to a lane or a client, or away from a dead end.
LEMMA ApproachStep ==
    ASSUME Structure, NEW c \in Callers,
           \/ Call(c) \/ CancelContext(c) \/ AcquireCheck(c) \/ AcquireGivesUp(c)
           \/ ExclusiveCheck(c) \/ OpenFails(c) \/ OpenClient(c) \/ Adopt(c)
           \/ ReleaseExclusive(c) \/ RetireReturns(c)
    PROVE  OnePlace' /\ Quiet' /\ SameService
<1> USE DEF Structure, TypeOK, Tell, GoTo
<1>1. \A d \in Callers \ {c} :
        pc'[d] = pc[d] /\ at'[d] = at[d] /\ got'[d] = got[d] /\ req'[d] = req[d]
  BY DEF Call, CancelContext, AcquireCheck, AcquireGivesUp, ExclusiveCheck, OpenFails,
     OpenClient, Adopt, ReleaseExclusive, RetireReturns
<1>2. UNCHANGED <<free, live, drainer, drained, fence, wire, got>>
  BY DEF Call, CancelContext, AcquireCheck, AcquireGivesUp, ExclusiveCheck, OpenFails,
     OpenClient, Adopt, ReleaseExclusive, RetireReturns, poolVars, clientVars
<1>3. at[c] \in Lanes /\ pc[c] \in {"taken", "call", "wait", "release"} =>
        pc'[c] = pc[c] /\ at'[c] = at[c]
  BY PoolAssumption DEF Call, CancelContext, AcquireCheck, AcquireGivesUp, ExclusiveCheck,
     OpenFails, OpenClient, Adopt, ReleaseExclusive, RetireReturns
<1>4. at'[c] \in Lanes /\ pc'[c] \in {"taken", "call", "wait", "release"} =>
        pc'[c] = pc[c] /\ at'[c] = at[c]
  BY PoolAssumption DEF Call, CancelContext, AcquireCheck, AcquireGivesUp, ExclusiveCheck,
     OpenFails, OpenClient, Adopt, ReleaseExclusive, RetireReturns, Sites, Clients
<1>5. \A x \in Lanes : Holds(c, x)' = Holds(c, x)
  BY <1>3, <1>4 DEF Holds
<1>6. CallTypes
  <2>1. TypeOK'
    BY CallerType DEF CallerStep
  <2> QED
    BY <2>1 DEF CallTypes
<1>7. Quiet'
  BY <1>1, <1>2, <1>4 DEF Quiet, FreeLaneIsIdle
<1> QED
  BY <1>1, <1>2, <1>5, <1>6, <1>7, CallerMoves

\* The client's part of a call.
LEMMA ClientStep ==
    ASSUME Structure, NEW c \in Callers, NotSent(c) \/ Send(c) \/ SendFails(c) \/ WaitEnds(c)
    PROVE  OnePlace' /\ Quiet' /\ SameService
<1> USE DEF Structure, TypeOK, GoTo, ClientReturns
<1>1. \A d \in Callers \ {c} :
        pc'[d] = pc[d] /\ at'[d] = at[d] /\ got'[d] = got[d] /\ req'[d] = req[d]
  BY DEF NotSent, Send, SendFails, WaitEnds
<1>2. UNCHANGED <<free, live, drainer, drained, fence, at>>
  BY DEF NotSent, Send, SendFails, WaitEnds, poolVars
<1>3. pc[c] \in {"call", "wait"} /\ pc'[c] \in {"wait", "release"}
  BY DEF NotSent, Send, SendFails, WaitEnds
<1>4. \A x \in Lanes : Holds(c, x)' = Holds(c, x)
  BY <1>2, <1>3 DEF Holds
<1>5. CallTypes
  <2>1. TypeOK'
    BY CallerType DEF CallerStep
  <2> QED
    BY <2>1 DEF CallTypes
<1>6. Quiet'
  <2>1. CASE Send(c)
    <3>1. wire' = [wire EXCEPT ![at[c]] = req[c]] /\ pc'[c] = "wait" /\ pc[c] = "call"
      BY <2>1 DEF Send
    <3>2. \A x \in Lanes : x # at[c] => wire'[x] = wire[x]
      BY <3>1 DEF Clients
    <3>3. at[c] \in Lanes => at[c] \notin free /\ Held(at[c])
      BY <3>1 DEF OnePlace, Held, Holds
    <3>4. \A d \in Callers : d # c /\ at[d] \in Lanes /\ pc[d] \in {"taken", "call", "release"}
                                => at[d] # at[c]
      BY <3>1 DEF OnePlace, Holds
    <3> QED
      BY <1>1, <1>2, <3>1, <3>2, <3>3, <3>4 DEF Quiet, FreeLaneIsIdle
  <2>2. CASE NotSent(c) \/ SendFails(c) \/ WaitEnds(c)
    <3>1. wire' = wire /\ pc'[c] = "release"
      BY <2>2 DEF NotSent, SendFails, WaitEnds, clientVars
    <3>2. pc[c] = "call" \/ ~Survives(got'[c])
      BY <2>2 DEF NotSent, SendFails, WaitEnds, Survives
    <3> QED
      BY <1>1, <1>2, <3>1, <3>2 DEF Quiet, FreeLaneIsIdle, Survives
  <2> QED
    BY <2>1, <2>2
<1> QED
  BY <1>1, <1>2, <1>4, <1>5, <1>6, CallerMoves

\* A lane that goes from a holder to the channel, or the other way.
LEMMA LendStep ==
    ASSUME Structure, NEW c \in Callers, AcquireLane(c) \/ Recheck(c) \/ ReleaseToFree(c)
    PROVE  OnePlace' /\ Quiet' /\ SameService
<1> USE DEF Structure, TypeOK, Tell, GoTo
<1>0. UNCHANGED <<live, drainer, drained, fence, wire, got, req>>
  BY DEF AcquireLane, Recheck, ReleaseToFree, clientVars
<1>1. CASE AcquireLane(c)
  <2>1. PICK x \in free : free' = free \ {x} /\ at' = [at EXCEPT ![c] = x]
    BY <1>1 DEF AcquireLane
  <2>2. pc' = [pc EXCEPT ![c] = "taken"] /\ pc[c] = "acquire"
    BY <1>1 DEF AcquireLane
  <2>3. x \in Lanes /\ ~Held(x) /\ ~Crossing(x)
    BY DEF OnePlace
  <2>4. \A d \in Callers, y \in Lanes : Holds(d, y)' <=> Holds(d, y) \/ (d = c /\ y = x)
    BY <2>1, <2>2, <2>3 DEF Holds
  <2>5. \A y \in Lanes : Held(y)' <=> Held(y) \/ y = x
    BY <2>4 DEF Held
  <2>6. \A y \in Lanes : Crossing(y)' = Crossing(y)
    BY <1>0 DEF Crossing
  <2>7. OnePlace'
    BY <2>1, <2>3, <2>4, <2>5, <2>6 DEF OnePlace, Held
  <2>8. InService' = InService
    BY <2>1, <2>3, <2>5, <2>6 DEF InService
  <2>9. Quiet'
    BY <1>0, <2>1, <2>2, <2>3 DEF Quiet, FreeLaneIsIdle
  <2> QED
    BY <1>0, <2>7, <2>8, <2>9 DEF SameService
<1>2. ASSUME at[c] \in Lanes, Holds(c, at[c]), wire[at[c]] = 0,
             free' = free \cup {at[c]}, pc' = [pc EXCEPT ![c] = "idle"],
             at' = [at EXCEPT ![c] = NoClient]
      PROVE  OnePlace' /\ Quiet' /\ SameService
  <2> DEFINE x == at[c]
  <2>1. \A d \in Callers, y \in Lanes : Holds(d, y)' <=> Holds(d, y) /\ d # c
    BY <1>2, PoolAssumption DEF Holds, Clients
  <2>2. \A y \in Lanes : Held(y)' <=> Held(y) /\ y # x
    BY <1>2, <2>1 DEF Held, OnePlace, Holds
  <2>3. \A y \in Lanes : Crossing(y)' = Crossing(y)
    BY <1>0 DEF Crossing
  <2>4. Held(x) /\ ~Crossing(x)
    BY <1>2 DEF Held, OnePlace
  <2>5. OnePlace'
    BY <1>2, <2>1, <2>2, <2>3, <2>4 DEF OnePlace
  <2>6. InService' = InService
    BY <1>2, <2>2, <2>3, <2>4 DEF InService
  <2>7. Quiet'
    BY <1>0, <1>2, PoolAssumption DEF Quiet, FreeLaneIsIdle, Clients
  <2> QED
    BY <1>0, <2>5, <2>6, <2>7 DEF SameService
<1>3. CASE Recheck(c)
  <2>1. at[c] \in Lanes /\ Holds(c, at[c]) /\ wire[at[c]] = 0
    BY <1>3 DEF Recheck, Sites, Holds, Quiet
  <2>2. CASE ctxDone[req[c]] \/ stopped
    BY <1>2, <1>3, <2>1, <2>2 DEF Recheck
  <2>3. CASE ~(ctxDone[req[c]] \/ stopped)
    <3>1. pc' = [pc EXCEPT ![c] = "call"] /\ UNCHANGED <<at, free>> /\ pc[c] = "taken"
      BY <1>3, <2>3 DEF Recheck
    <3>2. \A y \in Lanes : Holds(c, y)' = Holds(c, y)
      BY <3>1 DEF Holds
    <3>3. CallTypes
      <4>1. TypeOK'
        BY <1>3, CallerType DEF CallerStep
      <4> QED
        BY <4>1 DEF CallTypes
    <3>4. Quiet'
      BY <1>0, <3>1 DEF Quiet, FreeLaneIsIdle
    <3> QED
      BY <1>0, <3>1, <3>2, <3>3, <3>4, CallerMoves
  <2> QED
    BY <2>2, <2>3
<1>4. CASE ReleaseToFree(c)
  <2>1. at[c] \in Lanes /\ Holds(c, at[c]) /\ wire[at[c]] = 0
    BY <1>4 DEF ReleaseToFree, Holds, Quiet
  <2> QED
    BY <1>2, <1>4, <2>1 DEF ReleaseToFree
<1> QED
  BY <1>1, <1>3, <1>4

\* Nobody moves, but a retired lane's close may be the pool's last.
LEMMA CloseStays ==
    ASSUME Structure, NEW y \in Lanes, CloseRetired(y), UNCHANGED got,
           \A d \in Callers, x \in Lanes : Holds(d, x)' = Holds(d, x),
           \A d \in Callers : pc'[d] = "idle" \/ (pc'[d] = pc[d] /\ at'[d] = at[d]),
           \A x \in Lanes : Crossing(x)' = Crossing(x)
    PROVE  OnePlace' /\ Quiet' /\ SameService
<1> USE DEF CloseRetired
<1>1. \A x \in Lanes : Held(x)' = Held(x)
  BY DEF Held
<1>2. free \subseteq Lanes
  BY DEF Structure, TypeOK
<1>3. OnePlace'
  BY <1>1, <1>2 DEF OnePlace, Structure
<1>4. InService' = InService
  BY <1>1 DEF InService
<1>5. Quiet'
  BY DEF Quiet, FreeLaneIsIdle, Structure
<1> QED
  BY <1>3, <1>4, <1>5 DEF SameService

\* A lane whose command was abandoned goes behind its fence, and one whose
\* client failed goes out of service.
LEMMA ReleaseStep ==
    ASSUME Structure, NEW c \in Callers,
           ReleaseToFence(c) \/ ReleaseRetires(c) \/ ReleaseCloses(c)
    PROVE  OnePlace' /\ Quiet' /\ (SameService \/ OneRetired)
<1> USE DEF Structure, TypeOK, Tell, GoTo
<1> DEFINE x == at[c]
<1>1. ASSUME ReleaseToFence(c) \/ ReleaseRetires(c)
      PROVE  /\ x \in Lanes /\ x \in Clients /\ Held(x) /\ ~Crossing(x) /\ x \notin free
             /\ \A d \in Callers, y \in Lanes : Holds(d, y)' <=> Holds(d, y) /\ d # c
             /\ \A y \in Lanes : Held(y)' <=> Held(y) /\ y # x
             /\ UNCHANGED <<free, got, wire, drained>>
             /\ \A d \in Callers : d # c => pc'[d] = pc[d] /\ at'[d] = at[d]
             /\ pc'[c] \in {"idle", "closing"}
  <2>1. x \in Lanes /\ Holds(c, x) /\ pc[c] = "release" /\ x \in Clients
    BY <1>1 DEF ReleaseToFence, ReleaseRetires, Holds, Clients
  <2>2. Held(x) /\ ~Crossing(x) /\ x \notin free
    BY <2>1 DEF Held, OnePlace
  <2>3. /\ \A d \in Callers : d # c => pc'[d] = pc[d] /\ at'[d] = at[d]
        /\ pc'[c] \in {"idle", "closing"}
    BY <1>1 DEF ReleaseToFence, ReleaseRetires
  <2>4. \A d \in Callers, y \in Lanes : Holds(d, y)' <=> Holds(d, y) /\ d # c
    BY <2>3 DEF Holds
  <2>5. \A y \in Lanes : Held(y)' <=> Held(y) /\ y # x
    BY <2>1, <2>4 DEF Held, OnePlace, Holds
  <2>6. UNCHANGED <<free, got, wire, drained>>
    BY <1>1 DEF ReleaseToFence, ReleaseRetires, Retire, clientVars
  <2> QED
    BY <2>1, <2>2, <2>3, <2>4, <2>5, <2>6
<1>2. CASE ReleaseToFence(c)
  <2>1. \A y \in Lanes : Crossing(y)' <=> Crossing(y) \/ y = x
    BY <1>1, <1>2 DEF ReleaseToFence, Crossing
  <2>2. OnePlace'
    BY <1>1, <1>2, <2>1 DEF OnePlace
  <2>3. InService' = InService
    BY <1>1, <1>2, <2>1 DEF InService
  <2>4. Quiet'
    BY <1>1, <1>2 DEF Quiet, FreeLaneIsIdle
  <2>5. UNCHANGED <<live, drainer>>
    BY <1>2 DEF ReleaseToFence
  <2> QED
    BY <1>1, <1>2, <2>2, <2>3, <2>4, <2>5 DEF SameService
<1>3. CASE ReleaseRetires(c)
  <2>1. \A y \in Lanes : Crossing(y)' = Crossing(y)
    BY <1>3 DEF ReleaseRetires, Crossing
  <2>2. OnePlace'
    BY <1>1, <1>3, <2>1 DEF OnePlace
  <2>3. x \in InService /\ InService' = InService \ {x}
    BY <1>1, <1>3, <2>1 DEF InService
  <2>4. Quiet'
    BY <1>1, <1>3 DEF Quiet, FreeLaneIsIdle
  <2>5. got[c] \in Outcomes /\ Retire(x, got[c])
    BY <1>3 DEF ReleaseRetires
  <2> QED
    BY <2>2, <2>3, <2>4, <2>5 DEF OneRetired
<1>4. CASE ReleaseCloses(c)
  <2>1. pc[c] = "closing" /\ x \in Lanes /\ CloseRetired(x) /\ UNCHANGED <<got, fence>>
    BY <1>4 DEF ReleaseCloses, Sites
  <2>2. /\ \A d \in Callers : d # c => pc'[d] = pc[d] /\ at'[d] = at[d]
        /\ pc'[c] = "idle"
    BY <1>4 DEF ReleaseCloses
  <2>3. \A d \in Callers, y \in Lanes : Holds(d, y)' = Holds(d, y)
    BY <2>1, <2>2 DEF Holds
  <2>4. \A y \in Lanes : Crossing(y)' = Crossing(y)
    BY <2>1 DEF Crossing
  <2> QED
    BY <2>1, <2>2, <2>3, <2>4, CloseStays
<1> QED
  BY <1>2, <1>3, <1>4

\* The goroutine behind an abandoned command.
LEMMA BehindFence ==
    ASSUME Structure, NEW x \in Lanes, FenceStep(x)
    PROVE  OnePlace' /\ Quiet' /\ (SameService \/ OneRetired)
<1> USE DEF Structure, TypeOK
<1>1. UNCHANGED <<pc, at, got>>
  BY DEF FenceStep, FenceCrossed, FenceFails, FenceCloses, callVars
<1>2. \A d \in Callers, y \in Lanes : Holds(d, y)' = Holds(d, y)
  BY <1>1 DEF Holds
<1>3. \A y \in Lanes : Held(y)' = Held(y)
  BY <1>2 DEF Held
<1>4. CASE FenceCrossed(x)
  <2>1. /\ Crossing(x) /\ wire[x] = 0 /\ free' = free \cup {x}
        /\ UNCHANGED <<live, drainer, drained, wire>>
    BY <1>4 DEF FenceCrossed, Crossing, clientVars
  <2>2. \A y \in Lanes : Crossing(y)' <=> Crossing(y) /\ y # x
    BY <1>4 DEF FenceCrossed, Crossing
  <2>3. ~Held(x)
    BY <2>1 DEF OnePlace
  <2>4. OnePlace'
    BY <1>2, <1>3, <2>1, <2>2, <2>3 DEF OnePlace
  <2>5. InService' = InService
    BY <1>3, <2>1, <2>2 DEF InService
  <2>6. Quiet'
    BY <1>1, <2>1 DEF Quiet, FreeLaneIsIdle
  <2> QED
    BY <2>1, <2>4, <2>5, <2>6 DEF SameService
<1>5. CASE FenceFails(x)
  <2>1. PICK err \in {"closed", "lost", "unknown"} : Retire(x, err)
    BY <1>5 DEF FenceFails
  <2>2. Crossing(x) /\ UNCHANGED <<free, wire>>
    BY <1>5, <2>1 DEF FenceFails, Crossing, clientVars, Retire
  <2>3. \A y \in Lanes : Crossing(y)' <=> Crossing(y) /\ y # x
    BY <1>5 DEF FenceFails, Crossing
  <2>4. ~Held(x) /\ x \notin free
    BY <2>2 DEF OnePlace
  <2>5. OnePlace'
    BY <1>2, <1>3, <2>2, <2>3 DEF OnePlace
  <2>6. x \in InService /\ InService' = InService \ {x}
    BY <1>3, <2>2, <2>3, <2>4 DEF InService
  <2>7. Quiet'
    BY <1>1, <2>2 DEF Quiet, FreeLaneIsIdle
  <2>8. err \in Outcomes
    BY DEF Outcomes, NotRun
  <2> QED
    BY <2>1, <2>5, <2>6, <2>7, <2>8 DEF OneRetired
<1>6. CASE FenceCloses(x)
  <2>1. CloseRetired(x)
    BY <1>6 DEF FenceCloses
  <2>2. \A y \in Lanes : Crossing(y)' = Crossing(y)
    BY <1>6 DEF FenceCloses, Crossing
  <2> QED
    BY <1>1, <1>2, <2>1, <2>2, CloseStays
<1> QED
  BY <1>4, <1>5, <1>6 DEF FenceStep

\* A reply boundary frees the wire, and nothing but a caller's write fills it.
LEMMA WireStep ==
    ASSUME Structure, NEW x \in Clients, TmuxReplies(x)
    PROVE  OnePlace' /\ Quiet' /\ SameService
<1> USE DEF Structure, TypeOK
<1>1. UNCHANGED <<free, live, drainer, drained, fence, at>>
  BY DEF TmuxReplies, ClientReturns, callVars, poolVars
<1>2. wire' = [wire EXCEPT ![x] = 0]
  BY DEF TmuxReplies
<1>3. \A d \in Callers :
         \/ pc'[d] = pc[d] /\ got'[d] = got[d]
         \/ pc[d] = "wait" /\ at[d] = x /\ pc'[d] = "release" /\ got'[d] = "ok"
  BY DEF TmuxReplies, ClientReturns, GoTo, callVars
<1>4. \A d \in Callers, y \in Lanes : Holds(d, y)' = Holds(d, y)
  BY <1>1, <1>3 DEF Holds
<1>5. \A y \in Lanes : Held(y)' = Held(y) /\ Crossing(y)' = Crossing(y)
  BY <1>1, <1>4 DEF Held, Crossing
<1>6. OnePlace'
  BY <1>1, <1>4, <1>5 DEF OnePlace
<1>7. InService' = InService
  BY <1>1, <1>5 DEF InService
<1>8. \A y \in Clients : wire[y] = 0 => wire'[y] = 0
  BY <1>2
<1>9. Quiet'
  <2>1. FreeLaneIsIdle'
    BY <1>1, <1>8 DEF Quiet, FreeLaneIsIdle, Clients
  <2>2. ASSUME NEW d \in Callers, at'[d] \in Lanes
        PROVE  /\ pc'[d] \in {"taken", "call"} => wire'[at'[d]] = 0
               /\ pc'[d] = "release" /\ Survives(got'[d]) => wire'[at'[d]] = 0
    <3>1. at[d] \in Clients
      BY <1>1, <2>2 DEF Clients
    <3>2. CASE pc'[d] = pc[d] /\ got'[d] = got[d]
      BY <1>1, <1>8, <2>2, <3>1, <3>2 DEF Quiet
    <3>3. CASE at[d] = x /\ pc'[d] = "release"
      BY <1>1, <1>2, <3>1, <3>3
    <3> QED
      BY <1>3, <3>2, <3>3
  <2> QED
    BY <2>1, <2>2 DEF Quiet, Survives
<1> QED
  BY <1>1, <1>6, <1>7, <1>9 DEF SameService

\* Every step keeps the lanes in their places.
LEMMA PlacesStep ==
    ASSUME Structure, [Next]_vars
    PROVE  OnePlace' /\ Quiet' /\ (SameService \/ OneRetired)
<1>1. ASSUME NEW c \in Callers, Call(c) \/ CancelContext(c) \/ CallerStep(c)
      PROVE  OnePlace' /\ Quiet' /\ (SameService \/ OneRetired)
  BY <1>1, ApproachStep, ClientStep, LendStep, ReleaseStep DEF CallerStep
<1>2. CASE \/ \E x \in Requests : RetireStep(x)
           \/ \E x \in Clients : TmuxRuns(x) \/ StreamLost(x)
           \/ Stop \/ CloseStep \/ UNCHANGED vars
  <2>1. UNCHANGED <<callVars, free, live, drainer, drained, fence, wire>>
    BY <1>2 DEF RetireStep, RetireCloses, RetireForgets, TmuxRuns, StreamLost, Stop, CloseStep,
       Collect, CloseCollected, vars, poolVars, clientVars
  <2>2. Quiet'
    BY <2>1 DEF Structure, Quiet, FreeLaneIsIdle, callVars
  <2> QED
    BY <2>1, <2>2, NobodyMoves
<1> QED
  BY <1>1, <1>2, BehindFence, WireStep DEF Next

(***************************************************************************)
(* The count of the lanes in service, and what its reaching zero means.    *)
(***************************************************************************)
Counted == live = Cardinality(InService)

Drain ==
    /\ drainer # NoClient => InService = {}
    /\ drained => drainer # NoClient

PoolInv == Structure /\ Counted /\ Drain

LEMMA InitPool == Init => PoolInv
<1> SUFFICES ASSUME Init PROVE PoolInv
  OBVIOUS
<1>1. TypeOK
  BY InitType
<1>2. InService = Lanes /\ \A x \in Lanes : ~Held(x) /\ ~Crossing(x)
  BY DEF Init, InService, Held, Holds, Crossing
<1>3. Sites /\ OnePlace /\ Quiet
  BY <1>2, PoolAssumption DEF Init, Sites, OnePlace, Holds, Quiet, FreeLaneIsIdle, Clients
<1>4. Counted /\ Drain
  BY <1>2 DEF Init, Counted, Drain
<1> QED
  BY <1>1, <1>3, <1>4 DEF PoolInv, Structure

\* One lane fewer is one fewer counted, and the last is known to be the last.
LEMMA CountStep ==
    ASSUME PoolInv, SameService \/ OneRetired
    PROVE  Counted' /\ Drain'
<1> USE PoolAssumption DEF PoolInv, Structure, Counted, Drain
<1>1. CASE SameService
  BY <1>1 DEF SameService, Clients
<1>2. CASE OneRetired
  <2>1. PICK x \in InService, o \in Outcomes : Retire(x, o) /\ InService' = InService \ {x}
    BY <1>2 DEF OneRetired
  <2>2. IsFiniteSet(InService)
    BY FS_Subset DEF InService
  <2>3. /\ Cardinality(InService) \in Nat
        /\ Cardinality(InService \ {x}) = Cardinality(InService) - 1
        /\ IsFiniteSet(InService \ {x})
    BY <2>1, <2>2, FS_CardinalityType, FS_RemoveElement
  <2>4. Counted'
    BY <2>1, <2>3 DEF Retire
  <2>5. drainer = NoClient /\ ~drained
    BY <2>1
  <2>6. live' = 0 => InService' = {}
    BY <2>1, <2>3, <2>4, FS_EmptySet
  <2>7. Drain'
    BY <2>1, <2>5, <2>6 DEF Retire
  <2> QED
    BY <2>4, <2>7
<1> QED
  BY <1>1, <1>2

LEMMA PoolStep == PoolInv /\ [Next]_vars => PoolInv'
<1> SUFFICES ASSUME PoolInv, [Next]_vars PROVE PoolInv'
  OBVIOUS
<1>1. Structure
  BY DEF PoolInv
<1>2. TypeOK' /\ Sites'
  BY <1>1, TypeStep, SitesStep DEF Structure
<1>3. OnePlace' /\ Quiet' /\ (SameService \/ OneRetired)
  BY <1>1, PlacesStep
<1>4. Counted' /\ Drain'
  BY <1>3, CountStep
<1> QED
  BY <1>2, <1>3, <1>4 DEF PoolInv, Structure

LEMMA PoolInvariant == Spec => []PoolInv
BY InitPool, PoolStep, PTL DEF Spec

------------------------------------------------------------------------------
\* The variables of the pool and of its callers keep their types: release
\* retires only lanes and acquire lends only lanes.
THEOREM TypeCorrect == Spec => []TypeOK
<1>1. PoolInv => TypeOK
  BY DEF PoolInv, Structure
<1> QED
  BY <1>1, PoolInvariant, PTL

\* acquire never lends a lane twice, and release and the fence goroutine bring
\* back or retire every lane lent: live counts those that are left.
THEOREM EveryLaneInOnePlace == Spec => []LaneInOnePlace
<1>1. PoolInv => LaneInOnePlace
  BY DEF PoolInv, Structure, OnePlace, Counted, LaneInOnePlace
<1> QED
  BY <1>1, PoolInvariant, PTL

\* acquire never lends a lane whose last command is still unanswered: an
\* abandoned one is back only after its reply boundary.
THEOREM FreeLanesAreIdle == Spec => []FreeLaneIsIdle
<1>1. PoolInv => FreeLaneIsIdle
  BY DEF PoolInv, Structure, Quiet
<1> QED
  BY <1>1, PoolInvariant, PTL

\* acquire refuses with drainError only when no lane is left to wait for: the
\* caller that found live at zero signals after it left the lock, and nothing
\* brings a lane back in between.
THEOREM DrainedForGood == Spec => []DrainedIsTrue
<1>1. PoolInv => DrainedIsTrue
  BY DEF PoolInv, Drain, DrainedIsTrue
<1> QED
  BY <1>1, PoolInvariant, PTL

\* acquire, release and the fence goroutines keep the pool's books: each lane
\* in one place, lent only when idle, and the pool drained only when empty.
THEOREM PoolCorrect == Spec => []PoolOK
<1>1. TypeOK /\ LaneInOnePlace /\ FreeLaneIsIdle /\ DrainedIsTrue => PoolOK
  BY DEF PoolOK
<1> QED
  BY <1>1, TypeCorrect, EveryLaneInOnePlace, FreeLanesAreIdle, DrainedForGood, PTL
------------------------------------------------------------------------------
(* No client is forgotten: until the pool stops, an open client is in its  *)
(* books or in the hands of its opener, and what Close collects then is    *)
(* all that no opener will close itself.                                   *)

\* Some opener has yet to hand x over.
Adopting(x) == \E c \in Callers : pc[c] = "adopt" /\ at[c] = x

ClosingInv ==
    /\ stopped <=> closePhase # "open"
    /\ \A x \in opened : closed[x] \/ x \in exclusive \/ Adopting(x)
    /\ closePhase = "collected" =>
         \A x \in Lanes \cup opened : closed[x] \/ x \in collected \/ Adopting(x)
    /\ closePhase = "closed" => \A x \in Lanes \cup opened : closed[x] \/ Adopting(x)

LEMMA InitClosing == Init => ClosingInv
BY DEF Init, ClosingInv

\* A step that takes no client from the books but a closed one.
LEMMA NoneLeaves ==
    ASSUME ClosingInv,
           UNCHANGED <<opened, stopped, closePhase, collected>>,
           \A x \in Lanes \cup opened : closed[x] => closed'[x],
           \A x \in opened : x \in exclusive => x \in exclusive' \/ closed'[x],
           \A x \in Lanes \cup opened : Adopting(x) => Adopting(x)' \/ closed'[x]
    PROVE  ClosingInv'
BY DEF ClosingInv

\* Nobody but the caller that moves stops being an opener.
LEMMA OthersAdopt ==
    ASSUME NEW c \in Callers, NEW x, pc[c] # "adopt", Adopting(x),
           \A d \in Callers \ {c} : pc'[d] = pc[d] /\ at'[d] = at[d]
    PROVE  Adopting(x)'
BY DEF Adopting

LEMMA ClosingStep ==
    ASSUME TypeOK, Sites, ClosingInv, [Next]_vars
    PROVE  ClosingInv'
<1>1. ASSUME NEW c \in Callers,
             \/ Call(c) \/ AcquireCheck(c) \/ AcquireLane(c) \/ AcquireGivesUp(c) \/ Recheck(c)
             \/ NotSent(c) \/ Send(c) \/ SendFails(c) \/ WaitEnds(c)
             \/ ReleaseToFree(c) \/ ReleaseToFence(c) \/ ReleaseRetires(c) \/ ReleaseCloses(c)
             \/ ExclusiveCheck(c) \/ OpenFails(c) \/ ReleaseExclusive(c) \/ RetireReturns(c)
      PROVE  ClosingInv'
  <2>1. pc[c] # "adopt"
    BY <1>1 DEF Call, AcquireCheck, AcquireLane, AcquireGivesUp, Recheck, NotSent, Send, SendFails,
       WaitEnds, ReleaseToFree, ReleaseToFence, ReleaseRetires, ReleaseCloses, ExclusiveCheck,
       OpenFails, ReleaseExclusive, RetireReturns
  <2>2. \A d \in Callers \ {c} : pc'[d] = pc[d] /\ at'[d] = at[d]
    BY <1>1 DEF TypeOK, Tell, GoTo, ClientReturns, Call, AcquireCheck, AcquireLane, AcquireGivesUp,
       Recheck, NotSent, Send, SendFails, WaitEnds, ReleaseToFree, ReleaseToFence, ReleaseRetires,
       ReleaseCloses, ExclusiveCheck, OpenFails, ReleaseExclusive, RetireReturns
  <2>3. UNCHANGED <<opened, exclusive, stopped, closePhase, collected>>
    BY <1>1 DEF Call, AcquireCheck, AcquireLane, AcquireGivesUp, Recheck, NotSent, Send, SendFails,
       WaitEnds, ReleaseToFree, ReleaseToFence, ReleaseRetires, ReleaseCloses, ExclusiveCheck,
       OpenFails, ReleaseExclusive, RetireReturns, Retire, CloseRetired, poolVars, exclVars, closeVars
  <2>4. \A x \in Clients : closed[x] => closed'[x]
    <3>1. CASE ReleaseCloses(c)
      BY <3>1 DEF ReleaseCloses, CloseRetired, TypeOK
    <3>2. CASE ~ReleaseCloses(c)
      <4>1. closed' = closed
        BY <1>1, <3>2 DEF Call, AcquireCheck, AcquireLane, AcquireGivesUp, Recheck, NotSent, Send,
           SendFails, WaitEnds, ReleaseToFree, ReleaseToFence, ReleaseRetires, ExclusiveCheck,
           OpenFails, ReleaseExclusive, RetireReturns, clientVars
      <4> QED
        BY <4>1
    <3> QED
      BY <3>1, <3>2
  <2>5. Lanes \cup opened \subseteq Clients
    BY DEF TypeOK, Clients
  <2> QED
    BY <2>1, <2>2, <2>3, <2>4, <2>5, OthersAdopt, NoneLeaves
<1>2. ASSUME NEW c \in Callers, CancelContext(c)
      PROVE  ClosingInv'
  BY <1>2 DEF CancelContext, ClosingInv, Adopting, poolVars, exclVars, clientVars, closeVars
<1>3. ASSUME NEW c \in Callers, OpenClient(c)
      PROVE  ClosingInv'
  <2>1. pc[c] = "open" /\ opened' = opened \cup {req[c]}
    BY <1>3 DEF OpenClient
  <2>2. UNCHANGED <<req, exclusive, closed, stopped, closePhase, collected>>
    BY <1>3 DEF OpenClient, poolVars, clientVars, closeVars
  <2>3. Adopting(req[c])'
    BY <1>3 DEF OpenClient, GoTo, TypeOK, Adopting
  <2>4. \A d \in Callers \ {c} : pc'[d] = pc[d] /\ at'[d] = at[d]
    BY <1>3 DEF OpenClient, GoTo, TypeOK
  <2>5. \A x : Adopting(x) => Adopting(x)'
    BY <2>1, <2>4, OthersAdopt
  <2>6. \A x \in opened : closed'[x] \/ x \in exclusive' \/ Adopting(x)'
    BY <2>2, <2>5 DEF ClosingInv
  <2>7. closePhase' = "collected" =>
          \A x \in Lanes \cup opened : closed'[x] \/ x \in collected' \/ Adopting(x)'
    BY <2>2, <2>5 DEF ClosingInv
  <2>8. closePhase' = "closed" => \A x \in Lanes \cup opened : closed'[x] \/ Adopting(x)'
    BY <2>2, <2>5 DEF ClosingInv
  <2>9. stopped' <=> closePhase' # "open"
    BY <2>2 DEF ClosingInv
  <2> QED
    BY <2>1, <2>2, <2>3, <2>6, <2>7, <2>8, <2>9 DEF ClosingInv
<1>4. ASSUME NEW c \in Callers, Adopt(c)
      PROVE  ClosingInv'
  <2>1. UNCHANGED <<opened, stopped, closePhase, collected>>
    BY <1>4 DEF Adopt, poolVars, closeVars
  <2>2. at[c] \in Clients
    BY <1>4 DEF Adopt, Sites, Clients
  <2>3. \A d \in Callers \ {c} : pc'[d] = pc[d] /\ at'[d] = at[d]
    BY <1>4 DEF Adopt, GoTo, Tell, TypeOK
  <2>4. \A x : Adopting(x) => Adopting(x)' \/ x = at[c]
    BY <2>3 DEF Adopting
  <2>5. CASE stopped
    <3>1. closed' = [closed EXCEPT ![at[c]] = TRUE] /\ exclusive' = exclusive
      BY <1>4, <2>5 DEF Adopt
    <3>2. \A x \in Clients : closed[x] \/ x = at[c] => closed'[x]
      BY <2>2, <3>1 DEF TypeOK
    <3>3. Lanes \cup opened \subseteq Clients
      BY DEF TypeOK, Clients
    <3> QED
      BY <2>1, <2>4, <3>1, <3>2, <3>3, NoneLeaves
  <2>6. CASE ~stopped
    <3>1. closed' = closed /\ exclusive' = exclusive \cup {at[c]}
      BY <1>4, <2>6 DEF Adopt
    <3>2. closePhase = "open"
      BY <2>6 DEF ClosingInv
    <3> QED
      BY <2>1, <2>4, <3>1, <3>2 DEF ClosingInv
  <2> QED
    BY <2>5, <2>6
<1>5. CASE \/ \E x \in Lanes : FenceStep(x)
           \/ \E x \in Requests : RetireStep(x)
           \/ \E x \in Clients : TmuxRuns(x) \/ StreamLost(x)
           \/ UNCHANGED vars
  <2>1. UNCHANGED <<pc, at, opened, stopped, closePhase, collected>>
    BY <1>5 DEF FenceStep, FenceCrossed, FenceFails, FenceCloses, RetireStep, RetireCloses,
       RetireForgets, TmuxRuns, StreamLost, Retire, CloseRetired, vars, callVars, poolVars,
       exclVars, closeVars
  <2>2. \A x \in Clients : closed[x] => closed'[x]
    BY <1>5 DEF FenceStep, FenceCrossed, FenceFails, FenceCloses, RetireStep, RetireCloses,
       RetireForgets, TmuxRuns, StreamLost, CloseRetired, vars, clientVars, TypeOK
  <2>3. \A x \in opened : x \in exclusive => x \in exclusive' \/ closed'[x]
    BY <1>5 DEF FenceStep, FenceCrossed, FenceFails, FenceCloses, RetireStep, RetireCloses,
       RetireForgets, TmuxRuns, StreamLost, vars, exclVars, clientVars
  <2>4. \A x : Adopting(x) => Adopting(x)'
    BY <2>1 DEF Adopting
  <2>5. Lanes \cup opened \subseteq Clients
    BY DEF TypeOK, Clients
  <2> QED
    BY <2>1, <2>2, <2>3, <2>4, <2>5, NoneLeaves
<1>6. ASSUME NEW x \in Clients, TmuxReplies(x)
      PROVE  ClosingInv'
  <2>1. UNCHANGED <<at, opened, exclusive, closed, stopped, closePhase, collected>>
    BY <1>6 DEF TmuxReplies, ClientReturns, callVars, poolVars, exclVars, closeVars
  <2>2. \A d \in Callers : pc[d] = "adopt" => pc'[d] = "adopt"
    BY <1>6 DEF TmuxReplies, ClientReturns, GoTo, callVars, TypeOK
  <2>3. \A y : Adopting(y) => Adopting(y)'
    BY <2>1, <2>2 DEF Adopting
  <2> QED
    BY <2>1, <2>3, NoneLeaves
<1>7. CASE Stop
  <2>1. UNCHANGED <<pc, at, opened, exclusive, closed>> /\ stopped' = TRUE /\ closePhase' = "stopped"
    BY <1>7 DEF Stop, callVars, exclVars, clientVars
  <2> QED
    BY <2>1 DEF ClosingInv, Adopting
<1>8. CASE Collect
  <2>1. /\ UNCHANGED <<pc, at, opened, exclusive, closed, stopped>>
        /\ collected' = Lanes \cup exclusive /\ closePhase = "stopped" /\ closePhase' = "collected"
    BY <1>8 DEF Collect, callVars, poolVars, exclVars, clientVars
  <2> QED
    BY <2>1 DEF ClosingInv, Adopting
<1>9. CASE CloseCollected
  <2>1. /\ UNCHANGED <<pc, at, opened, exclusive, stopped>>
        /\ closePhase = "collected" /\ closePhase' = "closed"
    BY <1>9 DEF CloseCollected, callVars, poolVars, exclVars
  <2>2. \A x \in Clients : closed'[x] = (closed[x] \/ x \in collected)
    BY <1>9 DEF CloseCollected
  <2>3. Lanes \cup opened \subseteq Clients
    BY DEF TypeOK, Clients
  <2>4. \A x : Adopting(x)' = Adopting(x)
    BY <2>1 DEF Adopting
  <2> QED
    BY <2>1, <2>2, <2>3, <2>4 DEF ClosingInv
<1> QED
  BY <1>1, <1>2, <1>3, <1>4, <1>5, <1>6, <1>7, <1>8, <1>9 DEF Next, CallerStep, CloseStep

\* Once Close has signaled what it collected, every lane and every client ever
\* opened is closing, or its opener is in adopt and finds the pool stopped:
\* closing and adopt share one lock, so no client slips between them.
THEOREM NothingForgotten == Spec => []NoClientForgotten
<1>1. PoolInv /\ ClosingInv /\ [Next]_vars => ClosingInv'
  BY ClosingStep DEF PoolInv, Structure
<1>2. ClosingInv => NoClientForgotten
  BY DEF ClosingInv, Adopting, NoClientForgotten
<1> QED
  BY <1>1, <1>2, InitClosing, PoolInvariant, PTL DEF Spec

------------------------------------------------------------------------------
(* What the callers are told is so, which makes the pool an implementation *)
(* of RequestOutcome.                                                      *)

Before == {"check", "acquire", "taken", "call", "checkExclusive", "open", "adopt"}
After  == {"release", "closing", "retire"}

\* The request of a caller that is under way is its own, and unanswered.
Asking ==
    /\ \A c \in Callers : pc[c] # "idle" => req[c] \in 1..made /\ answer[req[c]] = "none"
    /\ \A c, d \in Callers : pc[c] # "idle" /\ pc[d] # "idle" /\ req[c] = req[d] => c = d
    /\ \A r \in Requests : r > made => answer[r] = "none" /\ ~sent[r]

\* Only what was sent runs, or is still to run, and on a client that has no
\* reply outstanding but the one its caller waits for.
Sending ==
    /\ \A r \in Requests : ran[r] => sent[r]
    /\ \A x \in Clients : wire[x] # 0 => sent[wire[x]]
    /\ \A c \in Callers : pc[c] \in Before => ~sent[req[c]]
    /\ \A c \in Callers : at[c] \in Requests => pc[c] # "idle" /\ at[c] = req[c]
    /\ \A c \in Callers : pc[c] = "wait" /\ wire[at[c]] # 0 => wire[at[c]] = req[c]

\* What a client, or the pool, says of a request is so.
TrueOf(r, outcome) ==
    /\ outcome = "ok" => ran[r]
    /\ outcome \in NotRun => ~sent[r]

Answering ==
    /\ \A c \in Callers : pc[c] \in After => got[c] # "none" /\ TrueOf(req[c], got[c])
    /\ \A r \in Requests : TrueOf(r, answer[r])
    /\ failure \in NotRun \cup {"none", "unknown"}

OutcomeInv == Asking /\ Sending /\ Answering

LEMMA InitOutcome == Init => OutcomeInv
<1> SUFFICES ASSUME Init PROVE OutcomeInv
  OBVIOUS
<1> USE PoolAssumption DEF Init
<1>1. Asking
  BY DEF Asking
<1>2. Sending
  BY DEF Sending, Before, Clients
<1>3. Answering
  BY DEF Answering, After, TrueOf, NotRun
<1> QED
  BY <1>1, <1>2, <1>3 DEF OutcomeInv

\* A caller learns the truth, of a request that is then no longer its own.
LEMMA TellKeeps ==
    ASSUME TypeOK, Sites, OutcomeInv, NEW c \in Callers, pc[c] # "idle",
           NEW o \in Outcomes, Tell(c, o), TrueOf(req[c], o),
           UNCHANGED <<req, got, made, wire, sent, ran, failure>>
    PROVE  OutcomeInv'
<1> USE DEF OutcomeInv
<1>1. /\ pc' = [pc EXCEPT ![c] = "idle"] /\ at' = [at EXCEPT ![c] = NoClient]
      /\ answer' = [answer EXCEPT ![req[c]] = o] /\ req[c] \in Requests
  BY DEF Tell, GoTo, Sites
<1>2. \A d \in Callers : pc'[d] # "idle" => d # c /\ pc'[d] = pc[d] /\ at'[d] = at[d]
                                           /\ req[d] # req[c]
  BY <1>1 DEF TypeOK, Asking
<1>3. \A r \in Requests : r # req[c] => answer'[r] = answer[r]
  BY <1>1 DEF TypeOK
<1>4. Asking'
  <2>1. req[c] \in 1..made /\ made \in Int
    BY DEF Asking, TypeOK
  <2>2. \A d \in Callers : pc[d] # "idle" => req[d] \in Requests
    BY DEF Sites
  <2> QED
    BY <1>1, <1>2, <1>3, <2>1, <2>2 DEF Asking, Requests
<1>5. Sending'
  <2>1. \A d \in Callers : at'[d] \in Requests => d # c /\ at'[d] = at[d]
    BY <1>1, PoolAssumption DEF TypeOK, Clients
  <2>2. \A d \in Callers : d # c => pc'[d] = pc[d]
    BY <1>1 DEF TypeOK
  <2>3. pc'[c] = "idle"
    BY <1>1 DEF TypeOK
  <2> QED
    BY <1>2, <2>1, <2>2, <2>3 DEF Sending, Before
<1>6. Answering'
  <2>1. answer'[req[c]] = o
    BY <1>1 DEF TypeOK
  <2>2. \A r \in Requests : TrueOf(r, answer'[r])
    BY <1>3, <2>1 DEF Answering
  <2>3. \A r \in Requests : TrueOf(r, answer[r])'
    BY <2>2 DEF TrueOf
  <2>4. \A d \in Callers : pc'[d] \in After => d # c /\ pc'[d] = pc[d]
    BY <1>2 DEF After
  <2>5. \A d \in Callers : pc'[d] \in After => got'[d] # "none" /\ TrueOf(req[d], got[d])'
    BY <2>4 DEF Answering, TrueOf
  <2> QED
    BY <2>3, <2>5 DEF Answering
<1> QED
  BY <1>4, <1>5, <1>6

\* A caller goes on without a word to tmux or to anybody.
LEMMA GoKeeps ==
    ASSUME TypeOK, OutcomeInv, NEW c \in Callers, pc[c] # "idle",
           NEW p \in Places, GoTo(c, p), p \notin {"idle", "wait"},
           p \in Before => pc[c] \in Before, p \in After => pc[c] \in After,
           UNCHANGED <<req, got, made, answer, wire, sent, ran>>,
           at' = at, failure' \in NotRun \cup {"none", "unknown"}
    PROVE  OutcomeInv'
<1> USE DEF OutcomeInv
<1>1. \A d \in Callers : IF d = c THEN pc'[d] = p ELSE pc'[d] = pc[d]
  BY DEF GoTo, TypeOK
<1>2. \A d \in Callers : pc'[d] # "idle" => pc[d] # "idle"
  BY <1>1
<1>3. Asking'
  BY <1>2 DEF Asking
<1>4. Sending'
  <2>1. \A d \in Callers : /\ pc'[d] \in Before => pc[d] \in Before
                           /\ pc'[d] = "wait" => pc[d] = "wait"
    BY <1>1
  <2>2. \A d \in Callers : at[d] \in Requests => pc'[d] # "idle"
    BY <1>1 DEF Sending
  <2> QED
    BY <2>1, <2>2 DEF Sending
<1>5. Answering'
  <2>1. \A d \in Callers : pc'[d] \in After => pc[d] \in After
    BY <1>1
  <2> QED
    BY <2>1 DEF Answering, TrueOf
<1> QED
  BY <1>3, <1>4, <1>5

\* The client answers its caller; a reply boundary may free its wire.
LEMMA ReturnKeeps ==
    ASSUME TypeOK, Sites, OutcomeInv, NEW c \in Callers, pc[c] \in {"call", "wait"},
           NEW o \in Outcomes, o # "none", TrueOf(req[c], o), ClientReturns(c, o),
           \A x \in Clients : wire'[x] \in {wire[x], 0},
           UNCHANGED <<sent, ran, failure>>
    PROVE  OutcomeInv'
<1> USE DEF OutcomeInv
<1>1. /\ \A d \in Callers : IF d = c THEN pc'[d] = "release" ELSE pc'[d] = pc[d]
      /\ \A d \in Callers : IF d = c THEN got'[d] = o ELSE got'[d] = got[d]
      /\ UNCHANGED <<req, at, made, ctxDone, answer>>
  BY DEF ClientReturns, GoTo, TypeOK
<1>2. \A d \in Callers : pc'[d] # "idle" => pc[d] # "idle"
  BY <1>1
<1>3. Asking'
  BY <1>1, <1>2 DEF Asking
<1>4. Sending'
  <2>1. \A x \in Clients : wire'[x] # 0 => sent'[wire'[x]]
    BY DEF Sending
  <2>2. \A d \in Callers : at'[d] \in Requests => pc'[d] # "idle" /\ at'[d] = req'[d]
    BY <1>1 DEF Sending
  <2>3. \A d \in Callers : pc'[d] = "wait" /\ wire'[at'[d]] # 0 => wire'[at'[d]] = req'[d]
    <3>1. \A d \in Callers : pc'[d] = "wait" => pc[d] = "wait" /\ at[d] \in Clients
      BY <1>1 DEF Sites
    <3> QED
      BY <1>1, <3>1 DEF Sending
  <2>4. \A d \in Callers : pc'[d] \in Before => pc[d] \in Before
    BY <1>1 DEF Before
  <2>5. \A d \in Callers : pc'[d] \in Before => ~sent'[req'[d]]
    BY <1>1, <2>4 DEF Sending
  <2> QED
    BY <2>1, <2>2, <2>3, <2>5 DEF Sending
<1>5. Answering'
  <2>1. \A d \in Callers : pc'[d] \in After /\ d # c => pc[d] \in After
    BY <1>1
  <2>2. \A d \in Callers : pc'[d] \in After => got'[d] # "none" /\ TrueOf(req[d], got'[d])
    BY <1>1, <2>1 DEF Answering
  <2>3. \A d \in Callers : pc'[d] \in After => got'[d] # "none" /\ TrueOf(req[d], got[d])'
    BY <1>1, <2>2 DEF TrueOf
  <2>4. \A r \in Requests : TrueOf(r, answer[r])'
    BY <1>1 DEF Answering, TrueOf
  <2> QED
    BY <2>3, <2>4 DEF Answering
<1> QED
  BY <1>3, <1>4, <1>5

\* The command of one caller begins to be written: to the others nothing changes.
LEMMA WriteKeeps ==
    ASSUME TypeOK, Sites, OutcomeInv, NEW c \in Callers, pc[c] = "call",
           sent' = [sent EXCEPT ![req[c]] = TRUE], pc'[c] \notin Before \cup {"idle"},
           \A d \in Callers \ {c} : pc'[d] = pc[d] /\ got'[d] = got[d],
           UNCHANGED <<req, at, made, answer, ran, failure>>
    PROVE  /\ Asking'
           /\ \A r \in Requests : ran'[r] => sent'[r]
           /\ \A r \in Requests : sent[r] => sent'[r]
           /\ sent'[req[c]]
           /\ \A d \in Callers : pc'[d] \in Before => ~sent'[req'[d]]
           /\ \A d \in Callers : at'[d] \in Requests => pc'[d] # "idle" /\ at'[d] = req'[d]
           /\ \A d \in Callers \ {c} : pc'[d] \in After =>
                got'[d] # "none" /\ TrueOf(req[d], got[d])'
           /\ \A r \in Requests : TrueOf(r, answer[r])'
<1> USE DEF OutcomeInv
<1>1. /\ req[c] \in Requests /\ req[c] \in 1..made /\ answer[req[c]] = "none"
      /\ \A d \in Callers : pc[d] # "idle" => req[d] \in Requests
      /\ made \in Int
  BY DEF Sites, Asking, TypeOK
<1>2. \A d \in Callers \ {c} : pc[d] # "idle" => req[d] # req[c]
  BY DEF Asking
<1>3. \A r \in Requests : IF r = req[c] THEN sent'[r] ELSE sent'[r] = sent[r]
  BY DEF TypeOK
<1>4. \A d \in Callers : pc'[d] # "idle" => pc[d] # "idle"
  OBVIOUS
<1>5. Asking'
  BY <1>1, <1>3, <1>4 DEF Asking, Requests
<1>6. \A r \in Requests : ran'[r] => sent'[r]
  BY <1>3 DEF Sending
<1>7. \A d \in Callers : pc'[d] \in Before => ~sent'[req'[d]]
  BY <1>1, <1>2, <1>3 DEF Sending, Before
<1>8. \A d \in Callers : at'[d] \in Requests => pc'[d] # "idle" /\ at'[d] = req'[d]
  BY DEF Sending
<1>9. ASSUME NEW d \in Callers \ {c}, pc'[d] \in After
      PROVE  got'[d] # "none" /\ TrueOf(req[d], got[d])'
  <2>1. pc[d] \in After /\ pc[d] # "idle"
    BY <1>9 DEF After
  <2>2. sent'[req[d]] = sent[req[d]]
    BY <1>1, <1>2, <1>3, <2>1
  <2>3. got[d] # "none" /\ TrueOf(req[d], got[d])
    BY <2>1 DEF Answering
  <2> QED
    BY <2>2, <2>3 DEF TrueOf
<1>10. ASSUME NEW r \in Requests
       PROVE  TrueOf(r, answer[r])'
  <2>1. CASE r = req[c]
    BY <1>1, <2>1 DEF TrueOf, NotRun
  <2>2. CASE r # req[c]
    BY <1>3, <2>2 DEF Answering, TrueOf
  <2> QED
    BY <2>1, <2>2
<1> QED
  BY <1>1, <1>3, <1>5, <1>6, <1>7, <1>8, <1>9, <1>10

LEMMA SendKeeps ==
    ASSUME Structure, OutcomeInv, NEW c \in Callers, Send(c) \/ SendFails(c)
    PROVE  OutcomeInv'
<1> USE DEF Structure, OutcomeInv
<1>1. /\ pc[c] = "call" /\ sent' = [sent EXCEPT ![req[c]] = TRUE]
      /\ UNCHANGED <<req, at, made, answer, ran, failure>>
  BY DEF Send, SendFails, ClientReturns, poolVars
<1>2. \A d \in Callers \ {c} : pc'[d] = pc[d] /\ got'[d] = got[d]
  BY DEF Send, SendFails, ClientReturns, GoTo, TypeOK
<1>3. pc'[c] \notin Before \cup {"idle"}
  BY DEF Send, SendFails, ClientReturns, GoTo, TypeOK, Before
<1>4. /\ Asking'
      /\ \A r \in Requests : ran'[r] => sent'[r]
      /\ \A r \in Requests : sent[r] => sent'[r]
      /\ sent'[req[c]]
      /\ \A d \in Callers : pc'[d] \in Before => ~sent'[req'[d]]
      /\ \A d \in Callers : at'[d] \in Requests => pc'[d] # "idle" /\ at'[d] = req'[d]
      /\ \A d \in Callers \ {c} : pc'[d] \in After => got'[d] # "none" /\ TrueOf(req[d], got[d])'
      /\ \A r \in Requests : TrueOf(r, answer[r])'
  BY <1>1, <1>2, <1>3, WriteKeeps
<1>5. /\ at[c] \in Clients /\ req[c] \in Requests
      /\ \A d \in Callers : pc[d] = "wait" => at[d] \in Clients
  BY <1>1 DEF Sites
<1>6. \A x \in Clients : wire[x] # 0 => wire[x] \in Requests
  BY DEF TypeOK, Requests
<1>7. CASE Send(c)
  <2>1. /\ \A x \in Clients : IF x = at[c] THEN wire'[x] = req[c] ELSE wire'[x] = wire[x]
        /\ pc'[c] = "wait"
    BY <1>7 DEF Send, GoTo, TypeOK
  <2>2. \A x \in Clients : wire'[x] # 0 => sent'[wire'[x]]
    BY <1>4, <1>6, <2>1 DEF Sending
  <2>3. ASSUME NEW d \in Callers, d # c, pc[d] = "wait"
        PROVE  at[d] # at[c]
    <3>1. CASE at[c] \in Lanes
      BY <1>1, <2>3, <3>1 DEF OnePlace, Holds
    <3>2. CASE at[c] \in Requests
      BY <1>1, <2>3, <3>2 DEF Sending, Asking
    <3> QED
      BY <1>5, <3>1, <3>2 DEF Clients
  <2>4. ASSUME NEW d \in Callers, pc'[d] = "wait", wire'[at[d]] # 0
        PROVE  wire'[at[d]] = req[d]
    <3>1. CASE d = c
      BY <1>5, <2>1, <3>1
    <3>2. CASE d # c
      <4>1. pc[d] = "wait" /\ at[d] \in Clients /\ at[d] # at[c]
        BY <1>2, <1>5, <2>3, <2>4, <3>2
      <4> QED
        BY <2>1, <2>4, <4>1 DEF Sending
    <3> QED
      BY <3>1, <3>2
  <2>5. Sending'
    BY <1>1, <1>4, <2>2, <2>4 DEF Sending
  <2>6. Answering'
    BY <1>1, <1>4, <2>1 DEF Answering, After
  <2> QED
    BY <1>4, <2>5, <2>6
<1>8. CASE SendFails(c)
  <2>1. pc'[c] = "release" /\ got'[c] = "unknown" /\ wire' = wire
    BY <1>8 DEF SendFails, ClientReturns, GoTo, TypeOK, clientVars
  <2>2. \A x \in Clients : wire'[x] # 0 => sent'[wire'[x]]
    BY <1>4, <1>6, <2>1 DEF Sending
  <2>3. \A d \in Callers : pc'[d] = "wait" => pc[d] = "wait"
    BY <1>2, <2>1
  <2>4. Sending'
    BY <1>1, <1>4, <2>1, <2>2, <2>3 DEF Sending
  <2>5. TrueOf(req[c], got[c])'
    BY <2>1 DEF TrueOf, NotRun
  <2>6. Answering'
    BY <1>1, <1>4, <2>1, <2>5 DEF Answering
  <2> QED
    BY <1>4, <2>4, <2>6
<1> QED
  BY <1>7, <1>8

\* What a caller is told on its way to a client, or of a client that is done.
Tells(c) ==
    \E o \in Outcomes \ {"none"} :
        /\ Tell(c, o) /\ TrueOf(req[c], o)
        /\ UNCHANGED <<req, got, made, wire, sent, ran, failure>>

\* What it may do instead without a word to tmux or to anybody.
GoesOn(c) ==
    \E p \in Places \ {"idle", "wait"} :
        /\ GoTo(c, p)
        /\ (p \in Before => pc[c] \in Before) /\ (p \in After => pc[c] \in After)
        /\ UNCHANGED <<req, at, got, made, answer, wire, sent, ran>>
        /\ failure' \in NotRun \cup {"none", "unknown"}

LEMMA ApproachTells ==
    ASSUME TypeOK, OutcomeInv, NEW c \in Callers,
           AcquireCheck(c) \/ AcquireGivesUp(c) \/ Recheck(c) \/ ExclusiveCheck(c)
             \/ OpenFails(c) \/ Adopt(c)
    PROVE  pc[c] # "idle" /\ (Tells(c) \/ GoesOn(c))
<1>1. /\ pc[c] \in Before /\ pc[c] # "idle"
      /\ UNCHANGED <<req, got, made, wire, sent, ran, failure>>
  BY DEF AcquireCheck, AcquireGivesUp, Recheck, ExclusiveCheck, OpenFails, Adopt, Before, poolVars,
     clientVars, history
<1>2. \/ \E o \in {"ctx", "closed", "open", DrainError} : Tell(c, o)
      \/ \E p \in {"acquire", "call", "open"} : GoTo(c, p) /\ UNCHANGED <<at, answer>>
  BY DEF AcquireCheck, AcquireGivesUp, Recheck, ExclusiveCheck, OpenFails, Adopt
<1>3. CASE \E o \in {"ctx", "closed", "open", DrainError} : Tell(c, o)
  <2>1. PICK o \in {"ctx", "closed", "open", DrainError} : Tell(c, o)
    BY <1>3
  <2>2. o \in NotRun \cup {"unknown"}
    BY DEF OutcomeInv, Answering, DrainError, NotRun
  <2>3. o \in Outcomes \ {"none"} /\ o # "ok"
    BY <2>2 DEF Outcomes, NotRun
  <2>4. ~sent[req[c]]
    BY <1>1 DEF OutcomeInv, Sending
  <2> QED
    BY <1>1, <2>1, <2>3, <2>4 DEF Tells, TrueOf
<1>4. CASE \E p \in {"acquire", "call", "open"} : GoTo(c, p) /\ UNCHANGED <<at, answer>>
  <2>1. failure' \in NotRun \cup {"none", "unknown"}
    BY <1>1 DEF OutcomeInv, Answering
  <2>2. PICK p \in {"acquire", "call", "open"} : GoTo(c, p) /\ UNCHANGED <<at, answer>>
    BY <1>4
  <2>3. p \in Places \ {"idle", "wait"} /\ p \notin After
    BY DEF Places, After
  <2> QED
    BY <1>1, <2>1, <2>2, <2>3 DEF GoesOn
<1> QED
  BY <1>1, <1>2, <1>3, <1>4

LEMMA ReleaseTells ==
    ASSUME TypeOK, Sites, OutcomeInv, NEW c \in Callers,
           ReleaseToFree(c) \/ ReleaseToFence(c) \/ ReleaseRetires(c) \/ ReleaseCloses(c)
             \/ ReleaseExclusive(c) \/ RetireReturns(c)
    PROVE  pc[c] # "idle" /\ (Tells(c) \/ GoesOn(c))
<1>1. /\ pc[c] \in After /\ pc[c] # "idle"
      /\ UNCHANGED <<req, got, made, wire, sent, ran>>
  BY DEF ReleaseToFree, ReleaseToFence, ReleaseRetires, ReleaseCloses, ReleaseExclusive,
     RetireReturns, CloseRetired, After, clientVars, history
<1>2. got[c] \in Outcomes \ {"none"} /\ TrueOf(req[c], got[c])
  BY <1>1 DEF OutcomeInv, Answering, TypeOK
<1>3. CASE ReleaseRetires(c)
  <2>1. GoTo(c, "closing") /\ UNCHANGED <<at, answer>>
    BY <1>3 DEF ReleaseRetires
  <2>2. failure' \in {failure, got[c]} /\ got[c] \notin {"ok", "ctx", "abandoned"}
    BY <1>3 DEF ReleaseRetires, Retire, Survives
  <2>3. failure' \in NotRun \cup {"none", "unknown"}
    BY <1>2, <2>2 DEF Outcomes, OutcomeInv, Answering
  <2> QED
    BY <1>1, <2>1, <2>3 DEF GoesOn, Places, Before
<1>4. CASE ~ReleaseRetires(c)
  <2>1. failure' = failure
    BY <1>4 DEF ReleaseToFree, ReleaseToFence, ReleaseCloses, ReleaseExclusive, RetireReturns,
       CloseRetired, poolVars
  <2>2. Tell(c, got[c]) \/ (GoTo(c, "retire") /\ UNCHANGED <<at, answer>>)
    BY <1>4 DEF ReleaseToFree, ReleaseToFence, ReleaseCloses, ReleaseExclusive, RetireReturns
  <2>3. CASE Tell(c, got[c])
    BY <1>1, <1>2, <2>1, <2>3 DEF Tells
  <2>4. CASE GoTo(c, "retire") /\ UNCHANGED <<at, answer>>
    BY <1>1, <2>1, <2>4 DEF GoesOn, Places, Before, OutcomeInv, Answering
  <2> QED
    BY <2>2, <2>3, <2>4
<1> QED
  BY <1>1, <1>3, <1>4

LEMMA CallerOutcome ==
    ASSUME Structure, OutcomeInv, NEW c \in Callers,
           Call(c) \/ CancelContext(c) \/ CallerStep(c)
    PROVE  OutcomeInv'
<1> USE DEF Structure
<1>1. CASE Call(c)
  <2>0. made' = made + 1 /\ made' \in Requests /\ made \in Int
    BY <1>1, PoolAssumption DEF Call, TypeOK, Requests
  <2>1. /\ pc[c] = "idle" /\ made' = made + 1 /\ made' \in Requests /\ made \in Int
        /\ \A d \in Callers : IF d = c THEN req'[d] = made' ELSE req'[d] = req[d]
        /\ \A d \in Callers : IF d = c THEN pc'[d] \in {"check", "checkExclusive"}
                                       ELSE pc'[d] = pc[d]
        /\ UNCHANGED <<at, got, answer, wire, sent, ran, failure>>
    BY <1>1, <2>0 DEF Call, GoTo, TypeOK, poolVars, clientVars, history
  <2>2. answer[made'] = "none" /\ ~sent[made']
    BY <2>1 DEF OutcomeInv, Asking
  <2>3. \A d \in Callers : pc[d] # "idle" => req[d] \in 1..made
    BY DEF OutcomeInv, Asking
  <2>4. Asking'
    <3>1. \A d \in Callers : pc'[d] # "idle" => req'[d] \in 1..made' /\ answer'[req'[d]] = "none"
      BY <2>1, <2>2, <2>3 DEF OutcomeInv, Asking, Requests
    <3>2. \A d, e \in Callers : pc'[d] # "idle" /\ pc'[e] # "idle" /\ req'[d] = req'[e] => d = e
      BY <2>1, <2>3 DEF OutcomeInv, Asking
    <3>3. \A r \in Requests : r > made' => answer'[r] = "none" /\ ~sent'[r]
      BY <2>1 DEF OutcomeInv, Asking, Requests
    <3> QED
      BY <3>1, <3>2, <3>3 DEF Asking
  <2>5. Sending'
    <3>1. at[c] \notin Requests
      BY <2>1 DEF OutcomeInv, Sending
    <3> QED
      BY <2>1, <2>2, <3>1 DEF OutcomeInv, Sending, Before
  <2>6. Answering'
    BY <2>1 DEF OutcomeInv, Answering, After, TrueOf
  <2> QED
    BY <2>4, <2>5, <2>6 DEF OutcomeInv
<1>2. CASE CancelContext(c)
  BY <1>2 DEF CancelContext, OutcomeInv, Asking, Sending, Answering, TrueOf, poolVars, clientVars, history
<1>3. CASE AcquireLane(c) \/ OpenClient(c)
  <2>1. /\ pc[c] \in {"acquire", "open"}
        /\ \A d \in Callers : IF d = c THEN pc'[d] \in {"taken", "adopt"} ELSE pc'[d] = pc[d]
        /\ UNCHANGED <<req, got, made, answer, wire, sent, ran, failure>>
    BY <1>3 DEF AcquireLane, OpenClient, GoTo, TypeOK, poolVars, clientVars, history
  <2>2. \A d \in Callers : IF d = c THEN at'[d] \in Lanes \cup {req[d]} ELSE at'[d] = at[d]
    BY <1>3 DEF AcquireLane, OpenClient, TypeOK
  <2>3. Asking'
    BY <2>1 DEF OutcomeInv, Asking
  <2>4. Sending'
    BY <2>1, <2>2, PoolAssumption DEF OutcomeInv, Sending, Before
  <2>5. Answering'
    BY <2>1 DEF OutcomeInv, Answering, After, TrueOf
  <2> QED
    BY <2>3, <2>4, <2>5 DEF OutcomeInv
<1>4. CASE NotSent(c) \/ WaitEnds(c)
  <2>1. /\ pc[c] \in {"call", "wait"} /\ UNCHANGED <<wire, sent, ran, failure>>
        /\ \E o \in {"ctx", "closed", "lost", "abandoned", "unknown"} :
             ClientReturns(c, o) /\ (o \in NotRun => pc[c] = "call")
    BY <1>4 DEF NotSent, WaitEnds, NotRun, poolVars, clientVars, history
  <2>2. PICK o \in {"ctx", "closed", "lost", "abandoned", "unknown"} :
             ClientReturns(c, o) /\ (o \in NotRun => pc[c] = "call")
    BY <2>1
  <2>3. o \in Outcomes /\ o # "none" /\ TrueOf(req[c], o)
    BY <2>1, <2>2 DEF TrueOf, OutcomeInv, Sending, Before, Outcomes, NotRun
  <2>4. \A x \in Clients : wire'[x] \in {wire[x], 0}
    BY <2>1
  <2> QED
    BY <2>1, <2>2, <2>3, <2>4, ReturnKeeps
<1>5. ASSUME pc[c] # "idle", Tells(c) \/ GoesOn(c)
      PROVE  OutcomeInv'
  BY <1>5, TellKeeps, GoKeeps DEF Tells, GoesOn
<1> QED
  BY <1>1, <1>2, <1>3, <1>4, <1>5, ApproachTells, ReleaseTells, SendKeeps DEF CallerStep

LEMMA BackgroundOutcome ==
    ASSUME Structure, OutcomeInv,
           \/ \E x \in Lanes : FenceStep(x)
           \/ \E x \in Requests : RetireStep(x)
           \/ \E x \in Clients : TmuxRuns(x) \/ TmuxReplies(x) \/ StreamLost(x)
           \/ Stop \/ CloseStep
           \/ UNCHANGED vars
    PROVE  OutcomeInv'
<1> USE DEF Structure
<1>1. CASE \/ \E x \in Lanes : FenceStep(x)
           \/ \E x \in Requests : RetireStep(x)
           \/ \E x \in Clients : StreamLost(x)
           \/ Stop \/ CloseStep
           \/ UNCHANGED vars
  <2>1. UNCHANGED <<pc, req, at, got, made, answer, wire, sent, ran>>
    BY <1>1 DEF FenceStep, FenceCrossed, FenceFails, FenceCloses, RetireStep, RetireCloses,
       RetireForgets, StreamLost, Stop, CloseStep, Collect, CloseCollected, CloseRetired, vars,
       callVars, clientVars, history
  <2>2. failure' \in {failure, "closed", "lost", "unknown"}
    BY <1>1 DEF FenceStep, FenceCrossed, FenceFails, FenceCloses, RetireStep, RetireCloses,
       RetireForgets, StreamLost, Stop, CloseStep, Collect, CloseCollected, CloseRetired, Retire,
       vars, poolVars
  <2> QED
    BY <2>1, <2>2 DEF OutcomeInv, Asking, Sending, Answering, TrueOf, NotRun
<1>2. ASSUME NEW x \in Clients, TmuxRuns(x)
      PROVE  OutcomeInv'
  <2>1. /\ wire[x] # 0 /\ ran' = [ran EXCEPT ![wire[x]] = TRUE]
        /\ UNCHANGED <<pc, req, at, got, made, answer, failure, wire, sent>>
    BY <1>2 DEF TmuxRuns, callVars, poolVars, clientVars
  <2>2. \A r \in Requests : ran'[r] = (ran[r] \/ r = wire[x])
    BY <2>1 DEF TypeOK
  <2>3. Asking'
    BY <2>1 DEF OutcomeInv, Asking
  <2>4. Sending'
    BY <2>1, <2>2 DEF OutcomeInv, Sending
  <2>5. \A c \in Callers : pc[c] \in After => req[c] \in Requests
    BY DEF Sites, After
  <2>6. Answering'
    BY <2>1, <2>2, <2>5 DEF OutcomeInv, Answering, TrueOf
  <2> QED
    BY <2>3, <2>4, <2>6 DEF OutcomeInv
<1>3. ASSUME NEW x \in Clients, TmuxReplies(x)
      PROVE  OutcomeInv'
  <2>1. /\ wire[x] # 0 /\ ran[wire[x]] /\ wire' = [wire EXCEPT ![x] = 0]
        /\ UNCHANGED <<failure, sent, ran>>
    BY <1>3 DEF TmuxReplies, poolVars, history
  <2>2. \A y \in Clients : wire'[y] \in {wire[y], 0}
    BY <2>1 DEF TypeOK
  <2>3. CASE UNCHANGED callVars
    <3>1. UNCHANGED <<pc, req, at, got, made, answer>>
      BY <2>3 DEF callVars
    <3>2. \A c \in Callers : pc[c] = "wait" => at[c] \in Clients
      BY DEF Sites
    <3>3. Asking'
      BY <2>1, <3>1 DEF OutcomeInv, Asking
    <3>4. Sending'
      BY <2>1, <2>2, <3>1, <3>2 DEF OutcomeInv, Sending
    <3>5. Answering'
      BY <2>1, <3>1 DEF OutcomeInv, Answering, TrueOf
    <3> QED
      BY <3>3, <3>4, <3>5 DEF OutcomeInv
  <2>4. ASSUME NEW c \in Callers, pc[c] = "wait", at[c] = x, ClientReturns(c, "ok")
        PROVE  OutcomeInv'
    <3>1. wire[x] = req[c]
      BY <2>1, <2>4 DEF OutcomeInv, Sending
    <3>2. "ok" \in Outcomes /\ TrueOf(req[c], "ok")
      BY <2>1, <3>1 DEF TrueOf, Outcomes, NotRun
    <3> QED
      BY <2>1, <2>2, <2>4, <3>2, ReturnKeeps
  <2> QED
    BY <1>3, <2>3, <2>4 DEF TmuxReplies
<1> QED
  BY <1>1, <1>2, <1>3

LEMMA OutcomeStep == Structure /\ OutcomeInv /\ [Next]_vars => OutcomeInv'
BY CallerOutcome, BackgroundOutcome DEF Next

LEMMA OutcomeInvariant == Spec => [](PoolInv /\ OutcomeInv)
<1>1. PoolInv /\ OutcomeInv /\ [Next]_vars => OutcomeInv'
  BY OutcomeStep DEF PoolInv
<1> QED
  BY <1>1, InitOutcome, PoolInvariant, PTL DEF Spec

\* How the promise words what a caller is told.
Said(word) == IF word \in NotRun THEN "notRun" ELSE IF word = "abandoned" THEN "unknown" ELSE word

LEMMA SaidWords ==
    /\ Said("none") = "none"
    /\ \A o \in Outcomes \ {"none"} : Said(o) \in {"ok", "notRun", "unknown"}
    /\ \A o : Said(o) = "ok" => o = "ok"
    /\ \A o : Said(o) = "notRun" => o \in NotRun \cup {"notRun"}
BY DEF Said, NotRun, Outcomes

\* A step that opens, runs or answers nothing.
LEMMA Unseen == UNCHANGED <<made, answer, ran>> => UNCHANGED Outcome!vars
BY DEF Outcome!vars

LEMMA CallOpens ==
    ASSUME PoolInv, OutcomeInv, NEW c \in Callers, Call(c)
    PROVE  Outcome!Next
<1> DEFINE phase == [r \in Requests |-> IF r > made THEN "none"
                                  ELSE IF answer[r] = "none" THEN "open" ELSE "answered"]
<1>1. made' = made + 1 /\ made' \in Requests /\ made \in Int
  BY PoolAssumption DEF Call, PoolInv, Structure, TypeOK, Requests
<1>9. PICK n \in Requests : n = made + 1
  BY <1>1
<1>2. UNCHANGED <<answer, ran>>
  BY DEF Call, history
<1>3. answer[n] = "none"
  BY <1>9, <1>1 DEF OutcomeInv, Asking
<1>4. \A r \in Requests : r \in Int
  BY DEF Requests
<1>5. phase[n] = "none"
  BY <1>9, <1>1
<1>6. \A r \in Requests : phase'[r] = IF r = n THEN "open" ELSE phase[r]
  BY <1>9, <1>1, <1>2, <1>3, <1>4
<1>7. phase' = [phase EXCEPT ![n] = "open"]
  BY <1>6
<1>8. Outcome!Open(n)
  BY <1>9, <1>1, <1>2, <1>5, <1>7 DEF Outcome!Open
<1> QED
  BY <1>8 DEF Outcome!Next

LEMMA TellAnswers ==
    ASSUME PoolInv, OutcomeInv, NEW c \in Callers, pc[c] # "idle", Tells(c)
    PROVE  Outcome!Next
<1> DEFINE phase == [r \in Requests |-> IF r > made THEN "none"
                                  ELSE IF answer[r] = "none" THEN "open" ELSE "answered"]
           heard == [r \in Requests |-> IF answer[r] \in NotRun THEN "notRun"
                                  ELSE IF answer[r] = "abandoned" THEN "unknown"
                                  ELSE answer[r]]
<1>1. PICK o \in Outcomes \ {"none"} :
        /\ Tell(c, o) /\ TrueOf(req[c], o)
        /\ UNCHANGED <<req, got, made, wire, sent, ran, failure>>
  BY DEF Tells
<1>2. /\ req[c] \in Requests /\ req[c] \in 1..made /\ answer[req[c]] = "none" /\ made \in Int
      /\ answer \in [Requests -> Outcomes]
  BY DEF PoolInv, Structure, Sites, OutcomeInv, Asking, TypeOK
<1>3. answer' = [answer EXCEPT ![req[c]] = o]
  BY <1>1 DEF Tell
<1>4. phase[req[c]] = "open"
  BY <1>2
<1>5. phase' = [phase EXCEPT ![req[c]] = "answered"]
  <2>1. \A r \in Requests : phase'[r] = IF r = req[c] THEN "answered" ELSE phase[r]
    BY <1>1, <1>2, <1>3
  <2> QED
    BY <2>1
<1>6. heard' = [heard EXCEPT ![req[c]] = Said(o)]
  BY <1>2, <1>3 DEF Said
<1>7. /\ Said(o) = "ok" => ran[req[c]]
      /\ Said(o) = "notRun" => ~ran[req[c]]
  <2>1. "notRun" \notin Outcomes
    BY DEF Outcomes, NotRun
  <2> QED
    BY <1>1, <1>2, <2>1, SaidWords DEF TrueOf, OutcomeInv, Sending
<1>8. Outcome!Answer(req[c], Said(o))
  BY <1>1, <1>4, <1>5, <1>6, <1>7 DEF Outcome!Answer
<1>9. Said(o) \in {"ok", "notRun", "unknown"}
  BY <1>1, SaidWords
<1> QED
  BY <1>2, <1>8, <1>9 DEF Outcome!Next

LEMMA TmuxRunsOnce ==
    ASSUME PoolInv, OutcomeInv, NEW x \in Clients, TmuxRuns(x)
    PROVE  Outcome!Next
<1> DEFINE r == wire[x]
           phase == [q \in Requests |-> IF q > made THEN "none"
                                  ELSE IF answer[q] = "none" THEN "open" ELSE "answered"]
           heard == [q \in Requests |-> IF answer[q] \in NotRun THEN "notRun"
                                  ELSE IF answer[q] = "abandoned" THEN "unknown"
                                  ELSE answer[q]]
<1>1. /\ r \in Requests /\ ~ran[r] /\ ran' = [ran EXCEPT ![r] = TRUE]
      /\ UNCHANGED <<made, answer>>
  BY DEF TmuxRuns, PoolInv, Structure, TypeOK, Requests, callVars
<1>2. sent[r] /\ r \in Int /\ made \in Int
  BY <1>1 DEF TmuxRuns, OutcomeInv, Sending, PoolInv, Structure, TypeOK, Requests
<1>3. ~(r > made)
  BY <1>1, <1>2 DEF OutcomeInv, Asking
<1>4. answer[r] \in {"none", "abandoned", "unknown"}
  BY <1>1, <1>2 DEF OutcomeInv, Answering, TrueOf, PoolInv, Structure, TypeOK, Outcomes
<1>5. phase[r] = "open" \/ heard[r] = "unknown"
  BY <1>1, <1>3, <1>4 DEF NotRun
<1>6. phase' = phase /\ heard' = heard
  BY <1>1
<1>7. Outcome!Run(r)
  BY <1>1, <1>5, <1>6 DEF Outcome!Run
<1> QED
  BY <1>1, <1>7 DEF Outcome!Next

\* Every step of the pool and its callers is one the promise allows.
LEMMA PromiseStep ==
    ASSUME PoolInv, OutcomeInv, [Next]_vars
    PROVE  [Outcome!Next]_(Outcome!vars)
<1>1. ASSUME NEW c \in Callers,
             \/ AcquireCheck(c) \/ AcquireGivesUp(c) \/ Recheck(c) \/ ExclusiveCheck(c)
             \/ OpenFails(c) \/ Adopt(c) \/ ReleaseToFree(c) \/ ReleaseToFence(c)
             \/ ReleaseRetires(c) \/ ReleaseCloses(c) \/ ReleaseExclusive(c) \/ RetireReturns(c)
      PROVE  [Outcome!Next]_(Outcome!vars)
  <2>1. pc[c] # "idle" /\ (Tells(c) \/ GoesOn(c))
    BY <1>1, ApproachTells, ReleaseTells DEF PoolInv, Structure
  <2>2. CASE GoesOn(c)
    BY <2>2, Unseen DEF GoesOn
  <2> QED
    BY <2>1, <2>2, TellAnswers
<1>2. ASSUME NEW c \in Callers,
             \/ CancelContext(c) \/ AcquireLane(c) \/ OpenClient(c)
             \/ NotSent(c) \/ Send(c) \/ SendFails(c) \/ WaitEnds(c)
      PROVE  [Outcome!Next]_(Outcome!vars)
  <2>1. UNCHANGED <<made, answer, ran>>
    BY <1>2 DEF CancelContext, AcquireLane, OpenClient, NotSent, Send, SendFails, WaitEnds,
       ClientReturns, history
  <2> QED
    BY <2>1, Unseen
<1>3. CASE \/ \E x \in Lanes : FenceStep(x)
           \/ \E x \in Requests : RetireStep(x)
           \/ \E x \in Clients : TmuxReplies(x) \/ StreamLost(x)
           \/ Stop \/ CloseStep
           \/ UNCHANGED vars
  <2>1. UNCHANGED <<made, answer, ran>>
    BY <1>3 DEF FenceStep, FenceCrossed, FenceFails, FenceCloses, RetireStep, RetireCloses,
       RetireForgets, TmuxReplies, ClientReturns, StreamLost, Stop, CloseStep, Collect,
       CloseCollected, vars, callVars, history
  <2> QED
    BY <2>1, Unseen
<1> QED
  BY <1>1, <1>2, <1>3, CallOpens, TmuxRunsOnce DEF Next, CallerStep

LEMMA InitPromise == Init => Outcome!Init
BY DEF Init, Outcome!Init, Requests, NotRun

\* Through lanes and exclusive clients, abandoned and retired lanes and Close,
\* the connection keeps the promise of every transport: a command runs at most
\* once, and an answer that is not ErrOutcomeUnknown is the truth.
THEOREM OutcomeKept == Spec => OutcomePromise
<1>1. PoolInv /\ OutcomeInv /\ [Next]_vars => [Outcome!Next]_(Outcome!vars)
  BY PromiseStep
<1> QED
  BY <1>1, InitPromise, OutcomeInvariant, PTL DEF Spec, OutcomePromise, Outcome!Spec
=============================================================================
