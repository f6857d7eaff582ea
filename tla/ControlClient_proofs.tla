------------------------ MODULE ControlClient_proofs ------------------------
(***************************************************************************)
(* The proofs about one control client: its requests and replies           *)
(* (ControlClient) and the notifications it keeps (NotificationQueue).     *)
(*                                                                         *)
(* Of the replies: whatever the callers, the cancellations, the frames and *)
(* the blocks of other clients, a request that got an answer got the       *)
(* frames tmux printed for it and no others.  The first sections state     *)
(* what the stream holds, the next the inductive invariant IInv, and then  *)
(* each of its parts is shown to survive a step of any goroutine.          *)
(***************************************************************************)
EXTENDS ControlClient, NotificationQueue, SequenceTheorems, TLAPS

------------------------------------------------------------------------------
(* The own part of a sequence of records, as OwnReplies states it of a     *)
(* capture, when the sequence grows or loses an end.                       *)

LEMMA OwnNothing == OwnPart(<<>>, <<>>)
<1> DEFINE at == [j \in DOMAIN <<>> |-> j]
<1>1. at \in [DOMAIN <<>> -> {k \in DOMAIN <<>> : <<>>[k].own}]
  OBVIOUS
<1>2. QED
  BY <1>1 DEF OwnPart

\* An own record behind the others.
LEMMA OwnAppend ==
    ASSUME NEW s \in Seq(Frame), NEW t \in Seq(Frame), OwnPart(s, t), NEW f \in Frame
    PROVE  /\ f.own => OwnPart(Append(s, f), Append(t, f))
           /\ ~f.own => OwnPart(Append(s, f), t)
<1> DEFINE own == {k \in DOMAIN s : s[k].own}
           new == {k \in DOMAIN Append(s, f) : Append(s, f)[k].own}
<1>1. PICK at \in [DOMAIN t -> own] :
         /\ \A j \in DOMAIN t : t[j] = s[at[j]]
         /\ \A j, k \in DOMAIN t : j < k => at[j] < at[k]
         /\ \A k \in own : \E j \in DOMAIN t : at[j] = k
  BY DEF OwnPart
<1>2. /\ DOMAIN s = 1..Len(s) /\ DOMAIN t = 1..Len(t) /\ Len(s) \in Nat /\ Len(t) \in Nat
      /\ DOMAIN Append(s, f) = 1..Len(s) + 1 /\ DOMAIN Append(t, f) = 1..Len(t) + 1
      /\ \A k \in 1..Len(s) : Append(s, f)[k] = s[k]
      /\ \A k \in 1..Len(t) : Append(t, f)[k] = t[k]
      /\ Append(s, f)[Len(s) + 1] = f /\ Append(t, f)[Len(t) + 1] = f
  OBVIOUS
<1>3. ASSUME f.own PROVE OwnPart(Append(s, f), Append(t, f))
  <2> DEFINE at2 == [j \in 1..Len(t) + 1 |-> IF j = Len(t) + 1 THEN Len(s) + 1 ELSE at[j]]
  <2>1. new = own \cup {Len(s) + 1}
    BY <1>2, <1>3
  <2>2. at2 \in [DOMAIN Append(t, f) -> new]
    BY <1>2, <2>1
  <2>3. \A j \in DOMAIN Append(t, f) : Append(t, f)[j] = Append(s, f)[at2[j]]
    BY <1>1, <1>2
  <2>4. \A j, k \in DOMAIN Append(t, f) : j < k => at2[j] < at2[k]
    BY <1>1, <1>2
  <2>5. \A k \in new : \E j \in DOMAIN Append(t, f) : at2[j] = k
    <3>1. at2[Len(t) + 1] = Len(s) + 1
      BY <1>2
    <3>2. \A k \in own : \E j \in 1..Len(t) : at2[j] = k
      BY <1>1, <1>2
    <3>3. \A j \in 1..Len(t) : j \in DOMAIN Append(t, f)
      BY <1>2
    <3>4. Len(t) + 1 \in DOMAIN Append(t, f)
      BY <1>2
    <3>5. QED
      BY <2>1, <3>1, <3>2, <3>3, <3>4
  <2> HIDE DEF at2
  <2>6. QED
    BY <2>2, <2>3, <2>4, <2>5 DEF OwnPart
<1>4. ASSUME ~f.own PROVE OwnPart(Append(s, f), t)
  <2>1. new = own
    BY <1>2, <1>4
  <2>2. \A j \in DOMAIN t : t[j] = Append(s, f)[at[j]]
    BY <1>1, <1>2
  <2>3. /\ at \in [DOMAIN t -> new]
        /\ \A j, k \in DOMAIN t : j < k => at[j] < at[k]
        /\ \A k \in new : \E j \in DOMAIN t : at[j] = k
    BY <1>1, <2>1
  <2>4. QED
    BY <2>2, <2>3 DEF OwnPart
<1>5. QED
  BY <1>3, <1>4

\* The first record taken off.
LEMMA OwnTail ==
    ASSUME NEW s \in Seq(Frame), NEW t \in Seq(Frame), OwnPart(s, t), s # <<>>
    PROVE  /\ Head(s).own => t # <<>> /\ Head(t) = Head(s) /\ OwnPart(Tail(s), Tail(t))
           /\ ~Head(s).own => OwnPart(Tail(s), t)
<1> DEFINE own == {k \in DOMAIN s : s[k].own}
           new == {k \in DOMAIN Tail(s) : Tail(s)[k].own}
<1>1. PICK at \in [DOMAIN t -> own] :
         /\ \A j \in DOMAIN t : t[j] = s[at[j]]
         /\ \A j, k \in DOMAIN t : j < k => at[j] < at[k]
         /\ \A k \in own : \E j \in DOMAIN t : at[j] = k
  BY DEF OwnPart
<1>2. /\ DOMAIN s = 1..Len(s) /\ DOMAIN t = 1..Len(t) /\ Len(s) \in Nat \ {0} /\ Len(t) \in Nat
      /\ DOMAIN Tail(s) = 1..Len(s) - 1
      /\ \A k \in 1..Len(s) - 1 : Tail(s)[k] = s[k + 1]
      /\ Head(s) = s[1]
  OBVIOUS
<1>3. \A k \in Nat : k \in new <=> k + 1 \in own /\ k > 0
  BY <1>2
<1>4. ASSUME Head(s).own PROVE t # <<>> /\ Head(t) = Head(s) /\ OwnPart(Tail(s), Tail(t))
  <2>1. 1 \in own
    BY <1>2, <1>4
  <2>2. PICK j \in DOMAIN t : at[j] = 1
    BY <1>1, <2>1
  <2>3. j = 1
    <3>1. SUFFICES ASSUME j > 1 PROVE FALSE
      BY <1>2
    <3>2. at[1] < at[j] /\ at[1] \in own
      BY <1>1, <1>2, <3>1
    <3>3. QED
      BY <1>2, <2>2, <3>2
  <2>4. Len(t) > 0 /\ t # <<>> /\ Head(t) = t[1] /\ at[1] = 1
    BY <1>2, <2>2, <2>3
  <2>5. Head(t) = Head(s)
    BY <1>1, <1>2, <2>4
  <2>6. /\ DOMAIN Tail(t) = 1..Len(t) - 1
        /\ \A k \in 1..Len(t) - 1 : Tail(t)[k] = t[k + 1]
    BY <2>4
  <2> DEFINE at2 == [k \in 1..Len(t) - 1 |-> at[k + 1] - 1]
  <2>7. \A k \in 1..Len(t) - 1 : at[k + 1] > 1 /\ at[k + 1] \in own /\ at2[k] = at[k + 1] - 1
    BY <1>1, <1>2, <2>4
  <2>8. at2 \in [DOMAIN Tail(t) -> new]
    BY <1>2, <1>3, <2>6, <2>7
  <2>9. \A k \in DOMAIN Tail(t) : Tail(t)[k] = Tail(s)[at2[k]]
    BY <1>1, <1>2, <2>6, <2>7
  <2>10. \A k, l \in DOMAIN Tail(t) : k < l => at2[k] < at2[l]
    <3> SUFFICES ASSUME NEW k \in 1..Len(t) - 1, NEW l \in 1..Len(t) - 1, k < l
                 PROVE  at2[k] < at2[l]
      BY <2>6
    <3>1. at[k + 1] < at[l + 1]
      <4>1. k + 1 \in DOMAIN t /\ l + 1 \in DOMAIN t /\ k + 1 < l + 1
        BY <1>2
      <4>2. QED
        BY <1>1, <4>1
    <3>2. at[k + 1] \in Nat /\ at[l + 1] \in Nat
      BY <1>2, <2>7
    <3>3. QED
      BY <2>7, <3>1, <3>2
  <2>11. \A k \in new : \E l \in DOMAIN Tail(t) : at2[l] = k
    <3> SUFFICES ASSUME NEW k \in new PROVE \E l \in DOMAIN Tail(t) : at2[l] = k
      OBVIOUS
    <3>1. k \in Nat /\ k > 0 /\ k + 1 \in own
      BY <1>2, <1>3
    <3>2. PICK m \in DOMAIN t : at[m] = k + 1
      BY <1>1, <3>1
    <3>3. m # 1 /\ m - 1 \in 1..Len(t) - 1
      BY <1>2, <2>4, <3>1, <3>2
    <3>4. at2[m - 1] = k
      BY <1>2, <2>7, <3>1, <3>2, <3>3
    <3>5. QED
      BY <2>6, <3>3, <3>4
  <2> HIDE DEF at2
  <2>12. OwnPart(Tail(s), Tail(t))
    BY <2>8, <2>9, <2>10, <2>11 DEF OwnPart
  <2>13. QED
    BY <2>4, <2>5, <2>12
<1>5. ASSUME ~Head(s).own PROVE OwnPart(Tail(s), t)
  <2> DEFINE at2 == [k \in 1..Len(t) |-> at[k] - 1]
  <2>1. 1 \notin own
    BY <1>2, <1>5
  <2>2. \A k \in 1..Len(t) : at[k] > 1 /\ at[k] \in own /\ at2[k] = at[k] - 1
    BY <1>1, <1>2, <2>1
  <2>3. at2 \in [DOMAIN t -> new]
    BY <1>2, <1>3, <2>2
  <2>4. \A k \in DOMAIN t : t[k] = Tail(s)[at2[k]]
    BY <1>1, <1>2, <2>2
  <2>5. \A k, l \in DOMAIN t : k < l => at2[k] < at2[l]
    BY <1>1, <1>2, <2>2
  <2>6. \A k \in new : \E l \in DOMAIN t : at2[l] = k
    <3> SUFFICES ASSUME NEW k \in new PROVE \E l \in DOMAIN t : at2[l] = k
      OBVIOUS
    <3>1. k \in Nat /\ k + 1 \in own
      BY <1>2, <1>3
    <3>2. PICK m \in DOMAIN t : at[m] = k + 1
      BY <1>1, <3>1
    <3>3. at2[m] = k
      BY <1>2, <2>2, <3>1, <3>2
    <3>4. QED
      BY <3>3
  <2> HIDE DEF at2
  <2>7. QED
    BY <2>3, <2>4, <2>5, <2>6 DEF OwnPart
<1>6. QED
  BY <1>4, <1>5

\* Nothing of it is this client's own.
LEMMA OwnNone ==
    ASSUME NEW s \in Seq(Frame), OwnPart(s, <<>>)
    PROVE  \A k \in 1..Len(s) : ~s[k].own
BY DEF OwnPart
\* Own records behind the others.
LEMMA OwnConcat ==
    ASSUME NEW s \in Seq(Frame), NEW t \in Seq(Frame), OwnPart(s, t),
           NEW u \in Seq(Frame), \A k \in 1..Len(u) : u[k].own
    PROVE  OwnPart(s \o u, t \o u)
<1> DEFINE own == {k \in DOMAIN s : s[k].own}
           new == {k \in DOMAIN (s \o u) : (s \o u)[k].own}
           at2(at) == [j \in 1..Len(t) + Len(u) |-> IF j > Len(t) THEN j - Len(t) + Len(s) ELSE at[j]]
<1>1. PICK at \in [DOMAIN t -> own] :
         /\ \A j \in DOMAIN t : t[j] = s[at[j]]
         /\ \A j, k \in DOMAIN t : j < k => at[j] < at[k]
         /\ \A k \in own : \E j \in DOMAIN t : at[j] = k
  BY DEF OwnPart
<1>2. /\ DOMAIN s = 1..Len(s) /\ DOMAIN t = 1..Len(t)
      /\ Len(s) \in Nat /\ Len(t) \in Nat /\ Len(u) \in Nat
  OBVIOUS
<1>3. /\ DOMAIN (s \o u) = 1..Len(s) + Len(u)
      /\ \A k \in 1..Len(s) : (s \o u)[k] = s[k]
      /\ \A k \in 1..Len(u) : (s \o u)[Len(s) + k] = u[k]
  BY ConcatProperties
<1>4. /\ DOMAIN (t \o u) = 1..Len(t) + Len(u)
      /\ \A k \in 1..Len(t) : (t \o u)[k] = t[k]
      /\ \A k \in 1..Len(u) : (t \o u)[Len(t) + k] = u[k]
  BY ConcatProperties
<1>5. /\ \A j \in 1..Len(t) + Len(u) : j \in 1..Len(t) \/ \E m \in 1..Len(u) : j = Len(t) + m
      /\ \A k \in 1..Len(s) + Len(u) : k \in 1..Len(s) \/ \E m \in 1..Len(u) : k = Len(s) + m
  <2>1. ASSUME NEW n \in Nat, NEW j \in 1..n + Len(u), j \notin 1..n PROVE \E m \in 1..Len(u) : j = n + m
    <3>1. j - n \in 1..Len(u) /\ j = n + (j - n)
      BY <1>2, <2>1
    <3>2. QED
      BY <3>1
  <2>2. QED
    BY <1>2, <2>1
<1>6. \A j \in 1..Len(t) : at[j] \in own /\ at[j] \in 1..Len(s)
  BY <1>2
<1>7. /\ \A j \in 1..Len(t) : at2(at)[j] = at[j]
      /\ \A m \in 1..Len(u) : at2(at)[Len(t) + m] = Len(s) + m
  <2>1. ASSUME NEW j \in 1..Len(t) PROVE at2(at)[j] = at[j]
    <3>1. j \in 1..Len(t) + Len(u) /\ ~(j > Len(t))
      BY <1>2
    <3>2. QED
      BY <3>1
  <2>2. ASSUME NEW m \in 1..Len(u) PROVE at2(at)[Len(t) + m] = Len(s) + m
    <3>1. Len(t) + m \in 1..Len(t) + Len(u) /\ Len(t) + m > Len(t) /\ Len(t) + m - Len(t) + Len(s) = Len(s) + m
      BY <1>2
    <3>2. QED
      BY <3>1
  <2>3. QED
    BY <2>1, <2>2
<1>8. /\ \A k \in 1..Len(s) : k \in new <=> k \in own
      /\ \A m \in 1..Len(u) : Len(s) + m \in new
      /\ \A k \in new : k \in 1..Len(s) + Len(u)
  <2>1. 1..Len(s) \subseteq 1..Len(s) + Len(u) /\ \A m \in 1..Len(u) : Len(s) + m \in 1..Len(s) + Len(u)
    BY <1>2
  <2>2. QED
    BY <1>2, <1>3, <2>1
<1> HIDE DEF at2, own, new
<1>9. at2(at) \in [DOMAIN (t \o u) -> new]
  <2>1. \A j \in 1..Len(t) + Len(u) : at2(at)[j] \in new
    <3> TAKE j \in 1..Len(t) + Len(u)
    <3>1. CASE j \in 1..Len(t)
      <4>1. at2(at)[j] = at[j] /\ at[j] \in own /\ at[j] \in 1..Len(s)
        BY <1>6, <1>7, <3>1
      <4>2. QED
        BY <1>8, <4>1
    <3>2. CASE j \notin 1..Len(t)
      <4>1. PICK m \in 1..Len(u) : j = Len(t) + m
        BY <1>5, <3>2
      <4>2. QED
        BY <1>7, <1>8, <4>1
    <3>3. QED
      BY <3>1, <3>2
  <2>2. QED
    BY <1>4, <2>1 DEF at2
<1>10. \A j \in DOMAIN (t \o u) : (t \o u)[j] = (s \o u)[at2(at)[j]]
  <2>1. \A j \in 1..Len(t) : (t \o u)[j] = (s \o u)[at2(at)[j]]
    <3> TAKE j \in 1..Len(t)
    <3>1. (t \o u)[j] = t[j] /\ t[j] = s[at[j]] /\ s[at[j]] = (s \o u)[at[j]]
      BY <1>1, <1>2, <1>3, <1>4, <1>6
    <3>2. QED
      BY <1>7, <3>1
  <2>2. \A m \in 1..Len(u) : (t \o u)[Len(t) + m] = (s \o u)[at2(at)[Len(t) + m]]
    BY <1>3, <1>4, <1>7
  <2>3. QED
    <3> TAKE j \in DOMAIN (t \o u)
    <3>1. CASE j \in 1..Len(t)
      BY <2>1, <3>1
    <3>2. CASE j \notin 1..Len(t)
      <4>1. PICK m \in 1..Len(u) : j = Len(t) + m
        BY <1>4, <1>5, <3>2
      <4>2. QED
        BY <2>2, <4>1
    <3>3. QED
      BY <3>1, <3>2
<1>11. \A j, k \in DOMAIN (t \o u) : j < k => at2(at)[j] < at2(at)[k]
  <2>1. \A j, k \in 1..Len(t) : j < k => at2(at)[j] < at2(at)[k]
    BY <1>1, <1>2, <1>7
  <2>2. \A j \in 1..Len(t) : \A m \in 1..Len(u) : at2(at)[j] < at2(at)[Len(t) + m]
    BY <1>2, <1>6, <1>7
  <2>3. \A l, m \in 1..Len(u) : Len(t) + l < Len(t) + m => at2(at)[Len(t) + l] < at2(at)[Len(t) + m]
    BY <1>2, <1>7
  <2>4. \A j \in 1..Len(t) : \A m \in 1..Len(u) : ~(Len(t) + m < j)
    BY <1>2
  <2>5. QED
    <3> TAKE j, k \in DOMAIN (t \o u)
    <3>1. CASE j \in 1..Len(t) /\ k \in 1..Len(t)
      BY <2>1, <3>1
    <3>2. CASE j \in 1..Len(t) /\ k \notin 1..Len(t)
      BY <1>4, <1>5, <2>2, <3>2
    <3>3. CASE j \notin 1..Len(t) /\ k \in 1..Len(t)
      BY <1>4, <1>5, <2>4, <3>3
    <3>4. CASE j \notin 1..Len(t) /\ k \notin 1..Len(t)
      <4>1. PICK l \in 1..Len(u), m \in 1..Len(u) : j = Len(t) + l /\ k = Len(t) + m
        BY <1>4, <1>5, <3>4
      <4>2. QED
        BY <2>3, <4>1
    <3>5. QED
      BY <3>1, <3>2, <3>3, <3>4
<1>12. \A k \in new : \E j \in DOMAIN (t \o u) : at2(at)[j] = k
  <2>1. ASSUME NEW k \in 1..Len(s), k \in own PROVE \E j \in DOMAIN (t \o u) : at2(at)[j] = k
    <3>1. PICK j \in DOMAIN t : at[j] = k
      BY <1>1, <2>1
    <3>2. j \in 1..Len(t) + Len(u) /\ at2(at)[j] = k
      BY <1>2, <1>7, <3>1
    <3>3. QED
      BY <1>4, <3>2
  <2>2. ASSUME NEW m \in 1..Len(u) PROVE \E j \in DOMAIN (t \o u) : at2(at)[j] = Len(s) + m
    <3>1. Len(t) + m \in 1..Len(t) + Len(u)
      BY <1>2
    <3>2. QED
      BY <1>4, <1>7, <3>1
  <2>3. QED
    <3> TAKE k \in new
    <3>1. CASE k \in 1..Len(s)
      BY <1>8, <2>1, <3>1
    <3>2. CASE k \notin 1..Len(s)
      <4>1. PICK m \in 1..Len(u) : k = Len(s) + m
        BY <1>5, <1>8, <3>2
      <4>2. QED
        BY <2>2, <4>1
    <3>3. QED
      BY <3>1, <3>2
<1>13. QED
  BY <1>9, <1>10, <1>11, <1>12 DEF OwnPart, new

\* An own record in front of the others.
LEMMA OwnCons ==
    ASSUME NEW s \in Seq(Frame), NEW t \in Seq(Frame), OwnPart(s, t), NEW f \in Frame, f.own
    PROVE  OwnPart(<<f>> \o s, <<f>> \o t)
<1> DEFINE own == {k \in DOMAIN s : s[k].own}
           new == {k \in DOMAIN (<<f>> \o s) : (<<f>> \o s)[k].own}
           at2(at) == [j \in 1..Len(t) + 1 |-> IF j = 1 THEN 1 ELSE at[j - 1] + 1]
<1>1. PICK at \in [DOMAIN t -> own] :
         /\ \A j \in DOMAIN t : t[j] = s[at[j]]
         /\ \A j, k \in DOMAIN t : j < k => at[j] < at[k]
         /\ \A k \in own : \E j \in DOMAIN t : at[j] = k
  BY DEF OwnPart
<1>2. /\ DOMAIN s = 1..Len(s) /\ DOMAIN t = 1..Len(t)
      /\ Len(s) \in Nat /\ Len(t) \in Nat
      /\ <<f>> \in Seq(Frame) /\ Len(<<f>>) = 1 /\ <<f>>[1] = f
  OBVIOUS
<1>3. /\ DOMAIN (<<f>> \o s) = 1..1 + Len(s) /\ (<<f>> \o s)[1] = f
      /\ \A k \in 1..Len(s) : (<<f>> \o s)[1 + k] = s[k]
  BY <1>2, ConcatProperties
<1>4. /\ DOMAIN (<<f>> \o t) = 1..1 + Len(t) /\ (<<f>> \o t)[1] = f
      /\ \A k \in 1..Len(t) : (<<f>> \o t)[1 + k] = t[k]
  BY <1>2, ConcatProperties
<1>5. \A k \in Nat : k \in new <=> k = 1 \/ (k > 1 /\ k - 1 \in own)
  <2> SUFFICES ASSUME NEW k \in Nat PROVE k \in new <=> k = 1 \/ (k > 1 /\ k - 1 \in own)
    OBVIOUS
  <2>1. CASE k > 1
    <3>1. k - 1 \in Nat /\ k = 1 + (k - 1)
      BY <2>1
    <3>2. k \in 1..1 + Len(s) <=> k - 1 \in 1..Len(s)
      BY <1>2, <2>1
    <3>3. k - 1 \in 1..Len(s) => (<<f>> \o s)[k] = s[k - 1]
      BY <1>3, <3>1
    <3>4. QED
      BY <1>2, <1>3, <2>1, <3>2, <3>3
  <2>2. CASE k = 1
    BY <1>2, <1>3, <2>2
  <2>3. CASE k = 0
    BY <1>2, <1>3, <2>3
  <2>4. QED
    BY <2>1, <2>2, <2>3
<1>6. \A j \in 1..Len(t) : at[j] \in own /\ at[j] \in Nat /\ at[j] > 0
  BY <1>2
<1>7. at2(at)[1] = 1 /\ \A j \in 1..Len(t) : at2(at)[1 + j] = at[j] + 1
  BY <1>2
<1>8. \A j \in 1..1 + Len(t) : j = 1 \/ \E k \in 1..Len(t) : j = 1 + k
  <2> SUFFICES ASSUME NEW j \in 1..1 + Len(t), j # 1 PROVE \E k \in 1..Len(t) : j = 1 + k
    OBVIOUS
  <2>1. j - 1 \in 1..Len(t) /\ j = 1 + (j - 1)
    BY <1>2
  <2>2. QED
    BY <2>1
<1>9. at2(at) \in [DOMAIN (<<f>> \o t) -> new]
  <2>1. 1 \in new /\ \A j \in 1..Len(t) : at[j] + 1 \in new
    BY <1>5, <1>6
  <2>2. \A j \in 1..1 + Len(t) : at2(at)[j] \in new
    BY <1>7, <1>8, <2>1
  <2>3. 1..Len(t) + 1 = 1..1 + Len(t)
    BY <1>2
  <2>4. QED
    BY <1>4, <2>2, <2>3
<1> HIDE DEF at2
<1>10. \A j \in DOMAIN (<<f>> \o t) : (<<f>> \o t)[j] = (<<f>> \o s)[at2(at)[j]]
  <2>1. \A j \in 1..Len(t) : (<<f>> \o t)[1 + j] = (<<f>> \o s)[at2(at)[1 + j]]
    <3> TAKE j \in 1..Len(t)
    <3>1. at2(at)[1 + j] = 1 + at[j] /\ at[j] \in 1..Len(s)
      BY <1>6, <1>7, <1>2
    <3>2. t[j] = s[at[j]] /\ (<<f>> \o t)[1 + j] = t[j]
      BY <1>1, <1>2, <1>4
    <3>3. (<<f>> \o s)[1 + at[j]] = s[at[j]]
      BY <1>3, <3>1
    <3>4. QED
      BY <3>1, <3>2, <3>3
  <2>2. QED
    BY <1>3, <1>4, <1>7, <1>8, <2>1, SMTT(30)
<1>11. \A j, k \in DOMAIN (<<f>> \o t) : j < k => at2(at)[j] < at2(at)[k]
  <2>1. \A j, k \in 1..Len(t) : 1 + j < 1 + k => at2(at)[1 + j] < at2(at)[1 + k]
    <3> TAKE j, k \in 1..Len(t)
    <3> HAVE 1 + j < 1 + k
    <3>1. j < k /\ j \in DOMAIN t /\ k \in DOMAIN t
      BY <1>2
    <3>2. at[j] < at[k]
      BY <1>1, <3>1
    <3>3. QED
      BY <1>6, <1>7, <3>2
  <2>2. \A k \in 1..Len(t) : at2(at)[1] < at2(at)[1 + k]
    BY <1>6, <1>7
  <2>3. QED
    BY <1>2, <1>4, <1>8, <2>1, <2>2
<1>12. \A k \in new : \E j \in DOMAIN (<<f>> \o t) : at2(at)[j] = k
  <2> SUFFICES ASSUME NEW k \in new PROVE \E j \in DOMAIN (<<f>> \o t) : at2(at)[j] = k
    OBVIOUS
  <2>1. CASE k = 1
    BY <1>2, <1>4, <1>7, <2>1
  <2>2. CASE k # 1
    <3>1. k \in Nat /\ k - 1 \in own
      BY <1>2, <1>3, <1>5, <2>2
    <3>2. PICK j \in DOMAIN t : at[j] = k - 1
      BY <1>1, <3>1
    <3>3. at2(at)[1 + j] = k /\ 1 + j \in 1..1 + Len(t)
      BY <1>2, <1>7, <3>1, <3>2
    <3>4. QED
      BY <1>4, <3>3
  <2>3. QED
    BY <2>1, <2>2
<1>13. QED
  BY <1>9, <1>10, <1>11, <1>12 DEF OwnPart

\* The last record taken off, an own one.
LEMMA OwnFront ==
    ASSUME NEW s \in Seq(Frame), NEW t \in Seq(Frame), NEW f \in Frame, f.own,
           OwnPart(Append(s, f), t)
    PROVE  t # <<>> /\ Last(t) = f /\ OwnPart(s, Front(t))
<1> DEFINE own == {k \in DOMAIN Append(s, f) : Append(s, f)[k].own}
           new == {k \in DOMAIN s : s[k].own}
<1>1. PICK at \in [DOMAIN t -> own] :
         /\ \A j \in DOMAIN t : t[j] = Append(s, f)[at[j]]
         /\ \A j, k \in DOMAIN t : j < k => at[j] < at[k]
         /\ \A k \in own : \E j \in DOMAIN t : at[j] = k
  BY DEF OwnPart
<1>2. /\ DOMAIN s = 1..Len(s) /\ DOMAIN t = 1..Len(t) /\ Len(s) \in Nat /\ Len(t) \in Nat
      /\ DOMAIN Append(s, f) = 1..Len(s) + 1
      /\ \A k \in 1..Len(s) : Append(s, f)[k] = s[k]
      /\ Append(s, f)[Len(s) + 1] = f
  OBVIOUS
<1>3. Len(s) + 1 \in own /\ own = new \cup {Len(s) + 1}
  BY <1>2
<1>4. PICK j \in DOMAIN t : at[j] = Len(s) + 1
  BY <1>1, <1>3
<1>5. j = Len(t) /\ Len(t) > 0
  <2>1. SUFFICES ASSUME j < Len(t) PROVE FALSE
    BY <1>2
  <2>2. at[j] < at[Len(t)] /\ at[Len(t)] \in own
    BY <1>1, <1>2, <2>1
  <2>3. QED
    BY <1>2, <1>4, <2>2
<1>6. t # <<>> /\ Last(t) = f
  BY <1>1, <1>2, <1>4, <1>5 DEF Last
<1>7. /\ DOMAIN Front(t) = 1..Len(t) - 1
      /\ \A k \in 1..Len(t) - 1 : Front(t)[k] = t[k]
  BY <1>2, <1>5 DEF Front
<1> DEFINE at2 == [k \in 1..Len(t) - 1 |-> at[k]]
<1>8. \A k \in 1..Len(t) - 1 : at[k] \in new
  <2> TAKE k \in 1..Len(t) - 1
  <2>1. k \in DOMAIN t /\ j \in DOMAIN t /\ k < j
    BY <1>2, <1>4, <1>5
  <2>2. at[k] < at[j] /\ at[k] \in own
    BY <1>1, <2>1
  <2>3. at[k] # Len(s) + 1
    BY <1>2, <1>4, <2>2
  <2>4. QED
    BY <1>3, <2>2, <2>3
<1>9. at2 \in [DOMAIN Front(t) -> new]
  BY <1>7, <1>8
<1>10. \A k \in DOMAIN Front(t) : Front(t)[k] = s[at2[k]]
  BY <1>1, <1>2, <1>7, <1>8
<1>11. \A k, l \in DOMAIN Front(t) : k < l => at2[k] < at2[l]
  BY <1>1, <1>2, <1>7
<1>12. \A k \in new : \E l \in DOMAIN Front(t) : at2[l] = k
  <2> SUFFICES ASSUME NEW k \in new PROVE \E l \in DOMAIN Front(t) : at2[l] = k
    OBVIOUS
  <2>1. PICK l \in DOMAIN t : at[l] = k
    BY <1>1, <1>3
  <2>2. l # Len(t)
    BY <1>2, <1>4, <1>5, <2>1
  <2>3. QED
    BY <1>2, <1>7, <2>1, <2>2
<1> HIDE DEF at2
<1>13. QED
  BY <1>6, <1>9, <1>10, <1>11, <1>12 DEF OwnPart

------------------------------------------------------------------------------
(* R is on its way: of the records of fr, then of those of past, the ones  *)
(* of this client, and between them, when the reader is done, what it      *)
(* threw away (w).                                                         *)
Comes(fr, past, done, R) ==
    \E f, w, t \in Seq(Frame) :
        /\ OwnPart(fr, f) /\ OwnPart(past, t)
        /\ w # <<>> => done
        /\ R = f \o (w \o t)

\* Nothing of s is this client's own.
NoOwn(s) == \A k \in 1..Len(s) : ~s[k].own

\* And then its own part is empty.
LEMMA OwnOfNone ==
    ASSUME NEW s \in Seq(Frame), NoOwn(s)
    PROVE  OwnPart(s, <<>>)
<1> DEFINE at == [j \in DOMAIN <<>> |-> 1]
<1>1. at \in [DOMAIN <<>> -> {k \in DOMAIN s : s[k].own}]
  OBVIOUS
<1>2. {k \in DOMAIN s : s[k].own} = {}
  BY DEF NoOwn
<1>3. QED
  BY <1>1, <1>2 DEF OwnPart

LEMMA ComesNothing ==
    ASSUME NEW fr \in Seq(Frame), NEW past \in Seq(Frame), NEW done,
           NoOwn(fr), NoOwn(past)
    PROVE  Comes(fr, past, done, <<>>)
<1>1. OwnPart(fr, <<>>) /\ OwnPart(past, <<>>)
  BY OwnOfNone
<1>2. <<>> \in Seq(Frame) /\ <<>> = <<>> \o (<<>> \o <<>>)
  OBVIOUS
<1>3. QED
  BY <1>1, <1>2 DEF Comes

\* Nothing of the client's own is on its way.
LEMMA ComesNone ==
    ASSUME NEW fr \in Seq(Frame), NEW past \in Seq(Frame), NEW done,
           Comes(fr, past, done, <<>>)
    PROVE  NoOwn(fr) /\ NoOwn(past)
<1>1. PICK f, w, t \in Seq(Frame) : OwnPart(fr, f) /\ OwnPart(past, t) /\ <<>> = f \o (w \o t)
  BY DEF Comes
<1>2. Len(f \o (w \o t)) = Len(f) + (Len(w) + Len(t)) /\ Len(f) \in Nat /\ Len(w) \in Nat /\ Len(t) \in Nat
  <2>1. w \o t \in Seq(Frame) /\ Len(w \o t) = Len(w) + Len(t)
    BY <1>1, ConcatProperties
  <2>2. QED
    BY <1>1, <2>1, ConcatProperties
<1>3. Len(f) = 0 /\ Len(t) = 0
  <2>1. Len(<<>>) = 0
    OBVIOUS
  <2>2. Len(f \o (w \o t)) = 0
    BY <1>1, <2>1, Zenon
  <2>3. QED
    BY <1>2, <2>2
<1>4. f = <<>> /\ t = <<>>
  BY <1>1, <1>3
<1>5. QED
  BY <1>1, <1>4, OwnNone DEF NoOwn

\* What the stream arguments need of \o.
LEMMA Associative ==
    \A a, b, c \in Seq(Frame) : (a \o b) \o c = a \o (b \o c)
BY ConcatAssociative

LEMMA Joined ==
    ASSUME NEW a \in Seq(Frame), NEW b \in Seq(Frame)
    PROVE  /\ a \o b \in Seq(Frame)
           /\ Len(a) \in Nat /\ Len(b) \in Nat
           /\ Len(a \o b) = Len(a) + Len(b)
           /\ \A i \in 1..Len(a) : (a \o b)[i] = a[i]
           /\ \A i \in 1..Len(b) : (a \o b)[Len(a) + i] = b[i]
OBVIOUS

LEMMA JoinedTail ==
    ASSUME NEW a \in Seq(Frame), NEW b \in Seq(Frame), a # <<>>
    PROVE  a \o b # <<>> /\ Head(a \o b) = Head(a) /\ Tail(a \o b) = Tail(a) \o b
<1>1. a \o b # <<>> /\ Head(a \o b) = Head(a)
  OBVIOUS
<1>2. Tail(a \o b) \in Seq(Frame) /\ Tail(a) \o b \in Seq(Frame)
  BY <1>1
<1>3. Len(Tail(a \o b)) = Len(Tail(a) \o b)
  BY <1>1
<1>4. \A i \in 1..Len(Tail(a \o b)) : Tail(a \o b)[i] = (Tail(a) \o b)[i]
  BY <1>1
<1>5. QED
  BY <1>1, <1>2, <1>3, <1>4, SeqEqual

\* tmux says u, at the end of its output.
LEMMA ComesSaid ==
    ASSUME NEW fr \in Seq(Frame), NEW past \in Seq(Frame), NEW done, NEW R \in Seq(Frame),
           Comes(fr, past, done, R), NEW u \in Seq(Frame), \A k \in 1..Len(u) : u[k].own
    PROVE  Comes(fr, past \o u, done, R \o u)
<1>1. PICK f, w, t \in Seq(Frame) :
         OwnPart(fr, f) /\ OwnPart(past, t) /\ (w # <<>> => done) /\ R = f \o (w \o t)
  BY DEF Comes
<1>2. OwnPart(past \o u, t \o u)
  BY <1>1, OwnConcat
<1>3. R \o u = f \o (w \o (t \o u))
  <2> DEFINE m == w \o t
  <2>1. /\ f \in Seq(Frame) /\ m \in Seq(Frame) /\ u \in Seq(Frame)
        /\ w \in Seq(Frame) /\ t \in Seq(Frame)
    BY <1>1
  <2>2. R = f \o m
    BY <1>1
  <2>3. m \o u = w \o (t \o u)
    BY ONLY <2>1, Associative, ZenonT(60)
  <2> HIDE DEF m
  <2>4. (f \o m) \o u = f \o (m \o u)
    BY ONLY <2>1, Associative, ZenonT(60)
  <2>5. QED
    BY <2>2, <2>3, <2>4
<1>4. t \o u \in Seq(Frame)
  BY <1>1
<1>5. QED
  BY <1>1, <1>2, <1>3, <1>4 DEF Comes

\* tmux prints a record for another client.
LEMMA ComesForeign ==
    ASSUME NEW fr \in Seq(Frame), NEW past \in Seq(Frame), NEW done, NEW R \in Seq(Frame),
           Comes(fr, past, done, R), NEW h \in Frame, ~h.own
    PROVE  Comes(fr, Append(past, h), done, R)
<1>1. PICK f, w, t \in Seq(Frame) :
         OwnPart(fr, f) /\ OwnPart(past, t) /\ (w # <<>> => done) /\ R = f \o (w \o t)
  BY DEF Comes
<1>2. OwnPart(Append(past, h), t)
  BY <1>1, OwnAppend
<1>3. QED
  BY <1>1, <1>2 DEF Comes

\* The reader passes the next record on, or drops one that is not the client's.
LEMMA ComesRead ==
    ASSUME NEW fr \in Seq(Frame), NEW past \in Seq(Frame), NEW R \in Seq(Frame),
           Comes(fr, past, FALSE, R), past # <<>>,
           NEW to, to = Append(fr, Head(past)) \/ (to = fr /\ ~Head(past).own)
    PROVE  Comes(to, Tail(past), FALSE, R)
<1>1. PICK f, w, t \in Seq(Frame) :
         OwnPart(fr, f) /\ OwnPart(past, t) /\ (w # <<>> => FALSE) /\ R = f \o (w \o t)
  BY DEF Comes
<1>2. w = <<>> /\ R = f \o t /\ Head(past) \in Frame /\ Tail(past) \in Seq(Frame)
  <2>1. w = <<>> /\ R = f \o (w \o t)
    BY <1>1
  <2>2. <<>> \o t = t
    BY <1>1
  <2>3. QED
    BY <2>1, <2>2
<1>3. CASE Head(past).own
  <2>1. t # <<>> /\ Head(t) = Head(past) /\ OwnPart(Tail(past), Tail(t))
    BY <1>1, <1>3, OwnTail
  <2>2. OwnPart(Append(fr, Head(past)), Append(f, Head(past)))
    BY <1>1, <1>2, <1>3, OwnAppend
  <2>3. Append(f, Head(past)) \o (<<>> \o Tail(t)) = f \o t
    BY <1>2, <2>1, SMTT(30)
  <2>4. Append(f, Head(past)) \in Seq(Frame) /\ Tail(t) \in Seq(Frame) /\ <<>> \in Seq(Frame)
    BY <1>2, <2>1
  <2>5. to = Append(fr, Head(past))
    BY <1>3
  <2>6. QED
    BY <1>2, <2>1, <2>2, <2>3, <2>4, <2>5 DEF Comes
<1>4. CASE ~Head(past).own
  <2>1. OwnPart(Tail(past), t)
    BY <1>1, <1>4, OwnTail
  <2>2. OwnPart(Append(fr, Head(past)), f)
    BY <1>1, <1>2, <1>4, OwnAppend
  <2>3. OwnPart(to, f)
    BY <1>1, <2>2
  <2>4. QED
    BY <1>1, <2>1, <2>3 DEF Comes
<1>5. QED
  BY <1>3, <1>4

\* The client passes over a frame of another client (nextOwnFrame).
LEMMA ComesSkipped ==
    ASSUME NEW fr \in Seq(Frame), NEW past \in Seq(Frame), NEW done, NEW R \in Seq(Frame),
           Comes(fr, past, done, R), fr # <<>>, ~Head(fr).own
    PROVE  Comes(Tail(fr), past, done, R)
<1>1. PICK f, w, t \in Seq(Frame) :
         OwnPart(fr, f) /\ OwnPart(past, t) /\ (w # <<>> => done) /\ R = f \o (w \o t)
  BY DEF Comes
<1>2. OwnPart(Tail(fr), f)
  BY <1>1, OwnTail
<1>3. QED
  BY <1>1, <1>2 DEF Comes

\* The client takes the frame at the front: it is the next of what is on its way.
LEMMA ComesTaken ==
    ASSUME NEW fr \in Seq(Frame), NEW past \in Seq(Frame), NEW done, NEW R \in Seq(Frame),
           Comes(fr, past, done, R), fr # <<>>, Head(fr).own
    PROVE  R # <<>> /\ Head(R) = Head(fr) /\ Comes(Tail(fr), past, done, Tail(R))
<1>1. PICK f, w, t \in Seq(Frame) :
         OwnPart(fr, f) /\ OwnPart(past, t) /\ (w # <<>> => done) /\ R = f \o (w \o t)
  BY DEF Comes
<1>2. f # <<>> /\ Head(f) = Head(fr) /\ OwnPart(Tail(fr), Tail(f))
  BY <1>1, OwnTail
<1>3. w \o t \in Seq(Frame) /\ Tail(f) \in Seq(Frame)
  BY <1>2
<1>4. ASSUME NEW v \in Seq(Frame)
      PROVE  f \o v # <<>> /\ Head(f \o v) = Head(f) /\ Tail(f \o v) = Tail(f) \o v
  BY <1>2, <1>4, JoinedTail
<1>5. R # <<>> /\ Head(R) = Head(f) /\ Tail(R) = Tail(f) \o (w \o t)
  BY <1>1, <1>3, <1>4
<1>6. QED
  BY <1>1, <1>2, <1>3, <1>5 DEF Comes

\* The reader ends and what it had not read is gone.
LEMMA ComesCut ==
    ASSUME NEW fr \in Seq(Frame), NEW past \in Seq(Frame), NEW done, NEW R \in Seq(Frame),
           Comes(fr, past, done, R)
    PROVE  Comes(fr, <<>>, TRUE, R)
<1>1. PICK f, w, t \in Seq(Frame) : OwnPart(fr, f) /\ R = f \o (w \o t)
  BY DEF Comes
<1>2. w \o t \in Seq(Frame) /\ w \o t = (w \o t) \o <<>> /\ <<>> \in Seq(Frame)
  BY <1>1
<1>3. OwnPart(<<>>, <<>>)
  BY OwnNothing
<1>4. QED
  BY <1>1, <1>2, <1>3 DEF Comes

------------------------------------------------------------------------------
(* Prefixes.                                                               *)

LEMMA PrefixOf ==
    ASSUME NEW s \in Seq(Frame), NEW t \in Seq(Frame)
    PROVE  IsPrefix(s, t) <=> Len(s) <= Len(t) /\ \A i \in 1..Len(s) : s[i] = t[i]
<1>1. CASE Len(s) <= Len(t)
  <2>1. Len(s) \in Nat /\ SubSeq(t, 1, Len(s)) \in Seq(Frame) /\ Len(SubSeq(t, 1, Len(s))) = Len(s)
        /\ \A i \in 1..Len(s) : SubSeq(t, 1, Len(s))[i] = t[i]
    BY <1>1, SubSeqProperties
  <2>2. (\A i \in 1..Len(s) : s[i] = t[i]) => s = SubSeq(t, 1, Len(s))
    BY <2>1, SeqEqual
  <2>3. SubSeq(s, 1, Len(s)) = s
    OBVIOUS
  <2>4. QED
    BY <1>1, <2>1, <2>2, <2>3 DEF IsPrefix
<1>2. CASE ~(Len(s) <= Len(t))
  BY <1>2 DEF IsPrefix
<1>3. QED
  BY <1>1, <1>2

\* A prefix stays one while tmux says more.
LEMMA PrefixGrows ==
    ASSUME NEW s \in Seq(Frame), NEW t \in Seq(Frame), NEW u \in Seq(Frame), IsPrefix(s, t)
    PROVE  IsPrefix(s, t \o u)
<1>1. t \o u \in Seq(Frame) /\ Len(t \o u) = Len(t) + Len(u) /\ \A i \in 1..Len(t) : (t \o u)[i] = t[i]
  OBVIOUS
<1>2. Len(s) <= Len(t) /\ \A i \in 1..Len(s) : s[i] = t[i]
  BY PrefixOf
<1>3. Len(s) <= Len(t \o u) /\ \A i \in 1..Len(s) : s[i] = (t \o u)[i]
  BY <1>1, <1>2
<1>4. QED
  BY <1>1, <1>3, PrefixOf

LEMMA PrefixOfFront ==
    ASSUME NEW s \in Seq(Frame), NEW v \in Seq(Frame), NEW t \in Seq(Frame), NEW u \in Seq(Frame),
           s \o v = t \o u, Len(s) <= Len(t)
    PROVE  IsPrefix(s, t)
<1>1. \A i \in 1..Len(s) : s[i] = (s \o v)[i] /\ t[i] = (t \o u)[i]
  OBVIOUS
<1>2. \A i \in 1..Len(s) : s[i] = t[i]
  BY <1>1
<1>3. Len(s) <= Len(t) /\ \A i \in 1..Len(s) : s[i] = t[i]
  BY <1>2
<1>4. QED
  BY <1>3, PrefixOf

LEMMA PrefixNothing ==
    ASSUME NEW t \in Seq(Frame)
    PROVE  IsPrefix(<<>>, t)
<1>1. <<>> \in Seq(Frame) /\ Len(<<>>) = 0
  OBVIOUS
<1>2. Len(<<>>) <= Len(t) /\ \A i \in 1..Len(<<>>) : <<>>[i] = t[i]
  BY <1>1
<1>3. QED
  BY <1>1, <1>2, PrefixOf, Zenon

------------------------------------------------------------------------------
(* Short sequences.                                                        *)

LEMMA OneOne == ASSUME NEW a, NEW b PROVE <<a>> \o <<b>> = <<a, b>>
<1> DEFINE S == {a, b}
<1>1. <<a>> \in Seq(S) /\ <<b>> \in Seq(S) /\ <<a, b>> \in Seq(S)
  OBVIOUS
<1>2. Len(<<a>>) = 1 /\ Len(<<b>>) = 1 /\ Len(<<a, b>>) = 2
  OBVIOUS
<1>3. <<a>> \o <<b>> \in Seq(S) /\ Len(<<a>> \o <<b>>) = 2
  BY <1>1, <1>2, ConcatProperties
<1>4. (<<a>> \o <<b>>)[1] = a /\ (<<a>> \o <<b>>)[2] = b
  BY <1>1, <1>2, ConcatProperties
<1>5. \A i \in 1..2 : (<<a>> \o <<b>>)[i] = <<a, b>>[i]
  BY <1>4
<1>6. QED
  BY <1>1, <1>2, <1>3, <1>5, SeqEqual

LEMMA OneTwo == ASSUME NEW a, NEW b, NEW c PROVE <<a>> \o <<b, c>> = <<a, b, c>>
<1> DEFINE S == {a, b, c}
<1>1. <<a>> \in Seq(S) /\ <<b, c>> \in Seq(S) /\ <<a, b, c>> \in Seq(S)
  OBVIOUS
<1>2. Len(<<a>>) = 1 /\ Len(<<b, c>>) = 2 /\ Len(<<a, b, c>>) = 3
  OBVIOUS
<1>3. <<a>> \o <<b, c>> \in Seq(S) /\ Len(<<a>> \o <<b, c>>) = 3
  BY <1>1, <1>2, ConcatProperties
<1>4. (<<a>> \o <<b, c>>)[1] = a /\ (<<a>> \o <<b, c>>)[2] = b /\ (<<a>> \o <<b, c>>)[3] = c
  BY <1>1, <1>2, ConcatProperties
<1>5. \A i \in 1..3 : (<<a>> \o <<b, c>>)[i] = <<a, b, c>>[i]
  BY <1>4
<1>6. QED
  BY <1>1, <1>2, <1>3, <1>5, SeqEqual

LEMMA TwoTwo == ASSUME NEW a, NEW b, NEW c, NEW d PROVE <<a, b>> \o <<c, d>> = <<a, b, c, d>>
<1> DEFINE S == {a, b, c, d}
<1>1. <<a, b>> \in Seq(S) /\ <<c, d>> \in Seq(S) /\ <<a, b, c, d>> \in Seq(S)
  OBVIOUS
<1>2. Len(<<a, b>>) = 2 /\ Len(<<c, d>>) = 2 /\ Len(<<a, b, c, d>>) = 4
  OBVIOUS
<1>3. <<a, b>> \o <<c, d>> \in Seq(S) /\ Len(<<a, b>> \o <<c, d>>) = 4
  BY <1>1, <1>2, ConcatProperties
<1>4. /\ (<<a, b>> \o <<c, d>>)[1] = a /\ (<<a, b>> \o <<c, d>>)[2] = b
      /\ (<<a, b>> \o <<c, d>>)[3] = c /\ (<<a, b>> \o <<c, d>>)[4] = d
  BY <1>1, <1>2, ConcatProperties
<1>5. \A i \in 1..4 : (<<a, b>> \o <<c, d>>)[i] = <<a, b, c, d>>[i]
  BY <1>4
<1>6. QED
  BY <1>1, <1>2, <1>3, <1>5, SeqEqual

------------------------------------------------------------------------------
(* The inductive invariant.                                                *)

\* TypeOK, by who changes what: the callers,
CallerTypes ==
    /\ pc \in [Callers -> {"idle", "check", "submit", "await", "late", "collect"}]
    /\ req \in [Callers -> 0..MaxRequests]
    /\ made \in 0..MaxRequests
    /\ kind \in [Requests -> {"none", "command", "fence", "capture"}]
    /\ result \in [Requests -> Replies]

\* what they share with the request goroutine,
RequestTypes ==
    /\ ctxDone \in [Requests -> BOOLEAN]
    /\ state \in [Requests -> {"pending", "accepted", "writing", "finished", "canceled"}]
    /\ response \in [Requests -> Seq(Replies)] /\ \A r \in Requests : Len(response[r]) <= 1

\* the request goroutine,
WorkerTypes ==
    /\ wpc \in {"guard", "attach", "attached", "calibrate", "first", "second",
                "register", "failed", "select", "received", "accepted", "execute", "claim", "write", "read",
                "respond", "respondLast", "done"}
    /\ cur \in 0..MaxRequests
    /\ results \in Seq(Frame)
    /\ pendingFirst \in Frame \cup {NoFrame}
    /\ resp \in Replies

\* opening and closing,
LifeTypes ==
    /\ openCtx \in BOOLEAN /\ dispatching \in BOOLEAN /\ fence \in [1..2 -> Tags \cup {"none"}]
    /\ stdinOpen \in BOOLEAN
    /\ closeRequested \in BOOLEAN /\ closing \in BOOLEAN
    /\ closePhase \in {"none", "grace", "stdin", "exit", "done"}

Lines == [req : 0..MaxRequests, part : {"guard", "attach", "command", "output", "N", "A", "B"}]

\* the tmux process,
ProcessTypes ==
    /\ stdin \in Seq(Lines) /\ alive \in BOOLEAN
    /\ ran \in [Requests -> BOOLEAN]
    /\ emitted \in [Requests -> Seq(Frame)]
    /\ foreign \in 0..MaxForeign
    /\ stdout \in Seq(Frame)

\* and the reader.
ReaderTypes ==
    /\ frames \in Seq(Frame) /\ Len(frames) <= 1
    /\ readDone \in BOOLEAN /\ readErr \in BOOLEAN
    /\ capturing \in {"no", "armed", "started"} /\ lines \in Seq(Frame)

TypeInv == CallerTypes /\ RequestTypes /\ WorkerTypes /\ LifeTypes /\ ProcessTypes /\ ReaderTypes

\* The places at which the request goroutine has a request in hand, and the
\* replies that say tmux did not run it.
Handling == {"received", "accepted", "execute", "claim", "write", "read", "respond", "respondLast"}
NotRun   == {"ctx", "closed", "error"}

\* Nobody but its caller knows of r.
Untouched(r) ==
    /\ state[r] = "pending" /\ response[r] = <<>> /\ result[r] = None
    /\ ~ran[r] /\ emitted[r] = <<>> /\ r # cur

\* A request belongs to one caller, who is told once, and the request goroutine
\* knows of it from when it received it.
Asked ==
    /\ \A r \in Requests : r > made <=> kind[r] = "none"
    /\ \A r \in Requests : r > made => Untouched(r)
    /\ \A c \in Callers : pc[c] # "idle" => req[c] \in 1..made /\ result[req[c]] = None
    /\ \A c, d \in Callers : c # d /\ pc[c] # "idle" /\ pc[d] # "idle" => req[c] # req[d]
    /\ \A c \in Callers : pc[c] \in {"check", "submit"} => Untouched(req[c])
    /\ \A c \in Callers : pc[c] = "late" => state[req[c]] \in {"writing", "finished"}

\* What the goroutine's place says about the request it is at.
Handled ==
    /\ cur \in 0..made
    /\ Opening \/ wpc = "failed" => cur = 0 /\ made = 0
    /\ wpc \in Handling => cur # 0 /\ response[cur] = <<>> /\ result[cur].err \in {"none", "ctx", "unknown"}
    /\ wpc = "received" => state[cur] \in {"pending", "canceled"}
    /\ wpc \in {"accepted", "execute", "claim"} => state[cur] \in {"accepted", "canceled"}
    /\ wpc \in {"received", "accepted", "execute", "claim"} => state[cur] = "canceled" \/ result[cur] = None
    /\ wpc \in {"write", "read"} => state[cur] = "writing" /\ result[cur].err # "ctx"
    /\ wpc \in {"respond", "respondLast"} => state[cur] \in {"finished", "canceled"} /\ resp.err # "none"
    /\ wpc \notin {"respond", "respondLast"} => resp = None
    /\ \A r \in Requests : state[r] = "writing" => r = cur /\ wpc \in {"write", "read"}
    /\ \A r \in Requests : \A j \in 1..Len(response[r]) : response[r][j].err # "none"

\* What tmux has been given, what it has run and what it said.
Sent ==
    /\ ~alive => stdin = <<>>
    /\ \A j \in 1..Len(stdin) : stdin[j].req = cur
    /\ \A j \in 1..Len(stdin) : cur = 0 => stdin[j].part \in {"guard", "attach", "A", "B"}
    /\ \A r \in Requests : emitted[r] # <<>> => ran[r]
    /\ \A r \in Requests : ran[r] => state[r] \in {"writing", "finished"} /\ (r = cur => wpc # "write")
    /\ stdin # <<>> /\ cur # 0 => state[cur] \in {"writing", "finished"}

\* What is another client's is a whole block, never a line inside one.
OursOrBlocks(s) == \A j \in 1..Len(s) : s[j].own \/ s[j].tag \in Blocks

Marked == OursOrBlocks(stdout) /\ OursOrBlocks(frames) /\ OursOrBlocks(lines)

\* Nothing that happens from here on makes tmux run r or say more to it.
Over(r) == state[r] # "writing" /\ (r = cur => stdin = <<>>)

\* A reply to a request of kind k, which tmux ran or not and to which it said em,
\* when that is over or not.
TrueReply(k, hasRun, over, em, reply) ==
    /\ reply.err = "ok" => /\ hasRun /\ over
                           /\ IF k = "capture" THEN OwnPart(reply.frames, em) ELSE reply.frames = em
    /\ reply.err = "unknown" => IsPrefix(reply.frames, em)
    /\ reply.err \notin {"ok", "unknown"} => reply.frames = <<>>
    /\ reply.err \in NotRun => ~hasRun /\ over

Good(r, reply) == TrueReply(kind[r], ran[r], Over(r), emitted[r], reply)

\* A reply is true from when it is made, and stays so until and after it is told.
Truthful ==
    /\ \A r \in Requests : Good(r, result[r])
    /\ \A r \in Requests : response[r] # <<>> => Good(r, Head(response[r]))
    /\ cur # 0 => Good(cur, resp)

------------------------------------------------------------------------------
(* The stream.                                                             *)

\* tmux's record, with this tag, for request r.
Mark(r, tag) == [req |-> r, own |-> TRUE, tag |-> tag]

\* What tmux has answered to the fence of r.
Fence(r, F) ==
    /\ Len(F) <= 2
    /\ Len(F) >= 1 => F[1] = Mark(r, "A")
    /\ Len(F) = 2 => F[2] = Mark(r, "B")

\* And, in a capture, to the nonce before it.
NonceAndFence(r, G) ==
    \/ G = <<>>
    \/ /\ Len(G) >= 2 /\ Len(G) <= 4
       /\ G[1] = Mark(r, "guard") /\ G[2] = Mark(r, "N")
       /\ Len(G) >= 3 => G[3] = Mark(r, "A")
       /\ Len(G) = 4 => G[4] = Mark(r, "B")

\* The input ends with the fence, and before that has what is fenced.
InOrder ==
    \A j \in 1..Len(stdin) :
        /\ Len(stdin) - j = 0 => stdin[j].part = "B"
        /\ Len(stdin) - j = 1 => stdin[j].part = "A"
        /\ Len(stdin) - j = 2 => stdin[j].part = IF kind[cur] = "capture" THEN "N" ELSE "command"
        /\ Len(stdin) - j = 3 => stdin[j].part \in {"command", "output"}

\* R is what is on its way from tmux to the request goroutine.
InFlight(R) == Comes(frames, stdout, readDone, R)

\* How far the opening is (waitForRegistration): before dispatching there is only
\* the startup line in the input, and a client handed out has seen its fence.
Opened ==
    /\ wpc # "failed" => (dispatching <=> wpc \notin {"guard", "attach", "attached"})
    /\ wpc \in {"guard", "attach"} =>
           \/ stdin = <<>>
           \/ Len(stdin) = 1 /\ stdin[1].part \in Starting /\ stdout = <<>> /\ frames = <<>>
    /\ wpc \in {"attached", "calibrate"} => stdin = <<>>
    /\ wpc \in {"guard", "attach", "attached", "calibrate"} => NoOwn(stdout) /\ NoOwn(frames)
    /\ wpc \in {"second", "register"} => fence[1] = "A"
    /\ wpc = "register" => fence[2] = "B"
    /\ HandedOut => fence[1] = "A" /\ fence[2] = "B"
    /\ Opening \/ wpc = "failed" => results = <<>> /\ pendingFirst = NoFrame /\ capturing = "no" /\ lines = <<>>

\* The fence of the startup.
Calibrating ==
    wpc \in {"first", "second"} =>
        /\ \A j \in 1..Len(stdin) : stdin[j].part = IF j = Len(stdin) THEN "B" ELSE "A"
        /\ \E F, R \in Seq(Frame) :
               /\ Fence(0, F) /\ InFlight(R)
               /\ F = (IF wpc = "first" THEN <<>> ELSE <<Mark(0, "A")>>) \o R
               /\ alive => Len(stdin) = 2 - Len(F)

\* Between two requests.
Quiet ==
    wpc \in {"register", "select", "received", "accepted", "execute", "claim", "write", "respond"} =>
        /\ stdin = <<>> /\ frames = <<>> /\ NoOwn(stdout)
        /\ capturing = "no"
        /\ wpc # "respond" => lines = <<>>

\* The frame held back as perhaps the first of the fence (executeControlRequest).
Held == IF pendingFirst = NoFrame THEN <<>> ELSE <<pendingFirst>>

\* What tmux said to a command, and to its fence, is what was collected, what is
\* held back and what is in flight.
PlainAt(F, R) ==
    /\ Fence(cur, F) /\ InFlight(R)
    /\ results \o (Held \o R) = emitted[cur] \o F
    /\ F # <<>> => ran[cur]
    /\ alive => \/ Len(stdin) = 3 /\ F = <<>> /\ emitted[cur] = <<>>
                \/ Len(stdin) = 2 - Len(F)

\* The fence is in nothing a command says.
Unfenced(s) ==
    \A k \in 1..Len(s) :
        /\ s[k] \in {Mark(cur, "A"), Mark(cur, "B"), Mark(cur, "X")}
        /\ k < Len(s) => ~(s[k].tag = "A" /\ s[k + 1].tag = "B")

\* The stream of a command or a bare fence while its reply is read.
Plain ==
    /\ capturing = "no" /\ lines = <<>>
    /\ Len(results) <= Len(emitted[cur])
    /\ Unfenced(emitted[cur])
    /\ \E F, R \in Seq(Frame) : PlainAt(F, R)

\* A capture's command said its first record, which opens the capture, and then
\* whatever it printed.
Printed ==
    /\ \A k \in 1..Len(emitted[cur]) :
           emitted[cur][k] \in {Mark(cur, "X"), Mark(cur, "text"), Mark(cur, "guard")}
    /\ emitted[cur] # <<>> => emitted[cur][1] = Mark(cur, "X")

\* While the parser waits or captures, what tmux said is the first record, the
\* lines and what is in flight.
CaptureSent(G) ==
    /\ NonceAndFence(cur, G)
    /\ emitted[cur] = <<>> => G = <<>>
    /\ alive => \/ Len(stdin) = 4 /\ G = <<>> /\ (stdin[1].part = "command" <=> emitted[cur] = <<>>)
                \/ Len(stdin) = 3 /\ G = <<>> /\ emitted[cur] # <<>>
                \/ Len(stdin) = 4 - Len(G) /\ G # <<>>

ArmedAt(G, R) == CaptureSent(G) /\ InFlight(R) /\ R = emitted[cur] \o G

\* A capture, before the parser has met the first record,
Armed ==
    capturing = "armed" =>
        /\ pendingFirst = NoFrame /\ results = <<>> /\ lines = <<>> /\ frames = <<>>
        /\ \E G, R \in Seq(Frame) : ArmedAt(G, R)

CapturingAt(G, R) ==
    /\ CaptureSent(G)
    /\ Comes(lines, stdout, readDone, R)
    /\ <<Mark(cur, "X")>> \o R = emitted[cur] \o G

\* while it collects lines,
Capturing ==
    capturing = "started" =>
        /\ pendingFirst = NoFrame /\ Len(results) + Len(frames) = 1
        /\ results \o frames = <<Mark(cur, "X")>>
        /\ \E G, R \in Seq(Frame) : CapturingAt(G, R)

\* The capture is whole; the nonce and the fence are in flight.
CapturedAt(F, R) ==
    /\ Fence(cur, F) /\ InFlight(R)
    /\ \/ Held \o R = F
       \/ Held = <<>> /\ R = <<Mark(cur, "N")>> \o F
    /\ alive => Len(stdin) = 2 - Len(F)

\* and after the nonce.  What it has of the capture is then whole.
Captured ==
    capturing = "no" =>
        /\ results = <<Mark(cur, "X")>> /\ ran[cur]
        /\ OwnPart(results \o lines, emitted[cur]) /\ IsPrefix(results, emitted[cur])
        /\ \E F, R \in Seq(Frame) : CapturedAt(F, R)

\* While a request is read, everything tmux said to it is accounted for.
Streaming ==
    wpc = "read" =>
        /\ InOrder
        /\ pendingFirst \in {NoFrame, Mark(cur, "A")}
        /\ kind[cur] # "capture" => Plain
        /\ kind[cur] = "capture" => Printed /\ Armed /\ Capturing /\ Captured

\* The inductive invariant.  OwnReplies alone says nothing of a reply that is
\* still being collected: Streaming carries the frames from the moment tmux prints
\* them to the boundary, Quiet brings the empty stream from there to the next
\* request, and Truthful carries the answer to its caller.
IInv ==
    /\ TypeInv /\ Asked /\ Handled /\ Sent /\ Marked /\ Truthful
    /\ Opened /\ Calibrating /\ Quiet /\ Streaming

LEMMA ReplyTypes ==
    /\ None \in Replies /\ None.err = "none" /\ None.frames = <<>> /\ <<>> \in Seq(Frame)
    /\ \A e \in Errors, fs \in Seq(Frame) :
           /\ Reply(e, fs) \in Replies
           /\ Reply(e, fs).err = e /\ Reply(e, fs).frames = fs
    /\ \A reply \in Replies : reply.err \in Errors /\ reply.frames \in Seq(Frame)
<1>1. <<>> \in Seq(Frame)
  OBVIOUS
<1>2. QED
  BY <1>1 DEF None, Replies, Reply, Errors

\* The replies the code makes.
LEMMA SomeReplies ==
    /\ Reply("ctx", <<>>) \in Replies /\ Reply("closed", <<>>) \in Replies
    /\ Reply("error", <<>>) \in Replies /\ Reply("unknown", <<>>) \in Replies
    /\ None \in Replies
    /\ \A fs \in Seq(Frame) : Reply("unknown", fs) \in Replies /\ Reply("ok", fs) \in Replies
BY ReplyTypes DEF Errors

LEMMA Bounds ==
    /\ MaxRequests \in Nat /\ MaxForeign \in Nat /\ Requests = 1..MaxRequests
    /\ Kinds \subseteq {"command", "fence", "capture"}
BY ClientAssumption DEF ClientAssumption, Requests

LEMMA FrameTypes ==
    /\ NoFrame \notin Frame
    /\ \A f \in Frame : f.req \in 0..MaxRequests /\ f.own \in BOOLEAN /\ f.tag \in Tags
    /\ \A r \in 0..MaxRequests, own \in BOOLEAN, tag \in Tags : [req |-> r, own |-> own, tag |-> tag] \in Frame
BY DEF Frame, NoFrame, Tags

\* What Head, Tail and Append do.
LEMMA Queue ==
    ASSUME NEW S, NEW s \in Seq(S), s # <<>>
    PROVE  Head(s) \in S /\ Tail(s) \in Seq(S) /\ Len(Tail(s)) = Len(s) - 1 /\ Len(s) \in Nat /\ Head(s) = s[1]
OBVIOUS

\* The frames channel has one slot.
LEMMA Room ==
    ASSUME NEW s \in Seq(Frame), Len(s) <= 1, Len(s) # 1
    PROVE  s = <<>> /\ \A f \in Frame : Append(s, f) \in Seq(Frame) /\ Len(Append(s, f)) = 1
<1>1. PICK n \in Nat : n = Len(s)
  OBVIOUS
<1>2. n = 0
  BY <1>1
<1>3. Len(s) = 0
  BY <1>1, <1>2
<1>4. s = <<>>
  BY <1>3
<1>5. QED
  BY <1>4

\* And when it is taken there is nothing behind it.
LEMMA RoomTaken ==
    ASSUME NEW s \in Seq(Frame), Len(s) <= 1, s # <<>>
    PROVE  Len(s) = 1 /\ s = <<Head(s)>> /\ Tail(s) = <<>>
<1>1. PICK n \in Nat : n = Len(s)
  OBVIOUS
<1>2. n # 0
  BY <1>1
<1>3. n = 1
  BY <1>1, <1>2
<1>4. Len(s) = 1
  BY <1>1, <1>3
<1>5. Head(s) = s[1] /\ Head(s) \in Frame /\ Tail(s) \in Seq(Frame) /\ Len(Tail(s)) = 0
  BY <1>4, Queue
<1>6. Tail(s) = <<>>
  BY <1>5
<1>7. s = <<Head(s)>>
  <2>1. <<Head(s)>> \in Seq(Frame) /\ Len(<<Head(s)>>) = 1 /\ <<Head(s)>>[1] = Head(s)
    BY <1>5
  <2>2. \A i \in 1..Len(s) : s[i] = <<Head(s)>>[i]
    BY <1>4, <1>5, <2>1
  <2>3. QED
    BY <1>4, <2>1, <2>2, SeqEqual
<1>8. QED
  BY <1>4, <1>6, <1>7

\* What tmux may answer to a line of its input.
LEMMA AnswersTypes ==
    ASSUME NEW line \in Lines, NEW tags \in Answers(line)
    PROVE  /\ tags \in Seq(Tags)
           /\ line.part \in Starting => tags \in Seq({"X", "E"})
           /\ line.part \in {"A", "B"} => tags = <<line.part>>
           /\ line.part = "N" => tags = <<"guard", "N">>
           /\ line.part = "output" => tags \in Seq({"X", "text", "guard"})
           /\ line.part = "command" =>
                IF kind[line.req] = "capture" THEN tags = <<"X">>
                ELSE tags \in Seq({"A", "B", "X"}) /\ NoAdjacentFence(tags)
<1>1. line.part \in {"guard", "attach", "command", "output", "N", "A", "B"}
  BY DEF Lines
<1>2. CASE line.part \in Starting
  <2>1. tags \in {<<"X", "X">>, <<"E">>, <<"X", "E">>, <<"X">>}
    BY <1>2 DEF Answers, Startups
  <2>2. <<"X", "X">> \in Seq({"X", "E"}) /\ <<"E">> \in Seq({"X", "E"})
        /\ <<"X", "E">> \in Seq({"X", "E"}) /\ <<"X">> \in Seq({"X", "E"})
    OBVIOUS
  <2>3. tags \in Seq({"X", "E"})
    BY <2>2, <2>1, Zenon
  <2>4. tags \in Seq(Tags)
    BY <2>3 DEF Tags
  <2>5. QED
    BY <1>2, <2>3, <2>4 DEF Starting
<1>3. CASE line.part = "output"
  <2>1. tags \in OutputLists
    BY <1>3 DEF Answers, Starting
  <2>2. tags \in Seq({"X", "text", "guard"})
    BY <2>1, ClientAssumption DEF ClientAssumption
  <2>3. tags \in Seq(Tags)
    BY <2>2 DEF Tags
  <2>4. QED
    BY <1>3, <2>2, <2>3 DEF Starting
<1>4. CASE line.part = "N"
  <2>1. tags = <<"guard", "N">>
    BY <1>4 DEF Answers, Starting
  <2>2. tags \in Seq(Tags)
    BY <2>1 DEF Tags
  <2>3. QED
    BY <1>4, <2>1, <2>2 DEF Starting
<1>5. CASE line.part \in {"A", "B"}
  <2>1. tags = <<line.part>>
    BY <1>5 DEF Answers, Starting
  <2>2. tags \in Seq(Tags)
    BY <1>5, <2>1 DEF Tags
  <2>3. QED
    BY <1>5, <2>1, <2>2 DEF Starting
<1>6. CASE line.part = "command"
  <2>1. CASE kind[line.req] = "capture"
    <3>1. tags = <<"X">>
      BY <1>6, <2>1 DEF Answers, Starting
    <3>2. tags \in Seq(Tags)
      BY <3>1 DEF Tags
    <3>3. QED
      BY <1>6, <2>1, <3>1, <3>2 DEF Starting
  <2>2. CASE kind[line.req] # "capture"
    <3>1. tags \in FrameLists
      BY <1>6, <2>2 DEF Answers, Starting
    <3>2. tags \in Seq({"A", "B", "X"}) /\ NoAdjacentFence(tags)
      BY <3>1, ClientAssumption DEF ClientAssumption
    <3>3. tags \in Seq(Tags)
      BY <3>2 DEF Tags
    <3>4. QED
      BY <1>6, <2>2, <3>2, <3>3 DEF Starting
  <2>3. QED
    BY <2>1, <2>2
<1>7. QED
  BY <1>1, <1>2, <1>3, <1>4, <1>5, <1>6 DEF Starting

LEMMA AnsweredTypes ==
    ASSUME NEW r \in 0..MaxRequests, NEW own \in BOOLEAN, NEW tags \in Seq(Tags)
    PROVE  /\ Answered(r, own, tags) \in Seq(Frame)
           /\ Len(Answered(r, own, tags)) = Len(tags)
           /\ \A k \in 1..Len(tags) : Answered(r, own, tags)[k] = [req |-> r, own |-> own, tag |-> tags[k]]
<1>1. Len(tags) \in Nat /\ \A k \in 1..Len(tags) : [req |-> r, own |-> own, tag |-> tags[k]] \in Frame
  BY DEF Frame
<1>2. Answered(r, own, tags) \in [1..Len(tags) -> Frame]
  BY <1>1 DEF Answered
<1>3. QED
  BY <1>1, <1>2 DEF Answered

\* What tmux says when it takes the next line of its input.
Saying(said) ==
    LET line == Head(stdin) IN
    /\ stdout' = stdout \o said
    /\ emitted' = IF line.part \in {"command", "output"}
                  THEN [emitted EXCEPT ![line.req] = @ \o said] ELSE emitted
    /\ line.part \in Starting => NoOwn(said) /\ \A k \in 1..Len(said) : said[k].tag \in Blocks
    /\ line.part \notin Starting => \A k \in 1..Len(said) : said[k] = Mark(line.req, said[k].tag)
    /\ line.part \in {"A", "B"} => said = <<Mark(line.req, line.part)>>
    /\ line.part = "N" => said = <<Mark(line.req, "guard"), Mark(line.req, "N")>>
    /\ line.part = "output" => \A k \in 1..Len(said) : said[k].tag \in {"X", "text", "guard"}
    /\ line.part = "command" /\ kind[line.req] = "capture" => said = <<Mark(line.req, "X")>>
    /\ line.part = "command" /\ kind[line.req] # "capture" =>
           \A k \in 1..Len(said) :
               /\ said[k].tag \in {"A", "B", "X"}
               /\ k < Len(said) => ~(said[k].tag = "A" /\ said[k + 1].tag = "B")

\* tmux takes a line and prints; the records are the client's own, and what it
\* says to a request counts as said to it.
LEMMA TmuxSays ==
    ASSUME ProcessTypes, TmuxExecutes
    PROVE  /\ stdin # <<>> /\ Head(stdin) \in Lines
           /\ \E said \in Seq(Frame) : Saying(said)
<1> DEFINE line == Head(stdin)
<1>1. stdin # <<>> /\ line \in Lines
  BY Queue DEF TmuxExecutes, ProcessTypes
<1>2. PICK tags \in Answers(line) :
         /\ stdout' = stdout \o Answered(line.req, line.part \notin Starting, tags)
         /\ emitted' = IF line.part \in {"command", "output"}
                       THEN [emitted EXCEPT ![line.req] = @ \o Answered(line.req, line.part \notin Starting, tags)]
                       ELSE emitted
  BY DEF TmuxExecutes
<1> HIDE DEF line
<1>3. /\ line.req \in 0..MaxRequests /\ (line.part \notin Starting) \in BOOLEAN
      /\ tags \in Seq(Tags)
      /\ line.part \in Starting => tags \in Seq({"X", "E"})
      /\ line.part \in {"A", "B"} => tags = <<line.part>>
      /\ line.part = "N" => tags = <<"guard", "N">>
      /\ line.part = "output" => tags \in Seq({"X", "text", "guard"})
      /\ line.part = "command" =>
                IF kind[line.req] = "capture" THEN tags = <<"X">>
                ELSE tags \in Seq({"A", "B", "X"}) /\ NoAdjacentFence(tags)
  BY <1>1, AnswersTypes DEF Lines
<1> DEFINE own  == line.part \notin Starting
           said == Answered(line.req, own, tags)
<1>4. /\ said \in Seq(Frame) /\ Len(said) = Len(tags) /\ Len(tags) \in Nat
      /\ \A k \in 1..Len(tags) : said[k] = [req |-> line.req, own |-> own, tag |-> tags[k]]
  <2>1. line.req \in 0..MaxRequests /\ own \in BOOLEAN /\ tags \in Seq(Tags)
    BY <1>3
  <2>2. Len(tags) \in Nat
    BY <2>1
  <2> HIDE DEF own
  <2>3. QED
    BY <2>1, <2>2, AnsweredTypes
<1>5. stdout' = stdout \o said
      /\ emitted' = IF line.part \in {"command", "output"}
                    THEN [emitted EXCEPT ![line.req] = @ \o said] ELSE emitted
  BY <1>2
<1> HIDE DEF said, own
<1>6. line.part \notin Starting => own = TRUE
  BY DEF own
<1>7. \A k \in 1..Len(said) : said[k].req = line.req /\ said[k].own = own /\ said[k].tag = tags[k] /\ k \in 1..Len(tags)
  <2> SUFFICES ASSUME NEW k \in 1..Len(said)
               PROVE  said[k].req = line.req /\ said[k].own = own /\ said[k].tag = tags[k] /\ k \in 1..Len(tags)
    OBVIOUS
  <2>1. k \in 1..Len(tags)
    BY <1>4
  <2>2. said[k] = [req |-> line.req, own |-> own, tag |-> tags[k]]
    BY <1>4, <2>1
  <2>3. QED
    BY <2>1, <2>2
<1>8. line.part \in Starting => NoOwn(said) /\ \A k \in 1..Len(said) : said[k].tag \in Blocks
  <2>1. line.part \in Starting => own = FALSE
    BY DEF own
  <2> SUFFICES ASSUME line.part \in Starting, NEW k \in 1..Len(said) PROVE tags[k] \in {"X", "E"}
    BY <1>7, <2>1 DEF Blocks, NoOwn
  <2>2. tags \in Seq({"X", "E"}) /\ k \in 1..Len(tags)
    BY <1>3, <1>7
  <2>3. QED
    BY <2>2
<1>9. line.part \notin Starting => \A k \in 1..Len(said) : said[k] = Mark(line.req, said[k].tag)
  <2> SUFFICES ASSUME line.part \notin Starting, NEW k \in 1..Len(said) PROVE said[k] = Mark(line.req, said[k].tag)
    OBVIOUS
  <2>1. said[k] = [req |-> line.req, own |-> own, tag |-> tags[k]]
    BY <1>4
  <2>2. QED
    BY <1>6, <2>1 DEF Mark
<1>10. line.part \in {"A", "B"} => said = <<Mark(line.req, line.part)>>
  <2> SUFFICES ASSUME line.part \in {"A", "B"} PROVE said = <<Mark(line.req, line.part)>>
    OBVIOUS
  <2>1. tags = <<line.part>> /\ line.part \notin Starting
    BY <1>3 DEF Starting
  <2>2. Len(tags) = 1 /\ tags[1] = line.part
    BY <2>1
  <2>3. Len(said) = 1 /\ said[1] = Mark(line.req, line.part)
    BY <1>4, <1>6, <2>1, <2>2 DEF Mark
  <2>4. QED
    BY <1>4, <2>3
<1>11. line.part = "N" => said = <<Mark(line.req, "guard"), Mark(line.req, "N")>>
  <2>1. ASSUME line.part = "N"
        PROVE  Len(said) = 2 /\ said[1] = Mark(line.req, "guard") /\ said[2] = Mark(line.req, "N")
    <3>1. tags = <<"guard", "N">> /\ line.part \notin Starting
      BY <1>3, <2>1 DEF Starting
    <3>2. Len(tags) = 2 /\ tags[1] = "guard" /\ tags[2] = "N"
      BY <3>1
    <3>3. own = TRUE /\ Len(said) = 2 /\ 1 \in 1..Len(tags) /\ 2 \in 1..Len(tags)
      BY <1>4, <1>6, <3>1, <3>2
    <3>4. said[1] = Mark(line.req, "guard")
      BY <1>4, <3>2, <3>3 DEF Mark
    <3>5. said[2] = Mark(line.req, "N")
      BY <1>4, <3>2, <3>3 DEF Mark
    <3>6. QED
      BY <3>3, <3>4, <3>5
  <2>2. QED
    BY <1>4, <2>1
<1>12. line.part = "output" => \A k \in 1..Len(said) : said[k].tag \in {"X", "text", "guard"}
  <2> SUFFICES ASSUME line.part = "output", NEW k \in 1..Len(said) PROVE tags[k] \in {"X", "text", "guard"}
    BY <1>7
  <2>1. tags \in Seq({"X", "text", "guard"}) /\ k \in 1..Len(tags)
    BY <1>3, <1>7
  <2>2. QED
    BY <2>1
<1>13. line.part = "command" /\ kind[line.req] = "capture" => said = <<Mark(line.req, "X")>>
  <2> SUFFICES ASSUME line.part = "command", kind[line.req] = "capture" PROVE said = <<Mark(line.req, "X")>>
    OBVIOUS
  <2>1. tags = <<"X">> /\ line.part \notin Starting
    BY <1>3 DEF Starting
  <2>2. Len(tags) = 1 /\ tags[1] = "X"
    BY <2>1
  <2>3. Len(said) = 1 /\ said[1] = Mark(line.req, "X")
    BY <1>4, <1>6, <2>1, <2>2 DEF Mark
  <2>4. QED
    BY <1>4, <2>3
<1>14. line.part = "command" /\ kind[line.req] # "capture" =>
           \A k \in 1..Len(said) :
               /\ said[k].tag \in {"A", "B", "X"}
               /\ k < Len(said) => ~(said[k].tag = "A" /\ said[k + 1].tag = "B")
  <2> SUFFICES ASSUME line.part = "command", kind[line.req] # "capture", NEW k \in 1..Len(said)
               PROVE  /\ said[k].tag \in {"A", "B", "X"}
                      /\ k < Len(said) => ~(said[k].tag = "A" /\ said[k + 1].tag = "B")
    OBVIOUS
  <2>1. tags \in Seq({"A", "B", "X"}) /\ NoAdjacentFence(tags) /\ k \in 1..Len(tags) /\ said[k].tag = tags[k]
    BY <1>3, <1>7
  <2>2. k < Len(said) => k \in 1..(Len(tags) - 1) /\ k + 1 \in 1..Len(tags) /\ said[k + 1].tag = tags[k + 1]
    BY <1>4, <1>7
  <2>3. QED
    BY <2>1, <2>2 DEF NoAdjacentFence
<1>15. Saying(said)
  BY <1>5, <1>8, <1>9, <1>10, <1>11, <1>12, <1>13, <1>14 DEF Saying, line
<1>16. QED
  BY <1>1, <1>4, <1>15 DEF line

\* The rest of what it does then.
LEMMA TmuxTakes ==
    ASSUME ProcessTypes, TmuxExecutes
    PROVE  /\ alive /\ alive' = alive /\ foreign' = foreign
           /\ ran' = [r \in Requests |-> ran[r] \/ r = Head(stdin).req]
           /\ stdin' \in Seq(Lines)
           /\ ~(Head(stdin).part = "command" /\ kind[Head(stdin).req] = "capture") => stdin' = Tail(stdin)
           /\ Head(stdin).part = "command" /\ kind[Head(stdin).req] = "capture" =>
                 /\ Len(stdin') = Len(stdin) /\ stdin'[1] = [req |-> Head(stdin).req, part |-> "output"]
                 /\ \A j \in 2..Len(stdin) : stdin'[j] = stdin[j]
<1> DEFINE line  == Head(stdin)
           later == line.part = "command" /\ kind[line.req] = "capture"
           more  == [line EXCEPT !.part = "output"]
<1>1. stdin # <<>> /\ line \in Lines /\ Tail(stdin) \in Seq(Lines) /\ Len(Tail(stdin)) = Len(stdin) - 1 /\ Len(stdin) \in Nat
  BY Queue DEF TmuxExecutes, ProcessTypes
<1>2. more \in Lines /\ more = [req |-> line.req, part |-> "output"]
  BY <1>1 DEF Lines
<1>3. stdin' = (IF later THEN <<more>> ELSE <<>>) \o Tail(stdin)
  BY DEF TmuxExecutes
<1>4. /\ alive /\ alive' = alive /\ foreign' = foreign
      /\ ran' = [r \in Requests |-> ran[r] \/ r = line.req]
  BY DEF TmuxExecutes, processVars
<1>5. \A j \in 2..Len(stdin) : Tail(stdin)[j - 1] = stdin[j]
  BY <1>1 DEF ProcessTypes
<1> HIDE DEF line, more
<1>6. CASE later
  <2>1. stdin' = <<more>> \o Tail(stdin)
    BY <1>3, <1>6
  <2>2. stdin' \in Seq(Lines) /\ Len(stdin') = Len(stdin) /\ stdin'[1] = more
    BY <1>1, <1>2, <2>1
  <2>3. \A j \in 2..Len(stdin) : stdin'[j] = Tail(stdin)[j - 1]
    BY <1>1, <1>2, <2>1
  <2>4. QED
    BY <1>2, <1>4, <1>5, <1>6, <2>2, <2>3 DEF line
<1>7. CASE ~later
  <2>1. stdin' = Tail(stdin)
    <3>1. stdin' = <<>> \o Tail(stdin)
      BY <1>3, <1>7
    <3>2. QED
      BY <1>1, <3>1
  <2>2. QED
    BY <1>1, <1>4, <1>7, <2>1 DEF line
<1>8. QED
  BY <1>6, <1>7

\* The parts are TypeOK.
LEMMA TypeParts == TypeInv <=> TypeOK
BY DEF TypeInv, CallerTypes, RequestTypes, WorkerTypes, LifeTypes, Lines, ProcessTypes, ReaderTypes,
   TypeOK

LEMMA TellTypes ==
    ASSUME CallerTypes, NEW c \in Callers, NEW reply \in Replies, Tell(c, reply)
    PROVE  CallerTypes'
BY DEF CallerTypes, Tell

LEMMA RespondTypes ==
    ASSUME WorkerTypes, NEW reply \in Replies, NEW next, Respond(reply, next), next \in {"respond", "respondLast"}
    PROVE  WorkerTypes'
BY DEF WorkerTypes, Respond

\* The next record for the channel waits for room in it.
LEMMA MarkedIsSent ==
    ASSUME Marked, ProcessTypes, ReaderTypes, Reading, Head(stdout).tag = "N"
    PROVE  Head(stdout).own /\ Len(frames) # 1
<1>1. stdout # <<>> /\ Head(stdout) = stdout[1] /\ Len(stdout) \in Nat \ {0}
  BY Queue DEF Reading, ProcessTypes
<1>2. Head(stdout).own
  BY <1>1 DEF Marked, OursOrBlocks, Blocks
<1>3. QED
  BY <1>1, <1>2 DEF Reading, SendBlocked, ToChannel, Captures

\* Every step keeps the types, a group of variables at a time.
LEMMA CallerTypesStep ==
    ASSUME TypeInv, Next
    PROVE  CallerTypes'
<1>1. ASSUME UNCHANGED <<pc, req, made, kind, result>> PROVE CallerTypes'
  BY <1>1 DEF CallerTypes, RequestTypes, WorkerTypes, ReaderTypes, TypeInv
<1>2. ASSUME NEW c \in Callers, CancelContext(c) PROVE CallerTypes'
  BY <1>1, <1>2 DEF CancelContext, callerVars, requestVars, workerVars, processVars, parserVars,
     readerVars, openVars, lifeVars
<1>3. ASSUME NEW c \in Callers, Call(c) PROVE CallerTypes'
  <2>1. PICK k \in Kinds : kind' = [kind EXCEPT ![made'] = k]
    BY <1>3 DEF Call
  <2>2. k \in {"none", "command", "fence", "capture"} /\ made' \in 0..MaxRequests
    BY <1>3, Bounds DEF Call, CallerTypes, TypeInv
  <2>3. QED
    BY <1>3, <2>1, <2>2 DEF Call, CallerTypes, TypeInv
<1>4. ASSUME NEW c \in Callers, CheckClosed(c) PROVE CallerTypes'
  <2>1. Reply("closed", <<>>) \in Replies
    BY SomeReplies
  <2>2. CASE closeRequested
    BY <1>4, <2>1, <2>2, TellTypes DEF CheckClosed, TypeInv
  <2>3. CASE ~closeRequested
    BY <1>4, <2>3 DEF CheckClosed, CallerTypes, TypeInv
  <2>4. QED
    BY <2>2, <2>3
<1>5. ASSUME NEW c \in Callers, SubmitGivesUp(c) PROVE CallerTypes'
  BY <1>5, SomeReplies, TellTypes DEF SubmitGivesUp, TypeInv
<1>6. ASSUME NEW c \in Callers, Receive(c) PROVE CallerTypes'
  BY <1>6 DEF CallerTypes, RequestTypes, WorkerTypes, ReaderTypes, TypeInv, Receive, callerVars,
     requestVars, workerVars, processVars, parserVars, readerVars, openVars, lifeVars
<1>7. ASSUME NEW c \in Callers, AwaitResponse(c) PROVE CallerTypes'
  <2>1. Tell(c, Head(response[req[c]]))
    BY <1>7 DEF AwaitResponse
  <2>2. CASE req[c] \in Requests
    BY <1>7, <2>1, <2>2, Queue, TellTypes DEF AwaitResponse, RequestTypes, TypeInv
  <2>3. CASE req[c] \notin Requests
    <3>1. \A reply : [result EXCEPT ![req[c]] = reply] = result
      BY <2>3 DEF CallerTypes, TypeInv
    <3>2. QED
      BY <2>1, <3>1 DEF Tell, CallerTypes, TypeInv
  <2>4. QED
    BY <2>2, <2>3
<1>8. ASSUME NEW c \in Callers, CancelBeforeWrite(c) PROVE CallerTypes'
  <2>1. CASE Tell(c, Reply("ctx", <<>>))
    BY <2>1, SomeReplies, TellTypes DEF TypeInv
  <2>2. CASE ~Tell(c, Reply("ctx", <<>>))
    BY <1>8, <2>2 DEF CancelBeforeWrite, CallerTypes, TypeInv
  <2>3. QED
    BY <2>1, <2>2
<1>9. ASSUME NEW c \in Callers, CanceledTooLate(c) PROVE CallerTypes'
  <2>1. CASE Tell(c, Reply("unknown", <<>>))
    BY <2>1, SomeReplies, TellTypes DEF TypeInv
  <2>2. CASE ~Tell(c, Reply("unknown", <<>>))
    BY <1>9, <2>2 DEF CanceledTooLate, CallerTypes, TypeInv
  <2>3. QED
    BY <2>1, <2>2
<1>10. CASE OpenFails \/ AcceptGuard \/ AcceptAttach \/ BeginDispatching \/ WriteCalibration \/ FirstReply \/ SecondReply \/ Register \/ CancelOpen
  BY <1>1, <1>10 DEF OpenFails, AcceptGuard, AcceptAttach, BeginDispatching, WriteCalibration,
     FirstReply, SecondReply, Register, CancelOpen, StartupFails, Took, callerVars, requestVars,
     workerVars, processVars, parserVars, readerVars, openVars, lifeVars
<1>11. CASE SkipForeign \/ TakeCapture \/ Accept \/ RefuseClosed \/ CheckContext \/ ClaimWrite \/ WriteFails \/ BoundaryReached \/ CollectFrame \/ ReadFails \/ SendResponse \/ StopRequests \/ Write
  BY <1>1, <1>11 DEF SkipForeign, TakeCapture, Accept, RefuseClosed, CheckContext, ClaimWrite,
     WriteFails, BoundaryReached, CollectFrame, ReadFails, SendResponse, StopRequests, Write,
     Respond, Finish, callerVars, requestVars, workerVars, processVars, parserVars, readerVars,
     openVars, lifeVars
<1>12. CASE TmuxExecutes \/ TmuxForeignBlock \/ TmuxExits
  BY <1>1, <1>12 DEF TmuxExecutes, TmuxForeignBlock, TmuxExits, callerVars, requestVars, workerVars,
     processVars, parserVars, readerVars, openVars, lifeVars
<1>13. CASE ReadFrame \/ CaptureLine \/ CaptureEnds \/ ReaderEnds \/ ReaderFails
  BY <1>1, <1>13 DEF ReadFrame, CaptureLine, CaptureEnds, ReaderEnds, ReaderFails, callerVars,
     requestVars, workerVars, processVars, parserVars, readerVars, openVars, lifeVars
<1>14. CASE StartClose \/ BeginClosing \/ CloseStdin \/ CloseProcess
  BY <1>1, <1>14 DEF StartClose, BeginClosing, CloseStdin, CloseProcess, callerVars, requestVars,
     workerVars, processVars, parserVars, readerVars, openVars, lifeVars
<1>15. QED
  BY <1>2, <1>3, <1>4, <1>5, <1>6, <1>7, <1>8, <1>9, <1>10, <1>11, <1>12, <1>13, <1>14 DEF Next,
     CallerStep, OpenerStep, WorkerStep, ReaderStep, CloserStep

LEMMA RequestTypesStep ==
    ASSUME TypeInv, Handled, Next
    PROVE  RequestTypes'
<1>1. ASSUME UNCHANGED <<ctxDone, state, response>> PROVE RequestTypes'
  BY <1>1 DEF CallerTypes, RequestTypes, WorkerTypes, ReaderTypes, TypeInv
<1>2. ASSUME NEW c \in Callers, Call(c) \/ CheckClosed(c) \/ SubmitGivesUp(c) \/ Receive(c) \/ CanceledTooLate(c) PROVE RequestTypes'
  BY <1>1, <1>2 DEF Call, CheckClosed, SubmitGivesUp, Receive, CanceledTooLate, Tell, callerVars,
     requestVars, workerVars, processVars, parserVars, readerVars, openVars, lifeVars
<1>3. ASSUME NEW c \in Callers, CancelContext(c) PROVE RequestTypes'
  BY <1>3 DEF CallerTypes, RequestTypes, WorkerTypes, ReaderTypes, TypeInv, CancelContext,
     callerVars, requestVars, workerVars, processVars, parserVars, readerVars, openVars, lifeVars
<1>4. ASSUME NEW c \in Callers, AwaitResponse(c) PROVE RequestTypes'
  <2>1. CASE req[c] \in Requests
    <3>1. Tail(response[req[c]]) \in Seq(Replies) /\ Len(Tail(response[req[c]])) = Len(response[req[c]]) - 1
          /\ Len(response[req[c]]) \in Nat
      BY <1>4, <2>1, Queue DEF AwaitResponse, RequestTypes, TypeInv
    <3>2. QED
      BY <1>4, <2>1, <3>1 DEF AwaitResponse, RequestTypes, TypeInv
  <2>2. CASE req[c] \notin Requests
    <3>1. response' = response
      BY <1>4, <2>2 DEF AwaitResponse, RequestTypes, TypeInv
    <3>2. QED
      BY <1>4, <3>1 DEF AwaitResponse, RequestTypes, TypeInv
  <2>3. QED
    BY <2>1, <2>2
<1>5. ASSUME NEW c \in Callers, CancelBeforeWrite(c) PROVE RequestTypes'
  BY <1>5 DEF CancelBeforeWrite, RequestTypes, TypeInv
<1>6. CASE OpenFails \/ AcceptGuard \/ AcceptAttach \/ BeginDispatching \/ WriteCalibration \/ FirstReply \/ SecondReply \/ Register \/ CancelOpen
  BY <1>1, <1>6 DEF OpenFails, AcceptGuard, AcceptAttach, BeginDispatching, WriteCalibration,
     FirstReply, SecondReply, Register, CancelOpen, StartupFails, Took, callerVars, requestVars,
     workerVars, processVars, parserVars, readerVars, openVars, lifeVars
<1>7. CASE SkipForeign \/ TakeCapture \/ CollectFrame \/ StopRequests \/ Write
  BY <1>1, <1>7 DEF SkipForeign, TakeCapture, CollectFrame, StopRequests, Write, callerVars,
     requestVars, workerVars, processVars, parserVars, readerVars, openVars, lifeVars
<1>8. CASE Accept
  BY <1>8 DEF Accept, RequestTypes, TypeInv
<1>9. CASE RefuseClosed
  BY <1>9 DEF RefuseClosed, RequestTypes, TypeInv
<1>10. CASE CheckContext
  BY <1>10 DEF CheckContext, RequestTypes, TypeInv
<1>11. CASE ClaimWrite
  BY <1>11 DEF ClaimWrite, RequestTypes, TypeInv
<1>12. CASE WriteFails
  BY <1>12 DEF CallerTypes, RequestTypes, WorkerTypes, ReaderTypes, TypeInv, WriteFails, Respond,
     Finish, callerVars, requestVars, workerVars, processVars, parserVars, readerVars, openVars,
     lifeVars
<1>13. CASE BoundaryReached
  BY <1>13 DEF CallerTypes, RequestTypes, WorkerTypes, ReaderTypes, TypeInv, BoundaryReached,
     Respond, Finish, callerVars, requestVars, workerVars, processVars, parserVars, readerVars,
     openVars, lifeVars
<1>14. CASE ReadFails
  BY <1>14 DEF CallerTypes, RequestTypes, WorkerTypes, ReaderTypes, TypeInv, ReadFails, Respond,
     Finish, callerVars, requestVars, workerVars, processVars, parserVars, readerVars, openVars,
     lifeVars
<1>15. CASE SendResponse
  <2>1. cur \in Requests /\ response[cur] = <<>>
    BY <1>15, Bounds DEF SendResponse, Handled, Handling, CallerTypes, WorkerTypes, TypeInv
  <2>2. resp \in Replies
    BY DEF WorkerTypes, TypeInv
  <2>3. Append(response[cur], resp) \in Seq(Replies) /\ Len(Append(response[cur], resp)) = 1
    BY <2>1, <2>2
  <2>4. QED
    BY <1>15, <2>1, <2>3 DEF SendResponse, RequestTypes, TypeInv
<1>16. CASE TmuxExecutes \/ TmuxForeignBlock \/ TmuxExits
  BY <1>1, <1>16 DEF TmuxExecutes, TmuxForeignBlock, TmuxExits, callerVars, requestVars, workerVars,
     processVars, parserVars, readerVars, openVars, lifeVars
<1>17. CASE ReadFrame \/ CaptureLine \/ CaptureEnds \/ ReaderEnds \/ ReaderFails
  BY <1>1, <1>17 DEF ReadFrame, CaptureLine, CaptureEnds, ReaderEnds, ReaderFails, callerVars,
     requestVars, workerVars, processVars, parserVars, readerVars, openVars, lifeVars
<1>18. CASE StartClose \/ BeginClosing \/ CloseStdin \/ CloseProcess
  BY <1>1, <1>18 DEF StartClose, BeginClosing, CloseStdin, CloseProcess, callerVars, requestVars,
     workerVars, processVars, parserVars, readerVars, openVars, lifeVars
<1>19. QED
  BY <1>2, <1>3, <1>4, <1>5, <1>6, <1>7, <1>8, <1>9, <1>10, <1>11, <1>12, <1>13, <1>14, <1>15,
     <1>16, <1>17, <1>18 DEF Next, CallerStep, OpenerStep, WorkerStep, ReaderStep, CloserStep

LEMMA WorkerTypesStep ==
    ASSUME TypeInv, Next
    PROVE  WorkerTypes'
<1>1. ASSUME UNCHANGED <<wpc, cur, results, pendingFirst, resp>> PROVE WorkerTypes'
  BY <1>1 DEF CallerTypes, RequestTypes, WorkerTypes, ReaderTypes, TypeInv
<1>2. ASSUME NEW c \in Callers, Call(c) \/ CancelContext(c) \/ CheckClosed(c) \/ SubmitGivesUp(c) \/ AwaitResponse(c) \/ CancelBeforeWrite(c) \/ CanceledTooLate(c) PROVE WorkerTypes'
  BY <1>1, <1>2 DEF Call, CancelContext, CheckClosed, SubmitGivesUp, AwaitResponse,
     CancelBeforeWrite, CanceledTooLate, Tell, callerVars, requestVars, workerVars, processVars,
     parserVars, readerVars, openVars, lifeVars
<1>3. ASSUME NEW c \in Callers, Receive(c) PROVE WorkerTypes'
  BY <1>3 DEF CallerTypes, RequestTypes, WorkerTypes, ReaderTypes, TypeInv, Receive, callerVars,
     requestVars, workerVars, processVars, parserVars, readerVars, openVars, lifeVars
<1>4. CASE CancelOpen
  BY <1>1, <1>4 DEF CancelOpen, callerVars, requestVars, workerVars, processVars, parserVars,
     readerVars, openVars, lifeVars
<1>5. CASE OpenFails
  BY <1>5 DEF CallerTypes, RequestTypes, WorkerTypes, ReaderTypes, TypeInv, OpenFails, StartupFails,
     Opening, callerVars, requestVars, workerVars, processVars, parserVars, readerVars, openVars,
     lifeVars
<1>6. CASE AcceptGuard
  BY <1>6 DEF CallerTypes, RequestTypes, WorkerTypes, ReaderTypes, TypeInv, AcceptGuard, Took,
     StartupFails, callerVars, requestVars, workerVars, processVars, parserVars, readerVars,
     openVars, lifeVars
<1>7. CASE AcceptAttach
  BY <1>7 DEF CallerTypes, RequestTypes, WorkerTypes, ReaderTypes, TypeInv, AcceptAttach, Took,
     StartupFails, callerVars, requestVars, workerVars, processVars, parserVars, readerVars,
     openVars, lifeVars
<1>8. CASE BeginDispatching
  BY <1>8 DEF CallerTypes, RequestTypes, WorkerTypes, ReaderTypes, TypeInv, BeginDispatching,
     callerVars, requestVars, workerVars, processVars, parserVars, readerVars, openVars, lifeVars
<1>9. CASE WriteCalibration
  BY <1>9 DEF CallerTypes, RequestTypes, WorkerTypes, ReaderTypes, TypeInv, WriteCalibration,
     callerVars, requestVars, workerVars, processVars, parserVars, readerVars, openVars, lifeVars
<1>10. CASE FirstReply
  BY <1>10 DEF CallerTypes, RequestTypes, WorkerTypes, ReaderTypes, TypeInv, FirstReply, Took,
     StartupFails, callerVars, requestVars, workerVars, processVars, parserVars, readerVars,
     openVars, lifeVars
<1>11. CASE SecondReply
  BY <1>11 DEF CallerTypes, RequestTypes, WorkerTypes, ReaderTypes, TypeInv, SecondReply, Took,
     StartupFails, callerVars, requestVars, workerVars, processVars, parserVars, readerVars,
     openVars, lifeVars
<1>12. CASE Register
  BY <1>12 DEF CallerTypes, RequestTypes, WorkerTypes, ReaderTypes, TypeInv, Register, callerVars,
     requestVars, workerVars, processVars, parserVars, readerVars, openVars, lifeVars
<1>13. CASE SkipForeign \/ TakeCapture
  BY <1>1, <1>13 DEF SkipForeign, TakeCapture, callerVars, requestVars, workerVars, processVars,
     parserVars, readerVars, openVars, lifeVars
<1>14. CASE Accept
  <2>1. CASE Respond(Reply("ctx", <<>>), "respond")
    BY <2>1, SomeReplies, RespondTypes DEF TypeInv
  <2>2. CASE ~Respond(Reply("ctx", <<>>), "respond")
    BY <1>14, <2>2 DEF Accept, WorkerTypes, TypeInv
  <2>3. QED
    BY <2>1, <2>2
<1>15. CASE RefuseClosed
  <2>1. CASE Respond(Reply("closed", <<>>), "respondLast")
    BY <2>1, SomeReplies, RespondTypes DEF TypeInv
  <2>2. CASE ~Respond(Reply("closed", <<>>), "respondLast")
    BY <1>15, <2>2 DEF RefuseClosed, WorkerTypes, TypeInv
  <2>3. QED
    BY <2>1, <2>2
<1>16. CASE CheckContext
  <2>1. CASE Respond(Reply("ctx", <<>>), "respond")
    BY <2>1, SomeReplies, RespondTypes DEF TypeInv
  <2>2. CASE ~Respond(Reply("ctx", <<>>), "respond")
    BY <1>16, <2>2 DEF CheckContext, WorkerTypes, TypeInv
  <2>3. QED
    BY <2>1, <2>2
<1>17. CASE ClaimWrite
  <2>1. CASE Respond(Reply("ctx", <<>>), "respond")
    BY <2>1, SomeReplies, RespondTypes DEF TypeInv
  <2>2. CASE ~Respond(Reply("ctx", <<>>), "respond")
    BY <1>17, <2>2 DEF ClaimWrite, WorkerTypes, TypeInv
  <2>3. QED
    BY <2>1, <2>2
<1>18. CASE WriteFails
  BY <1>18, SomeReplies, RespondTypes DEF WriteFails, Finish, TypeInv
<1>19. CASE BoundaryReached
  <2>1. results \o lines \in Seq(Frame)
    BY DEF WorkerTypes, ReaderTypes, TypeInv
  <2>2. QED
    BY <1>19, <2>1, SomeReplies, RespondTypes DEF BoundaryReached, Finish, TypeInv
<1>20. CASE CollectFrame
  <2>1. Head(frames) \in Frame
    BY <1>20, Queue DEF CollectFrame, OneMoreFrame, ReaderTypes, TypeInv
  <2>2. (IF pendingFirst = NoFrame THEN results ELSE Append(results, pendingFirst)) \in Seq(Frame)
    BY DEF WorkerTypes, TypeInv
  <2>3. Append(IF pendingFirst = NoFrame THEN results ELSE Append(results, pendingFirst), Head(frames)) \in Seq(Frame)
    BY <2>1, <2>2
  <2>4. results' \in Seq(Frame) /\ pendingFirst' \in Frame \cup {NoFrame} /\ UNCHANGED <<wpc, cur, resp>>
    <3>1. CASE Head(frames).tag = fence[1]
      BY <1>20, <2>1, <2>2, <3>1 DEF CollectFrame
    <3>2. CASE Head(frames).tag # fence[1]
      BY <1>20, <2>1, <2>3, <3>2 DEF CollectFrame
    <3>3. QED
      BY <3>1, <3>2
  <2>5. QED
    BY <2>4 DEF WorkerTypes, TypeInv
<1>21. CASE ReadFails
  <2>1. results \in Seq(Frame)
    BY DEF WorkerTypes, TypeInv
  <2>2. QED
    BY <1>21, <2>1, SomeReplies, RespondTypes DEF ReadFails, Finish, TypeInv
<1>22. CASE SendResponse
  BY <1>22, SomeReplies, FrameTypes DEF SendResponse, WorkerTypes, TypeInv
<1>23. CASE StopRequests
  BY <1>23 DEF CallerTypes, RequestTypes, WorkerTypes, ReaderTypes, TypeInv, StopRequests,
     callerVars, requestVars, workerVars, processVars, parserVars, readerVars, openVars, lifeVars
<1>24. CASE Write
  BY <1>24 DEF CallerTypes, RequestTypes, WorkerTypes, ReaderTypes, TypeInv, Write, Line,
     callerVars, requestVars, workerVars, processVars, parserVars, readerVars, openVars, lifeVars
<1>25. CASE TmuxExecutes \/ TmuxForeignBlock \/ TmuxExits
  BY <1>1, <1>25 DEF TmuxExecutes, TmuxForeignBlock, TmuxExits, callerVars, requestVars, workerVars,
     processVars, parserVars, readerVars, openVars, lifeVars
<1>26. CASE ReadFrame \/ CaptureLine \/ CaptureEnds \/ ReaderEnds \/ ReaderFails
  BY <1>1, <1>26 DEF ReadFrame, CaptureLine, CaptureEnds, ReaderEnds, ReaderFails, callerVars,
     requestVars, workerVars, processVars, parserVars, readerVars, openVars, lifeVars
<1>27. CASE StartClose \/ BeginClosing \/ CloseStdin \/ CloseProcess
  BY <1>1, <1>27 DEF StartClose, BeginClosing, CloseStdin, CloseProcess, callerVars, requestVars,
     workerVars, processVars, parserVars, readerVars, openVars, lifeVars
<1>28. QED
  BY <1>2, <1>3, <1>4, <1>5, <1>6, <1>7, <1>8, <1>9, <1>10, <1>11, <1>12, <1>13, <1>14, <1>15,
     <1>16, <1>17, <1>18, <1>19, <1>20, <1>21, <1>22, <1>23, <1>24, <1>25, <1>26, <1>27 DEF Next,
     CallerStep, OpenerStep, WorkerStep, ReaderStep, CloserStep

LEMMA LifeTypesStep ==
    ASSUME TypeInv, Next
    PROVE  LifeTypes'
<1>1. ASSUME UNCHANGED <<openCtx, dispatching, fence, stdinOpen, closeRequested, closing, closePhase>> PROVE LifeTypes'
  BY <1>1 DEF LifeTypes, ProcessTypes, ReaderTypes, WorkerTypes, TypeInv
<1>2. ASSUME NEW c \in Callers, Call(c) \/ CancelContext(c) \/ CheckClosed(c) \/ SubmitGivesUp(c) \/ Receive(c) \/ AwaitResponse(c) \/ CancelBeforeWrite(c) \/ CanceledTooLate(c) PROVE LifeTypes'
  BY <1>1, <1>2 DEF Call, CancelContext, CheckClosed, SubmitGivesUp, Receive, AwaitResponse,
     CancelBeforeWrite, CanceledTooLate, Tell, callerVars, requestVars, workerVars, processVars,
     parserVars, readerVars, openVars, lifeVars
<1>3. CASE WriteCalibration
  BY <1>1, <1>3 DEF WriteCalibration, callerVars, requestVars, workerVars, processVars, parserVars,
     readerVars, openVars, lifeVars
<1>4. CASE OpenFails
  BY <1>4 DEF LifeTypes, ProcessTypes, ReaderTypes, WorkerTypes, TypeInv, OpenFails, StartupFails,
     Opening, callerVars, requestVars, workerVars, processVars, parserVars, readerVars, openVars,
     lifeVars
<1>5. CASE AcceptGuard
  BY <1>5 DEF LifeTypes, ProcessTypes, ReaderTypes, WorkerTypes, TypeInv, AcceptGuard, Took,
     StartupFails, callerVars, requestVars, workerVars, processVars, parserVars, readerVars,
     openVars, lifeVars
<1>6. CASE AcceptAttach
  BY <1>6 DEF LifeTypes, ProcessTypes, ReaderTypes, WorkerTypes, TypeInv, AcceptAttach, Took,
     StartupFails, callerVars, requestVars, workerVars, processVars, parserVars, readerVars,
     openVars, lifeVars
<1>7. CASE BeginDispatching
  BY <1>7 DEF LifeTypes, ProcessTypes, ReaderTypes, WorkerTypes, TypeInv, BeginDispatching,
     callerVars, requestVars, workerVars, processVars, parserVars, readerVars, openVars, lifeVars
<1>8. CASE FirstReply
  <2>1. Head(frames) \in Frame
    BY <1>8, Queue DEF FirstReply, ReaderTypes, TypeInv
  <2>2. Head(frames).tag \in Tags
    BY <2>1, FrameTypes
  <2>3. fence' \in [1..2 -> Tags \cup {"none"}]
    BY <1>8, <2>2 DEF FirstReply, LifeTypes, TypeInv
  <2>4. QED
    BY <1>8, <2>3 DEF FirstReply, Took, StartupFails, LifeTypes, TypeInv
<1>9. CASE SecondReply
  <2>1. Head(frames) \in Frame
    BY <1>9, Queue DEF SecondReply, ReaderTypes, TypeInv
  <2>2. Head(frames).tag \in Tags
    BY <2>1, FrameTypes
  <2>3. fence' \in [1..2 -> Tags \cup {"none"}]
    BY <1>9, <2>2 DEF SecondReply, LifeTypes, TypeInv
  <2>4. QED
    BY <1>9, <2>3 DEF SecondReply, Took, StartupFails, LifeTypes, TypeInv
<1>10. CASE Register
  BY <1>10 DEF LifeTypes, ProcessTypes, ReaderTypes, WorkerTypes, TypeInv, Register, callerVars,
     requestVars, workerVars, processVars, parserVars, readerVars, openVars, lifeVars
<1>11. CASE CancelOpen
  BY <1>11 DEF LifeTypes, ProcessTypes, ReaderTypes, WorkerTypes, TypeInv, CancelOpen, Opening,
     callerVars, requestVars, workerVars, processVars, parserVars, readerVars, openVars, lifeVars
<1>12. CASE SkipForeign \/ TakeCapture \/ Accept \/ RefuseClosed \/ CheckContext \/ ClaimWrite \/ WriteFails \/ BoundaryReached \/ CollectFrame \/ ReadFails \/ SendResponse \/ StopRequests \/ Write
  BY <1>1, <1>12 DEF SkipForeign, TakeCapture, Accept, RefuseClosed, CheckContext, ClaimWrite,
     WriteFails, BoundaryReached, CollectFrame, ReadFails, SendResponse, StopRequests, Write,
     Respond, Finish, callerVars, requestVars, workerVars, processVars, parserVars, readerVars,
     openVars, lifeVars
<1>13. CASE TmuxExecutes \/ TmuxForeignBlock \/ TmuxExits
  BY <1>1, <1>13 DEF TmuxExecutes, TmuxForeignBlock, TmuxExits, callerVars, requestVars, workerVars,
     processVars, parserVars, readerVars, openVars, lifeVars
<1>14. CASE ReadFrame \/ CaptureLine \/ CaptureEnds \/ ReaderEnds \/ ReaderFails
  BY <1>1, <1>14 DEF ReadFrame, CaptureLine, CaptureEnds, ReaderEnds, ReaderFails, callerVars,
     requestVars, workerVars, processVars, parserVars, readerVars, openVars, lifeVars
<1>15. CASE StartClose
  BY <1>15 DEF LifeTypes, ProcessTypes, ReaderTypes, WorkerTypes, TypeInv, StartClose, Opening,
     HandedOut, callerVars, requestVars, workerVars, processVars, parserVars, readerVars, openVars,
     lifeVars
<1>16. CASE BeginClosing
  BY <1>16 DEF LifeTypes, ProcessTypes, ReaderTypes, WorkerTypes, TypeInv, BeginClosing, callerVars,
     requestVars, workerVars, processVars, parserVars, readerVars, openVars, lifeVars
<1>17. CASE CloseStdin
  BY <1>17 DEF LifeTypes, ProcessTypes, ReaderTypes, WorkerTypes, TypeInv, CloseStdin, callerVars,
     requestVars, workerVars, processVars, parserVars, readerVars, openVars, lifeVars
<1>18. CASE CloseProcess
  BY <1>18 DEF LifeTypes, ProcessTypes, ReaderTypes, WorkerTypes, TypeInv, CloseProcess, callerVars,
     requestVars, workerVars, processVars, parserVars, readerVars, openVars, lifeVars
<1>19. QED
  BY <1>2, <1>3, <1>4, <1>5, <1>6, <1>7, <1>8, <1>9, <1>10, <1>11, <1>12, <1>13, <1>14, <1>15,
     <1>16, <1>17, <1>18 DEF Next, CallerStep, OpenerStep, WorkerStep, ReaderStep, CloserStep

LEMMA ProcessTypesStep ==
    ASSUME TypeInv, Next
    PROVE  ProcessTypes'
<1>1. ASSUME UNCHANGED <<stdin, alive, ran, emitted, foreign, stdout>> PROVE ProcessTypes'
  BY <1>1 DEF LifeTypes, ProcessTypes, ReaderTypes, WorkerTypes, TypeInv
<1>2. ASSUME NEW c \in Callers, Call(c) \/ CancelContext(c) \/ CheckClosed(c) \/ SubmitGivesUp(c) \/ Receive(c) \/ AwaitResponse(c) \/ CancelBeforeWrite(c) \/ CanceledTooLate(c) PROVE ProcessTypes'
  BY <1>1, <1>2 DEF Call, CancelContext, CheckClosed, SubmitGivesUp, Receive, AwaitResponse,
     CancelBeforeWrite, CanceledTooLate, Tell, callerVars, requestVars, workerVars, processVars,
     parserVars, readerVars, openVars, lifeVars
<1>3. CASE OpenFails \/ AcceptGuard \/ AcceptAttach \/ BeginDispatching \/ FirstReply \/ SecondReply \/ Register \/ CancelOpen
  BY <1>1, <1>3 DEF OpenFails, AcceptGuard, AcceptAttach, BeginDispatching, FirstReply, SecondReply,
     Register, CancelOpen, StartupFails, Took, callerVars, requestVars, workerVars, processVars,
     parserVars, readerVars, openVars, lifeVars
<1>4. CASE WriteCalibration
  <2>1. <<[req |-> 0, part |-> "A"], [req |-> 0, part |-> "B"]>> \in Seq(Lines)
    BY Bounds DEF Lines
  <2>2. stdin' \in Seq(Lines)
    BY <1>4, <2>1 DEF WriteCalibration, ProcessTypes, TypeInv
  <2>3. QED
    BY <1>4, <2>2 DEF WriteCalibration, ProcessTypes, TypeInv, processVars
<1>5. CASE SkipForeign \/ TakeCapture \/ Accept \/ RefuseClosed \/ CheckContext \/ ClaimWrite \/ BoundaryReached \/ CollectFrame \/ ReadFails \/ SendResponse \/ StopRequests
  BY <1>1, <1>5 DEF SkipForeign, TakeCapture, Accept, RefuseClosed, CheckContext, ClaimWrite,
     BoundaryReached, CollectFrame, ReadFails, SendResponse, StopRequests, Respond, Finish,
     callerVars, requestVars, workerVars, processVars, parserVars, readerVars, openVars, lifeVars
<1>6. CASE WriteFails
  <2>1. PICK executed \in BOOLEAN : ran' = [ran EXCEPT ![cur] = executed]
    BY <1>6 DEF WriteFails
  <2>2. ran' \in [Requests -> BOOLEAN]
    BY <2>1 DEF ProcessTypes, TypeInv
  <2>3. QED
    BY <1>6, <2>2 DEF WriteFails, ProcessTypes, TypeInv
<1>7. CASE Write
  <2>1. Line("command") \in Lines /\ Line("N") \in Lines /\ Line("A") \in Lines /\ Line("B") \in Lines
    BY DEF Lines, Line, WorkerTypes, TypeInv
  <2>2. (IF kind[cur] = "fence" THEN <<>> ELSE <<Line("command")>>) \in Seq(Lines)
        /\ (IF kind[cur] = "capture" THEN <<Line("N")>> ELSE <<>>) \in Seq(Lines)
        /\ <<Line("A"), Line("B")>> \in Seq(Lines) /\ stdin \in Seq(Lines)
    BY <2>1 DEF ProcessTypes, TypeInv
  <2>3. stdin' \in Seq(Lines)
    <3>1. \A a, b, d, e \in Seq(Lines) : ((a \o b) \o d) \o e \in Seq(Lines)
      OBVIOUS
    <3>2. QED
      BY <1>7, <2>2, <3>1 DEF Write
  <2>4. QED
    BY <1>7, <2>3 DEF Write, ProcessTypes, TypeInv
<1>8. CASE TmuxExecutes
  <2>1. PICK said \in Seq(Frame) : Saying(said)
    BY <1>8, TmuxSays DEF TypeInv
  <2>2. stdout \o said \in Seq(Frame) /\ \A r \in Requests : emitted[r] \o said \in Seq(Frame)
    BY DEF ProcessTypes, TypeInv
  <2>3. stdout' \in Seq(Frame) /\ emitted' \in [Requests -> Seq(Frame)]
    BY <2>1, <2>2 DEF Saying, ProcessTypes, TypeInv
  <2>4. ran' \in [Requests -> BOOLEAN] /\ stdin' \in Seq(Lines) /\ alive' \in BOOLEAN /\ foreign' \in 0..MaxForeign
    BY <1>8, TmuxTakes DEF ProcessTypes, TypeInv
  <2>5. QED
    BY <2>3, <2>4 DEF ProcessTypes
<1>9. CASE TmuxForeignBlock
  <2>1. PICK tag \in ForeignTags : stdout' = Append(stdout, [req |-> 0, own |-> FALSE, tag |-> tag])
    BY <1>9 DEF TmuxForeignBlock
  <2>2. [req |-> 0, own |-> FALSE, tag |-> tag] \in Frame
    BY ClientAssumption, Bounds DEF ClientAssumption, Frame, Tags
  <2>3. stdout' \in Seq(Frame)
    BY <2>1, <2>2 DEF ProcessTypes, TypeInv
  <2>4. foreign' \in 0..MaxForeign
    BY <1>9, Bounds DEF TmuxForeignBlock, ProcessTypes, TypeInv
  <2>5. QED
    BY <1>9, <2>3, <2>4 DEF TmuxForeignBlock, ProcessTypes, TypeInv
<1>10. CASE TmuxExits
  <2>1. <<>> \in Seq(Lines) /\ <<>> \in Seq(Frame)
    OBVIOUS
  <2>2. QED
    BY <1>10, <2>1 DEF TmuxExits, ProcessTypes, TypeInv, processVars
<1>11. CASE ReadFrame
  BY <1>11 DEF LifeTypes, ProcessTypes, ReaderTypes, WorkerTypes, TypeInv, ReadFrame, Reading,
     SendBlocked, ToChannel, Captures, Blocks, callerVars, requestVars, workerVars, processVars,
     parserVars, readerVars, openVars, lifeVars
<1>12. CASE CaptureLine
  BY <1>12 DEF LifeTypes, ProcessTypes, ReaderTypes, WorkerTypes, TypeInv, CaptureLine, Reading,
     SendBlocked, ToChannel, Captures, callerVars, requestVars, workerVars, processVars, parserVars,
     readerVars, openVars, lifeVars
<1>13. CASE CaptureEnds
  BY <1>13 DEF LifeTypes, ProcessTypes, ReaderTypes, WorkerTypes, TypeInv, CaptureEnds, Reading,
     SendBlocked, ToChannel, Captures, callerVars, requestVars, workerVars, processVars, parserVars,
     readerVars, openVars, lifeVars
<1>14. CASE ReaderEnds
  BY <1>14 DEF LifeTypes, ProcessTypes, ReaderTypes, WorkerTypes, TypeInv, ReaderEnds, SendBlocked,
     ToChannel, Captures, callerVars, requestVars, workerVars, processVars, parserVars, readerVars,
     openVars, lifeVars
<1>15. CASE ReaderFails
  <2>1. <<>> \in Seq(Lines) /\ <<>> \in Seq(Frame)
    OBVIOUS
  <2>2. QED
    BY <1>15, <2>1 DEF ReaderFails, ProcessTypes, TypeInv, processVars
<1>16. CASE StartClose \/ BeginClosing \/ CloseStdin
  BY <1>1, <1>16 DEF StartClose, BeginClosing, CloseStdin, callerVars, requestVars, workerVars,
     processVars, parserVars, readerVars, openVars, lifeVars
<1>17. CASE CloseProcess
  <2>1. <<>> \in Seq(Lines) /\ <<>> \in Seq(Frame)
    OBVIOUS
  <2>2. QED
    BY <1>17, <2>1 DEF CloseProcess, ProcessTypes, TypeInv, processVars
<1>18. QED
  BY <1>2, <1>3, <1>4, <1>5, <1>6, <1>7, <1>8, <1>9, <1>10, <1>11, <1>12, <1>13, <1>14, <1>15,
     <1>16, <1>17 DEF Next, CallerStep, OpenerStep, WorkerStep, ReaderStep, CloserStep

LEMMA ReaderTypesStep ==
    ASSUME TypeInv, Marked, Next
    PROVE  ReaderTypes'
<1>1. ASSUME UNCHANGED <<frames, readDone, readErr, capturing, lines>> PROVE ReaderTypes'
  BY <1>1 DEF CallerTypes, RequestTypes, WorkerTypes, ReaderTypes, TypeInv
<1>2. ASSUME NEW c \in Callers, Call(c) \/ CancelContext(c) \/ CheckClosed(c) \/ SubmitGivesUp(c) \/ Receive(c) \/ AwaitResponse(c) \/ CancelBeforeWrite(c) \/ CanceledTooLate(c) PROVE ReaderTypes'
  BY <1>1, <1>2 DEF Call, CancelContext, CheckClosed, SubmitGivesUp, Receive, AwaitResponse,
     CancelBeforeWrite, CanceledTooLate, Tell, callerVars, requestVars, workerVars, processVars,
     parserVars, readerVars, openVars, lifeVars
<1>3. CASE OpenFails \/ BeginDispatching \/ WriteCalibration \/ Register \/ CancelOpen
  BY <1>1, <1>3 DEF OpenFails, BeginDispatching, WriteCalibration, Register, CancelOpen,
     StartupFails, callerVars, requestVars, workerVars, processVars, parserVars, readerVars,
     openVars, lifeVars
<1>4. CASE AcceptGuard
  BY <1>4 DEF CallerTypes, RequestTypes, WorkerTypes, ReaderTypes, TypeInv, AcceptGuard, Took,
     StartupFails, callerVars, requestVars, workerVars, processVars, parserVars, readerVars,
     openVars, lifeVars
<1>5. CASE AcceptAttach
  BY <1>5 DEF CallerTypes, RequestTypes, WorkerTypes, ReaderTypes, TypeInv, AcceptAttach, Took,
     StartupFails, callerVars, requestVars, workerVars, processVars, parserVars, readerVars,
     openVars, lifeVars
<1>6. CASE FirstReply
  BY <1>6 DEF CallerTypes, RequestTypes, WorkerTypes, ReaderTypes, TypeInv, FirstReply, Took,
     StartupFails, callerVars, requestVars, workerVars, processVars, parserVars, readerVars,
     openVars, lifeVars
<1>7. CASE SecondReply
  BY <1>7 DEF CallerTypes, RequestTypes, WorkerTypes, ReaderTypes, TypeInv, SecondReply, Took,
     StartupFails, callerVars, requestVars, workerVars, processVars, parserVars, readerVars,
     openVars, lifeVars
<1>8. CASE Accept \/ RefuseClosed \/ CheckContext \/ ClaimWrite \/ WriteFails \/ ReadFails \/ StopRequests
  BY <1>1, <1>8 DEF Accept, RefuseClosed, CheckContext, ClaimWrite, WriteFails, ReadFails,
     StopRequests, Respond, Finish, callerVars, requestVars, workerVars, processVars, parserVars,
     readerVars, openVars, lifeVars
<1>9. CASE SkipForeign
  BY <1>9 DEF CallerTypes, RequestTypes, WorkerTypes, ReaderTypes, TypeInv, SkipForeign, callerVars,
     requestVars, workerVars, processVars, parserVars, readerVars, openVars, lifeVars
<1>10. CASE TakeCapture
  BY <1>10 DEF CallerTypes, RequestTypes, WorkerTypes, ReaderTypes, TypeInv, TakeCapture,
     callerVars, requestVars, workerVars, processVars, parserVars, readerVars, openVars, lifeVars
<1>11. CASE BoundaryReached
  BY <1>11 DEF CallerTypes, RequestTypes, WorkerTypes, ReaderTypes, TypeInv, BoundaryReached,
     Respond, Finish, callerVars, requestVars, workerVars, processVars, parserVars, readerVars,
     openVars, lifeVars
<1>12. CASE CollectFrame
  BY <1>12 DEF CallerTypes, RequestTypes, WorkerTypes, ReaderTypes, TypeInv, CollectFrame,
     OneMoreFrame, callerVars, requestVars, workerVars, processVars, parserVars, readerVars,
     openVars, lifeVars
<1>13. CASE SendResponse
  BY <1>13 DEF CallerTypes, RequestTypes, WorkerTypes, ReaderTypes, TypeInv, SendResponse,
     callerVars, requestVars, workerVars, processVars, parserVars, readerVars, openVars, lifeVars
<1>14. CASE Write
  BY <1>14 DEF CallerTypes, RequestTypes, WorkerTypes, ReaderTypes, TypeInv, Write, Line,
     callerVars, requestVars, workerVars, processVars, parserVars, readerVars, openVars, lifeVars
<1>15. CASE TmuxExecutes \/ TmuxForeignBlock \/ TmuxExits
  BY <1>1, <1>15 DEF TmuxExecutes, TmuxForeignBlock, TmuxExits, callerVars, requestVars, workerVars,
     processVars, parserVars, readerVars, openVars, lifeVars
<1>16. CASE ReadFrame
  <2>1. Head(stdout) \in Frame
    BY <1>16, Queue DEF ReadFrame, Reading, ProcessTypes, TypeInv
  <2>2. frames' \in Seq(Frame) /\ Len(frames') <= 1
    <3>1. CASE ToChannel(Head(stdout))
      <4>1. Len(frames) # 1 /\ Len(frames) <= 1 /\ frames \in Seq(Frame)
        BY <1>16, <3>1 DEF ReadFrame, Reading, SendBlocked, ReaderTypes, TypeInv
      <4>2. frames' = Append(frames, Head(stdout))
        BY <1>16, <3>1 DEF ReadFrame
      <4>3. QED
        BY <2>1, <4>1, <4>2, Room
    <3>2. CASE ~ToChannel(Head(stdout))
      BY <1>16, <3>2 DEF ReadFrame, ReaderTypes, TypeInv
    <3>3. QED
      BY <3>1, <3>2
  <2>3. capturing' \in {"no", "armed", "started"}
    BY <1>16 DEF ReadFrame, ReaderTypes, TypeInv
  <2>4. QED
    BY <1>16, <2>2, <2>3 DEF ReadFrame, ReaderTypes, TypeInv
<1>17. CASE CaptureLine
  <2>1. Head(stdout) \in Frame
    BY <1>17, Queue DEF CaptureLine, Reading, ProcessTypes, TypeInv
  <2>2. QED
    BY <1>17, <2>1 DEF CaptureLine, ReaderTypes, TypeInv
<1>18. CASE CaptureEnds
  <2>1. Head(stdout) \in Frame /\ lines # <<>> /\ lines \in Seq(Frame)
    BY <1>18, Queue DEF CaptureEnds, Reading, ProcessTypes, ReaderTypes, TypeInv
  <2>2. Front(lines) \in Seq(Frame)
    BY <2>1 DEF Front
  <2>3. Len(frames) # 1 /\ Len(frames) <= 1 /\ frames \in Seq(Frame)
    BY <1>18, MarkedIsSent DEF CaptureEnds, Reading, ReaderTypes, TypeInv
  <2>4. frames' \in Seq(Frame) /\ Len(frames') <= 1
    <3>1. frames' = Append(frames, Head(stdout))
      BY <1>18 DEF CaptureEnds
    <3>2. QED
      BY <2>1, <2>3, <3>1, Room
  <2>5. QED
    BY <1>18, <2>2, <2>4 DEF CaptureEnds, ReaderTypes, TypeInv
<1>19. CASE ReaderEnds
  BY <1>19 DEF CallerTypes, RequestTypes, WorkerTypes, ReaderTypes, TypeInv, ReaderEnds,
     SendBlocked, ToChannel, Captures, callerVars, requestVars, workerVars, processVars, parserVars,
     readerVars, openVars, lifeVars
<1>20. CASE ReaderFails
  BY <1>20 DEF CallerTypes, RequestTypes, WorkerTypes, ReaderTypes, TypeInv, ReaderFails,
     callerVars, requestVars, workerVars, processVars, parserVars, readerVars, openVars, lifeVars
<1>21. CASE StartClose \/ BeginClosing \/ CloseStdin \/ CloseProcess
  BY <1>1, <1>21 DEF StartClose, BeginClosing, CloseStdin, CloseProcess, callerVars, requestVars,
     workerVars, processVars, parserVars, readerVars, openVars, lifeVars
<1>22. QED
  BY <1>2, <1>3, <1>4, <1>5, <1>6, <1>7, <1>8, <1>9, <1>10, <1>11, <1>12, <1>13, <1>14, <1>15,
     <1>16, <1>17, <1>18, <1>19, <1>20, <1>21 DEF Next, CallerStep, OpenerStep, WorkerStep,
     ReaderStep, CloserStep

LEMMA TypesStay ==
    ASSUME TypeInv, Handled, Marked, Next
    PROVE  TypeInv'
BY CallerTypesStep, RequestTypesStep, WorkerTypesStep, LifeTypesStep, ProcessTypesStep,
   ReaderTypesStep DEF TypeInv

\* The types the next lemmas need.
LEMMA AskedTypes ==
    ASSUME TypeInv
    PROVE  /\ MaxRequests \in Nat /\ Requests = 1..MaxRequests /\ made \in 0..MaxRequests /\ cur \in 0..MaxRequests
           /\ pc \in [Callers -> {"idle", "check", "submit", "await", "late", "collect"}]
           /\ req \in [Callers -> 0..MaxRequests]
           /\ kind \in [Requests -> {"none", "command", "fence", "capture"}]
           /\ result \in [Requests -> Replies]
           /\ state \in [Requests -> {"pending", "accepted", "writing", "finished", "canceled"}]
           /\ response \in [Requests -> Seq(Replies)]
           /\ ran \in [Requests -> BOOLEAN] /\ emitted \in [Requests -> Seq(Frame)]
BY Bounds DEF TypeInv, CallerTypes, RequestTypes, WorkerTypes, ProcessTypes

\* A caller is told: nobody else asks about its request.
LEMMA AskedTold ==
    ASSUME TypeInv, Asked, NEW c \in Callers, pc[c] # "idle", NEW reply, Tell(c, reply),
           UNCHANGED <<response, ran, emitted, cur>>,
           \A r \in Requests : r # req[c] => state'[r] = state[r]
    PROVE  Asked'
<1>1. /\ result' = [result EXCEPT ![req[c]] = reply] /\ pc' = [pc EXCEPT ![c] = "idle"]
      /\ UNCHANGED <<req, made, kind>>
  BY DEF Tell
<1>2. req[c] \in 1..made /\ 1..made \subseteq Requests
  BY AskedTypes DEF Asked
<1>3. \A r \in Requests : r # req[c] => result'[r] = result[r]
  BY <1>1, AskedTypes
<1>4. \A r \in Requests : r # req[c] /\ Untouched(r) => Untouched(r)'
  BY <1>3 DEF Untouched
<1>5. \A d \in Callers : pc'[d] # "idle" => d # c /\ pc'[d] = pc[d] /\ req'[d] # req[c] /\ req'[d] = req[d] /\ req[d] \in 1..made
  BY <1>1, AskedTypes DEF Asked
<1>6. (\A r \in Requests : (r > made <=> kind[r] = "none"))'
  BY <1>1 DEF Asked
<1>7. (\A r \in Requests : r > made => Untouched(r))'
  BY <1>1, <1>2, <1>4, AskedTypes DEF Asked
<1>8. (\A d \in Callers : pc[d] # "idle" => req[d] \in 1..made /\ result[req[d]] = None)'
  BY <1>1, <1>2, <1>3, <1>5 DEF Asked
<1>9. (\A d, e \in Callers : d # e /\ pc[d] # "idle" /\ pc[e] # "idle" => req[d] # req[e])'
  BY <1>5 DEF Asked
<1>10. (\A d \in Callers : pc[d] \in {"check", "submit"} => Untouched(req[d]))'
  BY <1>2, <1>4, <1>5 DEF Asked
<1>11. (\A d \in Callers : pc[d] = "late" => state[req[d]] \in {"writing", "finished"})'
  BY <1>2, <1>5 DEF Asked
<1>12. QED
  BY <1>6, <1>7, <1>8, <1>9, <1>10, <1>11 DEF Asked

\* A caller goes on, and is still waiting.
LEMMA AskedMoves ==
    ASSUME TypeInv, Asked, NEW c \in Callers, pc[c] # "idle", NEW p, pc' = [pc EXCEPT ![c] = p],
           p \in {"check", "submit"} => pc[c] \in {"check", "submit"},
           p = "late" => state[req[c]] \in {"writing", "finished"},
           UNCHANGED <<req, made, kind, state, response, result, ran, emitted, cur>>
    PROVE  Asked'
<1>1. \A d \in Callers : d # c => pc'[d] = pc[d]
  BY AskedTypes
<1>2. pc'[c] = p
  BY AskedTypes
<1>3. \A r \in Requests : Untouched(r)' <=> Untouched(r)
  BY DEF Untouched
<1>4. \A d \in Callers : pc[d] # "idle" => req[d] \in Requests
  BY AskedTypes DEF Asked
<1>5. (\A r \in Requests : (r > made <=> kind[r] = "none"))'
  BY DEF Asked
<1>6. (\A r \in Requests : r > made => Untouched(r))'
  BY <1>3 DEF Asked
<1>7. (\A d \in Callers : pc[d] # "idle" => req[d] \in 1..made /\ result[req[d]] = None)'
  BY <1>1 DEF Asked
<1>8. (\A d, e \in Callers : d # e /\ pc[d] # "idle" /\ pc[e] # "idle" => req[d] # req[e])'
  BY <1>1 DEF Asked
<1>9. (\A d \in Callers : pc[d] \in {"check", "submit"} => Untouched(req[d]))'
  BY <1>1, <1>2, <1>3, <1>4 DEF Asked
<1>10. (\A d \in Callers : pc[d] = "late" => state[req[d]] \in {"writing", "finished"})'
  BY <1>1, <1>2 DEF Asked
<1>11. QED
  BY <1>5, <1>6, <1>7, <1>8, <1>9, <1>10 DEF Asked

\* tmux takes the lines of the current request only.
LEMMA CurrentRuns ==
    ASSUME TypeInv, Sent, TmuxExecutes
    PROVE  /\ stdin # <<>> /\ Head(stdin) = stdin[1] /\ 1 \in 1..Len(stdin) /\ Head(stdin).req = cur
           /\ \A r \in Requests : r # cur => emitted'[r] = emitted[r] /\ ran'[r] = ran[r]
           /\ \A r \in Requests : r = cur => ran'[r]
<1>1. PICK said \in Seq(Frame) : Saying(said)
  BY TmuxSays DEF TypeInv
<1>2. /\ stdin # <<>> /\ Head(stdin) = stdin[1] /\ 1 \in 1..Len(stdin) /\ Head(stdin).req = cur
  BY TmuxSays, Queue DEF TypeInv, ProcessTypes, Sent
<1>3. \A r \in Requests : r # cur => emitted'[r] = emitted[r]
  <2>1. CASE Head(stdin).part \in {"command", "output"}
    BY <1>1, <1>2, <2>1, AskedTypes DEF Saying
  <2>2. CASE Head(stdin).part \notin {"command", "output"}
    BY <1>1, <2>2 DEF Saying
  <2>3. QED
    BY <2>1, <2>2
<1>4. \A r \in Requests : (r # cur => ran'[r] = ran[r]) /\ (r = cur => ran'[r])
  <2>1. ran' = [r \in Requests |-> ran[r] \/ r = cur]
    BY <1>2, TmuxTakes DEF TypeInv
  <2>2. \A r \in Requests : ran[r] \in BOOLEAN
    BY AskedTypes
  <2>3. QED
    BY <2>1, <2>2
<1>5. QED
  BY <1>2, <1>3, <1>4

\* No two calls ever wait for one request, and a call for one nobody knows is new.
LEMMA AskedStep ==
    ASSUME TypeInv, Asked, Handled, Sent, Next
    PROVE  Asked'
<1>1. ASSUME UNCHANGED <<pc, req, made, kind, state, response, result, ran, emitted, cur>> PROVE Asked'
  BY <1>1 DEF Asked, Untouched
<1>2. ASSUME NEW c \in Callers, CancelContext(c) PROVE Asked'
  BY <1>1, <1>2 DEF CancelContext, callerVars, requestVars, workerVars, processVars, parserVars,
     readerVars, openVars, lifeVars
<1>3. ASSUME NEW c \in Callers, Call(c) PROVE Asked'
  <2>1. PICK k \in Kinds : kind' = [kind EXCEPT ![made'] = k]
    BY <1>3 DEF Call
  <2>2. /\ made' = made + 1 /\ made' \in Requests /\ pc[c] = "idle"
        /\ req' = [req EXCEPT ![c] = made'] /\ pc' = [pc EXCEPT ![c] = "check"] /\ k # "none"
        /\ UNCHANGED <<result, state, response, ran, emitted, cur>>
    BY <1>3, Bounds, AskedTypes DEF Call, requestVars, workerVars, processVars
  <2>3. \A r \in Requests : Untouched(r)' <=> Untouched(r)
    BY <2>2 DEF Untouched
  <2>4. Untouched(made') /\ result[made'] = None
    BY <2>2, AskedTypes DEF Asked, Untouched
  <2>5. \A d \in Callers : d # c => pc'[d] = pc[d] /\ req'[d] = req[d] /\ (pc[d] # "idle" => req[d] # made' /\ req[d] \in Requests)
    BY <2>2, AskedTypes DEF Asked
  <2>6. pc'[c] = "check" /\ req'[c] = made'
    BY <2>2, AskedTypes
  <2>7. (\A r \in Requests : (r > made <=> kind[r] = "none"))'
    BY <2>1, <2>2, AskedTypes DEF Asked
  <2>8. (\A r \in Requests : r > made => Untouched(r))'
    BY <2>2, <2>3, AskedTypes DEF Asked
  <2>9. (\A d \in Callers : pc[d] # "idle" => req[d] \in 1..made /\ result[req[d]] = None)'
    BY <2>2, <2>4, <2>5, <2>6, AskedTypes DEF Asked
  <2>10. (\A d, e \in Callers : d # e /\ pc[d] # "idle" /\ pc[e] # "idle" => req[d] # req[e])'
    BY <2>5, <2>6 DEF Asked
  <2>11. (\A d \in Callers : pc[d] \in {"check", "submit"} => Untouched(req[d]))'
    BY <2>2, <2>3, <2>4, <2>5, <2>6 DEF Asked
  <2>12. (\A d \in Callers : pc[d] = "late" => state[req[d]] \in {"writing", "finished"})'
    BY <2>2, <2>5, <2>6 DEF Asked
  <2>13. QED
    BY <2>7, <2>8, <2>9, <2>10, <2>11, <2>12 DEF Asked
<1>4. ASSUME NEW c \in Callers, CheckClosed(c) PROVE Asked'
  <2>1. CASE closeRequested
    BY <1>4, <2>1, AskedTold DEF CheckClosed, requestVars, workerVars, processVars
  <2>2. CASE ~closeRequested
    BY <1>4, <2>2, AskedMoves DEF CheckClosed, requestVars, workerVars, processVars
  <2>3. QED
    BY <2>1, <2>2
<1>5. ASSUME NEW c \in Callers, SubmitGivesUp(c) PROVE Asked'
  BY <1>5, AskedTold DEF SubmitGivesUp, requestVars, workerVars, processVars
<1>6. ASSUME NEW c \in Callers, Receive(c) PROVE Asked'
  <2>1. /\ pc[c] = "submit" /\ pc' = [pc EXCEPT ![c] = "await"] /\ cur' = req[c]
        /\ UNCHANGED <<req, made, kind, result, state, response, ran, emitted>>
    BY <1>6 DEF Receive, requestVars, processVars
  <2>2. \A r \in Requests : Untouched(r) /\ r # req[c] => Untouched(r)'
    BY <2>1 DEF Untouched
  <2>3. \A d \in Callers : d # c => pc'[d] = pc[d] /\ (pc[d] # "idle" => req[d] # req[c] /\ req[d] \in 1..made)
    BY <2>1, AskedTypes DEF Asked
  <2>4. req[c] \in 1..made /\ 1..made \subseteq Requests /\ pc'[c] = "await"
    BY <2>1, AskedTypes DEF Asked
  <2>5. (\A r \in Requests : r > made => Untouched(r))'
    BY <2>1, <2>2, <2>4, AskedTypes DEF Asked
  <2>6. (\A d \in Callers : pc[d] \in {"check", "submit"} => Untouched(req[d]))'
    BY <2>1, <2>2, <2>3, <2>4 DEF Asked
  <2>7. QED
    BY <2>1, <2>3, <2>4, <2>5, <2>6 DEF Asked
<1>7. ASSUME NEW c \in Callers, AwaitResponse(c) PROVE Asked'
  BY <1>7, AskedTypes DEF Asked, Untouched, AwaitResponse, Tell, callerVars, requestVars,
     workerVars, processVars, parserVars, readerVars, openVars, lifeVars
<1>8. ASSUME NEW c \in Callers, CancelBeforeWrite(c) PROVE Asked'
  <2>1. CASE state[req[c]] \in {"pending", "accepted", "canceled"}
    <3>1. state' = [state EXCEPT ![req[c]] = "canceled"] /\ Tell(c, Reply("ctx", <<>>))
      BY <1>8, <2>1 DEF CancelBeforeWrite
    <3>2. \A r \in Requests : r # req[c] => state'[r] = state[r]
      BY <3>1, AskedTypes
    <3>3. QED
      BY <1>8, <3>1, <3>2, AskedTold DEF CancelBeforeWrite, workerVars, processVars
  <2>2. CASE state[req[c]] \notin {"pending", "accepted", "canceled"}
    <3>1. state[req[c]] \in {"writing", "finished"}
      BY <1>8, <2>2, AskedTypes DEF CancelBeforeWrite, Asked
    <3>2. QED
      BY <1>8, <2>2, <3>1, AskedMoves DEF CancelBeforeWrite, workerVars, processVars
  <2>3. QED
    BY <2>1, <2>2
<1>9. ASSUME NEW c \in Callers, CanceledTooLate(c) PROVE Asked'
  <2>1. CASE state[req[c]] = "finished"
    BY <1>9, <2>1, AskedMoves DEF CanceledTooLate, requestVars, workerVars, processVars
  <2>2. CASE state[req[c]] # "finished"
    BY <1>9, <2>2, AskedTold DEF CanceledTooLate, requestVars, workerVars, processVars
  <2>3. QED
    BY <2>1, <2>2
<1>10. CASE OpenFails \/ AcceptGuard \/ AcceptAttach \/ BeginDispatching \/ WriteCalibration \/ FirstReply \/ SecondReply \/ Register \/ CancelOpen
  BY <1>1, <1>10 DEF OpenFails, AcceptGuard, AcceptAttach, BeginDispatching, WriteCalibration,
     FirstReply, SecondReply, Register, CancelOpen, StartupFails, Took, callerVars, requestVars,
     workerVars, processVars, parserVars, readerVars, openVars, lifeVars
<1>11. CASE SkipForeign \/ TakeCapture \/ CollectFrame \/ StopRequests \/ Write
  BY <1>1, <1>11 DEF SkipForeign, TakeCapture, CollectFrame, StopRequests, Write, callerVars,
     requestVars, workerVars, processVars, parserVars, readerVars, openVars, lifeVars
<1>12. CASE Accept
  <2>1. /\ UNCHANGED <<pc, req, made, kind, response, result, ran, emitted, cur>>
        /\ state' = state \/ (state[cur] = "pending" /\ state' = [state EXCEPT ![cur] = "accepted"])
    BY <1>12 DEF Accept, Respond, callerVars, processVars
  <2>2. \A r \in Requests : state[r] # "pending" \/ r # cur => state'[r] = state[r]
    BY <2>1, AskedTypes
  <2>3. \A r \in Requests : Untouched(r) => Untouched(r)'
    BY <2>1, <2>2 DEF Untouched
  <2>4. \A c \in Callers : pc[c] # "idle" => req[c] \in Requests
    BY AskedTypes DEF Asked
  <2>5. \A c \in Callers : pc'[c] = "late" => state'[req'[c]] \in {"writing", "finished"}
    BY <2>1, <2>2, <2>4 DEF Asked
  <2>6. QED
    BY <2>1, <2>3, <2>4, <2>5 DEF Asked
<1>13. CASE RefuseClosed
  BY <1>13, AskedTypes DEF Asked, Untouched, RefuseClosed, Respond, Handled, Handling, callerVars,
     requestVars, workerVars, processVars, parserVars, readerVars, openVars, lifeVars
<1>14. CASE CheckContext
  BY <1>14, AskedTypes DEF Asked, Untouched, CheckContext, Respond, Handled, Handling, callerVars,
     requestVars, workerVars, processVars, parserVars, readerVars, openVars, lifeVars
<1>15. CASE ClaimWrite
  BY <1>15, AskedTypes DEF Asked, Untouched, ClaimWrite, Respond, Handled, Handling, callerVars,
     requestVars, workerVars, processVars, parserVars, readerVars, openVars, lifeVars
<1>16. CASE WriteFails
  BY <1>16, AskedTypes DEF Asked, Untouched, WriteFails, Respond, Finish, Handled, Handling,
     callerVars, requestVars, workerVars, processVars, parserVars, readerVars, openVars, lifeVars
<1>17. CASE BoundaryReached
  BY <1>17, AskedTypes DEF Asked, Untouched, BoundaryReached, Respond, Finish, Handled, Handling,
     callerVars, requestVars, workerVars, processVars, parserVars, readerVars, openVars, lifeVars
<1>18. CASE ReadFails
  BY <1>18, AskedTypes DEF Asked, Untouched, ReadFails, Respond, Finish, Handled, Handling,
     callerVars, requestVars, workerVars, processVars, parserVars, readerVars, openVars, lifeVars
<1>19. CASE SendResponse
  BY <1>19, AskedTypes DEF Asked, Untouched, SendResponse, Handled, Handling, callerVars,
     requestVars, workerVars, processVars, parserVars, readerVars, openVars, lifeVars
<1>20. CASE TmuxForeignBlock \/ TmuxExits
  BY <1>1, <1>20 DEF TmuxForeignBlock, TmuxExits, callerVars, requestVars, workerVars, processVars,
     parserVars, readerVars, openVars, lifeVars
<1>21. CASE TmuxExecutes
  <2>1. \A r \in Requests : r # cur => emitted'[r] = emitted[r] /\ ran'[r] = ran[r]
    BY <1>21, CurrentRuns
  <2>2. UNCHANGED <<pc, req, made, kind, state, response, result, cur>>
    BY <1>21 DEF TmuxExecutes, callerVars, requestVars, workerVars
  <2>3. \A r \in Requests : Untouched(r) => Untouched(r)'
    BY <2>1, <2>2 DEF Untouched
  <2>4. QED
    BY <2>2, <2>3, AskedTypes DEF Asked
<1>22. CASE ReadFrame \/ CaptureLine \/ CaptureEnds \/ ReaderEnds \/ ReaderFails
  BY <1>1, <1>22 DEF ReadFrame, CaptureLine, CaptureEnds, ReaderEnds, ReaderFails, callerVars,
     requestVars, workerVars, processVars, parserVars, readerVars, openVars, lifeVars
<1>23. CASE StartClose \/ BeginClosing \/ CloseStdin \/ CloseProcess
  BY <1>1, <1>23 DEF StartClose, BeginClosing, CloseStdin, CloseProcess, callerVars, requestVars,
     workerVars, processVars, parserVars, readerVars, openVars, lifeVars
<1>24. QED
  BY <1>2, <1>3, <1>4, <1>5, <1>6, <1>7, <1>8, <1>9, <1>10, <1>11, <1>12, <1>13, <1>14, <1>15,
     <1>16, <1>17, <1>18, <1>19, <1>20, <1>21, <1>22, <1>23 DEF Next, CallerStep, OpenerStep,
     WorkerStep, ReaderStep, CloserStep

\* A caller is told while the goroutine still has its request in hand.
LEMMA HandledTold ==
    ASSUME TypeInv, Handled, NEW r0 \in Requests, NEW reply, result' = [result EXCEPT ![r0] = reply],
           UNCHANGED <<cur, made, wpc, resp>>,
           \A r \in Requests : response'[r] = response[r] \/ response'[r] = <<>>,
           \/ state' = state
           \/ state' = [state EXCEPT ![r0] = "canceled"] /\ state[r0] \in {"pending", "accepted", "canceled"},
           r0 = cur /\ wpc \in Handling =>
               \/ reply.err = "unknown" /\ state[r0] = "writing" /\ state' = state
               \/ reply.err = "ctx" /\ state'[r0] = "canceled" /\ state[r0] \in {"pending", "accepted", "canceled"}
    PROVE  Handled'
<1>1. \A r \in Requests : r # r0 => result'[r] = result[r] /\ state'[r] = state[r]
  BY AskedTypes
<1>2. result'[r0] = reply
  BY AskedTypes
<1>3. \A r \in Requests : \A j \in 1..Len(response'[r]) : response'[r][j].err # "none"
  BY DEF Handled
<1>4. \A r \in Requests : state'[r] = "writing" => state[r] = "writing"
  BY AskedTypes
<1>5. \A r \in Requests : state[r] = "writing" => state'[r] = "writing"
  BY AskedTypes
<1>6. CASE wpc \notin Handling
  BY <1>3, <1>4, <1>6 DEF Handled, Handling, Opening
<1>7. CASE wpc \in Handling
  <2>1. cur \in Requests /\ response[cur] = <<>>
    BY <1>7, AskedTypes DEF Handled
  <2>2. cur \in Requests /\ response'[cur] = <<>>
    BY <2>1
  <2>3. CASE cur # r0
    BY <1>1, <1>3, <1>4, <1>7, <2>2, <2>3 DEF Handled, Handling, Opening
  <2>4. CASE cur = r0 /\ reply.err = "unknown" /\ state[r0] = "writing" /\ state' = state
    BY <1>2, <1>3, <1>7, <2>2, <2>4 DEF Handled, Handling, Opening
  <2>5. CASE cur = r0 /\ reply.err = "ctx" /\ state'[r0] = "canceled" /\ state[r0] \in {"pending", "accepted", "canceled"}
    BY <1>2, <1>3, <1>4, <1>7, <2>2, <2>5 DEF Handled, Handling, Opening
  <2>6. QED
    BY <1>7, <2>3, <2>4, <2>5
<1>8. QED
  BY <1>6, <1>7

LEMMA HandledAsked ==
    ASSUME TypeInv, Asked, NEW c \in Callers, pc[c] # "idle"
    PROVE  req[c] \in Requests /\ (pc[c] \in {"check", "submit"} => req[c] # cur)
BY AskedTypes DEF Asked, Untouched

\* The goroutine's place and the state of its request agree, whichever of them a
\* cancellation meets.
LEMMA HandledStep ==
    ASSUME TypeInv, Asked, Handled, Next
    PROVE  Handled'
<1>1. ASSUME UNCHANGED <<cur, made, wpc, response, result, state, resp>> PROVE Handled'
  BY <1>1 DEF Handled, Handling, Opening
<1>2. ASSUME NEW c \in Callers, CancelContext(c) PROVE Handled'
  BY <1>1, <1>2 DEF CancelContext, callerVars, requestVars, workerVars, processVars, parserVars,
     readerVars, openVars, lifeVars
<1>3. ASSUME NEW c \in Callers, Call(c) PROVE Handled'
  BY <1>3, AskedTypes DEF Handled, Handling, Opening, Call, Opening, HandedOut, MayMake, Asked,
     Untouched, None, callerVars, requestVars, workerVars, processVars, parserVars, readerVars,
     openVars, lifeVars
<1>4. ASSUME NEW c \in Callers, CheckClosed(c) PROVE Handled'
  <2>1. CASE closeRequested
    BY <1>4, <2>1, HandledAsked, HandledTold DEF CheckClosed, Tell, requestVars, workerVars
  <2>2. CASE ~closeRequested
    BY <1>4, <2>2, <1>1 DEF CheckClosed, requestVars, workerVars
  <2>3. QED
    BY <2>1, <2>2
<1>5. ASSUME NEW c \in Callers, SubmitGivesUp(c) PROVE Handled'
  BY <1>5, HandledAsked, HandledTold DEF SubmitGivesUp, Tell, requestVars, workerVars
<1>6. ASSUME NEW c \in Callers, Receive(c) PROVE Handled'
  BY <1>6, AskedTypes, SMTT(30) DEF Handled, Handling, Opening, Receive, Asked, Untouched, None, callerVars,
     requestVars, workerVars, processVars, parserVars, readerVars, openVars, lifeVars
<1>7. ASSUME NEW c \in Callers, AwaitResponse(c) PROVE Handled'
  <2>1. req[c] \in Requests /\ response[req[c]] # <<>>
    BY <1>7, HandledAsked DEF AwaitResponse
  <2>2. response' = [response EXCEPT ![req[c]] = <<>>]
    <3>1. response[req[c]] \in Seq(Replies) /\ Len(response[req[c]]) <= 1
      BY <2>1 DEF TypeInv, RequestTypes
    <3>2. Tail(response[req[c]]) = <<>>
      BY <2>1, <3>1
    <3>3. QED
      BY <1>7, <3>2 DEF AwaitResponse
  <2>3. \A r \in Requests : response'[r] = response[r] \/ response'[r] = <<>>
    BY <2>2, AskedTypes
  <2>4. req[c] = cur => wpc \notin Handling
    BY <2>1 DEF Handled
  <2>5. QED
    BY <1>7, <2>1, <2>3, <2>4, HandledTold DEF AwaitResponse, Tell, workerVars
<1>8. ASSUME NEW c \in Callers, CancelBeforeWrite(c) PROVE Handled'
  <2>1. CASE state[req[c]] \in {"pending", "accepted", "canceled"}
    <3>1. Reply("ctx", <<>>).err = "ctx" /\ req[c] \in Requests
      BY <1>8, HandledAsked DEF Reply, CancelBeforeWrite
    <3>2. state' = [state EXCEPT ![req[c]] = "canceled"] /\ state'[req[c]] = "canceled"
      BY <1>8, <2>1, <3>1, AskedTypes DEF CancelBeforeWrite
    <3>3. QED
      BY <1>8, <2>1, <3>1, <3>2, HandledTold DEF CancelBeforeWrite, Tell, workerVars
  <2>2. CASE state[req[c]] \notin {"pending", "accepted", "canceled"}
    BY <1>8, <2>2, <1>1 DEF CancelBeforeWrite, workerVars
  <2>3. QED
    BY <2>1, <2>2
<1>9. ASSUME NEW c \in Callers, CanceledTooLate(c) PROVE Handled'
  <2>1. CASE state[req[c]] = "finished"
    BY <1>9, <2>1, <1>1 DEF CanceledTooLate, requestVars, workerVars
  <2>2. CASE state[req[c]] # "finished"
    <3>1. Reply("unknown", <<>>).err = "unknown" /\ state[req[c]] = "writing" /\ req[c] \in Requests
      BY <1>9, <2>2, HandledAsked DEF Reply, Asked, CanceledTooLate
    <3>2. QED
      BY <1>9, <2>2, <3>1, HandledTold DEF CanceledTooLate, Tell, requestVars, workerVars
  <2>3. QED
    BY <2>1, <2>2
<1>10. CASE CancelOpen
  BY <1>1, <1>10 DEF CancelOpen, callerVars, requestVars, workerVars, processVars, parserVars,
     readerVars, openVars, lifeVars
<1>11. CASE OpenFails
  BY <1>11, AskedTypes DEF Handled, Handling, Opening, OpenFails, StartupFails, Opening, callerVars,
     requestVars, workerVars, processVars, parserVars, readerVars, openVars, lifeVars
<1>12. CASE AcceptGuard
  BY <1>12, AskedTypes DEF Handled, Handling, Opening, AcceptGuard, Took, StartupFails, callerVars,
     requestVars, workerVars, processVars, parserVars, readerVars, openVars, lifeVars
<1>13. CASE AcceptAttach
  BY <1>13, AskedTypes DEF Handled, Handling, Opening, AcceptAttach, Took, StartupFails, callerVars,
     requestVars, workerVars, processVars, parserVars, readerVars, openVars, lifeVars
<1>14. CASE BeginDispatching
  BY <1>14, AskedTypes DEF Handled, Handling, Opening, BeginDispatching, callerVars, requestVars,
     workerVars, processVars, parserVars, readerVars, openVars, lifeVars
<1>15. CASE WriteCalibration
  BY <1>15, AskedTypes DEF Handled, Handling, Opening, WriteCalibration, callerVars, requestVars,
     workerVars, processVars, parserVars, readerVars, openVars, lifeVars
<1>16. CASE FirstReply
  BY <1>16, AskedTypes DEF Handled, Handling, Opening, FirstReply, Took, StartupFails, callerVars,
     requestVars, workerVars, processVars, parserVars, readerVars, openVars, lifeVars
<1>17. CASE SecondReply
  BY <1>17, AskedTypes DEF Handled, Handling, Opening, SecondReply, Took, StartupFails, callerVars,
     requestVars, workerVars, processVars, parserVars, readerVars, openVars, lifeVars
<1>18. CASE Register
  BY <1>18, AskedTypes DEF Handled, Handling, Opening, Register, callerVars, requestVars,
     workerVars, processVars, parserVars, readerVars, openVars, lifeVars
<1>19. CASE SkipForeign \/ TakeCapture \/ CollectFrame
  BY <1>1, <1>19 DEF SkipForeign, TakeCapture, CollectFrame, callerVars, requestVars, workerVars,
     processVars, parserVars, readerVars, openVars, lifeVars
<1>20. CASE Accept
  <2>1. cur \in Requests /\ state[cur] # "writing" /\ response[cur] = <<>> /\ wpc \in Handling
    BY <1>20, AskedTypes DEF Accept, Handled, Handling
  <2>2. CASE state[cur] = "pending"
    <3>1. /\ state' = [state EXCEPT ![cur] = "accepted"] /\ wpc' = "accepted" /\ resp' = resp
          /\ UNCHANGED <<cur, made, response, result>>
      BY <1>20, <2>2 DEF Accept, Respond, callerVars
    <3>2. state'[cur] = "accepted" /\ \A r \in Requests : r # cur => state'[r] = state[r]
      BY <2>1, <3>1, AskedTypes
    <3>3. \A r \in Requests : state[r] = "writing" => r = cur /\ wpc \in {"write", "read"}
      BY DEF Handled
    <3>4. /\ cur \in 0..made /\ cur # 0 /\ (wpc = "received")
          /\ result[cur].err \in {"none", "ctx", "unknown"}
          /\ state[cur] = "canceled" \/ result[cur] = None
          /\ resp = None
          /\ \A r \in Requests : \A j \in 1..Len(response[r]) : response[r][j].err # "none"
      BY <1>20, <2>1 DEF Accept, Handled, Handling
    <3>5. QED
      BY <2>1, <3>1, <3>2, <3>3, <3>4, <2>2 DEF Handled, Handling, Opening, Reply, None
  <2>3. CASE ~(state[cur] = "pending")
    BY <1>20, <2>3, <2>1, AskedTypes DEF Accept, Handled, Handling, Opening, Respond, Reply, callerVars
  <2>4. QED
    BY <2>2, <2>3
<1>21. CASE RefuseClosed
  <2>1. cur \in Requests /\ state[cur] # "writing" /\ response[cur] = <<>> /\ wpc \in Handling
    BY <1>21, AskedTypes DEF RefuseClosed, Handled, Handling
  <2>2. CASE closeRequested
    <3>1. /\ state' = [state EXCEPT ![cur] = "finished"] /\ wpc' = "respondLast" /\ resp' = Reply("closed", <<>>)
          /\ UNCHANGED <<cur, made, response, result>>
      BY <1>21, <2>2 DEF RefuseClosed, Respond, callerVars
    <3>2. state'[cur] = "finished" /\ \A r \in Requests : r # cur => state'[r] = state[r]
      BY <2>1, <3>1, AskedTypes
    <3>3. \A r \in Requests : state[r] = "writing" => r = cur /\ wpc \in {"write", "read"}
      BY DEF Handled
    <3>4. /\ cur \in 0..made /\ cur # 0 /\ (wpc = "accepted")
          /\ result[cur].err \in {"none", "ctx", "unknown"}
          /\ state[cur] = "canceled" \/ result[cur] = None
          /\ resp = None
          /\ \A r \in Requests : \A j \in 1..Len(response[r]) : response[r][j].err # "none"
      BY <1>21, <2>1 DEF RefuseClosed, Handled, Handling
    <3>5. QED
      BY <2>1, <3>1, <3>2, <3>3, <3>4, <2>2 DEF Handled, Handling, Opening, Reply, None
  <2>3. CASE ~(closeRequested)
    BY <1>21, <2>3, <2>1, AskedTypes DEF RefuseClosed, Handled, Handling, Opening, Respond, Reply,
       callerVars
  <2>4. QED
    BY <2>2, <2>3
<1>22. CASE CheckContext
  <2>1. cur \in Requests /\ state[cur] # "writing" /\ response[cur] = <<>> /\ wpc \in Handling
    BY <1>22, AskedTypes DEF CheckContext, Handled, Handling
  <2>2. CASE ctxDone[cur]
    <3>1. /\ state' = [state EXCEPT ![cur] = "canceled"] /\ wpc' = "respond" /\ resp' = Reply("ctx", <<>>)
          /\ UNCHANGED <<cur, made, response, result>>
      BY <1>22, <2>2 DEF CheckContext, Respond, callerVars
    <3>2. state'[cur] = "canceled" /\ \A r \in Requests : r # cur => state'[r] = state[r]
      BY <2>1, <3>1, AskedTypes
    <3>3. \A r \in Requests : state[r] = "writing" => r = cur /\ wpc \in {"write", "read"}
      BY DEF Handled
    <3>4. /\ cur \in 0..made /\ cur # 0 /\ (wpc = "execute")
          /\ result[cur].err \in {"none", "ctx", "unknown"}
          /\ state[cur] = "canceled" \/ result[cur] = None
          /\ resp = None
          /\ \A r \in Requests : \A j \in 1..Len(response[r]) : response[r][j].err # "none"
      BY <1>22, <2>1 DEF CheckContext, Handled, Handling
    <3>5. QED
      BY <2>1, <3>1, <3>2, <3>3, <3>4, <2>2 DEF Handled, Handling, Opening, Reply, None
  <2>3. CASE ~(ctxDone[cur])
    BY <1>22, <2>3, <2>1, AskedTypes DEF CheckContext, Handled, Handling, Opening, Respond, Reply,
       callerVars
  <2>4. QED
    BY <2>2, <2>3
<1>23. CASE ClaimWrite
  <2>1. cur \in Requests /\ state[cur] # "writing" /\ response[cur] = <<>> /\ wpc \in Handling
    BY <1>23, AskedTypes DEF ClaimWrite, Handled, Handling
  <2>2. CASE state[cur] = "accepted"
    <3>1. /\ state' = [state EXCEPT ![cur] = "writing"] /\ wpc' = "write" /\ resp' = resp
          /\ UNCHANGED <<cur, made, response, result>>
      BY <1>23, <2>2 DEF ClaimWrite, Respond, callerVars
    <3>2. state'[cur] = "writing" /\ \A r \in Requests : r # cur => state'[r] = state[r]
      BY <2>1, <3>1, AskedTypes
    <3>3. \A r \in Requests : state[r] = "writing" => r = cur /\ wpc \in {"write", "read"}
      BY DEF Handled
    <3>4. /\ cur \in 0..made /\ cur # 0 /\ (wpc = "claim")
          /\ result[cur].err \in {"none", "ctx", "unknown"}
          /\ state[cur] = "canceled" \/ result[cur] = None
          /\ resp = None
          /\ \A r \in Requests : \A j \in 1..Len(response[r]) : response[r][j].err # "none"
      BY <1>23, <2>1 DEF ClaimWrite, Handled, Handling
    <3>5. QED
      BY <2>1, <3>1, <3>2, <3>3, <3>4, <2>2 DEF Handled, Handling, Opening, Reply, None
  <2>3. CASE ~(state[cur] = "accepted")
    BY <1>23, <2>3, <2>1, AskedTypes DEF ClaimWrite, Handled, Handling, Opening, Respond, Reply,
       callerVars
  <2>4. QED
    BY <2>2, <2>3
<1>24. CASE WriteFails
  BY <1>24, AskedTypes DEF Handled, Handling, Opening, WriteFails, Respond, Finish, Reply, Asked,
     Untouched, None, callerVars, requestVars, workerVars, processVars, parserVars, readerVars,
     openVars, lifeVars
<1>25. CASE BoundaryReached
  BY <1>25, AskedTypes DEF Handled, Handling, Opening, BoundaryReached, Respond, Finish, Reply,
     Asked, Untouched, None, callerVars, requestVars, workerVars, processVars, parserVars,
     readerVars, openVars, lifeVars
<1>26. CASE ReadFails
  BY <1>26, AskedTypes DEF Handled, Handling, Opening, ReadFails, Respond, Finish, Reply, Asked,
     Untouched, None, callerVars, requestVars, workerVars, processVars, parserVars, readerVars,
     openVars, lifeVars
<1>27. CASE SendResponse
  BY <1>27, AskedTypes, SMTT(30) DEF Handled, Handling, Opening, SendResponse, Asked, Untouched, None,
     callerVars, requestVars, workerVars, processVars, parserVars, readerVars, openVars, lifeVars
<1>28. CASE StopRequests
  BY <1>28, AskedTypes DEF Handled, Handling, Opening, StopRequests, callerVars, requestVars,
     workerVars, processVars, parserVars, readerVars, openVars, lifeVars
<1>29. CASE Write
  BY <1>29, AskedTypes DEF Handled, Handling, Opening, Write, Line, callerVars, requestVars,
     workerVars, processVars, parserVars, readerVars, openVars, lifeVars
<1>30. CASE TmuxExecutes \/ TmuxForeignBlock \/ TmuxExits
  BY <1>1, <1>30 DEF TmuxExecutes, TmuxForeignBlock, TmuxExits, callerVars, requestVars, workerVars,
     processVars, parserVars, readerVars, openVars, lifeVars
<1>31. CASE ReadFrame \/ CaptureLine \/ CaptureEnds \/ ReaderEnds \/ ReaderFails
  BY <1>1, <1>31 DEF ReadFrame, CaptureLine, CaptureEnds, ReaderEnds, ReaderFails, callerVars,
     requestVars, workerVars, processVars, parserVars, readerVars, openVars, lifeVars
<1>32. CASE StartClose \/ BeginClosing \/ CloseStdin \/ CloseProcess
  BY <1>1, <1>32 DEF StartClose, BeginClosing, CloseStdin, CloseProcess, callerVars, requestVars,
     workerVars, processVars, parserVars, readerVars, openVars, lifeVars
<1>33. QED
  BY <1>2, <1>3, <1>4, <1>5, <1>6, <1>7, <1>8, <1>9, <1>10, <1>11, <1>12, <1>13, <1>14, <1>15,
     <1>16, <1>17, <1>18, <1>19, <1>20, <1>21, <1>22, <1>23, <1>24, <1>25, <1>26, <1>27, <1>28,
     <1>29, <1>30, <1>31, <1>32 DEF Next, CallerStep, OpenerStep, WorkerStep, ReaderStep, CloserStep

\* What is written for a request: the fence behind its command.
LEMMA WriteLines ==
    ASSUME TypeInv, Write, stdin = <<>>
    PROVE  /\ \A j \in 1..Len(stdin') : stdin'[j].req = cur
           /\ InOrder'
           /\ kind[cur] = "fence" => Len(stdin') = 2
           /\ kind[cur] = "capture" => Len(stdin') = 4 /\ stdin'[1].part = "command"
           /\ kind[cur] \notin {"fence", "capture"} => Len(stdin') = 3
<1>1. /\ kind' = kind /\ cur' = cur
      /\ stdin' = ((stdin \o (IF kind[cur] = "fence" THEN <<>> ELSE <<Line("command")>>))
                     \o (IF kind[cur] = "capture" THEN <<Line("N")>> ELSE <<>>)) \o <<Line("A"), Line("B")>>
  BY DEF Write, callerVars
<1>2. \A part : Line(part).req = cur /\ Line(part).part = part
  BY DEF Line
<1>3. CASE kind[cur] = "fence"
  <2>1. stdin' = <<Line("A"), Line("B")>>
    BY <1>1, <1>3
  <2>2. Len(stdin') = 2 /\ stdin'[1] = Line("A") /\ stdin'[2] = Line("B")
    BY <2>1
  <2>3. QED
    BY <1>1, <1>2, <1>3, <2>2 DEF InOrder
<1>4. CASE kind[cur] = "capture"
  <2>1. stdin' = <<Line("command"), Line("N"), Line("A"), Line("B")>>
    <3>1. stdin \o <<Line("command")>> = <<Line("command")>>
      OBVIOUS
    <3>2. <<Line("command")>> \o <<Line("N")>> = <<Line("command"), Line("N")>>
      BY OneOne
    <3>3. <<Line("command"), Line("N")>> \o <<Line("A"), Line("B")>> = <<Line("command"), Line("N"), Line("A"), Line("B")>>
      BY TwoTwo
    <3>4. QED
      BY <1>1, <1>4, <3>1, <3>2, <3>3
  <2>2. Len(stdin') = 4 /\ stdin'[1] = Line("command") /\ stdin'[2] = Line("N") /\ stdin'[3] = Line("A") /\ stdin'[4] = Line("B")
    BY <2>1
  <2>3. QED
    BY <1>1, <1>2, <1>4, <2>2 DEF InOrder
<1>5. CASE kind[cur] \notin {"fence", "capture"}
  <2>1. stdin' = <<Line("command"), Line("A"), Line("B")>>
    <3>1. stdin \o <<Line("command")>> = <<Line("command")>>
      OBVIOUS
    <3>2. <<Line("command")>> \o <<>> = <<Line("command")>>
      OBVIOUS
    <3>3. <<Line("command")>> \o <<Line("A"), Line("B")>> = <<Line("command"), Line("A"), Line("B")>>
      BY OneTwo
    <3>4. QED
      BY <1>1, <1>5, <3>1, <3>2, <3>3
  <2>2. Len(stdin') = 3 /\ stdin'[1] = Line("command") /\ stdin'[2] = Line("A") /\ stdin'[3] = Line("B")
    BY <2>1
  <2>3. QED
    BY <1>1, <1>2, <1>5, <2>2 DEF InOrder
<1>6. QED
  BY <1>3, <1>4, <1>5

\* tmux runs only what the goroutine wrote, and of the current request only.
LEMMA SentStep ==
    ASSUME TypeInv, Asked, Handled, Sent, Quiet, Opened, Next
    PROVE  Sent'
<1>1. ASSUME UNCHANGED <<alive, stdin, cur, emitted, ran, state, wpc>> PROVE Sent'
  BY <1>1 DEF Sent, Quiet, Handled, Handling
<1>2. ASSUME NEW c \in Callers, Call(c) \/ CancelContext(c) \/ CheckClosed(c) \/ SubmitGivesUp(c) \/ AwaitResponse(c) \/ CanceledTooLate(c) PROVE Sent'
  BY <1>1, <1>2 DEF Call, CancelContext, CheckClosed, SubmitGivesUp, AwaitResponse, CanceledTooLate,
     Tell, callerVars, requestVars, workerVars, processVars, parserVars, readerVars, openVars,
     lifeVars
<1>3. ASSUME NEW c \in Callers, Receive(c) PROVE Sent'
  BY <1>3, AskedTypes DEF Sent, Quiet, Handled, Handling, Receive, callerVars, requestVars,
     workerVars, processVars, parserVars, readerVars, openVars, lifeVars
<1>4. ASSUME NEW c \in Callers, CancelBeforeWrite(c) PROVE Sent'
  <2>1. req[c] \in Requests
    BY <1>4, HandledAsked DEF CancelBeforeWrite
  <2>2. CASE state[req[c]] \in {"pending", "accepted", "canceled"}
    <3>1. ~ran[req[c]] /\ state' = [state EXCEPT ![req[c]] = "canceled"] /\ (req[c] = cur => stdin = <<>> \/ cur = 0)
      BY <1>4, <2>1, <2>2, AskedTypes DEF CancelBeforeWrite, Sent
    <3>2. UNCHANGED <<alive, stdin, cur, emitted, ran, wpc>>
      BY <1>4 DEF CancelBeforeWrite, workerVars, processVars
    <3>3. \A r \in Requests : r # req[c] => state'[r] = state[r]
      BY <3>1, AskedTypes
    <3>4. QED
      BY <2>1, <3>1, <3>2, <3>3 DEF Sent
  <2>3. CASE state[req[c]] \notin {"pending", "accepted", "canceled"}
    BY <1>4, <2>3, <1>1 DEF CancelBeforeWrite, workerVars, processVars
  <2>4. QED
    BY <2>2, <2>3
<1>5. CASE CancelOpen
  BY <1>1, <1>5 DEF CancelOpen, callerVars, requestVars, workerVars, processVars, parserVars,
     readerVars, openVars, lifeVars
<1>6. CASE OpenFails
  BY <1>6, AskedTypes DEF Sent, Quiet, Handled, Handling, OpenFails, StartupFails, Opening,
     callerVars, requestVars, workerVars, processVars, parserVars, readerVars, openVars, lifeVars
<1>7. CASE AcceptGuard
  BY <1>7, AskedTypes DEF Sent, Quiet, Handled, Handling, AcceptGuard, Took, StartupFails,
     callerVars, requestVars, workerVars, processVars, parserVars, readerVars, openVars, lifeVars
<1>8. CASE AcceptAttach
  BY <1>8, AskedTypes DEF Sent, Quiet, Handled, Handling, AcceptAttach, Took, StartupFails,
     callerVars, requestVars, workerVars, processVars, parserVars, readerVars, openVars, lifeVars
<1>9. CASE BeginDispatching
  BY <1>9, AskedTypes DEF Sent, Quiet, Handled, Handling, BeginDispatching, callerVars, requestVars,
     workerVars, processVars, parserVars, readerVars, openVars, lifeVars
<1>10. CASE WriteCalibration
  <2>1. cur = 0 /\ alive /\ stdin = <<>>
    BY <1>10 DEF WriteCalibration, Handled, Opening, Opened
  <2>2. stdin' = <<[req |-> 0, part |-> "A"], [req |-> 0, part |-> "B"]>>
    BY <1>10, <2>1 DEF WriteCalibration
  <2>3. UNCHANGED <<alive, cur, emitted, ran, state>> /\ wpc' = "first"
    BY <1>10 DEF WriteCalibration, requestVars
  <2>4. \A j \in 1..Len(stdin') : stdin'[j].req = 0 /\ stdin'[j].part \in {"A", "B"}
    BY <2>2
  <2>5. QED
    BY <2>1, <2>3, <2>4 DEF Sent
<1>11. CASE FirstReply
  BY <1>11, AskedTypes DEF Sent, Quiet, Handled, Handling, FirstReply, Took, StartupFails,
     callerVars, requestVars, workerVars, processVars, parserVars, readerVars, openVars, lifeVars
<1>12. CASE SecondReply
  BY <1>12, AskedTypes DEF Sent, Quiet, Handled, Handling, SecondReply, Took, StartupFails,
     callerVars, requestVars, workerVars, processVars, parserVars, readerVars, openVars, lifeVars
<1>13. CASE Register
  BY <1>13, AskedTypes DEF Sent, Quiet, Handled, Handling, Register, callerVars, requestVars,
     workerVars, processVars, parserVars, readerVars, openVars, lifeVars
<1>14. CASE SkipForeign \/ TakeCapture \/ CollectFrame
  BY <1>1, <1>14 DEF SkipForeign, TakeCapture, CollectFrame, callerVars, requestVars, workerVars,
     processVars, parserVars, readerVars, openVars, lifeVars
<1>15. CASE Accept
  BY <1>15, AskedTypes DEF Sent, Quiet, Handled, Handling, Accept, Respond, Reply, callerVars,
     requestVars, workerVars, processVars, parserVars, readerVars, openVars, lifeVars
<1>16. CASE RefuseClosed
  BY <1>16, AskedTypes DEF Sent, Quiet, Handled, Handling, RefuseClosed, Respond, Reply, callerVars,
     requestVars, workerVars, processVars, parserVars, readerVars, openVars, lifeVars
<1>17. CASE CheckContext
  BY <1>17, AskedTypes DEF Sent, Quiet, Handled, Handling, CheckContext, Respond, Reply, callerVars,
     requestVars, workerVars, processVars, parserVars, readerVars, openVars, lifeVars
<1>18. CASE ClaimWrite
  BY <1>18, AskedTypes DEF Sent, Quiet, Handled, Handling, ClaimWrite, Respond, Reply, callerVars,
     requestVars, workerVars, processVars, parserVars, readerVars, openVars, lifeVars
<1>19. CASE WriteFails
  BY <1>19, AskedTypes DEF Sent, Quiet, Handled, Handling, WriteFails, Respond, Finish, Reply,
     callerVars, requestVars, workerVars, processVars, parserVars, readerVars, openVars, lifeVars
<1>20. CASE BoundaryReached
  BY <1>20, AskedTypes DEF Sent, Quiet, Handled, Handling, BoundaryReached, Respond, Finish, Reply,
     callerVars, requestVars, workerVars, processVars, parserVars, readerVars, openVars, lifeVars
<1>21. CASE ReadFails
  BY <1>21, AskedTypes DEF Sent, Quiet, Handled, Handling, ReadFails, Respond, Finish, Reply,
     callerVars, requestVars, workerVars, processVars, parserVars, readerVars, openVars, lifeVars
<1>22. CASE SendResponse
  BY <1>22, AskedTypes DEF Sent, Quiet, Handled, Handling, SendResponse, callerVars, requestVars,
     workerVars, processVars, parserVars, readerVars, openVars, lifeVars
<1>23. CASE StopRequests
  BY <1>23, AskedTypes DEF Sent, Quiet, Handled, Handling, StopRequests, callerVars, requestVars,
     workerVars, processVars, parserVars, readerVars, openVars, lifeVars
<1>24. CASE Write
  <2>1. cur \in Requests /\ cur # 0 /\ alive /\ alive' = alive /\ state[cur] = "writing" /\ stdin = <<>>
    BY <1>24, AskedTypes DEF Write, Handled, Handling, Quiet
  <2>2. UNCHANGED <<cur, emitted, ran, state>> /\ wpc' = "read"
    BY <1>24 DEF Write, requestVars
  <2>3. \A j \in 1..Len(stdin') : stdin'[j].req = cur
    BY <1>24, <2>1, WriteLines
  <2>4. QED
    BY <2>1, <2>2, <2>3 DEF Sent
<1>25. CASE TmuxForeignBlock
  BY <1>1, <1>25 DEF TmuxForeignBlock, callerVars, requestVars, workerVars, processVars, parserVars,
     readerVars, openVars, lifeVars
<1>26. CASE TmuxExecutes
  <2>1. /\ stdin # <<>> /\ Head(stdin) = stdin[1] /\ 1 \in 1..Len(stdin) /\ Head(stdin).req = cur
        /\ \A r \in Requests : r # cur => emitted'[r] = emitted[r] /\ ran'[r] = ran[r]
        /\ \A r \in Requests : r = cur => ran'[r]
    BY <1>26, CurrentRuns
  <2>2. UNCHANGED <<cur, state, wpc, alive>> /\ alive
    BY <1>26 DEF TmuxExecutes, requestVars, workerVars
  <2>3. \A r \in Requests : (emitted'[r] # <<>> => ran'[r]) /\ (r = cur => state[r] \in {"writing", "finished"} /\ wpc # "write")
    BY <2>1, AskedTypes, SMTT(30) DEF Sent, Quiet
  <2>4. \A j \in 1..Len(stdin') : stdin'[j].req = cur /\ (cur = 0 => stdin'[j].part \in {"guard", "attach", "A", "B"})
    <3>1. CASE Head(stdin).part = "command" /\ kind[Head(stdin).req] = "capture"
      <4>1. cur # 0
        BY <2>1, <3>1 DEF Sent
      <4>2. /\ Len(stdin') = Len(stdin) /\ stdin'[1].req = cur
            /\ \A j \in 2..Len(stdin) : stdin'[j] = stdin[j]
        BY <1>26, <2>1, <3>1, TmuxTakes DEF TypeInv
      <4>3. Len(stdin) \in Nat
        BY Queue, <2>1 DEF TypeInv, ProcessTypes
      <4>4. \A j \in 1..Len(stdin) : stdin'[j].req = cur
        BY <4>2, <4>3 DEF Sent
      <4>5. QED
        BY <4>1, <4>2, <4>4
    <3>2. CASE ~(Head(stdin).part = "command" /\ kind[Head(stdin).req] = "capture")
      <4>1. stdin' = Tail(stdin)
        BY <1>26, <3>2, TmuxTakes DEF TypeInv
      <4>2. \A j \in 1..Len(stdin') : j + 1 \in 1..Len(stdin) /\ stdin'[j] = stdin[j + 1]
        BY <2>1, <4>1 DEF TypeInv, ProcessTypes
      <4>3. QED
        BY <4>2 DEF Sent
    <3>3. QED
      BY <3>1, <3>2
  <2>5. QED
    BY <2>1, <2>2, <2>3, <2>4, AskedTypes DEF Sent
<1>27. CASE TmuxExits
  BY <1>27, AskedTypes DEF Sent, Quiet, Handled, Handling, TmuxExits, callerVars, requestVars,
     workerVars, processVars, parserVars, readerVars, openVars, lifeVars
<1>28. CASE ReadFrame \/ CaptureLine \/ CaptureEnds \/ ReaderEnds
  BY <1>1, <1>28 DEF ReadFrame, CaptureLine, CaptureEnds, ReaderEnds, callerVars, requestVars,
     workerVars, processVars, parserVars, readerVars, openVars, lifeVars
<1>29. CASE ReaderFails
  BY <1>29, AskedTypes DEF Sent, Quiet, Handled, Handling, ReaderFails, callerVars, requestVars,
     workerVars, processVars, parserVars, readerVars, openVars, lifeVars
<1>30. CASE StartClose \/ BeginClosing \/ CloseStdin
  BY <1>1, <1>30 DEF StartClose, BeginClosing, CloseStdin, callerVars, requestVars, workerVars,
     processVars, parserVars, readerVars, openVars, lifeVars
<1>31. CASE CloseProcess
  BY <1>31, AskedTypes DEF Sent, Quiet, Handled, Handling, CloseProcess, callerVars, requestVars,
     workerVars, processVars, parserVars, readerVars, openVars, lifeVars
<1>32. QED
  BY <1>2, <1>3, <1>4, <1>5, <1>6, <1>7, <1>8, <1>9, <1>10, <1>11, <1>12, <1>13, <1>14, <1>15,
     <1>16, <1>17, <1>18, <1>19, <1>20, <1>21, <1>22, <1>23, <1>24, <1>25, <1>26, <1>27, <1>28,
     <1>29, <1>30, <1>31 DEF Next, CallerStep, OpenerStep, WorkerStep, ReaderStep, CloserStep

\* Only blocks of other clients get between what is the client's own.
LEMMA MarkedStep ==
    ASSUME TypeInv, Marked, Next
    PROVE  Marked'
<1>1. ASSUME UNCHANGED <<stdout, frames, lines>> PROVE Marked'
  BY <1>1 DEF Marked, OursOrBlocks, TypeInv, ProcessTypes, ReaderTypes
<1>2. ASSUME NEW c \in Callers, Call(c) \/ CancelContext(c) \/ CheckClosed(c) \/ SubmitGivesUp(c) \/ Receive(c) \/ AwaitResponse(c) \/ CancelBeforeWrite(c) \/ CanceledTooLate(c) PROVE Marked'
  BY <1>1, <1>2 DEF Call, CancelContext, CheckClosed, SubmitGivesUp, Receive, AwaitResponse,
     CancelBeforeWrite, CanceledTooLate, Tell, callerVars, requestVars, workerVars, processVars,
     parserVars, readerVars, openVars, lifeVars
<1>3. CASE OpenFails \/ BeginDispatching \/ WriteCalibration \/ Register \/ CancelOpen
  BY <1>1, <1>3 DEF OpenFails, BeginDispatching, WriteCalibration, Register, CancelOpen,
     StartupFails, callerVars, requestVars, workerVars, processVars, parserVars, readerVars,
     openVars, lifeVars
<1>4. CASE AcceptGuard
  BY <1>4, Queue DEF Marked, OursOrBlocks, TypeInv, ProcessTypes, ReaderTypes, AcceptGuard, Took,
     StartupFails, callerVars, requestVars, workerVars, processVars, parserVars, readerVars,
     openVars, lifeVars
<1>5. CASE AcceptAttach
  BY <1>5, Queue DEF Marked, OursOrBlocks, TypeInv, ProcessTypes, ReaderTypes, AcceptAttach, Took,
     StartupFails, callerVars, requestVars, workerVars, processVars, parserVars, readerVars,
     openVars, lifeVars
<1>6. CASE FirstReply
  BY <1>6, Queue DEF Marked, OursOrBlocks, TypeInv, ProcessTypes, ReaderTypes, FirstReply, Took,
     StartupFails, callerVars, requestVars, workerVars, processVars, parserVars, readerVars,
     openVars, lifeVars
<1>7. CASE SecondReply
  BY <1>7, Queue DEF Marked, OursOrBlocks, TypeInv, ProcessTypes, ReaderTypes, SecondReply, Took,
     StartupFails, callerVars, requestVars, workerVars, processVars, parserVars, readerVars,
     openVars, lifeVars
<1>8. CASE Accept \/ RefuseClosed \/ CheckContext \/ ClaimWrite \/ WriteFails \/ ReadFails \/ StopRequests \/ Write
  BY <1>1, <1>8 DEF Accept, RefuseClosed, CheckContext, ClaimWrite, WriteFails, ReadFails,
     StopRequests, Write, Respond, Finish, callerVars, requestVars, workerVars, processVars,
     parserVars, readerVars, openVars, lifeVars
<1>9. CASE SkipForeign
  BY <1>9, Queue DEF Marked, OursOrBlocks, TypeInv, ProcessTypes, ReaderTypes, SkipForeign,
     callerVars, requestVars, workerVars, processVars, parserVars, readerVars, openVars, lifeVars
<1>10. CASE TakeCapture
  <2>1. frames # <<>> /\ frames' = Tail(frames) /\ UNCHANGED <<stdout, lines>>
    BY <1>10 DEF TakeCapture, parserVars
  <2>2. \A j \in 1..Len(frames') : j + 1 \in 1..Len(frames) /\ frames'[j] = frames[j + 1]
    BY <2>1 DEF TypeInv, ReaderTypes
  <2>3. QED
    BY <2>1, <2>2 DEF Marked, OursOrBlocks
<1>11. CASE BoundaryReached
  BY <1>11, Queue DEF Marked, OursOrBlocks, TypeInv, ProcessTypes, ReaderTypes, BoundaryReached,
     Respond, Finish, Reply, callerVars, requestVars, workerVars, processVars, parserVars,
     readerVars, openVars, lifeVars
<1>12. CASE CollectFrame
  BY <1>12, Queue DEF Marked, OursOrBlocks, TypeInv, ProcessTypes, ReaderTypes, CollectFrame,
     OneMoreFrame, callerVars, requestVars, workerVars, processVars, parserVars, readerVars,
     openVars, lifeVars
<1>13. CASE SendResponse
  BY <1>13, Queue DEF Marked, OursOrBlocks, TypeInv, ProcessTypes, ReaderTypes, SendResponse,
     callerVars, requestVars, workerVars, processVars, parserVars, readerVars, openVars, lifeVars
<1>14. CASE TmuxExits
  BY <1>1, <1>14 DEF TmuxExits, callerVars, requestVars, workerVars, processVars, parserVars,
     readerVars, openVars, lifeVars
<1>15. CASE TmuxExecutes
  <2>1. PICK said \in Seq(Frame) : Saying(said)
    BY <1>15, TmuxSays DEF TypeInv
  <2>2. stdout' = stdout \o said /\ UNCHANGED <<frames, lines>>
    BY <1>15, <2>1 DEF Saying, TmuxExecutes, readerVars, parserVars
  <2>3. \A k \in 1..Len(said) : said[k].own \/ said[k].tag \in Blocks
    <3>1. CASE Head(stdin).part \in Starting
      BY <2>1, <3>1 DEF Saying
    <3>2. CASE Head(stdin).part \notin Starting
      <4>1. \A k \in 1..Len(said) : said[k] = Mark(Head(stdin).req, said[k].tag)
        BY <2>1, <3>2 DEF Saying
      <4>2. \A tag : Mark(Head(stdin).req, tag).own = TRUE
        BY DEF Mark
      <4>3. \A k \in 1..Len(said) : said[k].own = TRUE
        BY <4>1, <4>2
      <4>4. QED
        BY <4>3
    <3>3. QED
      BY <3>1, <3>2
  <2>4. stdout \in Seq(Frame)
    BY DEF TypeInv, ProcessTypes
  <2>5. \A j \in 1..Len(stdout') : \/ j \in 1..Len(stdout) /\ stdout'[j] = stdout[j]
                                   \/ j - Len(stdout) \in 1..Len(said) /\ stdout'[j] = said[j - Len(stdout)]
    BY <2>2, <2>4
  <2>6. QED
    BY <2>2, <2>3, <2>5 DEF Marked, OursOrBlocks
<1>16. CASE TmuxForeignBlock
  <2>1. PICK tag \in ForeignTags : stdout' = Append(stdout, [req |-> 0, own |-> FALSE, tag |-> tag])
    BY <1>16 DEF TmuxForeignBlock
  <2>2. tag \in Blocks
    BY ClientAssumption DEF ClientAssumption, Blocks
  <2>3. stdout \in Seq(Frame) /\ UNCHANGED <<frames, lines>>
    BY <1>16 DEF TypeInv, ProcessTypes, TmuxForeignBlock, readerVars, parserVars
  <2>4. \A j \in 1..Len(stdout') : \/ j \in 1..Len(stdout) /\ stdout'[j] = stdout[j]
                                   \/ stdout'[j].tag = tag
    BY <2>1, <2>3
  <2>5. QED
    BY <2>2, <2>3, <2>4 DEF Marked, OursOrBlocks
<1>17. CASE ReadFrame
  BY <1>17, Queue DEF Marked, OursOrBlocks, TypeInv, ProcessTypes, ReaderTypes, ReadFrame, Reading,
     SendBlocked, ToChannel, Captures, Blocks, callerVars, requestVars, workerVars, processVars,
     parserVars, readerVars, openVars, lifeVars
<1>18. CASE CaptureLine
  BY <1>18, Queue DEF Marked, OursOrBlocks, TypeInv, ProcessTypes, ReaderTypes, CaptureLine,
     Reading, SendBlocked, ToChannel, Captures, callerVars, requestVars, workerVars, processVars,
     parserVars, readerVars, openVars, lifeVars
<1>19. CASE CaptureEnds
  <2>1. /\ stdout # <<>> /\ lines # <<>> /\ stdout \in Seq(Frame) /\ lines \in Seq(Frame) /\ frames \in Seq(Frame)
        /\ stdout' = Tail(stdout) /\ lines' = Front(lines) /\ frames' = Append(frames, Head(stdout))
    BY <1>19 DEF CaptureEnds, Reading, TypeInv, ProcessTypes, ReaderTypes
  <2>2. \A j \in 1..Len(stdout') : j + 1 \in 1..Len(stdout) /\ stdout'[j] = stdout[j + 1]
    BY <2>1
  <2>3. \A j \in 1..Len(lines') : j \in 1..Len(lines) /\ lines'[j] = lines[j]
    BY <2>1 DEF Front
  <2>4. \A j \in 1..Len(frames') : \/ j \in 1..Len(frames) /\ frames'[j] = frames[j]
                                   \/ frames'[j] = stdout[1] /\ 1 \in 1..Len(stdout)
    BY <2>1
  <2>5. QED
    BY <2>2, <2>3, <2>4 DEF Marked, OursOrBlocks
<1>20. CASE ReaderEnds
  BY <1>20, Queue DEF Marked, OursOrBlocks, TypeInv, ProcessTypes, ReaderTypes, ReaderEnds,
     SendBlocked, ToChannel, Captures, callerVars, requestVars, workerVars, processVars, parserVars,
     readerVars, openVars, lifeVars
<1>21. CASE ReaderFails
  BY <1>21, Queue DEF Marked, OursOrBlocks, TypeInv, ProcessTypes, ReaderTypes, ReaderFails,
     callerVars, requestVars, workerVars, processVars, parserVars, readerVars, openVars, lifeVars
<1>22. CASE StartClose \/ BeginClosing \/ CloseStdin \/ CloseProcess
  BY <1>1, <1>22 DEF StartClose, BeginClosing, CloseStdin, CloseProcess, callerVars, requestVars,
     workerVars, processVars, parserVars, readerVars, openVars, lifeVars
<1>23. QED
  BY <1>2, <1>3, <1>4, <1>5, <1>6, <1>7, <1>8, <1>9, <1>10, <1>11, <1>12, <1>13, <1>14, <1>15,
     <1>16, <1>17, <1>18, <1>19, <1>20, <1>21, <1>22 DEF Next, CallerStep, OpenerStep, WorkerStep,
     ReaderStep, CloserStep

LEMMA OneReply ==
    ASSUME NEW s \in Seq(Replies), Len(s) <= 1, s # <<>>
    PROVE  Head(s) \in Replies /\ Tail(s) = <<>>
<1>1. Head(s) \in Replies /\ Tail(s) \in Seq(Replies) /\ Len(Tail(s)) = Len(s) - 1 /\ Len(s) \in Nat
  BY Queue
<1>2. Len(Tail(s)) \in Nat
  BY <1>1
<1>3. Len(Tail(s)) = 0
  BY <1>1, <1>2
<1>4. QED
  BY <1>1, <1>3

OverThen(r) == state'[r] # "writing" /\ (r = cur' => stdin' = <<>>)

\* The reply x to r is a true one after the step.
Now(r, x) == TrueReply(kind'[r], ran'[r], OverThen(r), emitted'[r], x)

\* What was true of r stays so.
Keeps(r) == \A x \in Replies : Good(r, x) => Now(r, x)

\* What the boundary promises.
AllSaid ==
    /\ ran[cur] /\ stdin = <<>>
    /\ IF kind[cur] = "capture" THEN OwnPart(results \o lines, emitted[cur])
                                ELSE results \o lines = emitted[cur]

\* Nothing about r changes.
LEMMA KeepsSame ==
    ASSUME NEW r, kind'[r] = kind[r], ran'[r] = ran[r], emitted'[r] = emitted[r], Over(r) => OverThen(r)
    PROVE  Keeps(r)
BY DEF Keeps, Good, Now, TrueReply

\* A request that is not over has been answered with a doubt if at all.
LEMMA KeepsOpen ==
    ASSUME TypeInv, NEW r \in Requests, ~Over(r), kind'[r] = kind[r],
           emitted'[r] = emitted[r] \/ \E u \in Seq(Frame) : emitted'[r] = emitted[r] \o u
    PROVE  Keeps(r)
<1>1. SUFFICES ASSUME NEW x \in Replies, Good(r, x) PROVE Now(r, x)
  BY DEF Keeps
<1>2. x.err # "ok" /\ x.err \notin NotRun /\ x.frames \in Seq(Frame) /\ emitted[r] \in Seq(Frame)
  BY <1>1, AskedTypes DEF Good, TrueReply, Replies
<1>3. x.err = "unknown" => IsPrefix(x.frames, emitted'[r])
  <2>1. x.err = "unknown" => IsPrefix(x.frames, emitted[r])
    BY <1>1 DEF Good, TrueReply
  <2>2. QED
    BY <1>2, <2>1, PrefixGrows
<1>4. x.err \notin {"ok", "unknown"} => x.frames = <<>>
  BY <1>1 DEF Good, TrueReply
<1>5. QED
  BY <1>2, <1>3, <1>4 DEF Now, TrueReply

\* No answer is a true one; so is a doubt with nothing collected, and a refusal
\* of what never ran.
LEMMA NoneIsTrue == \A r : Now(r, None) /\ Good(r, None)
BY DEF Now, Good, TrueReply, None, NotRun

LEMMA DoubtIsTrue ==
    ASSUME NEW r, emitted'[r] \in Seq(Frame)
    PROVE  Now(r, Reply("unknown", <<>>))
BY PrefixNothing DEF Now, TrueReply, Reply, NotRun

LEMMA RefusalIsTrue ==
    ASSUME NEW r, ~ran'[r], OverThen(r), NEW e \in NotRun
    PROVE  Now(r, Reply(e, <<>>))
BY DEF Now, TrueReply, Reply, NotRun

\* A step that makes no reply keeps the ones there are true.
LEMMA TruthKept ==
    ASSUME TypeInv, Truthful, \A r \in Requests : Keeps(r),
           \A r \in Requests : result'[r] = result[r] \/ Now(r, result'[r]),
           \A r \in Requests : response'[r] # <<>> =>
               response'[r] = response[r] \/ Now(r, Head(response'[r])),
           cur' \in 0..MaxRequests,
           cur' # 0 => (cur' = cur /\ resp' = resp) \/ Now(cur', resp')
    PROVE  Truthful'
<1>1. \A r \in Requests : Now(r, result'[r])
  BY AskedTypes DEF Truthful, Keeps
<1>2. \A r \in Requests : response'[r] # <<>> => Now(r, Head(response'[r]))
  <2>1. SUFFICES ASSUME NEW r \in Requests, response'[r] # <<>>, response'[r] = response[r]
                 PROVE  Now(r, Head(response'[r]))
    OBVIOUS
  <2>2. Head(response[r]) \in Replies
    <3>1. response[r] \in Seq(Replies) /\ response[r] # <<>>
      BY <2>1, AskedTypes
    <3>2. QED
      BY <3>1, Queue
  <2>3. Good(r, Head(response[r]))
    BY <2>1 DEF Truthful
  <2>4. QED
    BY <2>1, <2>2, <2>3 DEF Keeps
<1>3. cur' # 0 => Now(cur', resp')
  <2>1. resp \in Replies /\ (cur' # 0 => cur' \in Requests)
    BY Bounds DEF TypeInv, WorkerTypes
  <2>2. QED
    BY <2>1 DEF Truthful, Keeps
<1>4. QED
  BY <1>1, <1>2, <1>3 DEF Truthful, Good, Now, Over, OverThen

\* Every reply made is true when it is made, given what the boundary and the end of
\* the stream promise, and no later step, a cancellation included, makes it false.
LEMMA TruthfulStep ==
    ASSUME TypeInv, Asked, Handled, Sent, Quiet, Truthful,
           BoundaryReached => AllSaid,
           ReadFails => IsPrefix(results, emitted[cur]), Next
    PROVE  Truthful'
<1>1. ASSUME UNCHANGED <<result, response, resp, cur, ran, state, stdin, kind, emitted>> PROVE Truthful'
  BY <1>1 DEF Truthful, Good, Over
<1>2. ASSUME NEW c \in Callers, CancelContext(c) PROVE Truthful'
  BY <1>1, <1>2 DEF CancelContext, callerVars, requestVars, workerVars, processVars, parserVars,
     readerVars, openVars, lifeVars
<1>3. ASSUME NEW c \in Callers, Call(c) PROVE Truthful'
  <2>1. /\ made + 1 \in Requests /\ Untouched(made + 1)
        /\ UNCHANGED <<result, response, resp, cur, ran, state, stdin, emitted>>
        /\ \E k \in Kinds : kind' = [kind EXCEPT ![made + 1] = k]
    <3>1. made < MaxRequests /\ UNCHANGED <<result, response, resp, cur, ran, state, stdin, emitted>>
      BY <1>3 DEF Call, requestVars, workerVars, processVars
    <3>2. made + 1 \in Requests
      BY <3>1, AskedTypes
    <3>3. made + 1 > made
      BY AskedTypes
    <3>4. Untouched(made + 1)
      BY <3>2, <3>3 DEF Asked
    <3>5. \E k \in Kinds : kind' = [kind EXCEPT ![made + 1] = k]
      BY <1>3 DEF Call
    <3>6. QED
      BY <3>1, <3>2, <3>4, <3>5
  <2>2. \A r \in Requests : OverThen(r) = Over(r) /\ (r # made + 1 => kind'[r] = kind[r])
    BY <2>1, AskedTypes DEF Over, OverThen
  <2>3. \A r \in Requests : r # made + 1 => Keeps(r)
    BY <2>1, <2>2, KeepsSame
  <2>4. result'[made + 1] = None /\ response'[made + 1] = <<>> /\ cur # made + 1
    BY <2>1 DEF Untouched
  <2>5. \A r \in Requests : Now(r, result'[r])
    <3>1. SUFFICES ASSUME NEW r \in Requests, r # made + 1 PROVE Now(r, result'[r])
      BY <2>4, NoneIsTrue
    <3>2. QED
      BY <2>1, <2>3, <3>1, AskedTypes DEF Keeps, Truthful
  <2>6. \A r \in Requests : response'[r] # <<>> => Now(r, Head(response'[r]))
    <3>1. SUFFICES ASSUME NEW r \in Requests, response[r] # <<>>, r # made + 1 PROVE Now(r, Head(response[r]))
      BY <2>1, <2>4
    <3>2. Head(response[r]) \in Replies
      <4>1. response[r] \in Seq(Replies) /\ response[r] # <<>>
        BY <3>1, AskedTypes
      <4>2. QED
        BY <4>1, Queue
    <3>3. QED
      BY <2>3, <3>1, <3>2 DEF Keeps, Truthful
  <2>7. cur' # 0 => Now(cur', resp')
    <3>1. resp \in Replies /\ (cur # 0 => cur \in Requests)
      BY Bounds DEF TypeInv, WorkerTypes
    <3>2. QED
      BY <2>1, <2>3, <2>4, <3>1 DEF Truthful, Keeps
  <2>8. QED
    BY <2>5, <2>6, <2>7 DEF Truthful, Good, Now, Over, OverThen
<1>4. ASSUME NEW c \in Callers, CheckClosed(c) PROVE Truthful'
  <2>1. UNCHANGED <<response, resp, cur, ran, state, stdin, kind, emitted>>
    BY <1>4 DEF CheckClosed, Tell, requestVars, workerVars, processVars
  <2>2. \A r \in Requests : Keeps(r)
    BY <2>1, KeepsSame DEF Over, OverThen
  <2>3. req[c] \in Requests /\ ~ran[req[c]] /\ Over(req[c])
    BY <1>4, AskedTypes DEF CheckClosed, Asked, Untouched, Over, OverThen
  <2>4. \A e \in NotRun : Now(req[c], Reply(e, <<>>))
    BY <2>1, <2>3, RefusalIsTrue DEF Over, OverThen
  <2>5. \A r \in Requests : result'[r] = result[r] \/ Now(r, result'[r])
    <3>1. \/ result' = result
          \/ \E e \in NotRun : result' = [result EXCEPT ![req[c]] = Reply(e, <<>>)]
      BY <1>4 DEF CheckClosed, Tell, NotRun
    <3>2. QED
      BY <2>3, <2>4, <3>1, AskedTypes
  <2>6. QED
    BY <2>1, <2>2, <2>5, AskedTypes, TruthKept
<1>5. ASSUME NEW c \in Callers, SubmitGivesUp(c) PROVE Truthful'
  <2>1. UNCHANGED <<response, resp, cur, ran, state, stdin, kind, emitted>>
    BY <1>5 DEF SubmitGivesUp, Tell, requestVars, workerVars, processVars
  <2>2. \A r \in Requests : Keeps(r)
    BY <2>1, KeepsSame DEF Over, OverThen
  <2>3. req[c] \in Requests /\ ~ran[req[c]] /\ Over(req[c])
    BY <1>5, AskedTypes DEF SubmitGivesUp, Asked, Untouched, Over, OverThen
  <2>4. \A e \in NotRun : Now(req[c], Reply(e, <<>>))
    BY <2>1, <2>3, RefusalIsTrue DEF Over, OverThen
  <2>5. \A r \in Requests : result'[r] = result[r] \/ Now(r, result'[r])
    <3>1. \/ result' = result
          \/ \E e \in NotRun : result' = [result EXCEPT ![req[c]] = Reply(e, <<>>)]
      BY <1>5 DEF SubmitGivesUp, Tell, NotRun
    <3>2. QED
      BY <2>3, <2>4, <3>1, AskedTypes
  <2>6. QED
    BY <2>1, <2>2, <2>5, AskedTypes, TruthKept
<1>6. ASSUME NEW c \in Callers, Receive(c) PROVE Truthful'
  <2>1. /\ UNCHANGED <<result, response, resp, ran, state, stdin, kind, emitted>>
        /\ cur' = req[c] /\ req[c] \in Requests
    BY <1>6, AskedTypes DEF Receive, Asked, requestVars, processVars
  <2>2. stdin = <<>> /\ resp = None
    BY <1>6 DEF Receive, Quiet, Handled
  <2>3. \A r \in Requests : Keeps(r)
    BY <2>1, <2>2, KeepsSame DEF Over, OverThen
  <2>4. cur' \in 0..MaxRequests /\ Now(cur', resp')
    BY <2>1, <2>2, NoneIsTrue, AskedTypes
  <2>5. QED
    BY <2>1, <2>3, <2>4, TruthKept
<1>7. ASSUME NEW c \in Callers, AwaitResponse(c) PROVE Truthful'
  <2>1. /\ UNCHANGED <<resp, cur, ran, state, stdin, kind, emitted>>
        /\ response[req[c]] # <<>> /\ req[c] \in Requests
        /\ result' = [result EXCEPT ![req[c]] = Head(response[req[c]])]
        /\ response' = [response EXCEPT ![req[c]] = Tail(response[req[c]])]
    BY <1>7, AskedTypes DEF AwaitResponse, Tell, Asked, workerVars, processVars
  <2>2. \A r \in Requests : Keeps(r)
    BY <2>1, KeepsSame DEF Over, OverThen
  <2>3. /\ response[req[c]] \in Seq(Replies) /\ Len(response[req[c]]) <= 1
    BY <2>1 DEF TypeInv, RequestTypes
  <2>4. Head(response[req[c]]) \in Replies /\ Tail(response[req[c]]) = <<>>
    BY <2>1, <2>3, OneReply
  <2>5. Now(req[c], Head(response[req[c]]))
    BY <2>1, <2>2, <2>4 DEF Keeps, Truthful
  <2>6. \A r \in Requests : result'[r] = result[r] \/ Now(r, result'[r])
    BY <2>1, <2>5, AskedTypes
  <2>7. \A r \in Requests : response'[r] # <<>> => response'[r] = response[r]
    BY <2>1, <2>4, AskedTypes
  <2>8. QED
    BY <2>1, <2>2, <2>6, <2>7, AskedTypes, TruthKept
<1>8. ASSUME NEW c \in Callers, CancelBeforeWrite(c) PROVE Truthful'
  <2>1. /\ UNCHANGED <<response, resp, cur, ran, stdin, kind, emitted>> /\ req[c] \in Requests
    BY <1>8, AskedTypes DEF CancelBeforeWrite, Tell, Asked, workerVars, processVars
  <2>2. CASE state[req[c]] \in {"pending", "accepted", "canceled"}
    <3>1. /\ state' = [state EXCEPT ![req[c]] = "canceled"]
          /\ result' = [result EXCEPT ![req[c]] = Reply("ctx", <<>>)]
      BY <1>8, <2>2 DEF CancelBeforeWrite, Tell
    <3>2. \A r \in Requests : Over(r) => OverThen(r)
      BY <2>1, <3>1, AskedTypes DEF Over, OverThen
    <3>3. \A r \in Requests : Keeps(r)
      BY <2>1, <3>2, KeepsSame
    <3>4. ~ran[req[c]] /\ (req[c] = cur => stdin = <<>>)
      <4>1. ~ran[req[c]]
        BY <2>1, <2>2 DEF Sent
      <4>2. req[c] # 0
        BY <2>1, AskedTypes
      <4>3. req[c] = cur => stdin = <<>>
        BY <2>2, <4>2 DEF Sent
      <4>4. QED
        BY <4>1, <4>3
    <3>5. ~ran'[req[c]] /\ OverThen(req[c])
      BY <2>1, <3>1, <3>4, AskedTypes DEF Over, OverThen
    <3>6. Now(req[c], Reply("ctx", <<>>))
      BY <3>5, RefusalIsTrue DEF NotRun
    <3>7. \A r \in Requests : result'[r] = result[r] \/ Now(r, result'[r])
      BY <2>1, <3>1, <3>6, AskedTypes
    <3>8. QED
      BY <2>1, <3>3, <3>7, AskedTypes, TruthKept
  <2>3. CASE state[req[c]] \notin {"pending", "accepted", "canceled"}
    BY <1>8, <2>1, <2>3, <1>1 DEF CancelBeforeWrite
  <2>4. QED
    BY <2>2, <2>3
<1>9. ASSUME NEW c \in Callers, CanceledTooLate(c) PROVE Truthful'
  <2>1. UNCHANGED <<response, resp, cur, ran, state, stdin, kind, emitted>> /\ req[c] \in Requests
    BY <1>9, AskedTypes DEF CanceledTooLate, Tell, Asked, requestVars, workerVars, processVars
  <2>2. \A r \in Requests : Keeps(r)
    BY <2>1, KeepsSame DEF Over, OverThen
  <2>3. Now(req[c], Reply("unknown", <<>>))
    BY <2>1, AskedTypes, DoubtIsTrue
  <2>4. \A r \in Requests : result'[r] = result[r] \/ Now(r, result'[r])
    <3>1. result' = result \/ result' = [result EXCEPT ![req[c]] = Reply("unknown", <<>>)]
      BY <1>9 DEF CanceledTooLate, Tell
    <3>2. QED
      BY <2>1, <2>3, <3>1, AskedTypes
  <2>5. QED
    BY <2>1, <2>2, <2>4, AskedTypes, TruthKept
<1>10. CASE OpenFails \/ AcceptGuard \/ AcceptAttach \/ BeginDispatching \/ FirstReply \/ SecondReply \/ Register \/ CancelOpen
  BY <1>1, <1>10 DEF OpenFails, AcceptGuard, AcceptAttach, BeginDispatching, FirstReply,
     SecondReply, Register, CancelOpen, StartupFails, Took, callerVars, requestVars, workerVars,
     processVars, parserVars, readerVars, openVars, lifeVars
<1>11. CASE WriteCalibration
  <2>1. UNCHANGED <<result, response, resp, cur, ran, state, kind, emitted>> /\ cur = 0
    BY <1>11 DEF WriteCalibration, Handled, Opening, callerVars, requestVars
  <2>2. \A r \in Requests : r # cur
    BY <2>1, Bounds
  <2>3. \A r \in Requests : Keeps(r)
    BY <2>1, <2>2, KeepsSame DEF Over, OverThen
  <2>4. QED
    BY <2>1, <2>3, AskedTypes, TruthKept
<1>12. CASE SkipForeign \/ TakeCapture \/ CollectFrame \/ StopRequests
  BY <1>1, <1>12 DEF SkipForeign, TakeCapture, CollectFrame, StopRequests, callerVars, requestVars,
     workerVars, processVars, parserVars, readerVars, openVars, lifeVars
<1>13. CASE Accept
  <2>1. /\ UNCHANGED <<result, response, cur, ran, stdin, kind, emitted>> /\ cur \in Requests
        /\ stdin = <<>> /\ wpc = "received"
        /\ \/ state[cur] = "pending" /\ state' = [state EXCEPT ![cur] = "accepted"] /\ resp' = resp
           \/ ~(state[cur] = "pending") /\ state' = state /\ resp' = Reply("ctx", <<>>)
    BY <1>13, AskedTypes DEF Accept, Respond, Handled, Handling, Quiet, callerVars, processVars
  <2>2. ~ran[cur]
    BY <2>1 DEF Handled, Sent
  <2>3. OverThen(cur)
    BY <2>1, AskedTypes DEF Over, OverThen, Handled
  <2>4. \A r \in Requests : r # cur => state'[r] = state[r]
    BY <2>1, AskedTypes
  <2>5. \A r \in Requests : Over(r) => OverThen(r)
    BY <2>1, <2>3, <2>4 DEF Over, OverThen
  <2>6. \A r \in Requests : Keeps(r)
    BY <2>1, <2>5, KeepsSame
  <2>7. Now(cur, Reply("ctx", <<>>))
    BY <2>1, <2>2, <2>3, RefusalIsTrue DEF NotRun
  <2>8. QED
    BY <2>1, <2>6, <2>7, AskedTypes, TruthKept
<1>14. CASE RefuseClosed
  <2>1. /\ UNCHANGED <<result, response, cur, ran, stdin, kind, emitted>> /\ cur \in Requests
        /\ stdin = <<>> /\ wpc = "accepted"
        /\ \/ closeRequested /\ state' = [state EXCEPT ![cur] = "finished"] /\ resp' = Reply("closed", <<>>)
           \/ ~(closeRequested) /\ UNCHANGED <<state, resp>>
    BY <1>14, AskedTypes DEF RefuseClosed, Respond, Handled, Handling, Quiet, callerVars, processVars
  <2>2. ~ran[cur]
    BY <2>1 DEF Handled, Sent
  <2>3. OverThen(cur)
    BY <2>1, AskedTypes DEF Over, OverThen, Handled
  <2>4. \A r \in Requests : r # cur => state'[r] = state[r]
    BY <2>1, AskedTypes
  <2>5. \A r \in Requests : Over(r) => OverThen(r)
    BY <2>1, <2>3, <2>4 DEF Over, OverThen
  <2>6. \A r \in Requests : Keeps(r)
    BY <2>1, <2>5, KeepsSame
  <2>7. Now(cur, Reply("closed", <<>>))
    BY <2>1, <2>2, <2>3, RefusalIsTrue DEF NotRun
  <2>8. QED
    BY <2>1, <2>6, <2>7, AskedTypes, TruthKept
<1>15. CASE CheckContext
  <2>1. /\ UNCHANGED <<result, response, cur, ran, stdin, kind, emitted>> /\ cur \in Requests
        /\ stdin = <<>> /\ wpc = "execute"
        /\ \/ ctxDone[cur] /\ state' = [state EXCEPT ![cur] = "canceled"] /\ resp' = Reply("ctx", <<>>)
           \/ ~(ctxDone[cur]) /\ UNCHANGED <<state, resp>>
    BY <1>15, AskedTypes DEF CheckContext, Respond, Handled, Handling, Quiet, callerVars, processVars
  <2>2. ~ran[cur]
    BY <2>1 DEF Handled, Sent
  <2>3. OverThen(cur)
    BY <2>1, AskedTypes DEF Over, OverThen, Handled
  <2>4. \A r \in Requests : r # cur => state'[r] = state[r]
    BY <2>1, AskedTypes
  <2>5. \A r \in Requests : Over(r) => OverThen(r)
    BY <2>1, <2>3, <2>4 DEF Over, OverThen
  <2>6. \A r \in Requests : Keeps(r)
    BY <2>1, <2>5, KeepsSame
  <2>7. Now(cur, Reply("ctx", <<>>))
    BY <2>1, <2>2, <2>3, RefusalIsTrue DEF NotRun
  <2>8. QED
    BY <2>1, <2>6, <2>7, AskedTypes, TruthKept
<1>16. CASE ClaimWrite
  <2>1. /\ UNCHANGED <<result, response, cur, ran, stdin, kind, emitted>> /\ cur \in Requests
        /\ stdin = <<>> /\ wpc = "claim" /\ resp = None /\ response[cur] = <<>>
    BY <1>16, AskedTypes DEF ClaimWrite, Respond, Handled, Handling, Quiet, callerVars, processVars
  <2>2. ~ran[cur]
    BY <2>1 DEF Handled, Sent
  <2>3. CASE state[cur] = "accepted"
    <3>1. state' = [state EXCEPT ![cur] = "writing"] /\ resp' = resp /\ result[cur] = None
      BY <1>16, <2>1, <2>3 DEF ClaimWrite, Handled
    <3>2. \A r \in Requests : r # cur => state'[r] = state[r]
      BY <3>1, AskedTypes
    <3>3. \A r \in Requests : r # cur => Keeps(r)
      BY <2>1, <3>2, KeepsSame DEF Over, OverThen
    <3>4. \A r \in Requests : Now(r, result'[r])
      BY <2>1, <3>1, <3>3, NoneIsTrue, AskedTypes DEF Keeps, Truthful
    <3>5. \A r \in Requests : response'[r] # <<>> => Now(r, Head(response'[r]))
      <4>1. SUFFICES ASSUME NEW r \in Requests, response[r] # <<>>, r # cur PROVE Now(r, Head(response[r]))
        BY <2>1
      <4>2. Head(response[r]) \in Replies
        <5>1. response[r] \in Seq(Replies) /\ response[r] # <<>>
          BY <4>1, AskedTypes
        <5>2. QED
          BY <5>1, Queue
      <4>3. QED
        BY <3>3, <4>1, <4>2 DEF Keeps, Truthful
    <3>6. cur' # 0 => Now(cur', resp')
      BY <2>1, <3>1, NoneIsTrue
    <3>7. QED
      BY <3>4, <3>5, <3>6 DEF Truthful, Good, Now, Over, OverThen
  <2>4. CASE state[cur] # "accepted"
    <3>1. state' = state /\ resp' = Reply("ctx", <<>>) /\ state[cur] = "canceled"
      BY <1>16, <2>1, <2>4 DEF ClaimWrite, Respond, Handled
    <3>2. OverThen(cur) /\ \A r \in Requests : Over(r) => OverThen(r)
      BY <2>1, <3>1 DEF Over, OverThen
    <3>3. \A r \in Requests : Keeps(r)
      BY <2>1, <3>2, KeepsSame
    <3>4. Now(cur, Reply("ctx", <<>>))
      BY <2>1, <2>2, <3>2, RefusalIsTrue DEF NotRun
    <3>5. QED
      BY <2>1, <3>1, <3>3, <3>4, AskedTypes, TruthKept
  <2>5. QED
    BY <2>3, <2>4
<1>17. CASE WriteFails
  <2>1. /\ UNCHANGED <<result, response, cur, stdin, kind, emitted>> /\ cur \in Requests
        /\ state[cur] = "writing" /\ state' = [state EXCEPT ![cur] = "finished"]
        /\ \A r \in Requests : r # cur => ran'[r] = ran[r]
    BY <1>17, AskedTypes DEF WriteFails, Finish, Respond, Handled, Handling, callerVars, processVars
  <2>2. \A r \in Requests : r # cur => state'[r] = state[r]
    BY <2>1, AskedTypes
  <2>3. \A r \in Requests : r # cur => Keeps(r)
    BY <2>1, <2>2, KeepsSame DEF Over, OverThen
  <2>4. Keeps(cur)
    <3>1. ~Over(cur) /\ kind'[cur] = kind[cur] /\ emitted'[cur] = emitted[cur]
      BY <2>1 DEF Over
    <3>2. QED
      BY <2>1, <3>1, KeepsOpen
  <2>5. Now(cur, resp')
    <3>1. resp' = Reply("unknown", <<>>) /\ emitted'[cur] \in Seq(Frame)
      BY <1>17, <2>1, AskedTypes DEF WriteFails, Finish, Respond
    <3>2. QED
      BY <3>1, DoubtIsTrue
  <2>6. QED
    BY <2>1, <2>3, <2>4, <2>5, AskedTypes, TruthKept
<1>18. CASE BoundaryReached
  <2>1. /\ UNCHANGED <<result, response, cur, ran, stdin, kind, emitted>> /\ cur \in Requests
        /\ state[cur] = "writing" /\ state' = [state EXCEPT ![cur] = "finished"]
        /\ \A r \in Requests : r # cur => ran'[r] = ran[r]
    BY <1>18, AskedTypes DEF BoundaryReached, Finish, Respond, Handled, Handling, callerVars,
       processVars
  <2>2. \A r \in Requests : r # cur => state'[r] = state[r]
    BY <2>1, AskedTypes
  <2>3. \A r \in Requests : r # cur => Keeps(r)
    BY <2>1, <2>2, KeepsSame DEF Over, OverThen
  <2>4. Keeps(cur)
    <3>1. ~Over(cur) /\ kind'[cur] = kind[cur] /\ emitted'[cur] = emitted[cur]
      BY <2>1 DEF Over
    <3>2. QED
      BY <2>1, <3>1, KeepsOpen
  <2>5. Now(cur, resp')
    <3>1. resp' = Reply("ok", results \o lines) /\ AllSaid
      BY <1>18 DEF BoundaryReached, Finish, Respond
    <3>2. ran'[cur] /\ kind'[cur] = kind[cur] /\ emitted'[cur] = emitted[cur]
      BY <2>1, <3>1 DEF AllSaid
    <3>3. OverThen(cur)
      BY <2>1, <3>1, AskedTypes DEF AllSaid, Over, OverThen
    <3>4. QED
      BY <3>1, <3>2, <3>3 DEF AllSaid, Now, TrueReply, Reply, NotRun
  <2>6. QED
    BY <2>1, <2>3, <2>4, <2>5, AskedTypes, TruthKept
<1>19. CASE ReadFails
  <2>1. /\ UNCHANGED <<result, response, cur, ran, stdin, kind, emitted>> /\ cur \in Requests
        /\ state[cur] = "writing" /\ state' = [state EXCEPT ![cur] = "finished"]
        /\ \A r \in Requests : r # cur => ran'[r] = ran[r]
    BY <1>19, AskedTypes DEF ReadFails, Finish, Respond, Handled, Handling, callerVars, processVars
  <2>2. \A r \in Requests : r # cur => state'[r] = state[r]
    BY <2>1, AskedTypes
  <2>3. \A r \in Requests : r # cur => Keeps(r)
    BY <2>1, <2>2, KeepsSame DEF Over, OverThen
  <2>4. Keeps(cur)
    <3>1. ~Over(cur) /\ kind'[cur] = kind[cur] /\ emitted'[cur] = emitted[cur]
      BY <2>1 DEF Over
    <3>2. QED
      BY <2>1, <3>1, KeepsOpen
  <2>5. Now(cur, resp')
    <3>1. resp' = Reply("unknown", results) /\ IsPrefix(results, emitted[cur])
      BY <1>19 DEF ReadFails, Finish, Respond
    <3>2. emitted'[cur] = emitted[cur]
      BY <2>1
    <3>3. QED
      BY <3>1, <3>2 DEF Now, TrueReply, Reply, NotRun
  <2>6. QED
    BY <2>1, <2>3, <2>4, <2>5, AskedTypes, TruthKept
<1>20. CASE SendResponse
  <2>1. /\ UNCHANGED <<result, cur, ran, state, stdin, kind, emitted>> /\ cur \in Requests
        /\ response[cur] = <<>> /\ resp' = None /\ resp \in Replies
        /\ response' = [response EXCEPT ![cur] = Append(response[cur], resp)]
    BY <1>20, AskedTypes DEF SendResponse, Handled, Handling, callerVars, processVars, TypeInv,
       WorkerTypes
  <2>2. \A r \in Requests : Keeps(r)
    BY <2>1, KeepsSame DEF Over, OverThen
  <2>3. Now(cur, resp)
    <3>1. Good(cur, resp)
      BY <2>1, AskedTypes DEF Truthful
    <3>2. QED
      BY <2>1, <2>2, <3>1 DEF Keeps
  <2>4. Head(response'[cur]) = resp /\ \A r \in Requests : r # cur => response'[r] = response[r]
    <3>1. response'[cur] = Append(<<>>, resp) /\ \A r \in Requests : r # cur => response'[r] = response[r]
      BY <2>1, AskedTypes
    <3>2. Head(Append(<<>>, resp)) = resp
      OBVIOUS
    <3>3. QED
      BY <3>1, <3>2
  <2>5. Now(cur', resp')
    BY <2>1, NoneIsTrue
  <2>6. QED
    BY <2>1, <2>2, <2>3, <2>4, <2>5, AskedTypes, TruthKept
<1>21. CASE Write
  <2>1. /\ UNCHANGED <<result, response, resp, cur, ran, state, kind, emitted>>
        /\ cur \in Requests /\ state[cur] = "writing"
    BY <1>21, AskedTypes DEF Write, Handled, Handling, callerVars, requestVars
  <2>2. \A r \in Requests : Keeps(r)
    BY <2>1, KeepsSame DEF Over, OverThen
  <2>3. QED
    BY <2>1, <2>2, AskedTypes, TruthKept
<1>22. CASE TmuxForeignBlock
  BY <1>1, <1>22 DEF TmuxForeignBlock, callerVars, requestVars, workerVars, processVars, parserVars,
     readerVars, openVars, lifeVars
<1>23. CASE TmuxExecutes
  <2>1. /\ UNCHANGED <<result, response, resp, cur, state, kind>> /\ stdin # <<>>
        /\ \A r \in Requests : r # cur => emitted'[r] = emitted[r] /\ ran'[r] = ran[r]
    BY <1>23, CurrentRuns DEF TmuxExecutes, callerVars, requestVars, workerVars
  <2>2. \A r \in Requests : r # cur => Keeps(r)
    BY <2>1, KeepsSame DEF Over, OverThen
  <2>3. PICK said \in Seq(Frame) : Saying(said)
    BY <1>23, TmuxSays DEF TypeInv
  <2>4. cur \in Requests => Keeps(cur)
    <3>1. SUFFICES ASSUME cur \in Requests PROVE Keeps(cur)
      OBVIOUS
    <3>2. emitted' = emitted \/ emitted' = [emitted EXCEPT ![Head(stdin).req] = emitted[Head(stdin).req] \o said]
      BY <2>3 DEF Saying
    <3>3. Head(stdin).req = cur
      BY <1>23, CurrentRuns
    <3>4. emitted'[cur] = emitted[cur] \/ emitted'[cur] = emitted[cur] \o said
      BY <3>1, <3>2, <3>3, AskedTypes
    <3>5. ~Over(cur) /\ kind'[cur] = kind[cur]
      BY <2>1 DEF Over, OverThen
    <3>6. QED
      BY <2>3, <3>1, <3>4, <3>5, KeepsOpen
  <2>5. QED
    BY <2>1, <2>2, <2>4, AskedTypes, TruthKept
<1>24. CASE TmuxExits
  <2>1. /\ UNCHANGED <<result, response, resp, cur, ran, state, kind, emitted>>
        /\ stdin' = stdin \/ stdin' = <<>>
    BY <1>24 DEF TmuxExits, callerVars, requestVars, workerVars
  <2>2. \A r \in Requests : Keeps(r)
    BY <2>1, KeepsSame DEF Over, OverThen
  <2>3. QED
    BY <2>1, <2>2, AskedTypes, TruthKept
<1>25. CASE ReadFrame \/ CaptureLine \/ CaptureEnds \/ ReaderEnds
  BY <1>1, <1>25 DEF ReadFrame, CaptureLine, CaptureEnds, ReaderEnds, callerVars, requestVars,
     workerVars, processVars, parserVars, readerVars, openVars, lifeVars
<1>26. CASE ReaderFails
  <2>1. /\ UNCHANGED <<result, response, resp, cur, ran, state, kind, emitted>>
        /\ stdin' = stdin \/ stdin' = <<>>
    BY <1>26 DEF ReaderFails, callerVars, requestVars, workerVars
  <2>2. \A r \in Requests : Keeps(r)
    BY <2>1, KeepsSame DEF Over, OverThen
  <2>3. QED
    BY <2>1, <2>2, AskedTypes, TruthKept
<1>27. CASE StartClose \/ BeginClosing \/ CloseStdin
  BY <1>1, <1>27 DEF StartClose, BeginClosing, CloseStdin, callerVars, requestVars, workerVars,
     processVars, parserVars, readerVars, openVars, lifeVars
<1>28. CASE CloseProcess
  <2>1. /\ UNCHANGED <<result, response, resp, cur, ran, state, kind, emitted>>
        /\ stdin' = stdin \/ stdin' = <<>>
    BY <1>28 DEF CloseProcess, callerVars, requestVars, workerVars
  <2>2. \A r \in Requests : Keeps(r)
    BY <2>1, KeepsSame DEF Over, OverThen
  <2>3. QED
    BY <2>1, <2>2, AskedTypes, TruthKept
<1>29. QED
  BY <1>2, <1>3, <1>4, <1>5, <1>6, <1>7, <1>8, <1>9, <1>10, <1>11, <1>12, <1>13, <1>14, <1>15,
     <1>16, <1>17, <1>18, <1>19, <1>20, <1>21, <1>22, <1>23, <1>24, <1>25, <1>26, <1>27,
     <1>28 DEF Next, CallerStep, OpenerStep, WorkerStep, ReaderStep, CloserStep

------------------------------------------------------------------------------
(* What a step does to the stream.                                         *)

LEMMA StreamTypes ==
    ASSUME TypeInv
    PROVE  /\ stdin \in Seq(Lines) /\ Len(stdin) \in Nat /\ stdout \in Seq(Frame)
           /\ frames \in Seq(Frame) /\ Len(frames) <= 1 /\ lines \in Seq(Frame) /\ readDone \in BOOLEAN
           /\ results \in Seq(Frame) /\ pendingFirst \in Frame \cup {NoFrame} /\ alive \in BOOLEAN
<1>1. stdin \in Seq(Lines)
  BY DEF TypeInv, ProcessTypes
<1>2. Len(stdin) \in Nat
  BY <1>1
<1>3. QED
  BY <1>1, <1>2 DEF TypeInv, ProcessTypes, ReaderTypes, WorkerTypes

\* Nothing moves; a block is passed over, read or printed; the reader ends; tmux
\* says something; and the client takes a frame.
LEMMA FlightRests ==
    ASSUME NEW R, InFlight(R), UNCHANGED <<frames, stdout, readDone>>
    PROVE  InFlight(R)'
BY DEF InFlight

LEMMA FlightSkipped ==
    ASSUME TypeInv, NEW R \in Seq(Frame), InFlight(R), SkipForeign
    PROVE  InFlight(R)'
<1>1. frames # <<>> /\ ~Head(frames).own /\ frames' = Tail(frames) /\ UNCHANGED <<stdout, readDone>>
  BY DEF SkipForeign
<1>2. QED
  BY <1>1, StreamTypes, ComesSkipped DEF InFlight

LEMMA FlightRead ==
    ASSUME TypeInv, NEW R \in Seq(Frame), InFlight(R), ReadFrame, dispatching
    PROVE  InFlight(R)'
<1>1. /\ readDone = FALSE /\ readDone' = FALSE /\ stdout # <<>> /\ stdout' = Tail(stdout)
      /\ frames' = Append(frames, Head(stdout)) \/ (frames' = frames /\ ~Head(stdout).own)
  BY StreamTypes DEF ReadFrame, Reading, ToChannel
<1>2. Comes(frames, stdout, FALSE, R)
  BY <1>1 DEF InFlight
<1>3. Comes(frames', Tail(stdout), FALSE, R)
  BY <1>1, <1>2, StreamTypes, ComesRead
<1>4. QED
  BY <1>1, <1>3 DEF InFlight

LEMMA FlightForeign ==
    ASSUME TypeInv, NEW R \in Seq(Frame), InFlight(R), TmuxForeignBlock
    PROVE  InFlight(R)'
<1>1. PICK tag \in ForeignTags : stdout' = Append(stdout, [req |-> 0, own |-> FALSE, tag |-> tag])
  BY DEF TmuxForeignBlock
<1> DEFINE block == [req |-> 0, own |-> FALSE, tag |-> tag]
<1>2. block \in Frame /\ block.own = FALSE
  <2>1. tag \in Tags /\ 0 \in 0..MaxRequests /\ FALSE \in BOOLEAN
    BY ClientAssumption DEF ClientAssumption, Tags
  <2>2. QED
    BY <2>1, FrameTypes
<1>3. stdout' = Append(stdout, block) /\ UNCHANGED <<frames, readDone>>
  BY <1>1 DEF TmuxForeignBlock, readerVars
<1> HIDE DEF block
<1>4. QED
  BY <1>2, <1>3, StreamTypes, ComesForeign DEF InFlight

LEMMA FlightCut ==
    ASSUME TypeInv, NEW R \in Seq(Frame), InFlight(R), ReaderEnds \/ ReaderFails
    PROVE  InFlight(R)'
<1>1. stdout' = <<>> /\ readDone' = TRUE /\ frames' = frames
  BY DEF ReaderEnds, ReaderFails
<1>2. QED
  BY <1>1, StreamTypes, ComesCut DEF InFlight

LEMMA FlightSaid ==
    ASSUME TypeInv, NEW R \in Seq(Frame), InFlight(R), NEW said \in Seq(Frame),
           \A k \in 1..Len(said) : said[k].own,
           stdout' = stdout \o said, UNCHANGED <<frames, readDone>>
    PROVE  InFlight(R \o said)'
<1>1. Comes(frames, stdout \o said, readDone, R \o said)
  BY StreamTypes, ComesSaid DEF InFlight
<1>2. QED
  BY <1>1 DEF InFlight

LEMMA FlightTaken ==
    ASSUME TypeInv, NEW R \in Seq(Frame), InFlight(R), frames # <<>>, Head(frames).own,
           frames' = Tail(frames), UNCHANGED <<stdout, readDone>>
    PROVE  R # <<>> /\ Head(R) = Head(frames) /\ InFlight(Tail(R))'
<1>1. R # <<>> /\ Head(R) = Head(frames) /\ Comes(Tail(frames), stdout, readDone, Tail(R))
  BY StreamTypes, ComesTaken DEF InFlight
<1>2. QED
  BY <1>1 DEF InFlight

\* tmux's record of a line the client sent is the client's own.
LEMMA OwnSaid ==
    ASSUME NEW said, Saying(said), Head(stdin).part \notin Starting
    PROVE  \A k \in 1..Len(said) : said[k].own
<1>1. \A k \in 1..Len(said) : said[k] = Mark(Head(stdin).req, said[k].tag)
  BY DEF Saying
<1>2. \A tag : Mark(Head(stdin).req, tag).own = TRUE
  BY DEF Mark
<1>3. \A k \in 1..Len(said) : said[k].own = TRUE
  BY <1>1, <1>2
<1>4. QED
  BY <1>3

\* A record of the client's own.
LEMMA MarkTypes ==
    ASSUME NEW r \in 0..MaxRequests, NEW tag \in Tags
    PROVE  Mark(r, tag) \in Frame /\ Mark(r, tag).own = TRUE /\ Mark(r, tag).tag = tag /\ Mark(r, tag) # NoFrame
BY FrameTypes DEF Mark, NoFrame

LEMMA NothingIn ==
    ASSUME NEW s \in Seq(Frame), Len(s) = 0
    PROVE  s = <<>>
OBVIOUS

\* Taking the first of what is left.
LEMMA Shift ==
    ASSUME NEW f, NEW s \in Seq(Frame), s # <<>>, f = Head(s)
    PROVE  s = <<f>> \o Tail(s)
<1>1. f \in Frame /\ Tail(s) \in Seq(Frame) /\ Len(Tail(s)) = Len(s) - 1 /\ f = s[1] /\ Len(s) \in Nat
  BY Queue
<1>2. \A i \in 1..Len(Tail(s)) : Tail(s)[i] = s[i + 1]
  OBVIOUS
<1>3. <<f>> \in Seq(Frame) /\ Len(<<f>>) = 1 /\ <<f>>[1] = f
  BY <1>1
<1>4. <<f>> \o Tail(s) \in Seq(Frame) /\ Len(<<f>> \o Tail(s)) = Len(s)
  BY <1>1, <1>3, ConcatProperties
<1>5. \A i \in 1..Len(s) : (<<f>> \o Tail(s))[i] = s[i]
  <2>1. SUFFICES ASSUME NEW i \in 1..Len(s) PROVE (<<f>> \o Tail(s))[i] = s[i]
    OBVIOUS
  <2>2. (<<f>> \o Tail(s))[i] = IF i <= 1 THEN <<f>>[i] ELSE Tail(s)[i - 1]
    BY <1>1, <1>3, <2>1, ConcatProperties
  <2>3. CASE i = 1
    BY <1>1, <1>3, <2>2, <2>3
  <2>4. CASE i # 1
    BY <1>1, <1>2, <2>1, <2>2, <2>4
  <2>5. QED
    BY <2>3, <2>4
<1>6. QED
  BY <1>4, <1>5, SeqEqual

\* The frame the opener takes is the next of the two.
LEMMA FirstIsA ==
    ASSUME TypeInv, Marked, Calibrating, wpc = "first", frames # <<>>, Head(frames).own
    PROVE  Head(frames).tag = "A"
<1>1. PICK F, R \in Seq(Frame) : Fence(0, F) /\ InFlight(R) /\ F = <<>> \o R
  BY DEF Calibrating
<1>2. R # <<>> /\ Head(R) = Head(frames)
  BY <1>1, StreamTypes, ComesTaken DEF InFlight
<1>3. F = R
  BY <1>1
<1>4. Len(R) >= 1 /\ Head(R) = R[1]
  BY <1>1, <1>2, Queue
<1>5. R[1] = Mark(0, "A")
  BY <1>1, <1>3, <1>4 DEF Fence
<1>6. QED
  BY <1>2, <1>4, <1>5 DEF Mark

LEMMA SecondIsB ==
    ASSUME TypeInv, Sent, Calibrating, wpc = "second", frames # <<>>, Head(frames).own
    PROVE  /\ Head(frames).tag = "B" /\ stdin = <<>>
           /\ frames' = Tail(frames) /\ UNCHANGED <<stdout, readDone>> => frames' = <<>> /\ NoOwn(stdout')
<1>1. PICK F, R \in Seq(Frame) :
         /\ Fence(0, F) /\ InFlight(R) /\ F = <<Mark(0, "A")>> \o R
         /\ alive => Len(stdin) = 2 - Len(F)
  BY DEF Calibrating
<1>2. R # <<>> /\ Head(R) = Head(frames) /\ Comes(Tail(frames), stdout, readDone, Tail(R))
  BY <1>1, StreamTypes, ComesTaken DEF InFlight
<1>3. Len(R) \in Nat /\ Len(R) >= 1 /\ Head(R) = R[1] /\ Tail(R) \in Seq(Frame) /\ Len(Tail(R)) = Len(R) - 1
  <2>1. Len(R) \in Nat /\ Head(R) = R[1] /\ Tail(R) \in Seq(Frame) /\ Len(Tail(R)) = Len(R) - 1
    BY <1>1, <1>2, Queue
  <2>2. Len(Tail(R)) \in Nat
    BY <2>1
  <2>3. QED
    BY <2>1, <2>2
<1>4. Len(F) = 1 + Len(R) /\ F[2] = R[1]
  <2>1. <<Mark(0, "A")>> \in Seq(Frame) /\ Len(<<Mark(0, "A")>>) = 1
    <3>1. Mark(0, "A") \in Frame
      <4>1. 0 \in 0..MaxRequests /\ "A" \in Tags
        BY Bounds DEF Tags
      <4>2. QED
        BY <4>1, MarkTypes
    <3>2. QED
      BY <3>1
  <2>2. QED
    BY <1>1, <1>3, <2>1, ConcatProperties
<1>5. Len(F) = 2 /\ Len(R) = 1 /\ R[1] = Mark(0, "B")
  BY <1>1, <1>3, <1>4 DEF Fence
<1>6. Tail(R) = <<>>
  <2>1. Tail(R) \in Seq(Frame) /\ Len(Tail(R)) = 0
    BY <1>3, <1>5
  <2>2. QED
    BY ONLY <2>1, NothingIn
<1>7. Comes(Tail(frames), stdout, readDone, <<>>)
  BY <1>2, <1>6
<1>8. Tail(frames) = <<>> /\ NoOwn(stdout)
  BY <1>7, StreamTypes, RoomTaken, ComesNone, Queue
<1>9. stdin = <<>>
  BY <1>1, <1>5, StreamTypes DEF Sent
<1>10. Head(frames).tag = "B"
  <2>1. Head(frames) = Mark(0, "B")
    BY <1>2, <1>3, <1>5
  <2>2. QED
    BY <2>1 DEF Mark
<1>11. frames' = Tail(frames) /\ UNCHANGED <<stdout, readDone>> => frames' = <<>> /\ NoOwn(stdout')
  <2>1. ASSUME frames' = Tail(frames), stdout' = stdout PROVE frames' = <<>> /\ NoOwn(stdout')
    BY <1>8, <2>1
  <2>2. QED
    BY <2>1
<1>12. QED
  BY <1>9, <1>10, <1>11

\* Sequences with nothing of the client's own.
LEMMA NoOwnNothing == NoOwn(<<>>)
BY DEF NoOwn

LEMMA NoOwnTail ==
    ASSUME NEW s \in Seq(Frame), s # <<>>, NoOwn(s)
    PROVE  NoOwn(Tail(s)) /\ ~Head(s).own
<1>1. Len(s) \in Nat /\ Len(s) >= 1 /\ Head(s) = s[1] /\ Len(Tail(s)) = Len(s) - 1
  <2>1. Len(s) \in Nat /\ Head(s) = s[1] /\ Tail(s) \in Seq(Frame) /\ Len(Tail(s)) = Len(s) - 1
    BY Queue
  <2>2. Len(Tail(s)) \in Nat
    BY <2>1
  <2>3. QED
    BY <2>1, <2>2
<1>2. \A i \in 1..Len(Tail(s)) : Tail(s)[i] = s[i + 1] /\ i + 1 \in 1..Len(s)
  BY <1>1
<1>3. QED
  BY <1>1, <1>2 DEF NoOwn

LEMMA NoOwnAppend ==
    ASSUME NEW s \in Seq(Frame), NEW f, NoOwn(s), ~f.own
    PROVE  NoOwn(Append(s, f))
<1>1. Len(s) \in Nat /\ Len(Append(s, f)) = Len(s) + 1
  OBVIOUS
<1>2. \A i \in 1..Len(s) + 1 : Append(s, f)[i] = IF i = Len(s) + 1 THEN f ELSE s[i]
  OBVIOUS
<1>3. QED
  BY <1>1, <1>2 DEF NoOwn

LEMMA NoOwnConcat ==
    ASSUME NEW s \in Seq(Frame), NEW u \in Seq(Frame), NoOwn(s), NoOwn(u)
    PROVE  NoOwn(s \o u)
<1>1. Len(s) \in Nat /\ Len(u) \in Nat /\ Len(s \o u) = Len(s) + Len(u)
  OBVIOUS
<1>2. \A i \in 1..Len(s) + Len(u) : (s \o u)[i] = IF i <= Len(s) THEN s[i] ELSE u[i - Len(s)]
  BY ConcatProperties
<1>3. QED
  BY <1>1, <1>2 DEF NoOwn

\* What the reader does to records that are not the client's.
LEMMA ReadNoOwn ==
    ASSUME TypeInv, ReadFrame, NoOwn(stdout)
    PROVE  /\ stdout # <<>> /\ NoOwn(stdout') /\ ~Head(stdout).own
           /\ NoOwn(frames) => NoOwn(frames')
           /\ dispatching => frames' = frames
           /\ capturing' = capturing /\ UNCHANGED <<stdin, lines, results, pendingFirst, wpc>>
<1>1. /\ stdout # <<>> /\ stdout' = Tail(stdout)
      /\ frames' = IF ToChannel(Head(stdout)) THEN Append(frames, Head(stdout)) ELSE frames
      /\ capturing' = IF capturing = "armed" /\ Head(stdout).own THEN "started" ELSE capturing
      /\ UNCHANGED <<stdin, lines, results, pendingFirst, wpc>>
  BY DEF ReadFrame, Reading, processVars, workerVars
<1>2. NoOwn(stdout') /\ ~Head(stdout).own
  BY <1>1, StreamTypes, NoOwnTail
<1>3. NoOwn(frames) => NoOwn(frames')
  BY <1>1, <1>2, StreamTypes, NoOwnAppend
<1>4. dispatching => frames' = frames
  BY <1>1, <1>2 DEF ToChannel
<1>5. QED
  BY <1>1, <1>2, <1>3, <1>4

LEMMA ForeignNoOwn ==
    ASSUME TypeInv, TmuxForeignBlock, NoOwn(stdout)
    PROVE  NoOwn(stdout')
<1>1. PICK tag \in ForeignTags : stdout' = Append(stdout, [req |-> 0, own |-> FALSE, tag |-> tag])
  BY DEF TmuxForeignBlock
<1>2. [req |-> 0, own |-> FALSE, tag |-> tag].own = FALSE
  OBVIOUS
<1>3. QED
  BY <1>1, <1>2, StreamTypes, NoOwnAppend

\* The opening.
LEMMA OpenedStep ==
    ASSUME TypeInv, Handled, Sent, Marked, Opened, Calibrating, Quiet, Next
    PROVE  Opened'
<1>1. ASSUME UNCHANGED <<wpc, dispatching, stdin, stdout, frames, fence, results, pendingFirst, capturing, lines>> PROVE Opened'
  BY <1>1 DEF Opened, Opening, HandedOut
<1>2. ASSUME NEW c \in Callers, Call(c) \/ CancelContext(c) \/ CheckClosed(c) \/ SubmitGivesUp(c) \/ AwaitResponse(c) \/ CancelBeforeWrite(c) \/ CanceledTooLate(c) PROVE Opened'
  BY <1>1, <1>2 DEF Call, CancelContext, CheckClosed, SubmitGivesUp, AwaitResponse,
     CancelBeforeWrite, CanceledTooLate, Tell, callerVars, requestVars, workerVars, processVars,
     parserVars, readerVars, openVars, lifeVars
<1>3. ASSUME NEW c \in Callers, Receive(c) PROVE Opened'
  BY <1>3 DEF Opened, Opening, HandedOut, Receive, callerVars, requestVars, workerVars, processVars,
     parserVars, readerVars, openVars, lifeVars
<1>4. CASE CancelOpen
  BY <1>1, <1>4 DEF CancelOpen, callerVars, requestVars, workerVars, processVars, parserVars,
     readerVars, openVars, lifeVars
<1>5. CASE OpenFails
  BY <1>5 DEF Opened, Opening, HandedOut, OpenFails, StartupFails, Opening, callerVars, requestVars,
     workerVars, processVars, parserVars, readerVars, openVars, lifeVars
<1>6. CASE AcceptGuard
  <2>1. /\ frames # <<>> /\ frames' = Tail(frames) /\ wpc' \in {"attach", "failed"}
        /\ UNCHANGED <<dispatching, fence, stdin, stdout, results, pendingFirst, capturing, lines>>
    BY <1>6 DEF AcceptGuard, Took, StartupFails, processVars, parserVars
  <2>2. /\ stdin = <<>> /\ NoOwn(frames) /\ NoOwn(stdout) /\ ~dispatching
        /\ results = <<>> /\ pendingFirst = NoFrame /\ capturing = "no" /\ lines = <<>>
    BY <1>6, <2>1 DEF AcceptGuard, Opened, Opening
  <2>3. NoOwn(frames')
    BY <2>1, <2>2, StreamTypes, NoOwnTail
  <2>4. QED
    BY <2>1, <2>2, <2>3 DEF Opened, Opening, HandedOut
<1>7. CASE AcceptAttach
  <2>1. /\ frames # <<>> /\ frames' = Tail(frames) /\ wpc' \in {"attached", "failed"}
        /\ UNCHANGED <<dispatching, fence, stdin, stdout, results, pendingFirst, capturing, lines>>
    BY <1>7 DEF AcceptAttach, Took, StartupFails, processVars, parserVars
  <2>2. /\ stdin = <<>> /\ NoOwn(frames) /\ NoOwn(stdout) /\ ~dispatching
        /\ results = <<>> /\ pendingFirst = NoFrame /\ capturing = "no" /\ lines = <<>>
    BY <1>7, <2>1 DEF AcceptAttach, Opened, Opening
  <2>3. NoOwn(frames')
    BY <2>1, <2>2, StreamTypes, NoOwnTail
  <2>4. QED
    BY <2>1, <2>2, <2>3 DEF Opened, Opening, HandedOut
<1>8. CASE BeginDispatching
  BY <1>8 DEF Opened, Opening, HandedOut, BeginDispatching, callerVars, requestVars, workerVars,
     processVars, parserVars, readerVars, openVars, lifeVars
<1>9. CASE WriteCalibration
  BY <1>9 DEF Opened, Opening, HandedOut, WriteCalibration, callerVars, requestVars, workerVars,
     processVars, parserVars, readerVars, openVars, lifeVars
<1>10. CASE FirstReply
  BY <1>10, FirstIsA, StreamTypes DEF TypeInv, LifeTypes, Opened, Opening, HandedOut, FirstReply,
     Took, StartupFails, parserVars
<1>11. CASE SecondReply
  BY <1>11, SecondIsB, StreamTypes DEF Opened, Opening, HandedOut, SecondReply, Took, StartupFails,
     parserVars, TypeInv, LifeTypes
<1>12. CASE Register
  BY <1>12 DEF Opened, Opening, HandedOut, Register, callerVars, requestVars, workerVars,
     processVars, parserVars, readerVars, openVars, lifeVars
<1>13. CASE SkipForeign
  BY <1>13 DEF Opened, Opening, HandedOut, SkipForeign, callerVars, requestVars, workerVars,
     processVars, parserVars, readerVars, openVars, lifeVars
<1>14. CASE TakeCapture
  BY <1>14 DEF Opened, Opening, HandedOut, TakeCapture, callerVars, requestVars, workerVars,
     processVars, parserVars, readerVars, openVars, lifeVars
<1>15. CASE Accept
  BY <1>15 DEF Opened, Opening, HandedOut, Accept, Respond, callerVars, requestVars, workerVars,
     processVars, parserVars, readerVars, openVars, lifeVars
<1>16. CASE RefuseClosed
  BY <1>16 DEF Opened, Opening, HandedOut, RefuseClosed, Respond, callerVars, requestVars,
     workerVars, processVars, parserVars, readerVars, openVars, lifeVars
<1>17. CASE CheckContext
  BY <1>17 DEF Opened, Opening, HandedOut, CheckContext, Respond, callerVars, requestVars,
     workerVars, processVars, parserVars, readerVars, openVars, lifeVars
<1>18. CASE ClaimWrite
  BY <1>18 DEF Opened, Opening, HandedOut, ClaimWrite, Respond, callerVars, requestVars, workerVars,
     processVars, parserVars, readerVars, openVars, lifeVars
<1>19. CASE WriteFails
  BY <1>19 DEF Opened, Opening, HandedOut, WriteFails, Respond, Finish, callerVars, requestVars,
     workerVars, processVars, parserVars, readerVars, openVars, lifeVars
<1>20. CASE BoundaryReached
  BY <1>20 DEF Opened, Opening, HandedOut, BoundaryReached, Respond, Finish, callerVars,
     requestVars, workerVars, processVars, parserVars, readerVars, openVars, lifeVars
<1>21. CASE CollectFrame
  BY <1>21 DEF Opened, Opening, HandedOut, CollectFrame, OneMoreFrame, callerVars, requestVars,
     workerVars, processVars, parserVars, readerVars, openVars, lifeVars
<1>22. CASE ReadFails
  BY <1>22 DEF Opened, Opening, HandedOut, ReadFails, Respond, Finish, callerVars, requestVars,
     workerVars, processVars, parserVars, readerVars, openVars, lifeVars
<1>23. CASE SendResponse
  BY <1>23 DEF Opened, Opening, HandedOut, SendResponse, callerVars, requestVars, workerVars,
     processVars, parserVars, readerVars, openVars, lifeVars
<1>24. CASE StopRequests
  BY <1>24 DEF Opened, Opening, HandedOut, StopRequests, callerVars, requestVars, workerVars,
     processVars, parserVars, readerVars, openVars, lifeVars
<1>25. CASE Write
  BY <1>25 DEF Opened, Opening, HandedOut, Write, Line, callerVars, requestVars, workerVars,
     processVars, parserVars, readerVars, openVars, lifeVars
<1>26. CASE TmuxExecutes
  <2>1. UNCHANGED <<wpc, dispatching, fence, results, pendingFirst>>
    BY <1>26 DEF TmuxExecutes, workerVars, lifeVars, openVars
  <2>2. CASE wpc \in {"guard", "attach", "attached", "calibrate"}
    <3>1. NoOwn(stdout) /\ NoOwn(frames) /\ capturing = "no" /\ lines = <<>>
      BY <2>2 DEF Opened, Opening
    <3>2. stdin # <<>> /\ wpc \in {"guard", "attach"} /\ Len(stdin) = 1 /\ stdin[1].part \in Starting /\ cur = 0
      BY <1>26, <2>2, CurrentRuns DEF Opened, Handled, Opening
    <3>3. PICK said \in Seq(Frame) : Saying(said)
      BY <1>26, TmuxSays DEF TypeInv
    <3>4. Head(stdin).part \in Starting
      BY <3>2, CurrentRuns, <1>26
    <3>5. NoOwn(stdout')
      <4>1. NoOwn(said) /\ stdout' = stdout \o said
        BY <3>3, <3>4 DEF Saying
      <4>2. QED
        BY <3>1, <3>3, <4>1, StreamTypes, NoOwnConcat
    <3>6. stdin' = <<>>
      <4>1. stdin' = Tail(stdin)
        BY <1>26, <3>4, TmuxTakes DEF TypeInv, Starting
      <4>2. Tail(stdin) \in Seq(Lines) /\ Len(Tail(stdin)) = 0
        BY <3>2, StreamTypes, Queue
      <4>3. QED
        BY <4>1, <4>2
    <3>7. UNCHANGED <<frames, capturing, lines>>
      BY <1>26 DEF TmuxExecutes, readerVars, parserVars
    <3>8. QED
      BY <2>1, <2>2, <3>1, <3>2, <3>5, <3>6, <3>7 DEF Opened, Opening, HandedOut
  <2>3. CASE wpc \notin {"guard", "attach", "attached", "calibrate"}
    <3>1. Opening => capturing = "no" /\ lines = <<>>
      BY DEF Opened
    <3>2. Opening => capturing' = "no" /\ lines' = <<>>
      BY <1>26, <3>1 DEF TmuxExecutes, readerVars, parserVars, Captures
    <3>3. wpc = "failed" => capturing' = "no" /\ lines' = <<>>
      BY <1>26 DEF Opened, TmuxExecutes, readerVars, parserVars, Captures
    <3>4. QED
      BY <2>1, <2>3, <3>2, <3>3 DEF Opened, Opening, HandedOut
  <2>4. QED
    BY <2>2, <2>3
<1>27. CASE TmuxForeignBlock
  <2>1. UNCHANGED <<wpc, dispatching, fence, results, pendingFirst>>
    BY <1>27 DEF TmuxForeignBlock, workerVars, lifeVars, openVars
  <2>2. CASE wpc \in {"guard", "attach", "attached", "calibrate"}
    <3>1. NoOwn(stdout) /\ NoOwn(frames) /\ capturing = "no" /\ lines = <<>>
      BY <2>2 DEF Opened, Opening
    <3>2. NoOwn(stdout')
      BY <1>27, <3>1, ForeignNoOwn
    <3>3. UNCHANGED <<stdin, frames, capturing, lines>>
      BY <1>27 DEF TmuxForeignBlock, readerVars, parserVars
    <3>4. wpc \in {"guard", "attach"} => stdin = <<>>
      <4>1. SUFFICES ASSUME wpc \in {"guard", "attach"}, Len(stdin) = 1, stdin[1].part \in Starting PROVE FALSE
        BY DEF Opened
      <4>2. QED
        BY <1>27, <4>1 DEF TmuxForeignBlock, Attached
    <3>5. QED
      BY <2>1, <2>2, <3>1, <3>2, <3>3, <3>4 DEF Opened, Opening, HandedOut
  <2>3. CASE wpc \notin {"guard", "attach", "attached", "calibrate"}
    <3>1. Opening => capturing = "no" /\ lines = <<>>
      BY DEF Opened
    <3>2. Opening => capturing' = "no" /\ lines' = <<>>
      BY <1>27, <3>1 DEF TmuxForeignBlock, readerVars, parserVars, Captures
    <3>3. wpc = "failed" => capturing' = "no" /\ lines' = <<>>
      BY <1>27 DEF Opened, TmuxForeignBlock, readerVars, parserVars, Captures
    <3>4. QED
      BY <2>1, <2>3, <3>2, <3>3 DEF Opened, Opening, HandedOut
  <2>4. QED
    BY <2>2, <2>3
<1>28. CASE TmuxExits
  BY <1>28 DEF Opened, Opening, HandedOut, TmuxExits, callerVars, requestVars, workerVars,
     processVars, parserVars, readerVars, openVars, lifeVars
<1>29. CASE ReadFrame
  <2>1. UNCHANGED <<wpc, dispatching, fence, results, pendingFirst>>
    BY <1>29 DEF ReadFrame, workerVars, lifeVars, openVars
  <2>2. CASE wpc \in {"guard", "attach", "attached", "calibrate"}
    <3>1. NoOwn(stdout) /\ NoOwn(frames) /\ capturing = "no" /\ lines = <<>>
      BY <2>2 DEF Opened, Opening
    <3>2. stdout # <<>> /\ NoOwn(stdout') /\ NoOwn(frames') /\ UNCHANGED <<capturing, stdin, lines>>
      BY <1>29, <3>1, ReadNoOwn
    <3>3. wpc \in {"guard", "attach"} => stdin = <<>>
      BY <3>2 DEF Opened
    <3>4. QED
      BY <2>1, <2>2, <3>1, <3>2, <3>3 DEF Opened, Opening, HandedOut
  <2>3. CASE wpc \notin {"guard", "attach", "attached", "calibrate"}
    <3>1. Opening => capturing = "no" /\ lines = <<>>
      BY DEF Opened
    <3>2. Opening => capturing' = "no" /\ lines' = <<>>
      BY <1>29, <3>1 DEF ReadFrame, readerVars, parserVars, Captures
    <3>3. wpc = "failed" => capturing' = "no" /\ lines' = <<>>
      BY <1>29 DEF Opened, ReadFrame, readerVars, parserVars, Captures
    <3>4. QED
      BY <2>1, <2>3, <3>2, <3>3 DEF Opened, Opening, HandedOut
  <2>4. QED
    BY <2>2, <2>3
<1>30. CASE CaptureLine
  BY <1>30 DEF Opened, Opening, HandedOut, CaptureLine, Reading, SendBlocked, ToChannel, Captures,
     callerVars, requestVars, workerVars, processVars, parserVars, readerVars, openVars, lifeVars
<1>31. CASE CaptureEnds
  BY <1>31 DEF Opened, Opening, HandedOut, CaptureEnds, Reading, SendBlocked, ToChannel, Captures,
     callerVars, requestVars, workerVars, processVars, parserVars, readerVars, openVars, lifeVars
<1>32. CASE ReaderEnds
  <2>1. UNCHANGED <<wpc, dispatching, fence, results, pendingFirst>>
    BY <1>32 DEF ReaderEnds, workerVars, lifeVars, openVars
  <2>2. CASE wpc \in {"guard", "attach", "attached", "calibrate"}
    <3>1. NoOwn(stdout) /\ NoOwn(frames) /\ capturing = "no" /\ lines = <<>>
      BY <2>2 DEF Opened, Opening
    <3>2. stdout' = <<>> /\ UNCHANGED <<frames, capturing, lines>> /\ (stdin' = stdin \/ stdin' = <<>>)
      BY <1>32 DEF ReaderEnds, processVars, parserVars
    <3>3. NoOwn(stdout')
      BY <3>2, NoOwnNothing
    <3>4. QED
      BY <2>1, <2>2, <3>1, <3>2, <3>3 DEF Opened, Opening, HandedOut
  <2>3. CASE wpc \notin {"guard", "attach", "attached", "calibrate"}
    <3>1. Opening => capturing = "no" /\ lines = <<>>
      BY DEF Opened
    <3>2. Opening => capturing' = "no" /\ lines' = <<>>
      BY <1>32, <3>1 DEF ReaderEnds, readerVars, parserVars, Captures
    <3>3. wpc = "failed" => capturing' = "no" /\ lines' = <<>>
      BY <1>32 DEF Opened, ReaderEnds, readerVars, parserVars, Captures
    <3>4. QED
      BY <2>1, <2>3, <3>2, <3>3 DEF Opened, Opening, HandedOut
  <2>4. QED
    BY <2>2, <2>3
<1>33. CASE ReaderFails
  <2>1. UNCHANGED <<wpc, dispatching, fence, results, pendingFirst>>
    BY <1>33 DEF ReaderFails, workerVars, lifeVars, openVars
  <2>2. CASE wpc \in {"guard", "attach", "attached", "calibrate"}
    <3>1. NoOwn(stdout) /\ NoOwn(frames) /\ capturing = "no" /\ lines = <<>>
      BY <2>2 DEF Opened, Opening
    <3>2. stdout' = <<>> /\ UNCHANGED <<frames, capturing, lines>> /\ (stdin' = stdin \/ stdin' = <<>>)
      BY <1>33 DEF ReaderFails, processVars, parserVars
    <3>3. NoOwn(stdout')
      BY <3>2, NoOwnNothing
    <3>4. QED
      BY <2>1, <2>2, <3>1, <3>2, <3>3 DEF Opened, Opening, HandedOut
  <2>3. CASE wpc \notin {"guard", "attach", "attached", "calibrate"}
    <3>1. Opening => capturing = "no" /\ lines = <<>>
      BY DEF Opened
    <3>2. Opening => capturing' = "no" /\ lines' = <<>>
      BY <1>33, <3>1 DEF ReaderFails, readerVars, parserVars, Captures
    <3>3. wpc = "failed" => capturing' = "no" /\ lines' = <<>>
      BY <1>33 DEF Opened, ReaderFails, readerVars, parserVars, Captures
    <3>4. QED
      BY <2>1, <2>3, <3>2, <3>3 DEF Opened, Opening, HandedOut
  <2>4. QED
    BY <2>2, <2>3
<1>34. CASE StartClose \/ BeginClosing \/ CloseStdin
  BY <1>1, <1>34 DEF StartClose, BeginClosing, CloseStdin, callerVars, requestVars, workerVars,
     processVars, parserVars, readerVars, openVars, lifeVars
<1>35. CASE CloseProcess
  BY <1>35 DEF Opened, Opening, HandedOut, CloseProcess, callerVars, requestVars, workerVars,
     processVars, parserVars, readerVars, openVars, lifeVars
<1>36. QED
  BY <1>2, <1>3, <1>4, <1>5, <1>6, <1>7, <1>8, <1>9, <1>10, <1>11, <1>12, <1>13, <1>14, <1>15,
     <1>16, <1>17, <1>18, <1>19, <1>20, <1>21, <1>22, <1>23, <1>24, <1>25, <1>26, <1>27, <1>28,
     <1>29, <1>30, <1>31, <1>32, <1>33, <1>34, <1>35 DEF Next, CallerStep, OpenerStep, WorkerStep,
     ReaderStep, CloserStep

\* What tmux, the reader and a skipped block do to the stream.
LEMMA StreamMoves ==
    ASSUME TypeInv, dispatching, NEW R \in Seq(Frame), InFlight(R),
           SkipForeign \/ ReadFrame \/ TmuxForeignBlock \/ ReaderEnds \/ ReaderFails \/ TmuxExits \/ CloseProcess
    PROVE  InFlight(R)'
<1>1. CASE SkipForeign
  BY <1>1, FlightSkipped
<1>2. CASE ReadFrame
  BY <1>2, FlightRead
<1>3. CASE TmuxForeignBlock
  BY <1>3, FlightForeign
<1>4. CASE ReaderEnds \/ ReaderFails
  BY <1>4, FlightCut
<1>5. CASE TmuxExits \/ CloseProcess
  BY <1>5, FlightRests DEF TmuxExits, CloseProcess, readerVars
<1>6. QED
  BY <1>1, <1>2, <1>3, <1>4, <1>5

\* The input is what it was, or tmux is gone and it with it.
LEMMA InputMoves ==
    ASSUME TypeInv,
           SkipForeign \/ ReadFrame \/ TmuxForeignBlock \/ ReaderEnds \/ ReaderFails \/ TmuxExits \/ CloseProcess
    PROVE  /\ (alive' => alive /\ stdin' = stdin) /\ (stdin' = stdin \/ stdin' = <<>>)
           /\ UNCHANGED <<wpc, cur, results, pendingFirst, resp, kind, ran, emitted, dispatching, lines>>
<1>1. CASE SkipForeign \/ ReadFrame \/ TmuxForeignBlock \/ ReaderEnds
  BY <1>1 DEF SkipForeign, ReadFrame, TmuxForeignBlock, ReaderEnds, callerVars, workerVars,
     processVars, readerVars, parserVars, lifeVars, openVars
<1>2. CASE ReaderFails
  BY <1>2 DEF ReaderFails, callerVars, workerVars, parserVars, lifeVars, openVars
<1>3. CASE TmuxExits \/ CloseProcess
  BY <1>3, StreamTypes DEF TmuxExits, CloseProcess, callerVars, workerVars, readerVars, parserVars,
     lifeVars, openVars
<1>4. QED
  BY <1>1, <1>2, <1>3

LEMMA FenceNothing == \A r : Fence(r, <<>>)
BY DEF Fence

\* The next of the fence's two records.
LEMMA FenceGrows ==
    ASSUME NEW r \in 0..MaxRequests, NEW F \in Seq(Frame), Fence(r, F), Len(F) < 2,
           NEW part, part = IF Len(F) = 0 THEN "A" ELSE "B"
    PROVE  /\ Fence(r, F \o <<Mark(r, part)>>) /\ Len(F \o <<Mark(r, part)>>) = Len(F) + 1
           /\ F \o <<Mark(r, part)>> \in Seq(Frame)
<1>1. <<Mark(r, part)>> \in Seq(Frame) /\ Len(<<Mark(r, part)>>) = 1 /\ <<Mark(r, part)>>[1] = Mark(r, part)
  <2>1. part \in Tags
    BY DEF Tags
  <2>2. Mark(r, part) \in Frame
    BY <2>1, MarkTypes
  <2>3. QED
    BY <2>2
<1>2. Len(F) \in Nat
  OBVIOUS
<1>3. /\ F \o <<Mark(r, part)>> \in Seq(Frame) /\ Len(F \o <<Mark(r, part)>>) = Len(F) + 1
      /\ \A i \in 1..Len(F) + 1 : (F \o <<Mark(r, part)>>)[i] = IF i <= Len(F) THEN F[i] ELSE <<Mark(r, part)>>[i - Len(F)]
  BY <1>1, ConcatProperties
<1>4. CASE Len(F) = 0
  BY <1>1, <1>3, <1>4 DEF Fence
<1>5. CASE Len(F) = 1
  <2>1. (F \o <<Mark(r, part)>>)[1] = F[1] /\ (F \o <<Mark(r, part)>>)[2] = Mark(r, part)
    BY <1>1, <1>3, <1>5
  <2>2. F[1] = Mark(r, "A") /\ part = "B"
    BY <1>5 DEF Fence
  <2>3. QED
    BY <1>3, <1>5, <2>1, <2>2 DEF Fence
<1>6. QED
  BY <1>2, <1>4, <1>5

LEMMA CalibratingNow ==
    ASSUME NEW F \in Seq(Frame), NEW R \in Seq(Frame), Fence(0, F), InFlight(R)',
           F = (IF wpc' = "first" THEN <<>> ELSE <<Mark(0, "A")>>) \o R,
           alive' => Len(stdin') = 2 - Len(F),
           \A j \in 1..Len(stdin') : stdin'[j].part = IF j = Len(stdin') THEN "B" ELSE "A"
    PROVE  Calibrating'
BY DEF Calibrating

\* The startup takes the two replies to its fence as such, and nothing else.
LEMMA CalibratingStep ==
    ASSUME TypeInv, Handled, Sent, Marked, Opened, Calibrating, Next
    PROVE  Calibrating'
<1>1. ASSUME UNCHANGED <<wpc, stdin, frames, stdout, readDone, alive>> PROVE Calibrating'
  BY <1>1 DEF Calibrating, InFlight
<1>2. ASSUME NEW c \in Callers, Call(c) \/ CancelContext(c) \/ CheckClosed(c) \/ SubmitGivesUp(c) \/ AwaitResponse(c) \/ CancelBeforeWrite(c) \/ CanceledTooLate(c) PROVE Calibrating'
  BY <1>1, <1>2 DEF Call, CancelContext, CheckClosed, SubmitGivesUp, AwaitResponse,
     CancelBeforeWrite, CanceledTooLate, Tell, callerVars, requestVars, workerVars, processVars,
     parserVars, readerVars, openVars, lifeVars
<1>3. ASSUME NEW c \in Callers, Receive(c) PROVE Calibrating'
  BY <1>3 DEF Calibrating, InFlight, Receive, callerVars, requestVars, workerVars, processVars,
     parserVars, readerVars, openVars, lifeVars
<1>4. CASE CancelOpen
  BY <1>1, <1>4 DEF CancelOpen, callerVars, requestVars, workerVars, processVars, parserVars,
     readerVars, openVars, lifeVars
<1>5. CASE OpenFails
  BY <1>5 DEF OpenFails, StartupFails, Calibrating
<1>6. CASE AcceptGuard
  BY <1>6 DEF Calibrating, InFlight, AcceptGuard, Took, StartupFails, callerVars, requestVars,
     workerVars, processVars, parserVars, readerVars, openVars, lifeVars
<1>7. CASE AcceptAttach
  BY <1>7 DEF Calibrating, InFlight, AcceptAttach, Took, StartupFails, callerVars, requestVars,
     workerVars, processVars, parserVars, readerVars, openVars, lifeVars
<1>8. CASE BeginDispatching
  BY <1>8 DEF Calibrating, InFlight, BeginDispatching, callerVars, requestVars, workerVars,
     processVars, parserVars, readerVars, openVars, lifeVars
<1>9. CASE WriteCalibration
  <2>1. stdin = <<>> /\ NoOwn(stdout) /\ NoOwn(frames)
    BY <1>9 DEF WriteCalibration, Opened
  <2>2. stdin' = <<[req |-> 0, part |-> "A"], [req |-> 0, part |-> "B"]>> /\ wpc' = "first" /\ UNCHANGED <<frames, stdout, readDone>>
    BY <1>9, <2>1 DEF WriteCalibration, readerVars
  <2>3. InFlight(<<>>)'
    BY <2>1, <2>2, StreamTypes, ComesNothing DEF InFlight
  <2>4. <<>> \in Seq(Frame) /\ <<>> = <<>> \o <<>> /\ Fence(0, <<>>) /\ Len(<<>>) = 0
    BY FenceNothing
  <2>5. Len(stdin') = 2 /\ stdin'[1].part = "A" /\ stdin'[2].part = "B"
    BY <2>2
  <2>6. \A j \in 1..Len(stdin') : stdin'[j].part = IF j = Len(stdin') THEN "B" ELSE "A"
    BY <2>5
  <2>7. QED
    <3>1. <<>> = (IF wpc' = "first" THEN <<>> ELSE <<Mark(0, "A")>>) \o <<>> /\ (alive' => Len(stdin') = 2 - Len(<<>>))
      BY <2>2, <2>4, <2>5
    <3> DEFINE nothing == <<>>
    <3>2. nothing \in Seq(Frame) /\ Fence(0, nothing) /\ InFlight(nothing)'
      BY <2>3, <2>4
    <3>3. nothing = (IF wpc' = "first" THEN <<>> ELSE <<Mark(0, "A")>>) \o nothing /\ (alive' => Len(stdin') = 2 - Len(nothing))
      BY <3>1
    <3> HIDE DEF nothing
    <3>4. QED
      BY <2>6, <3>2, <3>3, CalibratingNow
<1>10. CASE FirstReply
  <2>1. /\ wpc = "first" /\ wpc' = "second" /\ frames # <<>> /\ Head(frames).own /\ frames' = Tail(frames)
        /\ UNCHANGED <<stdin, alive, stdout, readDone>>
    BY <1>10 DEF FirstReply, Took, processVars
  <2>2. PICK F, R \in Seq(Frame) : Fence(0, F) /\ InFlight(R) /\ F = <<>> \o R /\ (alive => Len(stdin) = 2 - Len(F))
    BY <2>1 DEF Calibrating
  <2>3. R # <<>> /\ Head(R) = Head(frames) /\ InFlight(Tail(R))'
    BY <2>1, <2>2, FlightTaken
  <2>4. F = R /\ Tail(R) \in Seq(Frame)
    BY <2>2, <2>3
  <2>5. Head(R) = Mark(0, "A")
    <3>1. Len(R) \in Nat /\ Head(R) = R[1]
      BY <2>2, <2>3, Queue
    <3>2. Len(R) # 0
      BY <2>2, <2>3, NothingIn
    <3>3. QED
      BY <2>2, <2>4, <3>1, <3>2 DEF Fence
  <2>6. R = <<Mark(0, "A")>> \o Tail(R)
    BY <2>2, <2>3, <2>5, Shift
  <2>7. \A j \in 1..Len(stdin') : stdin'[j].part = IF j = Len(stdin') THEN "B" ELSE "A"
    BY <2>1 DEF Calibrating
  <2>8. QED
    BY <2>1, <2>2, <2>3, <2>4, <2>6, <2>7 DEF Calibrating
<1>11. CASE SecondReply
  BY <1>11 DEF SecondReply, Took, StartupFails, Calibrating
<1>12. CASE Register
  BY <1>12 DEF Calibrating, InFlight, Register, callerVars, requestVars, workerVars, processVars,
     parserVars, readerVars, openVars, lifeVars
<1>13. CASE SkipForeign
  <2>1. SUFFICES ASSUME wpc \in {"first", "second"} PROVE Calibrating'
    BY <1>13, InputMoves DEF Calibrating
  <2>2. dispatching
    BY <2>1 DEF Opened
  <2>3. PICK F, R \in Seq(Frame) :
          /\ Fence(0, F) /\ InFlight(R)
          /\ F = (IF wpc = "first" THEN <<>> ELSE <<Mark(0, "A")>>) \o R
          /\ alive => Len(stdin) = 2 - Len(F)
    BY <2>1 DEF Calibrating
  <2>4. InFlight(R)'
    BY <1>13, <2>2, <2>3, StreamMoves
  <2>5. wpc' = wpc /\ (alive' => alive /\ stdin' = stdin) /\ (stdin' = stdin \/ stdin' = <<>>)
    BY <1>13, InputMoves
  <2>6. \A j \in 1..Len(stdin') : stdin'[j].part = IF j = Len(stdin') THEN "B" ELSE "A"
    <3>1. \A j \in 1..Len(stdin) : stdin[j].part = IF j = Len(stdin) THEN "B" ELSE "A"
      BY <2>1 DEF Calibrating
    <3>2. \A j \in 1..Len(<<>>) : FALSE
      OBVIOUS
    <3>3. QED
      BY <2>5, <3>1, <3>2
  <2>7. QED
    BY <2>3, <2>4, <2>5, <2>6 DEF Calibrating
<1>14. CASE TakeCapture
  BY <1>14 DEF Calibrating, InFlight, TakeCapture, callerVars, requestVars, workerVars, processVars,
     parserVars, readerVars, openVars, lifeVars
<1>15. CASE Accept
  BY <1>15 DEF Calibrating, InFlight, Accept, Respond, callerVars, requestVars, workerVars,
     processVars, parserVars, readerVars, openVars, lifeVars
<1>16. CASE RefuseClosed
  BY <1>16 DEF Calibrating, InFlight, RefuseClosed, Respond, callerVars, requestVars, workerVars,
     processVars, parserVars, readerVars, openVars, lifeVars
<1>17. CASE CheckContext
  BY <1>17 DEF Calibrating, InFlight, CheckContext, Respond, callerVars, requestVars, workerVars,
     processVars, parserVars, readerVars, openVars, lifeVars
<1>18. CASE ClaimWrite
  BY <1>18 DEF Calibrating, InFlight, ClaimWrite, Respond, callerVars, requestVars, workerVars,
     processVars, parserVars, readerVars, openVars, lifeVars
<1>19. CASE WriteFails
  BY <1>19 DEF Calibrating, InFlight, WriteFails, Respond, Finish, callerVars, requestVars,
     workerVars, processVars, parserVars, readerVars, openVars, lifeVars
<1>20. CASE BoundaryReached
  BY <1>20 DEF Calibrating, InFlight, BoundaryReached, Respond, Finish, callerVars, requestVars,
     workerVars, processVars, parserVars, readerVars, openVars, lifeVars
<1>21. CASE CollectFrame
  BY <1>21 DEF Calibrating, InFlight, CollectFrame, OneMoreFrame, callerVars, requestVars,
     workerVars, processVars, parserVars, readerVars, openVars, lifeVars
<1>22. CASE ReadFails
  BY <1>22 DEF Calibrating, InFlight, ReadFails, Respond, Finish, callerVars, requestVars,
     workerVars, processVars, parserVars, readerVars, openVars, lifeVars
<1>23. CASE SendResponse
  BY <1>23 DEF Calibrating, InFlight, SendResponse, callerVars, requestVars, workerVars,
     processVars, parserVars, readerVars, openVars, lifeVars
<1>24. CASE StopRequests
  BY <1>24 DEF Calibrating, InFlight, StopRequests, callerVars, requestVars, workerVars,
     processVars, parserVars, readerVars, openVars, lifeVars
<1>25. CASE Write
  BY <1>25 DEF Calibrating, InFlight, Write, Line, callerVars, requestVars, workerVars, processVars,
     parserVars, readerVars, openVars, lifeVars
<1>26. CASE TmuxExecutes
  <2>1. SUFFICES ASSUME wpc \in {"first", "second"} PROVE Calibrating'
    BY <1>26 DEF Calibrating, TmuxExecutes, workerVars
  <2>2. PICK F, R \in Seq(Frame) :
          /\ Fence(0, F) /\ InFlight(R)
          /\ F = (IF wpc = "first" THEN <<>> ELSE <<Mark(0, "A")>>) \o R
          /\ alive => Len(stdin) = 2 - Len(F)
    BY <2>1 DEF Calibrating
  <2>3. PICK said \in Seq(Frame) : Saying(said)
    BY <1>26, TmuxSays DEF TypeInv
  <2>4. /\ stdin # <<>> /\ Head(stdin) = stdin[1] /\ 1 \in 1..Len(stdin) /\ Head(stdin).req = 0
        /\ alive /\ alive' = alive /\ wpc' = wpc /\ UNCHANGED <<frames, readDone>>
    BY <1>26, <2>1, CurrentRuns DEF TmuxExecutes, workerVars, readerVars, Handled, Opening
  <2>5. Len(F) \in Nat /\ Len(stdin) \in Nat /\ Len(stdin) = 2 - Len(F) /\ Len(F) < 2
    BY <2>2, <2>4, StreamTypes
  <2>6. Head(stdin).part = IF Len(F) = 0 THEN "A" ELSE "B"
    BY <2>1, <2>4, <2>5 DEF Calibrating
  <2> DEFINE part == Head(stdin).part
  <2>7. said = <<Mark(0, part)>> /\ stdout' = stdout \o said
    BY <2>3, <2>4, <2>6 DEF Saying
  <2>8. part \notin Starting /\ part # "command"
    BY <2>6 DEF Starting
  <2>9. InFlight(R \o said)'
    BY <2>2, <2>3, <2>4, <2>7, <2>8, OwnSaid, FlightSaid
  <2>10. Fence(0, F \o said) /\ Len(F \o said) = Len(F) + 1 /\ F \o said \in Seq(Frame)
    <3>1. 0 \in 0..MaxRequests
      BY Bounds
    <3> HIDE DEF part
    <3>2. QED
      BY <2>2, <2>5, <2>6, <2>7, <3>1, FenceGrows DEF part
  <2>11. F \o said = (IF wpc = "first" THEN <<>> ELSE <<Mark(0, "A")>>) \o (R \o said)
    <3>1. (IF wpc = "first" THEN <<>> ELSE <<Mark(0, "A")>>) \in Seq(Frame)
      <4>1. 0 \in 0..MaxRequests /\ "A" \in Tags
        BY Bounds DEF Tags
      <4>2. Mark(0, "A") \in Frame
        BY <4>1, MarkTypes
      <4>3. QED
        BY <4>2
    <3> DEFINE pre == IF wpc = "first" THEN <<>> ELSE <<Mark(0, "A")>>
    <3>2. pre \in Seq(Frame) /\ F = pre \o R
      BY <2>2, <3>1
    <3> HIDE DEF pre
    <3>3. (pre \o R) \o said = pre \o (R \o said)
      BY <2>2, <2>3, <3>2, Associative
    <3>4. F \o said = pre \o (R \o said)
      BY <3>2, <3>3
    <3>5. QED
      BY <3>4 DEF pre
  <2>12. R \o said \in Seq(Frame)
    BY <2>2, <2>3
  <2>13. stdin' = Tail(stdin) /\ Len(stdin') = Len(stdin) - 1
    BY <1>26, <2>4, <2>8, TmuxTakes, StreamTypes, Queue DEF TypeInv
  <2>14. \A j \in 1..Len(stdin') : stdin'[j].part = IF j = Len(stdin') THEN "B" ELSE "A"
    <3>1. \A j \in 1..Len(stdin') : stdin'[j] = stdin[j + 1] /\ j + 1 \in 1..Len(stdin)
      BY <2>4, <2>13, StreamTypes
    <3>2. QED
      BY <2>1, <2>5, <2>13, <3>1 DEF Calibrating
  <2>15. QED
    <3> DEFINE F1 == F \o said
               R1 == R \o said
    <3>1. F1 \in Seq(Frame) /\ R1 \in Seq(Frame) /\ Fence(0, F1) /\ InFlight(R1)'
      BY <2>9, <2>10, <2>12
    <3>2. F1 = (IF wpc' = "first" THEN <<>> ELSE <<Mark(0, "A")>>) \o R1
      BY <2>4, <2>11
    <3>3. alive' => Len(stdin') = 2 - Len(F1)
      BY <2>5, <2>10, <2>13
    <3> HIDE DEF F1, R1
    <3>4. QED
      BY <2>14, <3>1, <3>2, <3>3, CalibratingNow
<1>27. CASE TmuxForeignBlock
  <2>1. SUFFICES ASSUME wpc \in {"first", "second"} PROVE Calibrating'
    BY <1>27, InputMoves DEF Calibrating
  <2>2. dispatching
    BY <2>1 DEF Opened
  <2>3. PICK F, R \in Seq(Frame) :
          /\ Fence(0, F) /\ InFlight(R)
          /\ F = (IF wpc = "first" THEN <<>> ELSE <<Mark(0, "A")>>) \o R
          /\ alive => Len(stdin) = 2 - Len(F)
    BY <2>1 DEF Calibrating
  <2>4. InFlight(R)'
    BY <1>27, <2>2, <2>3, StreamMoves
  <2>5. wpc' = wpc /\ (alive' => alive /\ stdin' = stdin) /\ (stdin' = stdin \/ stdin' = <<>>)
    BY <1>27, InputMoves
  <2>6. \A j \in 1..Len(stdin') : stdin'[j].part = IF j = Len(stdin') THEN "B" ELSE "A"
    <3>1. \A j \in 1..Len(stdin) : stdin[j].part = IF j = Len(stdin) THEN "B" ELSE "A"
      BY <2>1 DEF Calibrating
    <3>2. \A j \in 1..Len(<<>>) : FALSE
      OBVIOUS
    <3>3. QED
      BY <2>5, <3>1, <3>2
  <2>7. QED
    BY <2>3, <2>4, <2>5, <2>6 DEF Calibrating
<1>28. CASE TmuxExits
  <2>1. SUFFICES ASSUME wpc \in {"first", "second"} PROVE Calibrating'
    BY <1>28, InputMoves DEF Calibrating
  <2>2. dispatching
    BY <2>1 DEF Opened
  <2>3. PICK F, R \in Seq(Frame) :
          /\ Fence(0, F) /\ InFlight(R)
          /\ F = (IF wpc = "first" THEN <<>> ELSE <<Mark(0, "A")>>) \o R
          /\ alive => Len(stdin) = 2 - Len(F)
    BY <2>1 DEF Calibrating
  <2>4. InFlight(R)'
    BY <1>28, <2>2, <2>3, StreamMoves
  <2>5. wpc' = wpc /\ (alive' => alive /\ stdin' = stdin) /\ (stdin' = stdin \/ stdin' = <<>>)
    BY <1>28, InputMoves
  <2>6. \A j \in 1..Len(stdin') : stdin'[j].part = IF j = Len(stdin') THEN "B" ELSE "A"
    <3>1. \A j \in 1..Len(stdin) : stdin[j].part = IF j = Len(stdin) THEN "B" ELSE "A"
      BY <2>1 DEF Calibrating
    <3>2. \A j \in 1..Len(<<>>) : FALSE
      OBVIOUS
    <3>3. QED
      BY <2>5, <3>1, <3>2
  <2>7. QED
    BY <2>3, <2>4, <2>5, <2>6 DEF Calibrating
<1>29. CASE ReadFrame
  <2>1. SUFFICES ASSUME wpc \in {"first", "second"} PROVE Calibrating'
    BY <1>29, InputMoves DEF Calibrating
  <2>2. dispatching
    BY <2>1 DEF Opened
  <2>3. PICK F, R \in Seq(Frame) :
          /\ Fence(0, F) /\ InFlight(R)
          /\ F = (IF wpc = "first" THEN <<>> ELSE <<Mark(0, "A")>>) \o R
          /\ alive => Len(stdin) = 2 - Len(F)
    BY <2>1 DEF Calibrating
  <2>4. InFlight(R)'
    BY <1>29, <2>2, <2>3, StreamMoves
  <2>5. wpc' = wpc /\ (alive' => alive /\ stdin' = stdin) /\ (stdin' = stdin \/ stdin' = <<>>)
    BY <1>29, InputMoves
  <2>6. \A j \in 1..Len(stdin') : stdin'[j].part = IF j = Len(stdin') THEN "B" ELSE "A"
    <3>1. \A j \in 1..Len(stdin) : stdin[j].part = IF j = Len(stdin) THEN "B" ELSE "A"
      BY <2>1 DEF Calibrating
    <3>2. \A j \in 1..Len(<<>>) : FALSE
      OBVIOUS
    <3>3. QED
      BY <2>5, <3>1, <3>2
  <2>7. QED
    BY <2>3, <2>4, <2>5, <2>6 DEF Calibrating
<1>30. CASE CaptureLine
  BY <1>30 DEF Calibrating, InFlight, CaptureLine, Reading, SendBlocked, ToChannel, Captures,
     Opened, Opening, callerVars, requestVars, workerVars, processVars, parserVars, readerVars,
     openVars, lifeVars
<1>31. CASE CaptureEnds
  BY <1>31 DEF Calibrating, InFlight, CaptureEnds, Reading, SendBlocked, ToChannel, Captures,
     Opened, Opening, callerVars, requestVars, workerVars, processVars, parserVars, readerVars,
     openVars, lifeVars
<1>32. CASE ReaderEnds
  <2>1. SUFFICES ASSUME wpc \in {"first", "second"} PROVE Calibrating'
    BY <1>32, InputMoves DEF Calibrating
  <2>2. dispatching
    BY <2>1 DEF Opened
  <2>3. PICK F, R \in Seq(Frame) :
          /\ Fence(0, F) /\ InFlight(R)
          /\ F = (IF wpc = "first" THEN <<>> ELSE <<Mark(0, "A")>>) \o R
          /\ alive => Len(stdin) = 2 - Len(F)
    BY <2>1 DEF Calibrating
  <2>4. InFlight(R)'
    BY <1>32, <2>2, <2>3, StreamMoves
  <2>5. wpc' = wpc /\ (alive' => alive /\ stdin' = stdin) /\ (stdin' = stdin \/ stdin' = <<>>)
    BY <1>32, InputMoves
  <2>6. \A j \in 1..Len(stdin') : stdin'[j].part = IF j = Len(stdin') THEN "B" ELSE "A"
    <3>1. \A j \in 1..Len(stdin) : stdin[j].part = IF j = Len(stdin) THEN "B" ELSE "A"
      BY <2>1 DEF Calibrating
    <3>2. \A j \in 1..Len(<<>>) : FALSE
      OBVIOUS
    <3>3. QED
      BY <2>5, <3>1, <3>2
  <2>7. QED
    BY <2>3, <2>4, <2>5, <2>6 DEF Calibrating
<1>33. CASE ReaderFails
  <2>1. SUFFICES ASSUME wpc \in {"first", "second"} PROVE Calibrating'
    BY <1>33, InputMoves DEF Calibrating
  <2>2. dispatching
    BY <2>1 DEF Opened
  <2>3. PICK F, R \in Seq(Frame) :
          /\ Fence(0, F) /\ InFlight(R)
          /\ F = (IF wpc = "first" THEN <<>> ELSE <<Mark(0, "A")>>) \o R
          /\ alive => Len(stdin) = 2 - Len(F)
    BY <2>1 DEF Calibrating
  <2>4. InFlight(R)'
    BY <1>33, <2>2, <2>3, StreamMoves
  <2>5. wpc' = wpc /\ (alive' => alive /\ stdin' = stdin) /\ (stdin' = stdin \/ stdin' = <<>>)
    BY <1>33, InputMoves
  <2>6. \A j \in 1..Len(stdin') : stdin'[j].part = IF j = Len(stdin') THEN "B" ELSE "A"
    <3>1. \A j \in 1..Len(stdin) : stdin[j].part = IF j = Len(stdin) THEN "B" ELSE "A"
      BY <2>1 DEF Calibrating
    <3>2. \A j \in 1..Len(<<>>) : FALSE
      OBVIOUS
    <3>3. QED
      BY <2>5, <3>1, <3>2
  <2>7. QED
    BY <2>3, <2>4, <2>5, <2>6 DEF Calibrating
<1>34. CASE StartClose \/ BeginClosing \/ CloseStdin
  BY <1>1, <1>34 DEF StartClose, BeginClosing, CloseStdin, callerVars, requestVars, workerVars,
     processVars, parserVars, readerVars, openVars, lifeVars
<1>35. CASE CloseProcess
  <2>1. SUFFICES ASSUME wpc \in {"first", "second"} PROVE Calibrating'
    BY <1>35, InputMoves DEF Calibrating
  <2>2. dispatching
    BY <2>1 DEF Opened
  <2>3. PICK F, R \in Seq(Frame) :
          /\ Fence(0, F) /\ InFlight(R)
          /\ F = (IF wpc = "first" THEN <<>> ELSE <<Mark(0, "A")>>) \o R
          /\ alive => Len(stdin) = 2 - Len(F)
    BY <2>1 DEF Calibrating
  <2>4. InFlight(R)'
    BY <1>35, <2>2, <2>3, StreamMoves
  <2>5. wpc' = wpc /\ (alive' => alive /\ stdin' = stdin) /\ (stdin' = stdin \/ stdin' = <<>>)
    BY <1>35, InputMoves
  <2>6. \A j \in 1..Len(stdin') : stdin'[j].part = IF j = Len(stdin') THEN "B" ELSE "A"
    <3>1. \A j \in 1..Len(stdin) : stdin[j].part = IF j = Len(stdin) THEN "B" ELSE "A"
      BY <2>1 DEF Calibrating
    <3>2. \A j \in 1..Len(<<>>) : FALSE
      OBVIOUS
    <3>3. QED
      BY <2>5, <3>1, <3>2
  <2>7. QED
    BY <2>3, <2>4, <2>5, <2>6 DEF Calibrating
<1>36. QED
  BY <1>2, <1>3, <1>4, <1>5, <1>6, <1>7, <1>8, <1>9, <1>10, <1>11, <1>12, <1>13, <1>14, <1>15,
     <1>16, <1>17, <1>18, <1>19, <1>20, <1>21, <1>22, <1>23, <1>24, <1>25, <1>26, <1>27, <1>28,
     <1>29, <1>30, <1>31, <1>32, <1>33, <1>34, <1>35 DEF Next, CallerStep, OpenerStep, WorkerStep,
     ReaderStep, CloserStep

\* Between the boundary and the next request.
Ended == stdin = <<>> /\ NoOwn(stdout) /\ capturing = "no"

\* Between the boundary of a request and the write of the next nothing is said.
LEMMA QuietStep ==
    ASSUME TypeInv, Handled, Sent, Marked, Opened, Calibrating, Quiet, BoundaryReached => Ended, Next
    PROVE  Quiet'
<1>1. ASSUME UNCHANGED <<wpc, stdin, frames, stdout, capturing, lines>> PROVE Quiet'
  BY <1>1 DEF Quiet
<1>2. ASSUME NEW c \in Callers, Call(c) \/ CancelContext(c) \/ CheckClosed(c) \/ SubmitGivesUp(c) \/ AwaitResponse(c) \/ CancelBeforeWrite(c) \/ CanceledTooLate(c) PROVE Quiet'
  BY <1>1, <1>2 DEF Call, CancelContext, CheckClosed, SubmitGivesUp, AwaitResponse,
     CancelBeforeWrite, CanceledTooLate, Tell, callerVars, requestVars, workerVars, processVars,
     parserVars, readerVars, openVars, lifeVars
<1>3. ASSUME NEW c \in Callers, Receive(c) PROVE Quiet'
  BY <1>3 DEF Quiet, Receive, callerVars, requestVars, workerVars, processVars, parserVars,
     readerVars, openVars, lifeVars
<1>4. CASE CancelOpen
  BY <1>1, <1>4 DEF CancelOpen, callerVars, requestVars, workerVars, processVars, parserVars,
     readerVars, openVars, lifeVars
<1>5. CASE OpenFails
  BY <1>5 DEF Quiet, OpenFails, StartupFails, Opening, callerVars, requestVars, workerVars,
     processVars, parserVars, readerVars, openVars, lifeVars
<1>6. CASE AcceptGuard
  BY <1>6 DEF Quiet, AcceptGuard, Took, StartupFails, callerVars, requestVars, workerVars,
     processVars, parserVars, readerVars, openVars, lifeVars
<1>7. CASE AcceptAttach
  BY <1>7 DEF Quiet, AcceptAttach, Took, StartupFails, callerVars, requestVars, workerVars,
     processVars, parserVars, readerVars, openVars, lifeVars
<1>8. CASE BeginDispatching
  BY <1>8 DEF Quiet, BeginDispatching, callerVars, requestVars, workerVars, processVars, parserVars,
     readerVars, openVars, lifeVars
<1>9. CASE WriteCalibration
  BY <1>9 DEF Quiet, WriteCalibration, callerVars, requestVars, workerVars, processVars, parserVars,
     readerVars, openVars, lifeVars
<1>10. CASE FirstReply
  BY <1>10 DEF Quiet, FirstReply, Took, StartupFails, callerVars, requestVars, workerVars,
     processVars, parserVars, readerVars, openVars, lifeVars
<1>11. CASE SecondReply
  BY <1>11, SecondIsB DEF Quiet, Opened, Opening, SecondReply, Took, StartupFails, processVars,
     parserVars
<1>12. CASE Register
  BY <1>12 DEF Quiet, Register, callerVars, requestVars, workerVars, processVars, parserVars,
     readerVars, openVars, lifeVars
<1>13. CASE SkipForeign
  BY <1>13 DEF Quiet, SkipForeign, callerVars, requestVars, workerVars, processVars, parserVars,
     readerVars, openVars, lifeVars
<1>14. CASE TakeCapture
  BY <1>14 DEF Quiet, TakeCapture, callerVars, requestVars, workerVars, processVars, parserVars,
     readerVars, openVars, lifeVars
<1>15. CASE Accept
  BY <1>15 DEF Quiet, Accept, Respond, callerVars, requestVars, workerVars, processVars, parserVars,
     readerVars, openVars, lifeVars
<1>16. CASE RefuseClosed
  BY <1>16 DEF Quiet, RefuseClosed, Respond, callerVars, requestVars, workerVars, processVars,
     parserVars, readerVars, openVars, lifeVars
<1>17. CASE CheckContext
  BY <1>17 DEF Quiet, CheckContext, Respond, callerVars, requestVars, workerVars, processVars,
     parserVars, readerVars, openVars, lifeVars
<1>18. CASE ClaimWrite
  BY <1>18 DEF Quiet, ClaimWrite, Respond, callerVars, requestVars, workerVars, processVars,
     parserVars, readerVars, openVars, lifeVars
<1>19. CASE WriteFails
  BY <1>19 DEF Quiet, WriteFails, Respond, Finish, callerVars, requestVars, workerVars, processVars,
     parserVars, readerVars, openVars, lifeVars
<1>20. CASE BoundaryReached
  <2>1. /\ frames # <<>> /\ frames' = Tail(frames) /\ UNCHANGED <<stdin, stdout, capturing>> /\ wpc' = "respond"
    BY <1>20 DEF BoundaryReached, Finish, Respond, processVars, parserVars
  <2>2. stdin = <<>> /\ NoOwn(stdout) /\ capturing = "no"
    BY <1>20 DEF Ended
  <2>3. frames' = <<>>
    BY <2>1, StreamTypes, RoomTaken
  <2>4. QED
    BY <2>1, <2>2, <2>3 DEF Quiet
<1>21. CASE CollectFrame
  BY <1>21 DEF Quiet, CollectFrame, OneMoreFrame, callerVars, requestVars, workerVars, processVars,
     parserVars, readerVars, openVars, lifeVars
<1>22. CASE ReadFails
  BY <1>22 DEF Quiet, ReadFails, Respond, Finish, callerVars, requestVars, workerVars, processVars,
     parserVars, readerVars, openVars, lifeVars
<1>23. CASE SendResponse
  BY <1>23 DEF Quiet, SendResponse, callerVars, requestVars, workerVars, processVars, parserVars,
     readerVars, openVars, lifeVars
<1>24. CASE StopRequests
  BY <1>24 DEF Quiet, StopRequests, callerVars, requestVars, workerVars, processVars, parserVars,
     readerVars, openVars, lifeVars
<1>25. CASE Write
  BY <1>25 DEF Quiet, Write, Line, callerVars, requestVars, workerVars, processVars, parserVars,
     readerVars, openVars, lifeVars
<1>26. CASE TmuxExecutes
  BY <1>26 DEF Quiet, TmuxExecutes, Answers, Answered, Startups, Starting, callerVars, requestVars,
     workerVars, processVars, parserVars, readerVars, openVars, lifeVars
<1>27. CASE TmuxForeignBlock
  <2>1. SUFFICES ASSUME wpc \in {"register", "select", "received", "accepted", "execute", "claim", "write", "respond"} PROVE Quiet'
    BY <1>27 DEF TmuxForeignBlock, Quiet, workerVars
  <2>2. /\ stdin = <<>> /\ frames = <<>> /\ NoOwn(stdout) /\ capturing = "no" /\ (wpc # "respond" => lines = <<>>)
        /\ dispatching
    BY <2>1 DEF Quiet, Opened
  <2>3. NoOwn(stdout') /\ UNCHANGED <<stdin, frames, lines, wpc, capturing>>
    BY <1>27, <2>2, ForeignNoOwn DEF TmuxForeignBlock, workerVars, readerVars, parserVars
  <2>4. QED
    BY <2>2, <2>3 DEF Quiet
<1>28. CASE TmuxExits
  BY <1>28 DEF Quiet, TmuxExits, callerVars, requestVars, workerVars, processVars, parserVars,
     readerVars, openVars, lifeVars
<1>29. CASE ReadFrame
  <2>1. SUFFICES ASSUME wpc \in {"register", "select", "received", "accepted", "execute", "claim", "write", "respond"} PROVE Quiet'
    BY <1>29 DEF ReadFrame, Quiet, workerVars
  <2>2. /\ stdin = <<>> /\ frames = <<>> /\ NoOwn(stdout) /\ capturing = "no" /\ (wpc # "respond" => lines = <<>>)
        /\ dispatching
    BY <2>1 DEF Quiet, Opened
  <2>3. /\ NoOwn(stdout') /\ frames' = frames /\ capturing' = capturing /\ UNCHANGED <<stdin, lines, wpc>>
    BY <1>29, <2>2, ReadNoOwn
  <2>4. QED
    BY <2>2, <2>3 DEF Quiet
<1>30. CASE CaptureLine
  BY <1>30 DEF Quiet, CaptureLine, Reading, SendBlocked, ToChannel, Captures, callerVars,
     requestVars, workerVars, processVars, parserVars, readerVars, openVars, lifeVars
<1>31. CASE CaptureEnds
  BY <1>31 DEF Quiet, CaptureEnds, Reading, SendBlocked, ToChannel, Captures, callerVars,
     requestVars, workerVars, processVars, parserVars, readerVars, openVars, lifeVars
<1>32. CASE ReaderEnds
  <2>1. SUFFICES ASSUME wpc \in {"register", "select", "received", "accepted", "execute", "claim", "write", "respond"} PROVE Quiet'
    BY <1>32 DEF ReaderEnds, Quiet, workerVars
  <2>2. /\ stdin = <<>> /\ frames = <<>> /\ NoOwn(stdout) /\ capturing = "no" /\ (wpc # "respond" => lines = <<>>)
        /\ dispatching
    BY <2>1 DEF Quiet, Opened
  <2>3. stdout' = <<>> /\ UNCHANGED <<frames, lines, wpc, capturing>> /\ (stdin' = stdin \/ stdin' = <<>>)
    BY <1>32 DEF ReaderEnds, workerVars, processVars, parserVars
  <2>4. QED
    BY <2>2, <2>3, NoOwnNothing DEF Quiet
<1>33. CASE ReaderFails
  <2>1. SUFFICES ASSUME wpc \in {"register", "select", "received", "accepted", "execute", "claim", "write", "respond"} PROVE Quiet'
    BY <1>33 DEF ReaderFails, Quiet, workerVars
  <2>2. /\ stdin = <<>> /\ frames = <<>> /\ NoOwn(stdout) /\ capturing = "no" /\ (wpc # "respond" => lines = <<>>)
        /\ dispatching
    BY <2>1 DEF Quiet, Opened
  <2>3. stdout' = <<>> /\ UNCHANGED <<frames, lines, wpc, capturing>> /\ (stdin' = stdin \/ stdin' = <<>>)
    BY <1>33 DEF ReaderFails, workerVars, processVars, parserVars
  <2>4. QED
    BY <2>2, <2>3, NoOwnNothing DEF Quiet
<1>34. CASE StartClose \/ BeginClosing \/ CloseStdin
  BY <1>1, <1>34 DEF StartClose, BeginClosing, CloseStdin, callerVars, requestVars, workerVars,
     processVars, parserVars, readerVars, openVars, lifeVars
<1>35. CASE CloseProcess
  BY <1>35 DEF Quiet, CloseProcess, callerVars, requestVars, workerVars, processVars, parserVars,
     readerVars, openVars, lifeVars
<1>36. QED
  BY <1>2, <1>3, <1>4, <1>5, <1>6, <1>7, <1>8, <1>9, <1>10, <1>11, <1>12, <1>13, <1>14, <1>15,
     <1>16, <1>17, <1>18, <1>19, <1>20, <1>21, <1>22, <1>23, <1>24, <1>25, <1>26, <1>27, <1>28,
     <1>29, <1>30, <1>31, <1>32, <1>33, <1>34, <1>35 DEF Next, CallerStep, OpenerStep, WorkerStep,
     ReaderStep, CloserStep

------------------------------------------------------------------------------
(* The stream of a command that is no capture.                             *)

LEMMA HeldTypes ==
    ASSUME TypeInv
    PROVE  /\ Held \in Seq(Frame)
           /\ pendingFirst = NoFrame => Held = <<>> /\ Len(Held) = 0
           /\ pendingFirst # NoFrame => Held = <<pendingFirst>> /\ Len(Held) = 1 /\ Held[1] = pendingFirst
<1>1. CASE pendingFirst = NoFrame
  BY <1>1 DEF Held
<1>2. CASE pendingFirst # NoFrame
  <2>1. pendingFirst \in Frame /\ Held = <<pendingFirst>>
    BY <1>2, StreamTypes DEF Held
  <2>2. QED
    BY <1>2, <2>1
<1>3. QED
  BY <1>1, <1>2

\* The same records, split in two ways.
Alike(a, b, c, d, e) ==
    /\ Len(a) \in Nat /\ Len(b) \in Nat /\ Len(c) \in Nat /\ Len(d) \in Nat /\ Len(e) \in Nat
    /\ Len(a) + (Len(b) + Len(c)) = Len(d) + Len(e)
    /\ \A i \in 1..Len(a) : a[i] = IF i <= Len(d) THEN d[i] ELSE e[i - Len(d)]
    /\ \A i \in 1..Len(b) : b[i] = IF Len(a) + i <= Len(d) THEN d[Len(a) + i] ELSE e[Len(a) + i - Len(d)]
    /\ \A i \in 1..Len(c) : c[i] = IF Len(a) + Len(b) + i <= Len(d) THEN d[Len(a) + Len(b) + i]
                                   ELSE e[Len(a) + Len(b) + i - Len(d)]

\* Two splits of one sequence compared place by place.
LEMMA SplitTwice ==
    ASSUME NEW a \in Seq(Frame), NEW b \in Seq(Frame), NEW c \in Seq(Frame),
           NEW d \in Seq(Frame), NEW e \in Seq(Frame), a \o (b \o c) = d \o e
    PROVE  Alike(a, b, c, d, e)
<1>1. Len(a) \in Nat /\ Len(b) \in Nat /\ Len(c) \in Nat /\ Len(d) \in Nat /\ Len(e) \in Nat
  OBVIOUS
<1> DEFINE m == b \o c
           s == a \o m
           t == d \o e
<1>2. /\ m \in Seq(Frame) /\ Len(m) = Len(b) + Len(c)
      /\ \A i \in 1..Len(b) + Len(c) : m[i] = IF i <= Len(b) THEN b[i] ELSE c[i - Len(b)]
  BY ConcatProperties
<1> HIDE DEF m
<1>3. /\ Len(s) = Len(a) + Len(m)
      /\ \A i \in 1..Len(a) + Len(m) : s[i] = IF i <= Len(a) THEN a[i] ELSE m[i - Len(a)]
  <2>1. m \in Seq(Frame)
    BY <1>2
  <2>2. QED
    BY <2>1, ConcatProperties
<1>4. /\ Len(t) = Len(d) + Len(e)
      /\ \A i \in 1..Len(d) + Len(e) : t[i] = IF i <= Len(d) THEN d[i] ELSE e[i - Len(d)]
  BY ConcatProperties
<1>5. s = t
  BY DEF m
<1> HIDE DEF s, t
<1>6. Len(a) + (Len(b) + Len(c)) = Len(d) + Len(e)
  BY <1>2, <1>3, <1>4, <1>5
<1>7. \A i \in 1..Len(a) : a[i] = IF i <= Len(d) THEN d[i] ELSE e[i - Len(d)]
  <2>1. SUFFICES ASSUME NEW i \in 1..Len(a)
                 PROVE  a[i] = IF i <= Len(d) THEN d[i] ELSE e[i - Len(d)]
    OBVIOUS
  <2>2. a[i] = s[i] /\ i \in 1..Len(d) + Len(e)
    BY <1>1, <1>2, <1>3, <1>6
  <2>3. QED
    BY <1>4, <1>5, <2>2
<1>8. \A i \in 1..Len(b) : b[i] = IF Len(a) + i <= Len(d) THEN d[Len(a) + i] ELSE e[Len(a) + i - Len(d)]
  <2>1. SUFFICES ASSUME NEW i \in 1..Len(b)
                 PROVE  b[i] = IF Len(a) + i <= Len(d) THEN d[Len(a) + i] ELSE e[Len(a) + i - Len(d)]
    OBVIOUS
  <2>2. b[i] = m[i] /\ m[i] = s[Len(a) + i] /\ Len(a) + i \in 1..Len(d) + Len(e)
    BY <1>1, <1>2, <1>3, <1>6, SMTT(30)
  <2>3. QED
    BY <1>4, <1>5, <2>2
<1>9. \A i \in 1..Len(c) : c[i] = IF Len(a) + Len(b) + i <= Len(d) THEN d[Len(a) + Len(b) + i]
                                  ELSE e[Len(a) + Len(b) + i - Len(d)]
  <2>1. SUFFICES ASSUME NEW i \in 1..Len(c)
                 PROVE  c[i] = IF Len(a) + Len(b) + i <= Len(d) THEN d[Len(a) + Len(b) + i]
                               ELSE e[Len(a) + Len(b) + i - Len(d)]
    OBVIOUS
  <2>2. Len(b) + i \in 1..Len(b) + Len(c) /\ c[i] = m[Len(b) + i]
    <3>1. Len(b) + i \in 1..Len(b) + Len(c) /\ ~(Len(b) + i <= Len(b)) /\ Len(b) + i - Len(b) = i
      BY <1>1
    <3>2. m[Len(b) + i] = c[Len(b) + i - Len(b)]
      BY <1>2, <3>1
    <3>3. QED
      BY <3>1, <3>2
  <2>3. m[Len(b) + i] = s[Len(a) + Len(b) + i] /\ Len(a) + Len(b) + i \in 1..Len(d) + Len(e)
    BY <1>1, <1>2, <1>3, <1>6, <2>2
  <2>4. QED
    BY <1>4, <1>5, <2>2, <2>3, SMTT(30)
<1>10. QED
  BY <1>1, <1>6, <1>7, <1>8, <1>9 DEF Alike

\* A frame the client takes is the next thing tmux said to it: Here is how many
\* records came before it.
Here == Len(results) + Len(Held)

\* The next frame is what tmux said at that place.
LEMMA PlainNext ==
    ASSUME TypeInv, cur \in Requests, Unfenced(emitted[cur]), NEW F \in Seq(Frame), NEW R \in Seq(Frame), PlainAt(F, R),
           frames # <<>>, Head(frames).own
    PROVE  /\ R # <<>> /\ Head(R) = Head(frames) /\ Tail(R) \in Seq(Frame)
           /\ Len(R) \in Nat /\ Len(R) >= 1 /\ Len(Tail(R)) = Len(R) - 1
           /\ Here \in Nat /\ Here + Len(R) = Len(emitted[cur]) + Len(F)
           /\ Head(frames) = IF Here + 1 <= Len(emitted[cur]) THEN emitted[cur][Here + 1]
                             ELSE F[Here + 1 - Len(emitted[cur])]
           /\ Len(F) \in 0..2 /\ Len(emitted[cur]) \in Nat /\ Len(results) \in Nat
           /\ Head(frames) \in {Mark(cur, "A"), Mark(cur, "B"), Mark(cur, "X")}
<1>1. R # <<>> /\ Head(R) = Head(frames)
  BY StreamTypes, ComesTaken DEF PlainAt, InFlight
<1>2. Tail(R) \in Seq(Frame) /\ Head(R) = R[1] /\ Len(R) \in Nat /\ Len(Tail(R)) = Len(R) - 1
  BY <1>1, Queue
<1>3. Len(R) >= 1
  <2>1. Len(Tail(R)) \in Nat
    BY <1>2
  <2>2. QED
    BY <1>2, <2>1
<1> DEFINE em == emitted[cur]
<1>4. em \in Seq(Frame) /\ results \in Seq(Frame) /\ Held \in Seq(Frame) /\ results \o (Held \o R) = em \o F
  BY StreamTypes, HeldTypes, AskedTypes DEF PlainAt
<1> HIDE DEF em
<1>5. /\ Len(results) \in Nat /\ Len(Held) \in Nat /\ Len(em) \in Nat /\ Len(F) \in Nat
      /\ Len(results) + (Len(Held) + Len(R)) = Len(em) + Len(F)
      /\ \A i \in 1..Len(R) : R[i] = IF Len(results) + Len(Held) + i <= Len(em) THEN em[Len(results) + Len(Held) + i]
                                     ELSE F[Len(results) + Len(Held) + i - Len(em)]
  <2>1. F \in Seq(Frame) /\ R \in Seq(Frame)
    OBVIOUS
  <2>2. QED
    <3>1. Alike(results, Held, R, em, F)
      BY ONLY <1>4, <2>1, SplitTwice
    <3>2. QED
      BY ONLY <3>1 DEF Alike
<1>6. Head(frames) = IF Here + 1 <= Len(em) THEN em[Here + 1] ELSE F[Here + 1 - Len(em)]
  BY <1>1, <1>2, <1>3, <1>5 DEF Here
<1>7. Here \in Nat /\ Here + Len(R) = Len(em) + Len(F) /\ Len(F) \in 0..2
  <2>1. Len(F) <= 2
    BY DEF PlainAt, Fence
  <2>2. Len(results) \in Nat /\ Len(Held) \in Nat /\ Len(em) \in Nat /\ Len(F) \in Nat
        /\ Len(results) + (Len(Held) + Len(R)) = Len(em) + Len(F)
    BY <1>5
  <2>3. QED
    <3>1. PICK x, y, z, m, n \in Nat : x = Len(results) /\ y = Len(Held) /\ z = Len(R) /\ m = Len(em) /\ n = Len(F)
      BY <1>2, <2>2
    <3>2. Here = x + y /\ x + (y + z) = m + n /\ n <= 2
      BY <2>1, <2>2, <3>1 DEF Here
    <3>3. Here \in Nat /\ Here + z = m + n /\ n \in 0..2
      BY ONLY <3>1, <3>2
    <3>4. QED
      BY <3>1, <3>3
<1>8. Head(frames) \in {Mark(cur, "A"), Mark(cur, "B"), Mark(cur, "X")}
  <2>1. CASE Here + 1 <= Len(em)
    <3>1. Here + 1 \in 1..Len(em) /\ Head(frames) = em[Here + 1]
      BY <1>5, <1>6, <1>7, <2>1
    <3>2. QED
      BY <3>1 DEF Unfenced, em
  <2>2. CASE ~(Here + 1 <= Len(em))
    <3>1. Here + 1 - Len(em) \in 1..Len(F) /\ Head(frames) = F[Here + 1 - Len(em)]
      BY <1>2, <1>3, <1>5, <1>6, <1>7, <2>2
    <3>2. Here + 1 - Len(em) \in {1, 2} /\ (Here + 1 - Len(em) = 2 => Len(F) = 2) /\ Len(F) >= 1
      BY <1>7, <3>1, SMTT(30)
    <3>3. QED
      BY <3>1, <3>2 DEF PlainAt, Fence
  <2>3. QED
    BY <2>1, <2>2
<1>9. QED
  BY <1>1, <1>2, <1>3, <1>5, <1>6, <1>7, <1>8 DEF em

LEMMA HeldIs ==
    ASSUME TypeInv, cur \in Requests, NEW F \in Seq(Frame), NEW R \in Seq(Frame), PlainAt(F, R), pendingFirst # NoFrame
    PROVE  pendingFirst = IF Len(results) + 1 <= Len(emitted[cur]) THEN emitted[cur][Len(results) + 1]
                          ELSE F[Len(results) + 1 - Len(emitted[cur])]
<1> DEFINE em == emitted[cur]
<1>1. em \in Seq(Frame) /\ results \in Seq(Frame) /\ Held \in Seq(Frame) /\ results \o (Held \o R) = em \o F
  BY StreamTypes, HeldTypes, AskedTypes DEF PlainAt
<1> HIDE DEF em
<1>2. \A i \in 1..Len(Held) : Held[i] = IF Len(results) + i <= Len(em) THEN em[Len(results) + i]
                                     ELSE F[Len(results) + i - Len(em)]
  <2>1. F \in Seq(Frame) /\ R \in Seq(Frame)
    OBVIOUS
  <2>2. QED
    <3>1. Alike(results, Held, R, em, F)
      BY ONLY <1>1, <2>1, SplitTwice
    <3>2. QED
      BY ONLY <3>1 DEF Alike
<1>3. Len(Held) = 1 /\ Held[1] = pendingFirst
  BY HeldTypes
<1>4. 1 \in 1..Len(Held) /\ Len(Held) = 1
  BY <1>3
<1>5. Held[1] = IF Len(results) + 1 <= Len(em) THEN em[Len(results) + 1] ELSE F[Len(results) + 1 - Len(em)]
  BY ONLY <1>2, <1>4
<1>6. QED
  BY <1>3, <1>5 DEF em

LEMMA MarkOf ==
    ASSUME NEW r
    PROVE  /\ Mark(r, "A").tag = "A" /\ Mark(r, "B").tag = "B" /\ Mark(r, "X").tag = "X" /\ Mark(r, "N").tag = "N"
           /\ Mark(r, "guard").tag = "guard" /\ Mark(r, "text").tag = "text"
           /\ \A tag : Mark(r, tag).own = TRUE /\ Mark(r, tag) # NoFrame
BY DEF Mark, NoFrame

\* Where the fence is, and that it is taken for nothing else nor anything for it.
LEMMA PlainCounts ==
    ASSUME TypeInv, cur \in Requests, Unfenced(emitted[cur]), NEW F \in Seq(Frame), NEW R \in Seq(Frame), PlainAt(F, R),
           Len(results) <= Len(emitted[cur]), pendingFirst \in {NoFrame, Mark(cur, "A")},
           frames # <<>>, Head(frames).own
    PROVE  /\ pendingFirst = NoFrame /\ Head(frames).tag # "A" => Len(results) + 1 <= Len(emitted[cur])
           /\ pendingFirst # NoFrame /\ Head(frames).tag # "B" =>
                 /\ Len(results) + 1 <= Len(emitted[cur])
                 /\ Head(frames).tag # "A" => Len(results) + 2 <= Len(emitted[cur])
           /\ pendingFirst # NoFrame /\ Head(frames).tag = "B" =>
                 Len(results) = Len(emitted[cur]) /\ Len(F) = 2 /\ Len(R) = 1
<1> DEFINE em == emitted[cur]
           h  == Head(frames)
<1>1. PICK k, n, f, m \in Nat : k = Len(results) /\ n = Len(em) /\ f = Len(F) /\ m = Len(R) /\ f <= 2 /\ m >= 1
  <2>1. /\ Len(results) \in Nat /\ Len(em) \in Nat /\ Len(F) \in 0..2 /\ Len(R) \in Nat /\ Len(R) >= 1
    BY PlainNext
  <2> HIDE DEF em
  <2>2. Len(F) \in Nat /\ Len(F) <= 2
    BY DEF PlainAt, Fence
  <2>3. QED
    BY ONLY <2>1, <2>2
<1>2. f >= 1 => F[1] = Mark(cur, "A")
  BY <1>1 DEF PlainAt, Fence
<1>3. f = 2 => F[2] = Mark(cur, "B")
  BY <1>1 DEF PlainAt, Fence
<1>4. /\ Here \in Nat /\ Here + m = n + f
      /\ h = IF Here + 1 <= n THEN em[Here + 1] ELSE F[Here + 1 - n]
      /\ k <= n
  BY <1>1, PlainNext
<1>5. \A i \in 1..n : i < n => ~(em[i].tag = "A" /\ em[i + 1].tag = "B")
  BY <1>1 DEF Unfenced
<1> HIDE DEF em, h
<1>6. CASE pendingFirst = NoFrame
  <2>1. Here = k
    BY <1>1, <1>6, HeldTypes DEF Here
  <2>2. h.tag # "A" => k + 1 <= n
    <3>1. SUFFICES ASSUME ~(k + 1 <= n) PROVE h.tag = "A"
      OBVIOUS
    <3>2. k = n /\ f >= 1 /\ Here + 1 - n = 1
      BY <1>1, <1>4, <2>1, <3>1
    <3>3. h = F[1]
      BY <1>4, <2>1, <3>1, <3>2
    <3>4. QED
      BY <1>2, <3>2, <3>3, MarkOf
  <2>3. QED
    BY <1>1, <1>6, <2>2 DEF em, h
<1>7. CASE pendingFirst # NoFrame
  <2>1. Here = k + 1
    BY <1>1, <1>7, HeldTypes DEF Here
  <2>2. pendingFirst = IF k + 1 <= n THEN em[k + 1] ELSE F[k + 1 - n]
    BY <1>1, <1>7, HeldIs DEF em
  <2>3. pendingFirst = Mark(cur, "A")
    BY <1>7
  <2>4. k + 1 > n => k = n /\ f = 2 /\ m = 1 /\ h = F[2]
    <3>1. SUFFICES ASSUME k + 1 > n PROVE k = n /\ f = 2 /\ m = 1 /\ h = F[2]
      OBVIOUS
    <3>2. k = n /\ f = 2 /\ m = 1 /\ ~(Here + 1 <= n) /\ Here + 1 - n = 2
      BY <1>1, <1>4, <2>1, <3>1
    <3>3. QED
      BY <1>4, <3>2
  <2>5. k + 1 = n => h.tag = "A"
    <3>1. SUFFICES ASSUME k + 1 = n PROVE h.tag = "A"
      OBVIOUS
    <3>2. f >= 1 /\ ~(Here + 1 <= n) /\ Here + 1 - n = 1
      BY <1>1, <1>4, <2>1, <3>1
    <3>3. QED
      BY <1>2, <1>4, <3>2, MarkOf
  <2>6. k + 2 <= n => h.tag # "B"
    <3>1. SUFFICES ASSUME k + 2 <= n PROVE h.tag # "B"
      OBVIOUS
    <3>2. Here + 1 <= n /\ Here + 1 = k + 2 /\ k + 1 <= n /\ k + 1 \in 1..n /\ k + 1 < n /\ (k + 1) + 1 = k + 2
      BY <1>1, <1>4, <2>1, <3>1
    <3>3. h = em[(k + 1) + 1] /\ em[k + 1] = Mark(cur, "A")
      BY <1>4, <2>2, <2>3, <3>2
    <3>4. QED
      BY <1>5, <3>2, <3>3, MarkOf
  <2>7. k + 1 > n => h.tag = "B"
    BY <1>3, <2>4, MarkOf
  <2>8. k + 1 > n \/ k + 1 = n \/ k + 2 <= n
    BY <1>1
  <2>9. h.tag # "B" => k + 1 <= n /\ (h.tag # "A" => k + 2 <= n)
    BY <1>1, <2>5, <2>7, <2>8
  <2>10. h.tag = "B" => k = n /\ f = 2 /\ m = 1
    BY <2>4, <2>5, <2>6, <2>8
  <2>11. QED
    BY <1>1, <1>7, <2>9, <2>10 DEF em, h
<1>8. QED
  BY <1>6, <1>7

LEMMA Regroup ==
    ASSUME NEW a \in Seq(Frame), NEW p \in Frame, NEW s \in Seq(Frame)
    PROVE  /\ Append(a, p) \in Seq(Frame) /\ Append(a, p) \o s = a \o (<<p>> \o s)
           /\ <<p>> \o s \in Seq(Frame)
<1>1. <<p>> \in Seq(Frame) /\ Append(a, p) = a \o <<p>>
  <2>1. <<p>> \in Seq(Frame) /\ Len(<<p>>) = 1 /\ <<p>>[1] = p
    OBVIOUS
  <2>2. Append(a, p) \in Seq(Frame) /\ a \o <<p>> \in Seq(Frame) /\ Len(Append(a, p)) = Len(a \o <<p>>)
    BY <2>1
  <2>3. \A i \in 1..Len(Append(a, p)) : Append(a, p)[i] = (a \o <<p>>)[i]
    BY <2>1
  <2>4. QED
    BY <2>1, <2>2, <2>3, SeqEqual
<1>2. (a \o <<p>>) \o s = a \o (<<p>> \o s)
  BY <1>1, Associative
<1>3. QED
  BY <1>1, <1>2

LEMMA Empty == \A s \in Seq(Frame) : <<>> \o s = s /\ s \o <<>> = s
OBVIOUS

\* Collecting a frame loses none and makes none.
LEMMA Collected ==
    ASSUME TypeInv, CollectFrame, fence[1] = "A", NEW R \in Seq(Frame), R # <<>>, Head(R) = Head(frames),
           Head(frames).own
    PROVE  /\ results' \o (Held' \o Tail(R)) = results \o (Held \o R)
           /\ pendingFirst' \in {NoFrame, Head(frames)}
           /\ pendingFirst' # NoFrame => Head(frames).tag = "A"
           /\ Len(results') = Len(results) + (IF pendingFirst = NoFrame THEN 0 ELSE 1)
                                           + (IF Head(frames).tag = "A" THEN 0 ELSE 1)
<1> DEFINE h == Head(frames)
<1>1. Head(R) \in Frame /\ Tail(R) \in Seq(Frame)
  BY Queue
<1>2. h \in Frame /\ h # NoFrame
  BY <1>1, FrameTypes
<1>3. R = <<h>> \o Tail(R)
  BY Shift
<1>4. results \in Seq(Frame) /\ Len(results) \in Nat
  <2>1. results \in Seq(Frame)
    BY StreamTypes
  <2>2. QED
    BY <2>1
<1>5. CASE pendingFirst = NoFrame /\ h.tag = "A"
  <2>1. pendingFirst' = h /\ results' = results
    BY <1>5 DEF CollectFrame
  <2>2. Held = <<>> /\ Held' = <<h>>
    BY <1>2, <1>5, <2>1 DEF Held
  <2>3. Held \o R = R
    BY <2>2, Empty
  <2>4. QED
    BY <1>3, <1>4, <1>5, <2>1, <2>2, <2>3
<1>6. CASE pendingFirst = NoFrame /\ h.tag # "A"
  <2>1. pendingFirst' = NoFrame /\ results' = Append(results, h)
    BY <1>6 DEF CollectFrame
  <2>2. Held = <<>> /\ Held' = <<>>
    BY <1>6, <2>1 DEF Held
  <2>3. Held \o R = R /\ Held' \o Tail(R) = Tail(R)
    BY <1>1, <2>2, Empty
  <2>4. Append(results, h) \o Tail(R) = results \o (<<h>> \o Tail(R)) /\ Len(Append(results, h)) = Len(results) + 1
    BY <1>1, <1>2, <1>4, Regroup
  <2>5. results' \o (Held' \o Tail(R)) = results \o (Held \o R)
    <3>1. results' \o (Held' \o Tail(R)) = Append(results, h) \o Tail(R)
      BY <2>1, <2>3
    <3>2. results \o (Held \o R) = results \o (<<h>> \o Tail(R))
      BY <1>3, <2>3
    <3>3. QED
      BY ONLY <2>4, <3>1, <3>2
  <2>6. pendingFirst' = NoFrame /\ Len(results') = Len(results) + 0 + 1
    BY <1>4, <2>1, <2>4
  <2>7. QED
    BY <1>6, <2>5, <2>6
<1>7. CASE pendingFirst # NoFrame /\ h.tag = "A"
  <2>1. pendingFirst' = h /\ results' = Append(results, pendingFirst) /\ pendingFirst \in Frame
    BY <1>7, StreamTypes DEF CollectFrame
  <2>2. Held = <<pendingFirst>> /\ Held' = <<h>>
    BY <1>2, <1>7, <2>1 DEF Held
  <2>3. Append(results, pendingFirst) \o R = results \o (<<pendingFirst>> \o R) /\ Len(Append(results, pendingFirst)) = Len(results) + 1
    BY <1>4, <2>1, Regroup
  <2>4. QED
    BY <1>3, <1>4, <1>7, <2>1, <2>2, <2>3
<1>8. CASE pendingFirst # NoFrame /\ h.tag # "A"
  <2>1. pendingFirst' = NoFrame /\ results' = Append(Append(results, pendingFirst), h) /\ pendingFirst \in Frame
    BY <1>8, StreamTypes DEF CollectFrame
  <2>2. Held = <<pendingFirst>> /\ Held' = <<>>
    BY <1>8, <2>1 DEF Held
  <2>3. Held' \o Tail(R) = Tail(R)
    BY <1>1, <2>2, Empty
  <2>4. /\ Append(results, pendingFirst) \in Seq(Frame)
        /\ Append(results, pendingFirst) \o R = results \o (<<pendingFirst>> \o R)
        /\ Len(Append(results, pendingFirst)) = Len(results) + 1
    BY <1>4, <2>1, Regroup
  <2>5. /\ Append(Append(results, pendingFirst), h) \o Tail(R) = Append(results, pendingFirst) \o (<<h>> \o Tail(R))
        /\ Len(Append(Append(results, pendingFirst), h)) = Len(results) + 1 + 1
    BY <1>1, <1>2, <2>4, Regroup
  <2>6. QED
    BY <1>3, <1>4, <1>8, <2>1, <2>2, <2>3, <2>4, <2>5
<1>9. QED
  BY <1>5, <1>6, <1>7, <1>8

\* The client sends a command, and its fence.
LEMMA PlainWrite ==
    ASSUME TypeInv, Handled, Sent, Quiet, Write, kind[cur] # "capture"
    PROVE  Plain'
<1>1. /\ cur \in Requests /\ stdin = <<>> /\ frames = <<>> /\ NoOwn(stdout) /\ capturing = "no" /\ lines = <<>>
      /\ kind[cur] \in {"none", "command", "fence"}
  <2>1. cur \in Requests /\ stdin = <<>> /\ frames = <<>> /\ NoOwn(stdout) /\ capturing = "no" /\ lines = <<>>
    BY AskedTypes DEF Write, Handled, Handling, Quiet
  <2>2. kind[cur] \in {"none", "command", "fence", "capture"}
    BY <2>1, AskedTypes
  <2>3. QED
    BY <2>1, <2>2
<1>2. emitted[cur] = <<>>
  BY <1>1 DEF Write, Sent
<1>3. /\ UNCHANGED <<cur, kind, emitted, frames, stdout, readDone, lines, alive, ran>>
      /\ capturing' = "no" /\ results' = <<>> /\ pendingFirst' = NoFrame
  BY <1>1 DEF Write, callerVars
<1>4. Len(stdin') \in {2, 3}
  BY <1>1, WriteLines
<1> DEFINE nothing == <<>>
<1>5. nothing \in Seq(Frame) /\ Fence(cur, nothing) /\ Len(nothing) = 0 /\ nothing \o (nothing \o nothing) = nothing \o nothing
  BY FenceNothing
<1>6. InFlight(nothing)'
  <2>1. NoOwn(frames)
    BY <1>1, NoOwnNothing
  <2>2. Comes(frames, stdout, readDone, <<>>)
    BY <1>1, <2>1, StreamTypes, ComesNothing
  <2>3. QED
    BY <1>3, <2>2 DEF InFlight
<1>7. emitted'[cur'] = nothing /\ results' = nothing /\ Held' = nothing
  BY <1>2, <1>3 DEF Held
<1>8. Len(stdin') = 3 \/ Len(stdin') = 2 - Len(nothing)
  BY <1>4, <1>5
<1>9. Fence(cur', nothing)
  BY <1>3, <1>5
<1>10. Unfenced(emitted[cur])'
  <2>1. \A k \in 1..Len(<<>>) : FALSE
    OBVIOUS
  <2>2. QED
    BY <1>7, <2>1 DEF Unfenced
<1>11. Len(results') <= Len(emitted'[cur'])
  BY <1>5, <1>7
<1>12. lines' = nothing /\ capturing' = "no"
  BY <1>1, <1>3
<1> HIDE DEF nothing
<1>13. PlainAt(nothing, nothing)'
  BY <1>5, <1>6, <1>7, <1>8, <1>9 DEF PlainAt
<1>14. QED
  BY <1>5, <1>10, <1>11, <1>12, <1>13 DEF Plain, nothing

\* What else happens to it.
LEMMA PlainMoves ==
    ASSUME TypeInv, dispatching, Plain,
           SkipForeign \/ ReadFrame \/ TmuxForeignBlock \/ ReaderEnds \/ ReaderFails \/ TmuxExits \/ CloseProcess
    PROVE  Plain'
<1>1. PICK F, R \in Seq(Frame) : PlainAt(F, R)
  BY DEF Plain
<1>2. InFlight(R)'
  BY <1>1, StreamMoves DEF PlainAt
<1>3. /\ (alive' => alive /\ stdin' = stdin)
      /\ UNCHANGED <<wpc, cur, results, pendingFirst, ran, emitted, lines>>
  BY InputMoves
<1>4. capturing' = capturing
  BY DEF Plain, SkipForeign, ReadFrame, TmuxForeignBlock, ReaderEnds, ReaderFails, TmuxExits,
     CloseProcess, parserVars, readerVars
<1>5. Held' = Held
  BY <1>3 DEF Held
<1>6. PlainAt(F, R)'
  BY <1>1, <1>2, <1>3, <1>5 DEF PlainAt
<1>7. Unfenced(emitted[cur])'
  BY <1>3 DEF Plain, Unfenced
<1>8. QED
  BY <1>3, <1>4, <1>6, <1>7 DEF Plain

\* A frame is collected, or held back.
LEMMA PlainCollect ==
    ASSUME TypeInv, cur \in Requests, fence[1] = "A", fence[2] = "B", pendingFirst \in {NoFrame, Mark(cur, "A")},
           Plain, CollectFrame
    PROVE  Plain' /\ pendingFirst' \in {NoFrame, Mark(cur', "A")}
<1>1. PICK F, R \in Seq(Frame) : PlainAt(F, R)
  BY DEF Plain
<1>2. /\ frames # <<>> /\ Head(frames).own /\ frames' = Tail(frames)
      /\ pendingFirst # NoFrame => Head(frames).tag # "B"
      /\ UNCHANGED <<cur, stdin, alive, ran, emitted, stdout, readDone, capturing, lines>>
  BY DEF CollectFrame, OneMoreFrame, processVars, parserVars
<1>3. /\ R # <<>> /\ Head(R) = Head(frames) /\ Tail(R) \in Seq(Frame)
      /\ Head(frames) \in {Mark(cur, "A"), Mark(cur, "B"), Mark(cur, "X")}
      /\ Len(emitted[cur]) \in Nat /\ Len(results) \in Nat
  BY <1>1, <1>2, PlainNext DEF Plain
<1>4. /\ results' \o (Held' \o Tail(R)) = results \o (Held \o R)
      /\ pendingFirst' \in {NoFrame, Head(frames)}
      /\ pendingFirst' # NoFrame => Head(frames).tag = "A"
      /\ Len(results') = Len(results) + (IF pendingFirst = NoFrame THEN 0 ELSE 1)
                                      + (IF Head(frames).tag = "A" THEN 0 ELSE 1)
  BY <1>2, <1>3, Collected
<1>5. InFlight(Tail(R))'
  BY <1>1, <1>2, FlightTaken DEF PlainAt
<1>6. PlainAt(F, Tail(R))'
  BY <1>1, <1>2, <1>4, <1>5 DEF PlainAt
<1>7. Len(results') <= Len(emitted[cur])
  <2>1. /\ pendingFirst = NoFrame /\ Head(frames).tag # "A" => Len(results) + 1 <= Len(emitted[cur])
        /\ pendingFirst # NoFrame =>
                 /\ Len(results) + 1 <= Len(emitted[cur])
                 /\ Head(frames).tag # "A" => Len(results) + 2 <= Len(emitted[cur])
        /\ Len(results) <= Len(emitted[cur])
    BY <1>1, <1>2, PlainCounts DEF Plain
  <2>2. PICK k, n \in Nat : k = Len(results) /\ n = Len(emitted[cur])
    BY <1>3
  <2>3. CASE pendingFirst = NoFrame
    <3>1. Len(results') = k + 0 + (IF Head(frames).tag = "A" THEN 0 ELSE 1)
      BY <1>4, <2>2, <2>3
    <3>2. k <= n /\ (Head(frames).tag # "A" => k + 1 <= n)
      BY <2>1, <2>2, <2>3
    <3>3. QED
      BY ONLY <2>2, <3>1, <3>2
  <2>4. CASE pendingFirst # NoFrame
    <3>1. Len(results') = k + 1 + (IF Head(frames).tag = "A" THEN 0 ELSE 1)
      BY <1>4, <2>2, <2>4
    <3>2. k + 1 <= n /\ (Head(frames).tag # "A" => k + 2 <= n)
      BY <2>1, <2>2, <2>4
    <3>3. QED
      BY ONLY <2>2, <3>1, <3>2
  <2>5. QED
    BY <2>3, <2>4
<1>8. Unfenced(emitted[cur])'
  BY <1>2 DEF Plain, Unfenced
<1>9. pendingFirst' \in {NoFrame, Mark(cur, "A")}
  BY <1>3, <1>4, MarkOf
<1>10. QED
  BY <1>2, <1>3, <1>6, <1>7, <1>8, <1>9 DEF Plain

\* The boundary is that of this command: all it said has been collected, and
\* nothing of it is left in the stream.
LEMMA PlainBoundary ==
    ASSUME TypeInv, Sent, cur \in Requests, fence[2] = "B", pendingFirst \in {NoFrame, Mark(cur, "A")},
           Plain, BoundaryReached, kind[cur] # "capture"
    PROVE  AllSaid /\ Ended
<1>1. PICK F, R \in Seq(Frame) : PlainAt(F, R)
  BY DEF Plain
<1>2. /\ frames # <<>> /\ Head(frames).own /\ Head(frames).tag = "B" /\ pendingFirst # NoFrame
  BY DEF BoundaryReached
<1>3. Len(results) = Len(emitted[cur]) /\ Len(F) = 2 /\ Len(R) = 1
  BY <1>1, <1>2, PlainCounts DEF Plain
<1>4. /\ results \in Seq(Frame) /\ Held \in Seq(Frame) /\ emitted[cur] \in Seq(Frame)
      /\ results \o (Held \o R) = emitted[cur] \o F /\ Held \o R \in Seq(Frame)
  BY <1>1, StreamTypes, HeldTypes, AskedTypes DEF PlainAt
<1>5. results = emitted[cur]
  <2>1. Len(results) \in Nat
    BY <1>4
  <2>2. IsPrefix(results, emitted[cur])
    <3>1. Len(results) <= Len(emitted[cur])
      BY DEF Plain
    <3>2. QED
      BY <1>4, <3>1, PrefixOfFront
  <2>3. \A i \in 1..Len(results) : results[i] = emitted[cur][i]
    BY <1>4, <2>2, PrefixOf
  <2>4. QED
    BY <1>3, <1>4, <2>3, SeqEqual
<1>6. stdin = <<>>
  <2>1. F # <<>>
    BY <1>3
  <2>2. alive => Len(stdin) = 0
    BY <1>1, <1>3, <2>1 DEF PlainAt
  <2>3. QED
    BY <2>2, StreamTypes DEF Sent
<1>7. ran[cur]
  <2>1. F # <<>>
    BY <1>3
  <2>2. QED
    BY <1>1, <2>1 DEF PlainAt
<1>8. NoOwn(stdout)
  <2>1. R # <<>> /\ Comes(Tail(frames), stdout, readDone, Tail(R)) /\ Tail(frames) \in Seq(Frame)
    BY <1>1, <1>2, StreamTypes, ComesTaken, Queue DEF PlainAt, InFlight
  <2>2. Tail(R) \in Seq(Frame) /\ Len(Tail(R)) = 0
    BY <1>3, <2>1, Queue
  <2>3. Tail(R) = <<>>
    BY ONLY <2>2, NothingIn
  <2>4. QED
    BY <2>1, <2>3, StreamTypes, ComesNone
<1>9. results \o lines = emitted[cur]
  BY <1>4, <1>5, Empty DEF Plain
<1>10. QED
  BY <1>6, <1>7, <1>8, <1>9 DEF AllSaid, Ended, Plain

\* What was collected when the stream ends is the first of it.
LEMMA PlainFails ==
    ASSUME TypeInv, cur \in Requests, Plain
    PROVE  IsPrefix(results, emitted[cur])
<1>1. PICK F, R \in Seq(Frame) : PlainAt(F, R)
  BY DEF Plain
<1>2. /\ results \in Seq(Frame) /\ Held \in Seq(Frame) /\ emitted[cur] \in Seq(Frame)
      /\ results \o (Held \o R) = emitted[cur] \o F /\ Held \o R \in Seq(Frame)
  BY <1>1, StreamTypes, HeldTypes, AskedTypes DEF PlainAt
<1>3. QED
  BY <1>2, PrefixOfFront DEF Plain

\* The next line of the input, from how many are left.
LEMMA PartHere ==
    ASSUME TypeInv, InOrder, stdin # <<>>
    PROVE  /\ Head(stdin) = stdin[1] /\ 1 \in 1..Len(stdin) /\ Len(stdin) \in Nat
           /\ Len(stdin) = 1 => Head(stdin).part = "B"
           /\ Len(stdin) = 2 => Head(stdin).part = "A"
           /\ Len(stdin) = 3 => Head(stdin).part = IF kind[cur] = "capture" THEN "N" ELSE "command"
           /\ Len(stdin) = 4 => Head(stdin).part \in {"command", "output"}
<1>1. Head(stdin) = stdin[1] /\ Tail(stdin) \in Seq(Lines) /\ Len(Tail(stdin)) = Len(stdin) - 1 /\ Len(stdin) \in Nat
  BY StreamTypes, Queue
<1>2. 1 \in 1..Len(stdin)
  <2>1. Len(Tail(stdin)) \in Nat
    BY <1>1
  <2>2. QED
    BY <1>1, <2>1
<1>3. Len(stdin) = 1 => Len(stdin) - 1 = 0
  OBVIOUS
<1>4. /\ Len(stdin) - 1 = 0 => stdin[1].part = "B"
      /\ Len(stdin) - 1 = 1 => stdin[1].part = "A"
      /\ Len(stdin) - 1 = 2 => stdin[1].part = IF kind[cur] = "capture" THEN "N" ELSE "command"
      /\ Len(stdin) - 1 = 3 => stdin[1].part \in {"command", "output"}
  BY <1>2 DEF InOrder
<1>5. QED
  BY <1>1, <1>2, <1>4

\* The input stays in order.
LEMMA OrderRests ==
    ASSUME InOrder, stdin' = stdin \/ stdin' = <<>>, cur' = cur, kind'[cur] = kind[cur]
    PROVE  InOrder'
<1>1. CASE stdin' = stdin
  BY <1>1 DEF InOrder
<1>2. CASE stdin' = <<>>
  <2>1. \A j \in 1..Len(<<>>) : FALSE
    OBVIOUS
  <2>2. QED
    BY <1>2, <2>1 DEF InOrder
<1>3. QED
  BY <1>1, <1>2

\* tmux takes the first line; the ones left are in order.
LEMMA OrderExecutes ==
    ASSUME TypeInv, Sent, InOrder, TmuxExecutes, Len(stdin) <= 4
    PROVE  InOrder'
<1>1. stdin # <<>> /\ Head(stdin).req = cur /\ cur' = cur /\ kind' = kind
  BY CurrentRuns DEF TmuxExecutes, callerVars, workerVars
<1>2. PICK n \in 1..4 : n = Len(stdin)
  <2>1. Len(stdin) \in Nat /\ 1 \in 1..Len(stdin) /\ Len(stdin) <= 4
    BY <1>1, PartHere
  <2>2. \A n \in Nat : 1 \in 1..n /\ n <= 4 => n \in 1..4
    OBVIOUS
  <2>3. QED
    BY <2>1, <2>2
<1>3. CASE Head(stdin).part = "command" /\ kind[Head(stdin).req] = "capture"
  <2>1. Len(stdin') = n /\ stdin'[1].part = "output" /\ \A j \in 2..n : stdin'[j] = stdin[j]
    BY <1>2, <1>3, TmuxTakes DEF TypeInv
  <2>2. n = 4
    BY <1>1, <1>2, <1>3, PartHere
  <2>3. QED
    BY <1>1, <1>2, <2>1, <2>2 DEF InOrder
<1>4. CASE ~(Head(stdin).part = "command" /\ kind[Head(stdin).req] = "capture")
  <2>1. stdin' = Tail(stdin) /\ Len(stdin') = n - 1
    BY <1>1, <1>2, <1>4, TmuxTakes, StreamTypes, Queue DEF TypeInv
  <2>2. \A j \in 1..n - 1 : stdin'[j] = stdin[j + 1] /\ j + 1 \in 1..n
    BY <1>1, <1>2, <2>1, StreamTypes
  <2>3. \A j \in 1..n - 1 : (n - 1) - j = n - (j + 1)
    BY <1>2
  <2>4. QED
    BY <1>1, <1>2, <2>1, <2>2, <2>3 DEF InOrder
<1>5. QED
  BY <1>3, <1>4

\* tmux takes a line of a command or of its fence.
LEMMA PlainExecutes ==
    ASSUME TypeInv, Sent, InOrder, cur \in Requests, kind[cur] # "capture", Plain, TmuxExecutes
    PROVE  Plain'
<1>1. PICK F, R \in Seq(Frame) : PlainAt(F, R)
  BY DEF Plain
<1>2. PICK said \in Seq(Frame) : Saying(said)
  BY TmuxSays DEF TypeInv
<1> DEFINE part == Head(stdin).part
<1>3. /\ stdin # <<>> /\ Head(stdin) = stdin[1] /\ 1 \in 1..Len(stdin) /\ Head(stdin).req = cur
      /\ alive /\ alive' = alive /\ ran'[cur] /\ cur' = cur
      /\ UNCHANGED <<frames, readDone, results, pendingFirst, capturing, lines>>
  BY CurrentRuns DEF TmuxExecutes, workerVars, readerVars, parserVars
<1>4. (Len(stdin) = 3 /\ F = <<>> /\ emitted[cur] = <<>>) \/ Len(stdin) = 2 - Len(F)
  BY <1>1, <1>3 DEF PlainAt
<1>5. part \notin Starting
  <2>1. Len(stdin) \in Nat /\ Len(F) \in Nat /\ 1 \in 1..Len(stdin)
    BY <1>1, <1>3, PartHere
  <2>2. Len(stdin) = 3 \/ Len(stdin) = 2 \/ Len(stdin) = 1
    <3>1. Len(stdin) = 3 \/ Len(stdin) = 2 - Len(F)
      BY <1>4
    <3>2. \A n, f \in Nat : 1 \in 1..n /\ (n = 3 \/ n = 2 - f) => n = 3 \/ n = 2 \/ n = 1
      OBVIOUS
    <3>3. QED
      BY <2>1, <3>1, <3>2
  <2>3. part \in {"A", "B", "command"}
    BY <1>3, <2>2, PartHere
  <2>4. QED
    BY <2>3 DEF Starting
<1>6. stdin' = Tail(stdin) /\ Len(stdin') = Len(stdin) - 1 /\ Len(stdin) \in Nat
  <2>1. stdin' = Tail(stdin)
    BY <1>3, TmuxTakes DEF TypeInv
  <2>2. QED
    BY <1>3, <2>1, StreamTypes, Queue
<1>7. stdout' = stdout \o said /\ InFlight(R \o said)'
  <2>1. stdout' = stdout \o said
    BY <1>2 DEF Saying
  <2>2. QED
    BY <1>1, <1>2, <1>3, <1>5, <2>1, OwnSaid, FlightSaid DEF PlainAt
<1>8. /\ results \in Seq(Frame) /\ Held \in Seq(Frame) /\ emitted[cur] \in Seq(Frame) /\ R \o said \in Seq(Frame)
      /\ Held' = Held
  BY <1>1, <1>2, <1>3, StreamTypes, HeldTypes, AskedTypes DEF Held
<1>9. results \o (Held \o (R \o said)) = (emitted[cur] \o F) \o said
  <2>1. Held \o (R \o said) = (Held \o R) \o said
    <3>1. R \in Seq(Frame) /\ said \in Seq(Frame)
      BY <1>1, <1>2
    <3>2. QED
      BY ONLY <1>8, <3>1, Associative, SMTT(60)
  <2>2. Held \o R \in Seq(Frame)
    BY <1>8
  <2>3. results \o ((Held \o R) \o said) = (results \o (Held \o R)) \o said
    <3>1. said \in Seq(Frame)
      BY <1>2
    <3>2. QED
      BY ONLY <1>8, <2>2, <3>1, Associative, SMTT(60)
  <2>4. QED
    BY <1>1, <2>1, <2>3 DEF PlainAt
<1>10. CASE Len(stdin) = 3 /\ F = <<>> /\ emitted[cur] = <<>>
  <2>1. part = "command"
    BY <1>3, <1>10, PartHere
  <2>2. emitted' = [emitted EXCEPT ![cur] = emitted[cur] \o said]
    BY <1>2, <1>3, <2>1 DEF Saying
  <2>3. emitted'[cur] = said
    BY <1>2, <1>10, <2>2, AskedTypes, Empty
  <2>4. Unfenced(said)
    <3>1. \A k \in 1..Len(said) :
               /\ said[k] = Mark(cur, said[k].tag)
               /\ said[k].tag \in {"A", "B", "X"}
               /\ k < Len(said) => ~(said[k].tag = "A" /\ said[k + 1].tag = "B")
      BY <1>2, <1>3, <1>5, <2>1 DEF Saying
    <3>2. \A k \in 1..Len(said) : said[k] \in {Mark(cur, "A"), Mark(cur, "B"), Mark(cur, "X")}
      BY <3>1
    <3>3. QED
      BY <3>1, <3>2 DEF Unfenced
  <2>5. Unfenced(emitted[cur])'
    BY <1>3, <2>3, <2>4 DEF Unfenced
  <2>6. results \o (Held \o (R \o said)) = said \o F
    BY <1>2, <1>9, <1>10, Empty
  <2>7. Len(results) <= Len(said)
    <3>1. Len(results) <= 0 /\ Len(results) \in Nat /\ Len(said) \in Nat
      BY <1>2, <1>8, <1>10 DEF Plain
    <3>2. QED
      BY <3>1
  <2>8. Len(F) = 0 /\ Len(stdin') = 2 - Len(F)
    BY <1>6, <1>10
  <2>9. PlainAt(F, R \o said)'
    BY <1>1, <1>3, <1>7, <1>8, <2>3, <2>6, <2>8 DEF PlainAt
  <2>10. QED
    BY <1>3, <1>8, <2>3, <2>5, <2>7, <2>9 DEF Plain
<1>11. CASE Len(stdin) = 2 - Len(F)
  <2>1. Len(F) \in Nat /\ Len(F) < 2 /\ Fence(cur, F)
    BY <1>1, <1>3, <1>6, <1>11 DEF PlainAt
  <2>2. part = IF Len(F) = 0 THEN "A" ELSE "B"
    BY <1>3, <1>6, <1>11, <2>1, PartHere
  <2>3. said = <<Mark(cur, part)>> /\ emitted' = emitted
    BY <1>2, <1>3, <2>2 DEF Saying
  <2>4. cur \in 0..MaxRequests
    BY AskedTypes
  <2> HIDE DEF part
  <2>5. Fence(cur, F \o said) /\ Len(F \o said) = Len(F) + 1 /\ F \o said \in Seq(Frame)
    BY <1>1, <2>1, <2>2, <2>3, <2>4, FenceGrows
  <2>6. results \o (Held \o (R \o said)) = emitted[cur] \o (F \o said)
    <3>1. emitted[cur] \in Seq(Frame) /\ F \in Seq(Frame) /\ said \in Seq(Frame)
      BY <1>2, <1>8
    <3>2. (emitted[cur] \o F) \o said = emitted[cur] \o (F \o said)
      BY ONLY <3>1, Associative, ZenonT(60)
    <3>3. QED
      BY ONLY <1>9, <3>2, Zenon
  <2>7. Len(stdin') = 2 - Len(F \o said)
    BY <1>6, <1>11, <2>1, <2>5
  <2>8. PlainAt(F \o said, R \o said)'
    BY <1>3, <1>7, <1>8, <2>3, <2>5, <2>6, <2>7 DEF PlainAt
  <2>9. Unfenced(emitted[cur])'
    BY <1>3, <2>3 DEF Plain, Unfenced
  <2>10. QED
    BY <1>3, <1>8, <2>3, <2>5, <2>8, <2>9 DEF Plain
<1>12. QED
  BY <1>4, <1>10, <1>11

\* The client sends a capture: the parser is armed, and tmux has said nothing.
LEMMA CaptureWrite ==
    ASSUME TypeInv, Handled, Sent, Quiet, Write, kind[cur] = "capture"
    PROVE  Printed' /\ Armed' /\ Capturing' /\ Captured'
<1>1. /\ cur \in Requests /\ stdin = <<>> /\ frames = <<>> /\ NoOwn(stdout) /\ lines = <<>>
  BY AskedTypes DEF Write, Handled, Handling, Quiet
<1>2. emitted[cur] = <<>>
  BY <1>1 DEF Write, Sent
<1>3. /\ UNCHANGED <<cur, kind, emitted, frames, stdout, readDone, lines, alive>>
      /\ capturing' = "armed" /\ results' = <<>> /\ pendingFirst' = NoFrame
  BY <1>1 DEF Write, callerVars
<1>4. Len(stdin') = 4 /\ stdin'[1].part = "command"
  BY <1>1, WriteLines
<1> DEFINE nothing == <<>>
<1>5. nothing \in Seq(Frame) /\ nothing = nothing \o nothing /\ Len(nothing) = 0 /\ \A k \in 1..Len(nothing) : FALSE
  OBVIOUS
<1>6. InFlight(nothing)'
  <2>1. NoOwn(frames)
    BY <1>1, NoOwnNothing
  <2>2. Comes(frames, stdout, readDone, <<>>)
    BY <1>1, <2>1, StreamTypes, ComesNothing
  <2>3. QED
    BY <1>3, <2>2 DEF InFlight
<1>7. emitted'[cur'] = nothing /\ results' = nothing /\ lines' = nothing /\ frames' = nothing
  BY <1>1, <1>2, <1>3
<1> HIDE DEF nothing
<1>8. CaptureSent(nothing)'
  BY <1>4, <1>7 DEF CaptureSent, NonceAndFence, nothing
<1>9. ArmedAt(nothing, nothing)'
  BY <1>5, <1>6, <1>7, <1>8 DEF ArmedAt
<1>10. Printed'
  BY <1>5, <1>7 DEF Printed, nothing
<1>11. QED
  BY <1>3, <1>5, <1>7, <1>9, <1>10 DEF Armed, Capturing, Captured, nothing

\* What is left of the input when nothing of it is executed.
LEMMA CaptureRests ==
    ASSUME NEW G, CaptureSent(G), alive' => alive /\ stdin' = stdin, UNCHANGED <<cur, emitted>>
    PROVE  CaptureSent(G)'
BY DEF CaptureSent

LEMMA PrintedRests ==
    ASSUME Printed, UNCHANGED <<cur, emitted>>
    PROVE  Printed'
BY DEF Printed

\* The answers to the nonce and to the fence, one by one.
LEMMA NonceStarts ==
    ASSUME NEW r \in 0..MaxRequests
    PROVE  /\ NonceAndFence(r, <<Mark(r, "guard"), Mark(r, "N")>>)
           /\ Len(<<Mark(r, "guard"), Mark(r, "N")>>) = 2
           /\ <<Mark(r, "guard"), Mark(r, "N")>> \in Seq(Frame)
           /\ <<Mark(r, "guard"), Mark(r, "N")>> # <<>>
<1>1. Mark(r, "guard") \in Frame /\ Mark(r, "N") \in Frame
  BY MarkTypes DEF Tags
<1> DEFINE s == <<Mark(r, "guard"), Mark(r, "N")>>
<1>2. s \in Seq(Frame) /\ Len(s) = 2 /\ s[1] = Mark(r, "guard") /\ s[2] = Mark(r, "N") /\ s # <<>>
  BY <1>1
<1> HIDE DEF s
<1>3. NonceAndFence(r, s)
  BY <1>2 DEF NonceAndFence
<1>4. QED
  BY <1>2, <1>3 DEF s

LEMMA NonceGrows ==
    ASSUME NEW r \in 0..MaxRequests, NEW G \in Seq(Frame), NonceAndFence(r, G), G # <<>>, Len(G) < 4,
           NEW part, part = IF Len(G) = 2 THEN "A" ELSE "B"
    PROVE  /\ NonceAndFence(r, G \o <<Mark(r, part)>>) /\ Len(G \o <<Mark(r, part)>>) = Len(G) + 1
           /\ G \o <<Mark(r, part)>> \in Seq(Frame) /\ G \o <<Mark(r, part)>> # <<>>
<1> DEFINE one == <<Mark(r, part)>>
           all == G \o one
<1>1. Mark(r, part) \in Frame
  BY MarkTypes DEF Tags
<1>2. one \in Seq(Frame) /\ Len(one) = 1 /\ one[1] = Mark(r, part)
  BY <1>1
<1> HIDE DEF one
<1>3. /\ all \in Seq(Frame) /\ Len(G) \in Nat /\ Len(all) = Len(G) + 1
      /\ \A i \in 1..Len(G) : all[i] = G[i]
      /\ all[Len(G) + 1] = Mark(r, part)
  <2>1. /\ all \in Seq(Frame) /\ Len(G) \in Nat /\ Len(all) = Len(G) + Len(one)
        /\ \A i \in 1..Len(G) : all[i] = G[i]
        /\ \A i \in 1..Len(one) : all[Len(G) + i] = one[i]
    BY <1>2, Joined
  <2>2. 1 \in 1..Len(one)
    BY <1>2
  <2>3. QED
    BY <1>2, <2>1, <2>2
<1>4. PICK n \in Nat : n = Len(G)
  BY <1>3
<1>5. n \in {2, 3} /\ Len(all) = n + 1
  BY <1>3, <1>4 DEF NonceAndFence
<1> HIDE DEF all
<1>6. CASE n = 2
  <2>1. all[1] = G[1] /\ all[2] = G[2] /\ all[3] = Mark(r, "A") /\ Len(all) = 3
    BY <1>3, <1>4, <1>5, <1>6
  <2>2. NonceAndFence(r, all)
    BY <2>1 DEF NonceAndFence
  <2>3. QED
    BY <1>3, <2>1, <2>2 DEF all, one
<1>7. CASE n = 3
  <2>1. all[1] = G[1] /\ all[2] = G[2] /\ all[3] = G[3] /\ all[4] = Mark(r, "B") /\ Len(all) = 4
    BY <1>3, <1>4, <1>5, <1>7
  <2>2. NonceAndFence(r, all)
    BY <1>4, <1>7, <2>1 DEF NonceAndFence
  <2>3. QED
    BY <1>3, <2>1, <2>2 DEF all, one
<1>8. QED
  BY <1>5, <1>6, <1>7

\* tmux runs a capture's command, prints for it, or answers its nonce or fence.
LEMMA CaptureSays ==
    ASSUME TypeInv, Sent, InOrder, cur \in Requests, kind[cur] = "capture", Printed,
           NEW G \in Seq(Frame), CaptureSent(G), TmuxExecutes, NEW said \in Seq(Frame), Saying(said), G = <<>>
    PROVE  /\ Head(stdin).part \notin Starting
           /\ \E G1 \in Seq(Frame) : Printed' /\ CaptureSent(G1)' /\ emitted'[cur] \o G1 = emitted[cur] \o said
<1>1. /\ stdin # <<>> /\ Head(stdin) = stdin[1] /\ Head(stdin).req = cur /\ Len(stdin) \in Nat
      /\ alive /\ alive' = alive /\ cur' = cur /\ emitted[cur] \in Seq(Frame)
  BY CurrentRuns, AskedTypes, StreamTypes DEF TmuxExecutes, workerVars
<1>2. \/ Len(stdin) = 4 /\ (stdin[1].part = "command" <=> emitted[cur] = <<>>)
      \/ Len(stdin) = 3 /\ emitted[cur] # <<>>
  BY <1>1 DEF CaptureSent
<1> DEFINE nothing == <<>>
<1>3. nothing \in Seq(Frame) /\ nothing = <<>>
  OBVIOUS
<1>4. NonceAndFence(cur, nothing)
  BY DEF NonceAndFence
<1> HIDE DEF nothing
<1>5. CASE Len(stdin) = 4 /\ stdin[1].part = "command"
  <2>1. emitted[cur] = <<>> /\ said = <<Mark(cur, "X")>>
        /\ emitted' = [emitted EXCEPT ![cur] = emitted[cur] \o said]
    <3>1. emitted[cur] = <<>>
      BY <1>2, <1>5
    <3>2. said = <<Mark(cur, "X")>>
      BY <1>1, <1>5 DEF Saying
    <3>3. emitted' = [emitted EXCEPT ![cur] = emitted[cur] \o said]
      BY <1>1, <1>5 DEF Saying
    <3>4. QED
      BY <3>1, <3>2, <3>3
  <2>2. emitted'[cur] = said
    BY <2>1, AskedTypes, Empty
  <2>3. Len(stdin') = 4 /\ stdin'[1].part = "output"
    BY <1>1, <1>5, TmuxTakes DEF TypeInv
  <2>4. said # <<>> /\ Len(said) = 1 /\ said[1] = Mark(cur, "X")
    BY <2>1
  <2>5. Printed'
    BY <1>1, <2>2, <2>4 DEF Printed
  <2>6. CaptureSent(nothing)'
    BY <1>1, <1>3, <1>4, <2>2, <2>3, <2>4 DEF CaptureSent
  <2>7. emitted'[cur] \o nothing = emitted[cur] \o said
    BY <1>3, <2>1, <2>2, Empty
  <2>8. Head(stdin).part \notin Starting
    BY <1>1, <1>5 DEF Starting
  <2>9. QED
    BY <1>3, <2>5, <2>6, <2>7, <2>8
<1>6. CASE Len(stdin) = 4 /\ stdin[1].part # "command"
  <2>1. stdin[1].part = "output" /\ emitted[cur] # <<>>
    BY <1>1, <1>2, <1>6, PartHere
  <2>2. emitted' = [emitted EXCEPT ![cur] = emitted[cur] \o said]
    BY <1>1, <2>1 DEF Saying
  <2>3. emitted'[cur] = emitted[cur] \o said /\ emitted[cur] \o said \in Seq(Frame)
    BY <1>1, <2>2, AskedTypes
  <2>4. Len(stdin') = 3
    <3>1. stdin' = Tail(stdin)
      BY <1>1, <2>1, TmuxTakes DEF TypeInv
    <3>2. QED
      BY <1>1, <1>6, <3>1, StreamTypes, Queue
  <2>5. \A k \in 1..Len(said) : said[k] \in {Mark(cur, "X"), Mark(cur, "text"), Mark(cur, "guard")}
    <3>1. \A k \in 1..Len(said) : said[k] = Mark(cur, said[k].tag) /\ said[k].tag \in {"X", "text", "guard"}
      BY <1>1, <2>1 DEF Saying, Starting
    <3>2. QED
      BY <3>1
  <2>6. /\ Len(emitted'[cur]) = Len(emitted[cur]) + Len(said) /\ Len(emitted[cur]) \in Nat /\ Len(said) \in Nat
        /\ \A i \in 1..Len(emitted[cur]) : emitted'[cur][i] = emitted[cur][i]
        /\ \A i \in 1..Len(said) : emitted'[cur][Len(emitted[cur]) + i] = said[i]
    BY <1>1, <2>3, Joined
  <2>7. \A k \in 1..Len(emitted'[cur]) : emitted'[cur][k] \in {Mark(cur, "X"), Mark(cur, "text"), Mark(cur, "guard")}
    <3>1. PICK m, n \in Nat : m = Len(emitted[cur]) /\ n = Len(said)
      BY <2>6
    <3>2. \A k \in 1..m + n : k \in 1..m \/ (k - m \in 1..n /\ k = m + (k - m))
      BY <3>1
    <3>3. \A i \in 1..m : emitted[cur][i] \in {Mark(cur, "X"), Mark(cur, "text"), Mark(cur, "guard")}
      BY <3>1 DEF Printed
    <3>4. \A k \in 1..m + n : emitted'[cur][k] \in {Mark(cur, "X"), Mark(cur, "text"), Mark(cur, "guard")}
      BY <2>5, <2>6, <3>1, <3>2, <3>3
    <3>5. QED
      BY <2>6, <3>1, <3>4
  <2>8. Len(emitted[cur]) >= 1 /\ 1 \in 1..Len(emitted[cur])
    <3>1. Len(emitted[cur]) # 0
      BY <1>1, <2>1, NothingIn
    <3>2. QED
      BY <2>6, <3>1
  <2>9. emitted'[cur][1] = Mark(cur, "X")
    BY <2>1, <2>6, <2>8 DEF Printed
  <2>10. emitted'[cur] # <<>>
    BY <1>1, <2>1, <2>3, JoinedTail
  <2>11. Printed'
    BY <1>1, <2>7, <2>9 DEF Printed
  <2>12. CaptureSent(nothing)'
    BY <1>1, <1>3, <1>4, <2>4, <2>10 DEF CaptureSent
  <2>13. emitted'[cur] \o nothing = emitted[cur] \o said
    BY <1>3, <2>3, Empty
  <2>14. Head(stdin).part \notin Starting
    BY <1>1, <2>1 DEF Starting
  <2>15. QED
    BY <1>3, <2>11, <2>12, <2>13, <2>14
<1>7. CASE Len(stdin) = 3 /\ emitted[cur] # <<>>
  <2>1. stdin[1].part = "N"
    BY <1>1, <1>7, PartHere
  <2>2. said = <<Mark(cur, "guard"), Mark(cur, "N")>> /\ emitted' = emitted
    BY <1>1, <2>1 DEF Saying
  <2>3. NonceAndFence(cur, said) /\ Len(said) = 2 /\ said # <<>>
    BY <2>2, NonceStarts, AskedTypes
  <2>4. Len(stdin') = 2
    <3>1. stdin' = Tail(stdin)
      BY <1>1, <2>1, TmuxTakes DEF TypeInv
    <3>2. QED
      BY <1>1, <1>7, <3>1, StreamTypes, Queue
  <2>5. CaptureSent(said)'
    BY <1>1, <1>7, <2>2, <2>3, <2>4 DEF CaptureSent
  <2>6. Printed'
    BY <1>1, <2>2, PrintedRests
  <2>7. Head(stdin).part \notin Starting
    BY <1>1, <2>1 DEF Starting
  <2>8. QED
    BY <2>2, <2>5, <2>6, <2>7
<1>8. QED
  BY <1>2, <1>5, <1>6, <1>7

LEMMA CaptureFences ==
    ASSUME TypeInv, Sent, InOrder, cur \in Requests, kind[cur] = "capture", Printed,
           NEW G \in Seq(Frame), CaptureSent(G), TmuxExecutes, NEW said \in Seq(Frame), Saying(said), G # <<>>
    PROVE  /\ Head(stdin).part \notin Starting
           /\ Printed' /\ CaptureSent(G \o said)' /\ emitted' = emitted
<1>1. /\ stdin # <<>> /\ Head(stdin) = stdin[1] /\ Head(stdin).req = cur /\ Len(stdin) \in Nat
      /\ alive /\ alive' = alive /\ cur' = cur /\ emitted[cur] \in Seq(Frame)
  BY CurrentRuns, AskedTypes, StreamTypes DEF TmuxExecutes, workerVars
<1>2. Len(stdin) = 4 - Len(G) /\ NonceAndFence(cur, G) /\ emitted[cur] # <<>>
  BY <1>1 DEF CaptureSent
<1>3. /\ Len(G) = 2 \/ Len(G) = 3
      /\ Len(stdin) = IF Len(G) = 2 THEN 2 ELSE 1
  <2>1. Len(G) \in Nat /\ Len(G) >= 2 /\ Len(G) <= 4
    BY <1>2 DEF NonceAndFence
  <2>2. Len(stdin) # 0
    <3>1. 1 \in 1..Len(stdin)
      BY <1>1, PartHere
    <3>2. QED
      BY <1>1, <3>1
  <2>3. \A g, n \in Nat : g >= 2 /\ g <= 4 /\ n = 4 - g /\ n # 0 => (g = 2 \/ g = 3) /\ n = IF g = 2 THEN 2 ELSE 1
    OBVIOUS
  <2>4. QED
    BY <1>1, <1>2, <2>1, <2>2, <2>3
<1> DEFINE part == IF Len(G) = 2 THEN "A" ELSE "B"
<1>4. Head(stdin).part = part
  BY <1>1, <1>3, PartHere
<1>5. said = <<Mark(cur, part)>> /\ emitted' = emitted
  BY <1>1, <1>4 DEF Saying
<1>6. NonceAndFence(cur, G \o said) /\ Len(G \o said) = Len(G) + 1 /\ G \o said # <<>>
  <2>1. Len(G) < 4 /\ cur \in 0..MaxRequests
    <3>1. 2 < 4 /\ 3 < 4
      OBVIOUS
    <3>2. QED
      BY <1>3, <3>1, AskedTypes
  <2>2. QED
    BY <1>2, <1>5, <2>1, NonceGrows
<1>7. Len(stdin') = Len(stdin) - 1
  BY <1>1, <1>4, TmuxTakes, StreamTypes, Queue DEF TypeInv
<1>8. Len(stdin') = 4 - Len(G \o said)
  <2>1. \A g, n \in Nat : (g = 2 \/ g = 3) /\ n = (IF g = 2 THEN 2 ELSE 1) => n - 1 = 4 - (g + 1)
    OBVIOUS
  <2>2. Len(G) \in Nat
    OBVIOUS
  <2>3. QED
    BY <1>1, <1>3, <1>6, <1>7, <2>1, <2>2
<1>9. CaptureSent(G \o said)'
  BY <1>1, <1>2, <1>5, <1>6, <1>8 DEF CaptureSent
<1>10. Printed'
  BY <1>1, <1>5, PrintedRests
<1>11. QED
  BY <1>4, <1>5, <1>9, <1>10 DEF Starting

LEMMA CaptureGrows ==
    ASSUME TypeInv, Sent, InOrder, cur \in Requests, kind[cur] = "capture", Printed,
           NEW G \in Seq(Frame), CaptureSent(G), TmuxExecutes, NEW said \in Seq(Frame), Saying(said)
    PROVE  /\ \A k \in 1..Len(said) : said[k].own
           /\ \E G1 \in Seq(Frame) : Printed' /\ CaptureSent(G1)'
                                     /\ emitted'[cur] \o G1 = (emitted[cur] \o G) \o said
<1>1. emitted[cur] \in Seq(Frame) /\ G \o said \in Seq(Frame)
  BY AskedTypes
<1>2. Head(stdin).part \notin Starting
  BY CaptureSays, CaptureFences
<1>3. CASE G = <<>>
  <2>1. emitted[cur] \o G = emitted[cur]
    BY <1>1, <1>3, Empty
  <2>2. QED
    BY <1>2, <1>3, <2>1, OwnSaid, CaptureSays
<1>4. CASE G # <<>>
  <2>1. Printed' /\ CaptureSent(G \o said)' /\ emitted' = emitted
    BY <1>4, CaptureFences
  <2>2. emitted[cur] \o (G \o said) = (emitted[cur] \o G) \o said
    <3>1. G \in Seq(Frame) /\ said \in Seq(Frame) /\ emitted[cur] \in Seq(Frame)
      BY <1>1
    <3>2. QED
      BY ONLY <3>1, Associative, Zenon
  <2>3. QED
    BY <1>1, <1>2, <2>1, <2>2, OwnSaid
<1>5. QED
  BY <1>3, <1>4

Caught == Printed /\ Armed /\ Capturing /\ Captured

\* The first record of the capture's command is behind what tmux had to say before.
LEMMA FirstRecord ==
    ASSUME TypeInv, cur \in Requests, Printed, NEW G \in Seq(Frame), CaptureSent(G), NEW R \in Seq(Frame),
           R = emitted[cur] \o G, R # <<>>
    PROVE  Head(R) = Mark(cur, "X") /\ emitted[cur] # <<>> /\ Len(emitted[cur]) \in Nat /\ 1 <= Len(emitted[cur])
<1>1. emitted[cur] \in Seq(Frame)
  BY AskedTypes
<1>2. emitted[cur] # <<>>
  <2>1. SUFFICES ASSUME emitted[cur] = <<>> PROVE FALSE
    OBVIOUS
  <2>2. G = <<>>
    BY <2>1 DEF CaptureSent
  <2>3. R = <<>>
    BY <2>1, <2>2, Empty
  <2>4. QED
    BY <2>3
<1>3. Head(R) = Head(emitted[cur])
  BY <1>1, <1>2, JoinedTail
<1>4. Head(emitted[cur]) = emitted[cur][1]
  BY <1>1, <1>2, Queue
<1>5. Len(emitted[cur]) \in Nat /\ Len(emitted[cur]) # 0
  BY <1>1, <1>2, NothingIn
<1>6. QED
  BY <1>2, <1>3, <1>4, <1>5 DEF Printed

\* It reaches the reader and the parser captures from there.
LEMMA CaptureStarts ==
    ASSUME TypeInv, dispatching, cur \in Requests, Printed, Armed, capturing = "armed", ReadFrame, Head(stdout).own
    PROVE  Capturing' /\ capturing' = "started"
<1>1. /\ pendingFirst = NoFrame /\ results = <<>> /\ lines = <<>> /\ frames = <<>>
      /\ \E G, R \in Seq(Frame) : ArmedAt(G, R)
  BY DEF Armed
<1>2. PICK G, R \in Seq(Frame) : ArmedAt(G, R)
  BY <1>1
<1> DEFINE h    == Head(stdout)
           to   == <<h>>
           rest == Tail(stdout)
<1>3. /\ stdout # <<>> /\ readDone = FALSE /\ readDone' = FALSE /\ stdout' = rest
      /\ frames' = Append(frames, h) /\ capturing' = "started"
      /\ UNCHANGED <<cur, kind, alive, stdin, emitted, lines, results, pendingFirst>>
  <2>1. /\ stdout # <<>> /\ ~readDone /\ ToChannel(h)
    BY DEF ReadFrame, Reading, ToChannel
  <2>2. QED
    BY <2>1, StreamTypes DEF ReadFrame, workerVars, callerVars, processVars
<1>4. h \in Frame /\ h.own /\ stdout \in Seq(Frame) /\ rest \in Seq(Frame)
  BY <1>3, StreamTypes, Queue
<1> HIDE DEF h, rest
<1>5. to \in Seq(Frame) /\ to # <<>> /\ Head(to) = h /\ Tail(to) = <<>> /\ Len(to) = 1 /\ Append(<<>>, h) = to
  BY <1>4
<1>6. Comes(<<>>, stdout, FALSE, R)
  BY <1>1, <1>2, <1>3 DEF ArmedAt, InFlight
<1>7. Comes(to, rest, FALSE, R)
  <2>1. <<>> \in Seq(Frame)
    OBVIOUS
  <2>2. QED
    BY <1>3, <1>4, <1>5, <1>6, <2>1, ComesRead DEF h, rest
<1>8. R # <<>> /\ Head(R) = h /\ Comes(<<>>, rest, FALSE, Tail(R))
  <2> HIDE DEF to
  <2>1. R # <<>> /\ Head(R) = Head(to) /\ Comes(Tail(to), rest, FALSE, Tail(R))
    BY <1>4, <1>5, <1>7, ComesTaken
  <2>2. QED
    BY <1>5, <2>1
<1>9. R = emitted[cur] \o G /\ CaptureSent(G)
  BY <1>2 DEF ArmedAt
<1>10. h = Mark(cur, "X")
  BY <1>8, <1>9, FirstRecord
<1>11. Tail(R) \in Seq(Frame) /\ <<h>> \o Tail(R) = R
  BY <1>8, Queue, Shift
<1>12. CaptureSent(G)'
  BY <1>3, <1>9, CaptureRests
<1>13. CapturingAt(G, Tail(R))'
  BY <1>1, <1>3, <1>8, <1>9, <1>10, <1>11, <1>12 DEF CapturingAt
<1>14. frames' = to
  BY <1>1, <1>3, <1>5
<1>15. results' \o frames' = to /\ Len(results') + Len(frames') = 1
  <2>1. Len(<<>>) = 0 /\ <<>> \o to = to
    BY <1>5, Empty
  <2>2. QED
    BY <1>1, <1>3, <1>5, <1>14, <2>1
<1>16. QED
  BY <1>1, <1>3, <1>10, <1>11, <1>13, <1>15 DEF Capturing

\* The parser waits for the first record.
LEMMA ArmedMoves ==
    ASSUME TypeInv, dispatching, cur \in Requests, Caught, capturing = "armed",
           SkipForeign \/ ReadFrame \/ TmuxForeignBlock \/ ReaderEnds \/ ReaderFails \/ TmuxExits \/ CloseProcess
    PROVE  Caught'
<1>1. /\ pendingFirst = NoFrame /\ results = <<>> /\ lines = <<>> /\ frames = <<>>
      /\ \E G, R \in Seq(Frame) : ArmedAt(G, R)
  BY DEF Caught, Armed
<1>2. PICK G, R \in Seq(Frame) : ArmedAt(G, R)
  BY <1>1
<1>3. /\ (alive' => alive /\ stdin' = stdin)
      /\ UNCHANGED <<wpc, cur, results, pendingFirst, kind, emitted, lines>>
  BY InputMoves
<1>4. InFlight(R)'
  BY <1>2, StreamMoves DEF ArmedAt
<1>5. CaptureSent(G)' /\ Printed'
  BY <1>2, <1>3, CaptureRests, PrintedRests DEF ArmedAt, Caught
<1>6. CASE ReadFrame /\ Head(stdout).own
  <2>1. Capturing' /\ capturing' = "started"
    BY <1>6, CaptureStarts DEF Caught
  <2>2. QED
    BY <1>5, <2>1 DEF Caught, Armed, Captured
<1>7. CASE ~(ReadFrame /\ Head(stdout).own)
  <2>1. capturing' = "armed" /\ frames' = frames
    <3>1. CASE SkipForeign
      BY <1>1, <3>1 DEF SkipForeign
    <3>2. CASE ReadFrame
      BY <1>7, <3>2 DEF ReadFrame, ToChannel
    <3>3. CASE TmuxForeignBlock \/ ReaderEnds \/ ReaderFails \/ TmuxExits \/ CloseProcess
      BY <3>3 DEF TmuxForeignBlock, ReaderEnds, ReaderFails, TmuxExits, CloseProcess, readerVars,
         parserVars
    <3>4. QED
      BY <3>1, <3>2, <3>3
  <2>2. ArmedAt(G, R)'
    BY <1>2, <1>3, <1>4, <1>5 DEF ArmedAt
  <2>3. QED
    BY <1>1, <1>3, <1>5, <2>1, <2>2 DEF Caught, Armed, Capturing, Captured
<1>8. QED
  BY <1>6, <1>7

LEMMA ArmedExecutes ==
    ASSUME TypeInv, Sent, InOrder, cur \in Requests, kind[cur] = "capture", Caught, capturing = "armed", TmuxExecutes
    PROVE  Caught'
<1>1. /\ pendingFirst = NoFrame /\ results = <<>> /\ lines = <<>> /\ frames = <<>>
      /\ \E G, R \in Seq(Frame) : ArmedAt(G, R)
  BY DEF Caught, Armed
<1>2. PICK G, R \in Seq(Frame) : ArmedAt(G, R)
  BY <1>1
<1>3. PICK said \in Seq(Frame) : Saying(said)
  BY TmuxSays DEF TypeInv
<1>4. /\ UNCHANGED <<cur, results, pendingFirst, lines, capturing, frames, readDone>>
      /\ stdout' = stdout \o said
  BY <1>3 DEF TmuxExecutes, workerVars, readerVars, parserVars, Saying
<1>5. /\ \A k \in 1..Len(said) : said[k].own
      /\ \E G1 \in Seq(Frame) : Printed' /\ CaptureSent(G1)' /\ emitted'[cur] \o G1 = (emitted[cur] \o G) \o said
  BY <1>2, <1>3, CaptureGrows DEF ArmedAt, Caught
<1>6. PICK G1 \in Seq(Frame) : Printed' /\ CaptureSent(G1)' /\ emitted'[cur] \o G1 = (emitted[cur] \o G) \o said
  BY <1>5
<1>7. InFlight(R \o said)' /\ R \o said \in Seq(Frame)
  <2>1. R \o said \in Seq(Frame)
    BY <1>2, <1>3
  <2>2. InFlight(R)
    BY <1>2 DEF ArmedAt
  <2>3. QED
    BY <1>2, <1>3, <1>4, <1>5, <2>1, <2>2, FlightSaid
<1>8. R \o said = emitted'[cur'] \o G1
  BY <1>2, <1>4, <1>6 DEF ArmedAt
<1>9. ArmedAt(G1, R \o said)'
  BY <1>6, <1>7, <1>8 DEF ArmedAt
<1>10. QED
  BY <1>1, <1>4, <1>6, <1>7, <1>9 DEF Caught, Armed, Capturing, Captured

------------------------------------------------------------------------------
(* The stream of a capture: what its parser collects.                      *)

\* Nobody else disturbs a capture under way.
LEMMA CapturingMoves ==
    ASSUME TypeInv, dispatching, cur \in Requests, Caught, capturing = "started",
           SkipForeign \/ ReadFrame \/ TmuxForeignBlock \/ ReaderEnds \/ ReaderFails \/ TmuxExits \/ CloseProcess
    PROVE  Caught'
<1>1. /\ pendingFirst = NoFrame /\ Len(results) + Len(frames) = 1
      /\ results \o frames = <<Mark(cur, "X")>>
      /\ \E G, R \in Seq(Frame) : CapturingAt(G, R)
  BY DEF Caught, Capturing
<1>2. PICK G, R \in Seq(Frame) : CapturingAt(G, R)
  BY <1>1
<1>3. /\ (alive' => alive /\ stdin' = stdin)
      /\ UNCHANGED <<wpc, cur, results, pendingFirst, kind, emitted, lines>>
  BY InputMoves
<1>4. CaptureSent(G)' /\ Printed'
  BY <1>2, <1>3, CaptureRests, PrintedRests DEF CapturingAt, Caught
<1>5. capturing' = "started" /\ frames' = frames /\ Comes(lines, stdout', readDone', R)
  <2>1. Comes(lines, stdout, readDone, R)
    BY <1>2 DEF CapturingAt
  <2>2. CASE SkipForeign
    <3>1. frames # <<>> /\ ~Head(frames).own
      BY <2>2 DEF SkipForeign
    <3>2. /\ frames \in Seq(Frame) /\ Len(frames) <= 1 /\ results \in Seq(Frame) /\ Len(results) \in Nat
      BY StreamTypes
    <3>3. Len(frames) = 1 /\ frames = <<Head(frames)>>
      BY <3>1, <3>2, RoomTaken
    <3>4. Len(results) = 0
      BY <1>1, <3>2, <3>3
    <3>5. results = <<>>
      BY <3>2, <3>4, NothingIn
    <3>6. frames = <<Mark(cur, "X")>>
      BY <1>1, <3>2, <3>5, Empty
    <3>7. Head(frames) = Mark(cur, "X")
      BY <3>6
    <3>8. QED
      BY <3>1, <3>7, MarkOf
  <2>3. CASE ReadFrame
    BY <2>3 DEF ReadFrame, Captures, Blocks
  <2>4. CASE TmuxForeignBlock
    <3>1. PICK h \in Frame : ~h.own /\ stdout' = Append(stdout, h)
      <4>1. PICK tag \in ForeignTags : stdout' = Append(stdout, [req |-> 0, own |-> FALSE, tag |-> tag])
        BY <2>4 DEF TmuxForeignBlock
      <4>2. [req |-> 0, own |-> FALSE, tag |-> tag] \in Frame
        BY <4>1, ClientAssumption, AskedTypes DEF ClientAssumption, Frame, Tags
      <4>3. QED
        BY <4>1, <4>2
    <3>2. Comes(lines, Append(stdout, h), readDone, R)
      BY <2>1, <3>1, StreamTypes, ComesForeign
    <3>3. QED
      BY <2>4, <3>1, <3>2 DEF TmuxForeignBlock, readerVars, parserVars
  <2>5. CASE ReaderEnds \/ ReaderFails
    <3>1. Comes(lines, <<>>, TRUE, R)
      BY <2>1, StreamTypes, ComesCut
    <3>2. QED
      BY <2>5, <3>1 DEF ReaderEnds, ReaderFails, parserVars
  <2>6. CASE TmuxExits \/ CloseProcess
    BY <2>1, <2>6 DEF TmuxExits, CloseProcess, readerVars, parserVars
  <2>7. QED
    BY <2>2, <2>3, <2>4, <2>5, <2>6
<1>6. CapturingAt(G, R)'
  BY <1>2, <1>3, <1>4, <1>5 DEF CapturingAt
<1>7. QED
  BY <1>1, <1>3, <1>4, <1>5, <1>6 DEF Caught, Armed, Capturing, Captured

LEMMA CapturingExecutes ==
    ASSUME TypeInv, Sent, InOrder, cur \in Requests, kind[cur] = "capture", Caught, capturing = "started", TmuxExecutes
    PROVE  Caught'
<1>1. /\ pendingFirst = NoFrame /\ Len(results) + Len(frames) = 1
      /\ results \o frames = <<Mark(cur, "X")>>
      /\ \E G, R \in Seq(Frame) : CapturingAt(G, R)
  BY DEF Caught, Capturing
<1>2. PICK G, R \in Seq(Frame) : CapturingAt(G, R)
  BY <1>1
<1>3. PICK said \in Seq(Frame) : Saying(said)
  BY TmuxSays DEF TypeInv
<1>4. /\ UNCHANGED <<cur, results, pendingFirst, lines, capturing, frames, readDone>>
      /\ stdout' = stdout \o said
  BY <1>3 DEF TmuxExecutes, workerVars, readerVars, parserVars, Saying
<1>5. /\ \A k \in 1..Len(said) : said[k].own
      /\ \E G1 \in Seq(Frame) : Printed' /\ CaptureSent(G1)' /\ emitted'[cur] \o G1 = (emitted[cur] \o G) \o said
  BY <1>2, <1>3, CaptureGrows DEF CapturingAt, Caught
<1>6. PICK G1 \in Seq(Frame) : Printed' /\ CaptureSent(G1)' /\ emitted'[cur] \o G1 = (emitted[cur] \o G) \o said
  BY <1>5
<1>7. Comes(lines, stdout \o said, readDone, R \o said) /\ R \o said \in Seq(Frame)
  BY <1>2, <1>3, <1>5, StreamTypes, ComesSaid DEF CapturingAt
<1> DEFINE one == <<Mark(cur, "X")>>
<1>8. one \o (R \o said) = emitted'[cur] \o G1
  <2>1. one \in Seq(Frame) /\ R \in Seq(Frame) /\ said \in Seq(Frame)
    <3>1. "X" \in Tags /\ cur \in 0..MaxRequests
      BY AskedTypes DEF Tags
    <3>2. Mark(cur, "X") \in Frame
      BY <3>1, MarkTypes
    <3>3. QED
      BY <1>2, <1>3, <3>2
  <2> HIDE DEF one
  <2>2. one \o (R \o said) = (one \o R) \o said
    BY ONLY <2>1, Associative, ZenonT(60)
  <2>3. one \o R = emitted[cur] \o G
    BY <1>2 DEF CapturingAt, one
  <2>4. QED
    BY <1>6, <2>2, <2>3
<1>9. CapturingAt(G1, R \o said)'
  BY <1>4, <1>6, <1>7, <1>8 DEF CapturingAt
<1>10. QED
  BY <1>1, <1>4, <1>6, <1>7, <1>9 DEF Caught, Armed, Capturing, Captured

\* The client takes the first record.
LEMMA CapturingCollect ==
    ASSUME TypeInv, cur \in Requests, fence[1] = "A", Caught, capturing = "started", CollectFrame
    PROVE  Caught' /\ pendingFirst' = NoFrame
<1> DEFINE first == Mark(cur, "X")
<1>1. /\ pendingFirst = NoFrame /\ Len(results) + Len(frames) = 1
      /\ results \o frames = <<first>>
      /\ \E G, R \in Seq(Frame) : CapturingAt(G, R)
  BY DEF Caught, Capturing
<1>2. frames # <<>> /\ frames \in Seq(Frame) /\ Len(frames) <= 1 /\ results \in Seq(Frame) /\ Len(results) \in Nat
  BY StreamTypes DEF CollectFrame, OneMoreFrame
<1>3. Len(frames) = 1 /\ frames = <<Head(frames)>> /\ Tail(frames) = <<>>
  BY <1>2, RoomTaken
<1>4. results = <<>>
  <2>1. Len(results) = 0
    BY <1>1, <1>2, <1>3
  <2>2. QED
    BY <1>2, <2>1, NothingIn
<1>5. Head(frames) = first
  <2>1. frames = <<first>>
    BY <1>1, <1>2, <1>4, Empty
  <2>2. QED
    BY <2>1
<1>6. first \in Frame /\ first.tag = "X"
  BY <1>2, <1>5, MarkOf, Queue
<1> HIDE DEF first
<1>7. pendingFirst' = NoFrame /\ results' = Append(results, first) /\ frames' = <<>>
  BY <1>1, <1>3, <1>5, <1>6 DEF CollectFrame
<1>8. UNCHANGED <<cur, kind, alive, stdin, emitted, stdout, readDone, capturing, lines>>
  BY DEF CollectFrame, callerVars, processVars, parserVars
<1>9. results' = <<first>> /\ Len(results') + Len(frames') = 1 /\ results' \o frames' = <<first>>
  <2>1. results' = <<first>>
    BY <1>4, <1>7
  <2>2. <<first>> \in Seq(Frame) /\ Len(<<first>>) = 1 /\ Len(<<>>) = 0
    BY <1>6
  <2>3. <<first>> \o <<>> = <<first>>
    BY <2>2, Empty
  <2>4. QED
    BY <1>7, <2>1, <2>2, <2>3
<1>10. PICK G, R \in Seq(Frame) : CapturingAt(G, R)
  BY <1>1
<1>11. CapturingAt(G, R)'
  <2>1. CaptureSent(G)'
    BY <1>8, <1>10, CaptureRests DEF CapturingAt
  <2>2. QED
    BY <1>8, <1>10, <2>1 DEF CapturingAt
<1>12. Printed'
  BY <1>8, PrintedRests DEF Caught
<1>13. QED
  BY <1>7, <1>8, <1>9, <1>11, <1>12 DEF Caught, Armed, Capturing, Captured, first

\* The parser takes a line.
LEMMA CapturingLine ==
    ASSUME TypeInv, cur \in Requests, Caught, capturing = "started", CaptureLine
    PROVE  Caught'
<1>1. /\ pendingFirst = NoFrame /\ Len(results) + Len(frames) = 1
      /\ results \o frames = <<Mark(cur, "X")>>
      /\ \E G, R \in Seq(Frame) : CapturingAt(G, R)
  BY DEF Caught, Capturing
<1>2. PICK G, R \in Seq(Frame) : CapturingAt(G, R)
  BY <1>1
<1>3. /\ stdout # <<>> /\ readDone = FALSE /\ lines' = Append(lines, Head(stdout)) /\ stdout' = Tail(stdout)
      /\ UNCHANGED <<cur, kind, alive, stdin, emitted, frames, readDone, capturing, results, pendingFirst>>
  <2>1. stdout # <<>> /\ ~readDone
    BY DEF CaptureLine, Reading
  <2>2. QED
    BY <2>1, StreamTypes DEF CaptureLine, callerVars, workerVars, processVars
<1>4. Comes(lines', stdout', FALSE, R)
  <2>1. Comes(lines, stdout, FALSE, R)
    BY <1>2, <1>3 DEF CapturingAt
  <2>2. QED
    BY <1>3, <2>1, StreamTypes, ComesRead
<1>5. CaptureSent(G)' /\ Printed'
  BY <1>2, <1>3, CaptureRests, PrintedRests DEF CapturingAt, Caught
<1>6. CapturingAt(G, R)'
  BY <1>2, <1>3, <1>4, <1>5 DEF CapturingAt
<1>7. QED
  BY <1>1, <1>3, <1>5, <1>6 DEF Caught, Armed, Capturing, Captured

------------------------------------------------------------------------------
(* The nonce ends the capture, and the fence its reply.                    *)

\* Where the nonce is, the command ends and the fence begins: f and t are what
\* was captured, with the guard in front of the nonce, and what is still to be
\* read of what tmux said.
NonceAt(r, said, G, one, f, t) ==
    /\ NonceAndFence(r, G)
    /\ said # <<>> /\ said[1] = Mark(r, "X")
    /\ \A k \in 1..Len(said) : said[k] \in {Mark(r, "X"), Mark(r, "text"), Mark(r, "guard")}
    /\ f # <<>> /\ t # <<>> /\ Head(t).tag = "N"
    /\ one = <<Mark(r, "X")>> /\ one \o (f \o t) = said \o G

\* The first record that looks like the nonce's is the nonce's, so what comes before
\* it is all that was printed.
LEMMA NonceFound ==
    ASSUME NEW r \in 0..MaxRequests, NEW said \in Seq(Frame), NEW G \in Seq(Frame), NEW one,
           NEW f \in Seq(Frame), NEW t \in Seq(Frame), NonceAt(r, said, G, one, f, t)
    PROVE  /\ said = one \o Front(f)
           /\ Fence(r, Tail(t)) /\ Len(Tail(t)) = Len(G) - 2 /\ Len(G) \in 2..4
           /\ Head(t) = Mark(r, "N")
<1>1. /\ NonceAndFence(r, G)
      /\ said # <<>> /\ said[1] = Mark(r, "X")
      /\ \A k \in 1..Len(said) : said[k] \in {Mark(r, "X"), Mark(r, "text"), Mark(r, "guard")}
      /\ f # <<>> /\ t # <<>> /\ Head(t).tag = "N"
      /\ one = <<Mark(r, "X")>> /\ one \o (f \o t) = said \o G
  BY DEF NonceAt
<1>2. one \in Seq(Frame) /\ Len(one) = 1 /\ one[1] = Mark(r, "X")
  <2>1. Mark(r, "X") \in Frame
    BY MarkTypes DEF Tags
  <2>2. QED
    BY <1>1, <2>1
<1>3. one \o (f \o t) = said \o G
  BY <1>1
<1>4. Alike(one, f, t, said, G)
  BY <1>2, <1>3, SplitTwice
<1>5. PICK n, m, g, p \in Nat : n = Len(said) /\ m = Len(f) /\ g = Len(G) /\ p = Len(t)
  OBVIOUS
<1>6. /\ 1 + (m + p) = n + g
      /\ \A i \in 1..m : f[i] = IF 1 + i <= n THEN said[1 + i] ELSE G[1 + i - n]
      /\ \A i \in 1..p : t[i] = IF 1 + m + i <= n THEN said[1 + m + i] ELSE G[1 + m + i - n]
  BY <1>2, <1>4, <1>5 DEF Alike
<1>7. n # 0 /\ m # 0 /\ p # 0
  BY <1>1, <1>5, NothingIn
<1>8. Head(t) = t[1] /\ t[1].tag = "N"
  BY <1>1, Queue
<1>9. 1 + m + 1 > n
  <2>1. SUFFICES ASSUME 1 + m + 1 <= n PROVE FALSE
    BY <1>5
  <2>2. 1 \in 1..p /\ 1 + m + 1 \in 1..n
    BY <1>5, <1>7, <2>1
  <2>3. t[1] = said[1 + m + 1]
    BY <1>6, <2>1, <2>2
  <2>4. t[1] \in {Mark(r, "X"), Mark(r, "text"), Mark(r, "guard")}
    BY <1>1, <1>5, <2>2, <2>3
  <2>5. QED
    BY <1>8, <2>4, MarkOf
<1>10. t[1] = G[2 + m - n] /\ 2 + m - n \in 1..g
  <2>1. 1 \in 1..p /\ ~(1 + m + 1 <= n)
    BY <1>5, <1>7, <1>9
  <2>2. t[1] = G[1 + m + 1 - n]
    BY <1>6, <2>1
  <2>3. 1 + m + 1 - n = 2 + m - n
    BY ONLY <1>5
  <2>4. 2 + m - n \in 1..g
    BY ONLY <1>5, <1>6, <1>7, <1>9
  <2>5. QED
    BY <2>2, <2>3, <2>4
<1>11. /\ g \in 2..4 /\ G[1] = Mark(r, "guard") /\ G[2] = Mark(r, "N")
       /\ (g >= 3 => G[3] = Mark(r, "A")) /\ (g = 4 => G[4] = Mark(r, "B"))
  <2>1. G # <<>>
    <3>1. g # 0
      BY <1>5, <1>10
    <3>2. QED
      BY <1>5, <3>1
  <2>2. /\ Len(G) >= 2 /\ Len(G) <= 4 /\ G[1] = Mark(r, "guard") /\ G[2] = Mark(r, "N")
        /\ (Len(G) >= 3 => G[3] = Mark(r, "A")) /\ (Len(G) = 4 => G[4] = Mark(r, "B"))
    BY <1>1, <2>1 DEF NonceAndFence
  <2>3. \A k \in Nat : k >= 2 /\ k <= 4 => k \in 2..4
    OBVIOUS
  <2>4. QED
    BY <1>5, <2>2, <2>3
<1>12. n = m
  <2>1. 2 + m - n = 1 \/ 2 + m - n = 2 \/ 2 + m - n = 3 \/ 2 + m - n = 4
    <3>1. \A k \in 2..4 : \A i \in 1..k : i = 1 \/ i = 2 \/ i = 3 \/ i = 4
      OBVIOUS
    <3>2. QED
      BY <1>5, <1>10, <1>11, <3>1
  <2>2. G[2 + m - n].tag = "N"
    BY <1>8, <1>10
  <2>3. 2 + m - n # 1 /\ 2 + m - n # 3 /\ 2 + m - n # 4
    <3>1. \A k \in 2..4 : \A i \in 1..k : (i = 3 => k >= 3) /\ (i = 4 => k = 4)
      OBVIOUS
    <3>2. (2 + m - n = 3 => g >= 3) /\ (2 + m - n = 4 => g = 4)
      BY <1>5, <1>10, <1>11, <3>1
    <3>3. ASSUME 2 + m - n = 1 PROVE FALSE
      <4>1. G[1].tag = "N"
        BY <2>2, <3>3
      <4>2. QED
        BY <1>11, <4>1, MarkOf
    <3>4. ASSUME 2 + m - n = 3 PROVE FALSE
      <4>1. G[3].tag = "N"
        BY <2>2, <3>4
      <4>2. QED
        BY <1>11, <3>2, <3>4, <4>1, MarkOf
    <3>5. ASSUME 2 + m - n = 4 PROVE FALSE
      <4>1. G[4].tag = "N"
        BY <2>2, <3>5
      <4>2. QED
        BY <1>11, <3>2, <3>5, <4>1, MarkOf
    <3>6. QED
      BY <3>3, <3>4, <3>5
  <2>4. QED
    BY ONLY <1>5, <2>1, <2>3
<1>13. Front(f) \in Seq(Frame) /\ Len(Front(f)) = m - 1 /\ \A i \in 1..m - 1 : Front(f)[i] = f[i]
  BY <1>5, <1>7 DEF Front
<1>14. said = one \o Front(f)
  <2>1. /\ one \o Front(f) \in Seq(Frame) /\ Len(one \o Front(f)) = 1 + (m - 1)
        /\ (one \o Front(f))[1] = one[1]
        /\ \A i \in 1..m - 1 : (one \o Front(f))[1 + i] = f[i]
    <3>1. /\ one \o Front(f) \in Seq(Frame) /\ Len(one \o Front(f)) = Len(one) + Len(Front(f))
          /\ \A i \in 1..Len(one) : (one \o Front(f))[i] = one[i]
          /\ \A i \in 1..Len(Front(f)) : (one \o Front(f))[Len(one) + i] = Front(f)[i]
      BY <1>2, <1>13, Joined
    <3>2. 1 \in 1..1
      OBVIOUS
    <3>3. QED
      BY <1>2, <1>13, <3>1, <3>2
  <2>2. \A i \in 1..m - 1 : f[i] = said[1 + i]
    <3>1. \A i \in 1..m - 1 : i \in 1..m /\ 1 + i <= n
      BY ONLY <1>5, <1>12
    <3>2. QED
      BY <1>6, <3>1
  <2>3. \A k \in 1..n : k = 1 \/ (k - 1 \in 1..m - 1 /\ k = 1 + (k - 1))
    BY ONLY <1>5, <1>12
  <2>4. \A k \in 1..n : said[k] = (one \o Front(f))[k]
    BY <1>1, <1>2, <2>1, <2>2, <2>3
  <2>5. Len(one \o Front(f)) = n
    BY <1>5, <1>12, <2>1
  <2>6. QED
    BY <1>5, <2>1, <2>4, <2>5, SeqEqual
<1>15. /\ Tail(t) \in Seq(Frame) /\ Len(Tail(t)) = g - 2 /\ p = g - 1
       /\ \A i \in 1..g - 2 : Tail(t)[i] = G[i + 2]
  <2>1. p = g - 1
    BY ONLY <1>5, <1>6, <1>12
  <2>2. Tail(t) \in Seq(Frame) /\ Len(Tail(t)) = p - 1 /\ \A i \in 1..p - 1 : Tail(t)[i] = t[i + 1]
    BY <1>5, <1>7
  <2>3. \A i \in 1..p - 1 : i + 1 \in 1..p /\ ~(1 + m + (i + 1) <= n) /\ 1 + m + (i + 1) - n = i + 2
    BY ONLY <1>5, <1>12
  <2>4. \A i \in 1..p - 1 : t[i + 1] = G[i + 2]
    BY <1>6, <2>3
  <2>5. p - 1 = g - 2
    BY ONLY <1>5, <2>1
  <2>6. QED
    BY <2>1, <2>2, <2>4, <2>5
<1>16. Fence(r, Tail(t))
  <2>1. g - 2 <= 2 /\ (g - 2 >= 1 => 1 \in 1..g - 2 /\ g >= 3) /\ (g - 2 = 2 => 2 \in 1..g - 2 /\ g = 4)
    <3>1. \A k \in 2..4 : /\ k - 2 <= 2 /\ (k - 2 >= 1 => 1 \in 1..k - 2 /\ k >= 3)
                          /\ (k - 2 = 2 => 2 \in 1..k - 2 /\ k = 4)
      OBVIOUS
    <3>2. g \in 2..4
      BY <1>11
    <3>3. QED
      BY <3>1, <3>2
  <2>2. g - 2 >= 1 => Tail(t)[1] = Mark(r, "A")
    <3>1. g - 2 >= 1 => Tail(t)[1] = G[1 + 2]
      BY <1>15, <2>1
    <3>2. 1 + 2 = 3
      OBVIOUS
    <3>3. QED
      BY <1>11, <2>1, <3>1, <3>2
  <2>3. g - 2 = 2 => Tail(t)[2] = Mark(r, "B")
    <3>1. g - 2 = 2 => Tail(t)[2] = G[2 + 2]
      BY <1>15, <2>1
    <3>2. 2 + 2 = 4
      OBVIOUS
    <3>3. QED
      BY <1>11, <2>1, <3>1, <3>2
  <2>4. QED
    BY <1>15, <2>1, <2>2, <2>3 DEF Fence
<1>17. t[1] = Mark(r, "N")
  <2>1. 2 + m - n = 2
    BY ONLY <1>5, <1>12
  <2>2. QED
    BY <1>10, <1>11, <2>1
<1>18. QED
  BY <1>5, <1>8, <1>11, <1>14, <1>15, <1>16, <1>17

\* The nonce ends the capture: its lines are the command's, but for those of others.
LEMMA CaptureIsWhole ==
    ASSUME TypeInv, Sent, Marked, cur \in Requests, Caught, capturing = "started", CaptureEnds
    PROVE  Caught'
<1> DEFINE h == Head(stdout)
           g == Last(lines)
           first == Mark(cur, "X")
<1>1. /\ pendingFirst = NoFrame /\ Len(results) + Len(frames) = 1
      /\ results \o frames = <<first>>
      /\ \E G, R \in Seq(Frame) : CapturingAt(G, R)
  BY DEF Caught, Capturing
<1>2. PICK G, R \in Seq(Frame) : CapturingAt(G, R)
  BY <1>1
<1>3. /\ Reading /\ h.tag = "N" /\ lines # <<>> /\ g.tag = "guard"
      /\ lines' = Front(lines) /\ frames' = Append(frames, h) /\ capturing' = "no" /\ stdout' = Tail(stdout)
      /\ UNCHANGED <<cur, kind, alive, stdin, ran, emitted, readDone, results, pendingFirst>>
  BY DEF CaptureEnds, callerVars, workerVars, processVars
<1>4. /\ stdout # <<>> /\ readDone = FALSE /\ h.own /\ Len(frames) # 1
  <2>1. stdout # <<>> /\ ~readDone
    BY <1>3 DEF Reading
  <2>2. h.own /\ Len(frames) # 1
    BY <1>3, MarkedIsSent DEF TypeInv
  <2>3. QED
    BY <2>1, <2>2, StreamTypes
<1>5. /\ h \in Frame /\ stdout \in Seq(Frame) /\ Tail(stdout) \in Seq(Frame) /\ lines \in Seq(Frame)
      /\ results \in Seq(Frame) /\ emitted[cur] \in Seq(Frame) /\ cur \in 0..MaxRequests
  BY <1>4, StreamTypes, AskedTypes, Queue
<1>6. frames = <<>> /\ results = <<first>>
  <2>1. frames = <<>>
    BY <1>4, StreamTypes, Room
  <2>2. QED
    BY <1>1, <1>5, <2>1, Empty
<1>7. g \in Frame /\ g.own /\ Front(lines) \in Seq(Frame) /\ lines = Append(Front(lines), g)
  <2>1. PICK n \in Nat : n = Len(lines)
    BY <1>5
  <2>2. n # 0
    BY <1>3, <1>5, <2>1, NothingIn
  <2>3. n \in 1..Len(lines) /\ g = lines[n] /\ g \in Frame
    BY <1>5, <2>1, <2>2 DEF Last
  <2>4. g.own
    <3>1. g.own \/ g.tag \in Blocks
      BY <2>3 DEF Marked, OursOrBlocks
    <3>2. QED
      BY <1>3, <3>1 DEF Blocks
  <2> HIDE DEF g
  <2>5. Front(lines) \in Seq(Frame) /\ Len(Front(lines)) = n - 1 /\ \A i \in 1..n - 1 : Front(lines)[i] = lines[i]
    BY <1>5, <2>1, <2>2 DEF Front
  <2>6. lines = Append(Front(lines), g)
    <3>1. Append(Front(lines), g) \in Seq(Frame) /\ Len(Append(Front(lines), g)) = n
      BY <2>1, <2>2, <2>3, <2>5
    <3>2. \A i \in 1..n : Append(Front(lines), g)[i] = lines[i]
      BY <2>1, <2>2, <2>3, <2>5
    <3>3. QED
      BY <1>5, <2>1, <3>1, <3>2, SeqEqual
  <2>7. QED
    BY <2>3, <2>4, <2>5, <2>6
<1> HIDE DEF h, g, first
<1>8. PICK f, w, t \in Seq(Frame) :
         OwnPart(lines, f) /\ OwnPart(stdout, t) /\ (w # <<>> => FALSE) /\ R = f \o (w \o t)
  BY <1>2, <1>4 DEF CapturingAt, Comes
<1>9. R = f \o t
  <2>1. w = <<>>
    BY <1>8
  <2>2. QED
    BY <1>8, <2>1, Empty
<1>10. f # <<>> /\ OwnPart(Front(lines), Front(f)) /\ Front(f) \in Seq(Frame)
  <2>1. OwnPart(Append(Front(lines), g), f)
    BY <1>7, <1>8
  <2>2. f # <<>> /\ OwnPart(Front(lines), Front(f))
    BY <1>7, <1>8, <2>1, OwnFront
  <2>3. Front(f) \in Seq(Frame)
    <3>1. Len(f) \in Nat /\ Len(f) # 0
      BY <1>8, <2>2, NothingIn
    <3>2. QED
      BY <1>8, <3>1 DEF Front
  <2>4. QED
    BY <2>2, <2>3
<1>11. t # <<>> /\ Head(t) = h /\ Head(t).tag = "N"
  BY <1>3, <1>4, <1>5, <1>8, OwnTail DEF h
<1>12. /\ <<first>> \o (f \o t) = emitted[cur] \o G
       /\ NonceAndFence(cur, G) /\ emitted[cur] # <<>> /\ emitted[cur][1] = first
       /\ \A k \in 1..Len(emitted[cur]) : emitted[cur][k] \in {first, Mark(cur, "text"), Mark(cur, "guard")}
  <2>1. <<first>> \o (f \o t) = emitted[cur] \o G /\ CaptureSent(G)
    BY <1>2, <1>9 DEF CapturingAt, first
  <2>2. emitted[cur] # <<>>
    <3>1. SUFFICES ASSUME emitted[cur] = <<>> PROVE FALSE
      OBVIOUS
    <3>2. G = <<>>
      BY <2>1, <3>1 DEF CaptureSent
    <3>3. emitted[cur] \o G = <<>>
      BY <3>1, <3>2, Empty
    <3>4. <<first>> \in Seq(Frame) /\ f \o t \in Seq(Frame) /\ <<first>> # <<>>
      BY <1>5, <1>6, <1>8
    <3>5. QED
      BY <2>1, <3>3, <3>4, JoinedTail
  <2>3. QED
    BY <2>1, <2>2 DEF CaptureSent, Caught, Printed, first
<1>13. /\ emitted[cur] = <<first>> \o Front(f)
       /\ Fence(cur, Tail(t)) /\ Len(Tail(t)) = Len(G) - 2 /\ Len(G) \in 2..4
       /\ t = <<Mark(cur, "N")>> \o Tail(t)
  <2> DEFINE E   == emitted[cur]
             one == <<first>>
  <2>1. /\ one = <<Mark(cur, "X")>> /\ one \o (f \o t) = E \o G
        /\ NonceAndFence(cur, G) /\ E # <<>> /\ E[1] = Mark(cur, "X") /\ E \in Seq(Frame)
        /\ \A k \in 1..Len(E) : E[k] \in {Mark(cur, "X"), Mark(cur, "text"), Mark(cur, "guard")}
    BY <1>5, <1>12 DEF first
  <2>2. f \in Seq(Frame) /\ t \in Seq(Frame) /\ G \in Seq(Frame) /\ f # <<>> /\ t # <<>> /\ Head(t).tag = "N"
    BY <1>2, <1>8, <1>10, <1>11
  <2> HIDE DEF E, one
  <2>3. NonceAt(cur, E, G, one, f, t)
    BY <2>1, <2>2 DEF NonceAt
  <2>4. /\ E = one \o Front(f)
        /\ Fence(cur, Tail(t)) /\ Len(Tail(t)) = Len(G) - 2 /\ Len(G) \in 2..4
        /\ Head(t) = Mark(cur, "N")
    <3>1. cur \in 0..MaxRequests /\ E \in Seq(Frame)
      BY <1>5, <2>1
    <3>2. QED
      BY <2>2, <2>3, <3>1, NonceFound, Zenon
  <2>5. t = <<Mark(cur, "N")>> \o Tail(t)
    BY <2>2, <2>4, Shift
  <2>6. QED
    BY <2>4, <2>5 DEF E, one
<1>14. OwnPart(results' \o lines', emitted'[cur'])
  <2>1. first \in Frame /\ first.own
    <3>1. "X" \in Tags
      BY DEF Tags
    <3>2. QED
      BY <1>5, <3>1, MarkTypes DEF first
  <2>2. OwnPart(<<first>> \o Front(lines), <<first>> \o Front(f))
    BY <1>7, <1>10, <2>1, OwnCons
  <2>3. QED
    BY <1>3, <1>6, <1>13, <2>2
<1>15. IsPrefix(results', emitted'[cur'])
  <2>1. PICK n \in Nat : n = Len(emitted[cur])
    BY <1>5
  <2>2. n # 0
    BY <1>5, <1>12, <2>1, NothingIn
  <2>3. <<first>> \in Seq(Frame) /\ Len(<<first>>) = 1 /\ 1 <= Len(emitted[cur])
    <3>1. 1 <= n
      BY <2>2
    <3>2. QED
      BY <1>5, <1>6, <2>1, <3>1
  <2>4. f \o t \in Seq(Frame)
    BY <1>8
  <2> DEFINE one == <<first>>
  <2>5. one \in Seq(Frame) /\ Len(one) <= Len(emitted[cur]) /\ one \o (f \o t) = emitted[cur] \o G
    BY <1>12, <2>3
  <2> HIDE DEF one
  <2>6. IsPrefix(one, emitted[cur])
    BY <1>2, <1>5, <2>4, <2>5, PrefixOfFront
  <2>7. QED
    BY <1>3, <1>6, <2>6 DEF one
<1>16. Tail(t) \in Seq(Frame)
  BY <1>8, <1>11, Queue
<1>17. InFlight(t)'
  <2>1. Comes(<<>>, stdout, FALSE, t)
    <3>1. <<>> \in Seq(Frame) /\ <<>> \o t = t
      BY <1>8, Empty
    <3>2. <<>> \o (<<>> \o t) = t
      BY <3>1
    <3>3. QED
      BY <1>8, <3>1, <3>2, OwnNothing DEF Comes
  <2>2. Append(<<>>, h) = frames'
    BY <1>3, <1>6
  <2>3. Comes(frames', Tail(stdout), FALSE, t)
    <3>1. <<>> \in Seq(Frame) /\ frames' = Append(<<>>, Head(stdout))
      BY <2>2 DEF h
    <3>2. QED
      BY <1>4, <1>5, <1>8, <2>1, <3>1, ComesRead
  <2>4. QED
    BY <1>3, <1>4, <2>3 DEF InFlight
<1>18. alive' => Len(stdin') = 2 - Len(Tail(t))
  <2>1. CaptureSent(G) /\ G # <<>>
    <3>1. Len(<<>>) = 0 /\ 0 \notin 2..4
      OBVIOUS
    <3>2. QED
      BY <1>2, <1>13, <3>1 DEF CapturingAt
  <2>2. alive => Len(stdin) = 4 - Len(G)
    BY <2>1 DEF CaptureSent
  <2>3. \A k \in 2..4 : 4 - k = 2 - (k - 2)
    OBVIOUS
  <2>4. QED
    BY <1>3, <1>13, <2>2, <2>3
<1>19. CapturedAt(Tail(t), t)'
  <2>1. Held' = <<>>
    BY <1>1, <1>3 DEF Held
  <2>2. Fence(cur', Tail(t)) /\ t = <<Mark(cur', "N")>> \o Tail(t)
    BY <1>3, <1>13
  <2>3. QED
    BY <1>17, <1>18, <2>1, <2>2 DEF CapturedAt
<1>20. ran'[cur'] /\ results' = <<Mark(cur', "X")>>
  BY <1>3, <1>6, <1>12 DEF Sent, first
<1>21. Captured'
  BY <1>8, <1>14, <1>15, <1>16, <1>19, <1>20 DEF Captured
<1>22. Printed'
  BY <1>3, PrintedRests DEF Caught
<1>23. QED
  BY <1>3, <1>21, <1>22 DEF Caught, Armed, Capturing

LEMMA NonceFirst ==
    ASSUME NEW r \in 0..MaxRequests, NEW F \in Seq(Frame), NEW R, R = <<Mark(r, "N")>> \o F
    PROVE  R # <<>> /\ Head(R) = Mark(r, "N") /\ Tail(R) = F
<1> DEFINE one == <<Mark(r, "N")>>
<1>1. Mark(r, "N") \in Frame
  BY MarkTypes DEF Tags
<1>2. one \in Seq(Frame) /\ one # <<>> /\ Head(one) = Mark(r, "N") /\ Tail(one) = <<>>
  BY <1>1
<1>3. R = one \o F
  OBVIOUS
<1> HIDE DEF one
<1>4. one \o F # <<>> /\ Head(one \o F) = Head(one) /\ Tail(one \o F) = Tail(one) \o F
  BY <1>2, JoinedTail
<1>5. <<>> \o F = F
  BY Empty
<1>6. QED
  BY <1>2, <1>3, <1>4, <1>5

\* Behind a capture, what is held is the first answer to the fence.
LEMMA HeldFence ==
    ASSUME TypeInv, NEW F \in Seq(Frame), NEW R \in Seq(Frame), Fence(cur, F), Held \o R = F, R # <<>>
    PROVE  /\ pendingFirst = NoFrame => Head(R) = Mark(cur, "A")
           /\ pendingFirst # NoFrame => Head(R) = Mark(cur, "B") /\ Len(F) = 2 /\ Len(R) = 1
<1>1. Head(R) = R[1] /\ Len(R) \in Nat /\ Len(R) # 0 /\ 1 \in 1..Len(R)
  <2>1. Head(R) = R[1] /\ Len(R) \in Nat /\ Len(R) # 0
    BY NothingIn, Queue
  <2>2. \A k \in Nat : k # 0 => 1 \in 1..k
    OBVIOUS
  <2>3. QED
    BY <2>1, <2>2
<1>2. /\ Len(F) = Len(Held) + Len(R) /\ Len(Held) \in Nat /\ Held \in Seq(Frame)
      /\ \A i \in 1..Len(R) : F[Len(Held) + i] = R[i]
  BY HeldTypes, Joined
<1>3. Head(R) = F[Len(Held) + 1]
  BY <1>1, <1>2
<1>4. CASE pendingFirst = NoFrame
  <2>1. Len(Held) = 0
    BY <1>4, HeldTypes
  <2>2. Head(R) = F[1] /\ Len(F) >= 1
    <3>1. \A k \in Nat : k # 0 => 0 + k >= 1 /\ 0 + 1 = 1
      OBVIOUS
    <3>2. QED
      BY <1>1, <1>2, <1>3, <2>1, <3>1
  <2>3. QED
    BY <1>4, <2>2 DEF Fence
<1>5. CASE pendingFirst # NoFrame
  <2>1. Len(Held) = 1
    BY <1>5, HeldTypes
  <2>2. Len(F) = 1 + Len(R) /\ Len(F) <= 2
    BY <1>2, <2>1 DEF Fence
  <2>3. \A f, k \in Nat : k # 0 /\ f = 1 + k /\ f <= 2 => k = 1 /\ f = 2
    OBVIOUS
  <2>4. Len(R) = 1 /\ Len(F) = 2 /\ Head(R) = F[2]
    <3>1. Len(F) \in Nat /\ 1 + 1 = 2
      OBVIOUS
    <3>2. QED
      BY <1>1, <1>3, <2>1, <2>2, <2>3, <3>1
  <2>5. QED
    BY <1>5, <2>4 DEF Fence
<1>6. QED
  BY <1>4, <1>5

\* The rest of what is known then.
LEMMA CapturedRests ==
    ASSUME Captured, capturing = "no", NEW F \in Seq(Frame), NEW R \in Seq(Frame), CapturedAt(F, R)',
           UNCHANGED <<cur, results, lines>>, emitted'[cur] = emitted[cur], ran[cur] => ran'[cur]
    PROVE  Captured'
BY DEF Captured

LEMMA CapturedMoves ==
    ASSUME TypeInv, dispatching, cur \in Requests, Caught, capturing = "no",
           SkipForeign \/ ReadFrame \/ TmuxForeignBlock \/ ReaderEnds \/ ReaderFails \/ TmuxExits \/ CloseProcess
    PROVE  Caught'
<1>1. PICK F, R \in Seq(Frame) : CapturedAt(F, R)
  BY DEF Caught, Captured
<1>2. /\ (alive' => alive /\ stdin' = stdin)
      /\ UNCHANGED <<wpc, cur, results, pendingFirst, kind, ran, emitted, lines>>
  BY InputMoves
<1>3. InFlight(R)'
  BY <1>1, StreamMoves DEF CapturedAt
<1>4. capturing' = "no"
  BY DEF SkipForeign, ReadFrame, TmuxForeignBlock, ReaderEnds, ReaderFails, TmuxExits, CloseProcess,
     parserVars, readerVars
<1>5. Held' = Held
  BY <1>2 DEF Held
<1>6. CapturedAt(F, R)'
  BY <1>1, <1>2, <1>3, <1>5 DEF CapturedAt
<1>7. Captured' /\ Printed'
  BY <1>1, <1>2, <1>6, CapturedRests, PrintedRests DEF Caught
<1>8. QED
  BY <1>4, <1>7 DEF Caught, Armed, Capturing

LEMMA CapturedExecutes ==
    ASSUME TypeInv, Sent, InOrder, cur \in Requests, kind[cur] = "capture", Caught, capturing = "no", TmuxExecutes
    PROVE  Caught'
<1>1. PICK F, R \in Seq(Frame) : CapturedAt(F, R)
  BY DEF Caught, Captured
<1>2. PICK said \in Seq(Frame) : Saying(said)
  BY TmuxSays DEF TypeInv
<1> DEFINE part == Head(stdin).part
<1>3. /\ stdin # <<>> /\ Head(stdin) = stdin[1] /\ 1 \in 1..Len(stdin) /\ Head(stdin).req = cur
      /\ alive /\ alive' = alive /\ ran'[cur] /\ cur' = cur /\ Len(stdin) \in Nat
      /\ UNCHANGED <<frames, readDone, results, pendingFirst, capturing, lines>>
  BY CurrentRuns, StreamTypes DEF TmuxExecutes, workerVars, readerVars, parserVars
<1>4. Len(stdin) = 2 - Len(F) /\ Fence(cur, F) /\ Len(F) \in Nat
  BY <1>1, <1>3 DEF CapturedAt
<1>5. Len(F) < 2 /\ Len(stdin) = (IF Len(F) = 0 THEN 2 ELSE 1) /\ Len(stdin) - 1 = 2 - (Len(F) + 1)
  <2>1. \A n, f \in Nat : 1 \in 1..n /\ n = 2 - f => f < 2 /\ n = (IF f = 0 THEN 2 ELSE 1) /\ n - 1 = 2 - (f + 1)
    OBVIOUS
  <2>2. QED
    BY <1>3, <1>4, <2>1
<1>6. part = IF Len(F) = 0 THEN "A" ELSE "B"
  BY <1>3, <1>5, PartHere
<1>7. said = <<Mark(cur, part)>> /\ emitted' = emitted /\ stdout' = stdout \o said
  BY <1>2, <1>3, <1>6 DEF Saying
<1>8. stdin' = Tail(stdin) /\ Len(stdin') = Len(stdin) - 1
  <2>1. stdin' = Tail(stdin)
    BY <1>6, TmuxTakes DEF TypeInv
  <2>2. QED
    BY <1>3, <2>1, StreamTypes, Queue
<1>9. InFlight(R \o said)' /\ R \o said \in Seq(Frame)
  <2>1. \A k \in 1..Len(said) : said[k].own
    <3>1. part \notin Starting
      BY <1>6 DEF Starting
    <3>2. QED
      BY <1>2, <3>1, OwnSaid
  <2>2. InFlight(R)
    BY <1>1 DEF CapturedAt
  <2>3. R \o said \in Seq(Frame)
    BY <1>1, <1>2
  <2>4. QED
    BY <1>1, <1>2, <1>3, <1>7, <2>1, <2>2, <2>3, FlightSaid
<1>10. Fence(cur, F \o said) /\ Len(F \o said) = Len(F) + 1 /\ F \o said \in Seq(Frame)
  <2>1. cur \in 0..MaxRequests
    BY AskedTypes
  <2> HIDE DEF part
  <2>2. QED
    BY <1>1, <1>4, <1>5, <1>6, <1>7, <2>1, FenceGrows
<1>11. \/ Held \o (R \o said) = F \o said
       \/ Held = <<>> /\ R \o said = <<Mark(cur, "N")>> \o (F \o said)
  <2>1. Held \in Seq(Frame) /\ R \in Seq(Frame) /\ F \in Seq(Frame) /\ said \in Seq(Frame)
    BY <1>1, <1>2, HeldTypes
  <2>2. CASE Held \o R = F
    <3>1. Held \o (R \o said) = (Held \o R) \o said
      BY ONLY <2>1, Associative, Zenon
    <3>2. QED
      BY <2>2, <3>1
  <2>3. CASE Held = <<>> /\ R = <<Mark(cur, "N")>> \o F
    <3> DEFINE one == <<Mark(cur, "N")>>
    <3>1. one \in Seq(Frame)
      <4>1. "N" \in Tags /\ cur \in 0..MaxRequests
        BY AskedTypes DEF Tags
      <4>2. Mark(cur, "N") \in Frame
        BY <4>1, MarkTypes
      <4>3. QED
        BY <4>2
    <3>2. R = one \o F
      BY <2>3
    <3> HIDE DEF one
    <3>3. one \o (F \o said) = (one \o F) \o said
      BY ONLY <2>1, <3>1, Associative, Zenon
    <3>4. R \o said = one \o (F \o said)
      BY <3>2, <3>3
    <3>5. QED
      BY <2>3, <3>4 DEF one
  <2>4. QED
    BY <1>1, <2>2, <2>3 DEF CapturedAt
<1>12. Held' = Held
  BY <1>3 DEF Held
<1>13. CapturedAt(F \o said, R \o said)'
  BY <1>3, <1>5, <1>8, <1>9, <1>10, <1>11, <1>12 DEF CapturedAt
<1>14. Captured' /\ Printed'
  BY <1>3, <1>7, <1>9, <1>10, <1>13, CapturedRests, PrintedRests DEF Caught
<1>15. QED
  BY <1>3, <1>14 DEF Caught, Armed, Capturing

\* The frame that closed the capture, which the client has no other use for.
LEMMA CapturedTakes ==
    ASSUME TypeInv, Marked, cur \in Requests, Caught, TakeCapture
    PROVE  Caught'
<1>1. /\ frames # <<>> /\ Head(frames).tag = "N" /\ frames' = Tail(frames)
      /\ UNCHANGED <<cur, kind, alive, stdin, ran, emitted, stdout, readDone, capturing, lines, results, pendingFirst>>
  BY DEF TakeCapture, callerVars, workerVars, processVars, parserVars
<1>2. Head(frames) \in Frame /\ Head(frames) = frames[1] /\ Len(frames) = 1 /\ frames = <<Head(frames)>>
  BY <1>1, StreamTypes, Queue, RoomTaken
<1>3. Head(frames).own
  <2>1. 1 \in 1..Len(frames)
    BY <1>2
  <2>2. Head(frames).own \/ Head(frames).tag \in Blocks
    BY <1>2, <2>1 DEF Marked, OursOrBlocks
  <2>3. QED
    BY <1>1, <2>2 DEF Blocks
<1>4. capturing = "no"
  <2>1. ASSUME capturing = "armed" PROVE FALSE
    BY <1>1, <2>1 DEF Caught, Armed
  <2>2. ASSUME capturing = "started" PROVE FALSE
    <3>1. Len(results) + Len(frames) = 1 /\ results \o frames = <<Mark(cur, "X")>>
      BY <2>2 DEF Caught, Capturing
    <3>2. results \in Seq(Frame) /\ frames \in Seq(Frame) /\ Len(results) \in Nat
      BY StreamTypes
    <3>3. Len(results) = 0
      BY <1>2, <3>1, <3>2
    <3>4. frames = <<Mark(cur, "X")>>
      BY <3>1, <3>2, <3>3, NothingIn, Empty
    <3>5. Head(frames) = Mark(cur, "X")
      BY <3>4
    <3>6. QED
      BY <1>1, <3>5, MarkOf
  <2>3. capturing \in {"no", "armed", "started"}
    BY DEF TypeInv, ReaderTypes
  <2>4. QED
    BY <2>1, <2>2, <2>3
<1>5. PICK F, R \in Seq(Frame) : CapturedAt(F, R)
  BY <1>4 DEF Caught, Captured
<1>6. R # <<>> /\ Head(R) = Head(frames) /\ InFlight(Tail(R))'
  BY <1>1, <1>3, <1>5, FlightTaken DEF CapturedAt
<1>7. Held = <<>> /\ R = <<Mark(cur, "N")>> \o F
  <2>1. ASSUME Held \o R = F PROVE FALSE
    <3>1. Head(R) = Mark(cur, "A") \/ Head(R) = Mark(cur, "B")
      BY <1>5, <1>6, <2>1, HeldFence DEF CapturedAt
    <3>2. QED
      BY <1>1, <1>6, <3>1, MarkOf
  <2>2. QED
    BY <1>5, <2>1 DEF CapturedAt
<1>8. Tail(R) = F
  BY <1>5, <1>7, NonceFirst, AskedTypes
<1>9. Held' = Held
  BY <1>1 DEF Held
<1>10. Held' \o F = F
  BY <1>5, <1>7, <1>9, Empty
<1>11. CapturedAt(F, F)'
  BY <1>1, <1>5, <1>6, <1>8, <1>10 DEF CapturedAt
<1>12. Captured' /\ Printed'
  BY <1>1, <1>4, <1>5, <1>11, CapturedRests, PrintedRests DEF Caught
<1>13. QED
  BY <1>1, <1>4, <1>12 DEF Caught, Armed, Capturing

\* Only the first answer to the fence can come now, and is held.
LEMMA CapturedCollect ==
    ASSUME TypeInv, cur \in Requests, fence[1] = "A", fence[2] = "B", Caught, capturing = "no", CollectFrame
    PROVE  Caught' /\ pendingFirst' = Mark(cur', "A")
<1>1. PICK F, R \in Seq(Frame) : CapturedAt(F, R)
  BY DEF Caught, Captured
<1>2. /\ frames # <<>> /\ Head(frames).own /\ Head(frames).tag # "N" /\ frames' = Tail(frames)
      /\ ~(pendingFirst # NoFrame /\ Head(frames).tag = "B")
      /\ UNCHANGED <<cur, kind, alive, stdin, ran, emitted, stdout, readDone, capturing, lines>>
  BY DEF CollectFrame, OneMoreFrame, callerVars, processVars, parserVars
<1>3. R # <<>> /\ Head(R) = Head(frames) /\ InFlight(Tail(R))'
  BY <1>1, <1>2, FlightTaken DEF CapturedAt
<1>4. Held \o R = F
  <2>1. ASSUME R = <<Mark(cur, "N")>> \o F PROVE FALSE
    <3>1. Head(R) = Mark(cur, "N")
      BY <1>1, <2>1, NonceFirst, AskedTypes
    <3>2. QED
      BY <1>2, <1>3, <3>1, MarkOf
  <2>2. QED
    BY <1>1, <2>1 DEF CapturedAt
<1>5. pendingFirst = NoFrame /\ Head(R) = Mark(cur, "A")
  <2>1. /\ pendingFirst = NoFrame => Head(R) = Mark(cur, "A")
        /\ pendingFirst # NoFrame => Head(R) = Mark(cur, "B")
    BY <1>1, <1>3, <1>4, HeldFence DEF CapturedAt
  <2>2. QED
    BY <1>2, <1>3, <2>1, MarkOf
<1>6. pendingFirst' = Mark(cur, "A") /\ results' = results
  <2>1. Head(frames).tag = fence[1] /\ Head(frames) = Mark(cur, "A")
    BY <1>3, <1>5, MarkOf
  <2>2. QED
    BY <1>5, <2>1 DEF CollectFrame
<1>7. Held' = <<Head(R)>>
  BY <1>5, <1>6, MarkOf DEF Held
<1>8. Tail(R) \in Seq(Frame) /\ Held' \o Tail(R) = F
  <2>1. Tail(R) \in Seq(Frame) /\ R = <<Head(R)>> \o Tail(R)
    BY <1>1, <1>3, Queue, Shift
  <2>2. Held = <<>>
    BY <1>5 DEF Held
  <2>3. R = F
    BY <1>1, <1>4, <2>2, Empty
  <2>4. QED
    BY <1>7, <2>1, <2>3
<1>9. CapturedAt(F, Tail(R))'
  BY <1>1, <1>2, <1>3, <1>8 DEF CapturedAt
<1>10. Captured' /\ Printed'
  BY <1>1, <1>2, <1>6, <1>8, <1>9, CapturedRests, PrintedRests DEF Caught
<1>11. QED
  BY <1>2, <1>6, <1>10 DEF Caught, Armed, Capturing

\* The boundary of a capture comes when it is whole.
LEMMA CaptureBoundary ==
    ASSUME TypeInv, Sent, cur \in Requests, fence[2] = "B", pendingFirst \in {NoFrame, Mark(cur, "A")},
           kind[cur] = "capture", Caught, BoundaryReached
    PROVE  AllSaid /\ Ended
<1>1. frames # <<>> /\ Head(frames).own /\ Head(frames).tag = "B" /\ pendingFirst # NoFrame
  BY DEF BoundaryReached
<1>2. capturing = "no"
  <2>1. capturing \in {"no", "armed", "started"}
    BY DEF TypeInv, ReaderTypes
  <2>2. QED
    BY <1>1, <2>1 DEF Caught, Armed, Capturing
<1>3. PICK F, R \in Seq(Frame) : CapturedAt(F, R)
  BY <1>2 DEF Caught, Captured
<1>4. R # <<>> /\ Head(R) = Head(frames) /\ Comes(Tail(frames), stdout, readDone, Tail(R))
  BY <1>1, <1>3, StreamTypes, ComesTaken DEF CapturedAt, InFlight
<1>5. Held # <<>> /\ Held \o R = F
  <2>1. Held = <<pendingFirst>> /\ Len(Held) = 1
    BY <1>1, HeldTypes
  <2>2. Held # <<>>
    BY <2>1
  <2>3. QED
    BY <1>3, <2>2 DEF CapturedAt
<1>6. Len(F) = 2 /\ Len(R) = 1
  BY <1>1, <1>3, <1>4, <1>5, HeldFence DEF CapturedAt
<1>7. NoOwn(stdout)
  <2>1. Tail(R) \in Seq(Frame) /\ Len(Tail(R)) = 0 /\ Tail(frames) \in Seq(Frame) /\ stdout \in Seq(Frame)
    BY <1>1, <1>3, <1>4, <1>6, StreamTypes, Queue
  <2>2. Tail(R) = <<>>
    BY ONLY <2>1, NothingIn
  <2>3. QED
    BY <1>4, <2>1, <2>2, ComesNone
<1>8. stdin = <<>>
  <2>1. alive => Len(stdin) = 0
    BY <1>3, <1>6 DEF CapturedAt
  <2>2. QED
    BY <2>1, StreamTypes DEF Sent
<1>9. QED
  BY <1>2, <1>7, <1>8 DEF AllSaid, Ended, Caught, Captured

\* What was collected of a capture when the stream ends is the first of it.
LEMMA CaptureFails ==
    ASSUME TypeInv, cur \in Requests, Caught
    PROVE  IsPrefix(results, emitted[cur])
<1>1. capturing \in {"no", "armed", "started"} /\ emitted[cur] \in Seq(Frame) /\ results \in Seq(Frame)
      /\ frames \in Seq(Frame) /\ Len(results) \in Nat
  BY StreamTypes, AskedTypes DEF TypeInv, ReaderTypes
<1>2. CASE results = <<>>
  BY <1>1, <1>2, PrefixNothing
<1>3. CASE capturing = "started" /\ results # <<>>
  <2>1. /\ results \o frames = <<Mark(cur, "X")>> /\ Len(results) + Len(frames) = 1
        /\ \E G, R \in Seq(Frame) : CapturingAt(G, R)
    BY <1>3 DEF Caught, Capturing
  <2>2. PICK G, R \in Seq(Frame) : CapturingAt(G, R)
    BY <2>1
  <2>3. results = <<Mark(cur, "X")>> /\ Len(results) = 1
    <3>1. Len(results) # 0
      BY <1>1, <1>3, NothingIn
    <3>2. Len(frames) = 0 /\ Len(results) = 1
      <4>1. \A n, k \in Nat : n # 0 /\ n + k = 1 => k = 0 /\ n = 1
        OBVIOUS
      <4>2. Len(frames) \in Nat
        BY <1>1
      <4>3. QED
        BY <1>1, <2>1, <3>1, <4>1, <4>2
    <3>3. QED
      BY <1>1, <2>1, <3>2, NothingIn, Empty
  <2>4. results \o R = emitted[cur] \o G /\ CaptureSent(G)
    BY <2>2, <2>3 DEF CapturingAt
  <2>5. Len(emitted[cur]) \in Nat /\ 1 <= Len(emitted[cur])
    <3>1. results \o R \in Seq(Frame) /\ results \o R # <<>>
      BY <1>1, <1>3, <2>2, JoinedTail
    <3>2. QED
      BY <2>2, <2>4, <3>1, FirstRecord DEF Caught
  <2>6. QED
    BY <1>1, <2>2, <2>3, <2>4, <2>5, PrefixOfFront
<1>4. CASE capturing = "armed"
  BY <1>1, <1>4, PrefixNothing DEF Caught, Armed
<1>5. CASE capturing = "no"
  BY <1>5 DEF Caught, Captured
<1>6. QED
  BY <1>1, <1>2, <1>3, <1>4, <1>5

\* What holds while a request is read.
LEMMA AtRead ==
    ASSUME TypeInv, Handled, Opened, Streaming, wpc = "read"
    PROVE  /\ cur \in Requests /\ cur \in 1..made /\ dispatching /\ fence[1] = "A" /\ fence[2] = "B"
           /\ InOrder /\ pendingFirst \in {NoFrame, Mark(cur, "A")}
           /\ kind[cur] # "capture" => Plain
           /\ kind[cur] = "capture" => Caught
<1>1. cur \in Requests /\ cur \in 1..made
  <2>1. cur # 0 /\ cur \in 0..made
    BY DEF Handled, Handling
  <2>2. made \in 0..MaxRequests /\ MaxRequests \in Nat /\ Requests = 1..MaxRequests
    BY AskedTypes
  <2>3. QED
    BY <2>1, <2>2
<1>2. dispatching /\ fence[1] = "A" /\ fence[2] = "B"
  BY DEF Opened, HandedOut, Opening
<1>3. QED
  BY <1>1, <1>2 DEF Streaming, Caught

\* The input is never longer than one request's.
LEMMA InputIsShort ==
    ASSUME TypeInv, cur \in Requests, alive,
           kind[cur] # "capture" => Plain, kind[cur] = "capture" => Caught
    PROVE  Len(stdin) <= 4
<1>1. \A n, f \in Nat : n = 2 - f \/ n = 4 - f \/ n = 3 \/ n = 4 => n <= 4
  OBVIOUS
<1>2. Len(stdin) \in Nat
  BY StreamTypes
<1>3. CASE kind[cur] # "capture"
  <2>1. PICK F, R \in Seq(Frame) : PlainAt(F, R)
    BY <1>3 DEF Plain
  <2>2. Len(F) \in Nat /\ (Len(stdin) = 3 \/ Len(stdin) = 2 - Len(F))
    BY <2>1 DEF PlainAt
  <2>3. QED
    BY <1>1, <1>2, <2>2
<1>4. CASE kind[cur] = "capture"
  <2>1. capturing \in {"no", "armed", "started"}
    BY DEF TypeInv, ReaderTypes
  <2>2. CASE capturing = "no"
    <3>1. PICK F, R \in Seq(Frame) : CapturedAt(F, R)
      BY <1>4, <2>2 DEF Caught, Captured
    <3>2. Len(F) \in Nat /\ Len(stdin) = 2 - Len(F)
      BY <3>1 DEF CapturedAt
    <3>3. QED
      BY <1>1, <1>2, <3>2
  <2>3. CASE capturing # "no"
    <3>1. \E G \in Seq(Frame) : CaptureSent(G)
      BY <1>4, <2>1, <2>3 DEF Caught, Armed, Capturing, ArmedAt, CapturingAt
    <3>2. PICK G \in Seq(Frame) : CaptureSent(G)
      BY <3>1
    <3>3. Len(G) \in Nat /\ (Len(stdin) = 4 \/ Len(stdin) = 3 \/ Len(stdin) = 4 - Len(G))
      BY <3>2 DEF CaptureSent
    <3>4. QED
      BY <1>1, <1>2, <3>3
  <2>4. QED
    BY <2>2, <2>3
<1>5. QED
  BY <1>3, <1>4

\* What tmux, the reader and skipped blocks do while a request is read.
Moving == SkipForeign \/ ReadFrame \/ TmuxForeignBlock \/ ReaderEnds \/ ReaderFails \/ TmuxExits \/ CloseProcess

Still ==
    /\ UNCHANGED <<cur, stdin, stdout, frames, readDone, emitted, ran, alive, results, pendingFirst, capturing, lines>>
    /\ kind'[cur] = kind[cur]

\* What can happen while a request is read, and goes on being read.
LEMMA WhileReading ==
    ASSUME TypeInv, Handled, Next, wpc = "read", wpc' = "read", cur \in Requests, cur \in 1..made
    PROVE  Still \/ TmuxExecutes \/ Moving \/ CollectFrame \/ TakeCapture \/ CaptureLine \/ CaptureEnds
<1>1. ASSUME NEW c \in Callers, Call(c) PROVE Still
  <2>1. made' = made + 1 /\ \E k \in Kinds : kind' = [kind EXCEPT ![made'] = k]
    BY <1>1 DEF Call
  <2>2. cur # made'
    <3>1. made \in Nat
      BY AskedTypes
    <3>2. \A m \in Nat : \A r \in 1..m : r # m + 1
      OBVIOUS
    <3>3. QED
      BY <2>1, <3>1, <3>2
  <2>3. kind'[cur] = kind[cur]
    BY <2>1, <2>2, AskedTypes
  <2>4. QED
    BY <1>1, <2>3 DEF Call, Still, workerVars, processVars, readerVars, parserVars
<1>2. ASSUME NEW c \in Callers, CancelContext(c) \/ CallerStep(c) PROVE Still
  BY <1>2 DEF CallerStep, CancelContext, CheckClosed, SubmitGivesUp, Receive, AwaitResponse,
     CancelBeforeWrite,
      CanceledTooLate, Tell, Still, callerVars, workerVars, processVars, readerVars, parserVars
<1>3. CASE OpenerStep \/ CancelOpen
  BY <1>3 DEF OpenerStep, CancelOpen, OpenFails, AcceptGuard, AcceptAttach, BeginDispatching,
     WriteCalibration,
      FirstReply, SecondReply, Register, Opening
<1>4. CASE WorkerStep \/ Write
  BY <1>4 DEF WorkerStep, Write, Moving, Accept, RefuseClosed, CheckContext, ClaimWrite, WriteFails,
     BoundaryReached,
      ReadFails, SendResponse, StopRequests, Finish, Respond
<1>5. CASE TmuxExecutes \/ TmuxForeignBlock \/ TmuxExits
  BY <1>5 DEF Moving
<1>6. CASE ReaderStep \/ ReaderFails
  BY <1>6 DEF ReaderStep, Moving
<1>7. CASE StartClose \/ CloserStep
  BY <1>7 DEF StartClose, CloserStep, BeginClosing, CloseStdin, Moving, Still, callerVars,
     workerVars, processVars,
      readerVars, parserVars
<1>8. QED
  BY <1>1, <1>2, <1>3, <1>4, <1>5, <1>6, <1>7 DEF Next

\* Reading starts with a write.
LEMMA ReadingStarts ==
    ASSUME Next, wpc # "read", wpc' = "read"
    PROVE  Write
<1>1. ASSUME NEW c \in Callers, Call(c) \/ CancelContext(c) \/ CallerStep(c) PROVE FALSE
  BY <1>1 DEF CallerStep, Call, CancelContext, CheckClosed, SubmitGivesUp, Receive, AwaitResponse,
     CancelBeforeWrite,
      CanceledTooLate, Tell, workerVars
<1>2. ASSUME OpenerStep \/ CancelOpen PROVE FALSE
  BY <1>2 DEF OpenerStep, CancelOpen, OpenFails, AcceptGuard, AcceptAttach, BeginDispatching,
     WriteCalibration,
      FirstReply, SecondReply, Register, Opening, Took, StartupFails, workerVars
<1>3. CASE WorkerStep \/ Write
  BY <1>3 DEF WorkerStep, SkipForeign, TakeCapture, Accept, RefuseClosed, CheckContext, ClaimWrite,
     WriteFails,
      BoundaryReached, CollectFrame, OneMoreFrame, ReadFails, SendResponse, StopRequests, Finish, Respond, workerVars
<1>4. ASSUME TmuxExecutes \/ TmuxForeignBlock \/ TmuxExits PROVE FALSE
  BY <1>4 DEF TmuxExecutes, TmuxForeignBlock, TmuxExits, workerVars
<1>5. ASSUME ReaderStep \/ ReaderFails PROVE FALSE
  BY <1>5 DEF ReaderStep, ReadFrame, CaptureLine, CaptureEnds, ReaderEnds, ReaderFails, workerVars
<1>6. ASSUME StartClose \/ CloserStep PROVE FALSE
  BY <1>6 DEF StartClose, CloserStep, BeginClosing, CloseStdin, CloseProcess, workerVars
<1>7. QED
  BY <1>1, <1>2, <1>3, <1>4, <1>5, <1>6 DEF Next

LEMMA WriteStreams ==
    ASSUME TypeInv, Handled, Sent, Quiet, Write
    PROVE  Streaming'
<1>1. stdin = <<>>
  BY DEF Quiet, Write
<1>2. InOrder'
  BY <1>1, WriteLines
<1>3. pendingFirst' = NoFrame /\ cur' = cur /\ kind' = kind
  BY DEF Write, callerVars
<1>4. CASE kind[cur] = "capture"
  BY <1>2, <1>3, <1>4, CaptureWrite DEF Streaming
<1>5. CASE kind[cur] # "capture"
  BY <1>2, <1>3, <1>5, PlainWrite DEF Streaming
<1>6. QED
  BY <1>4, <1>5

\* Nothing of it changes.
LEMMA StillStreams ==
    ASSUME Streaming, Still, wpc = "read"
    PROVE  Streaming'
<1>1. /\ UNCHANGED <<cur, stdin, stdout, frames, readDone, emitted, ran, alive, results, pendingFirst, capturing, lines>>
      /\ kind'[cur'] = kind[cur]
  BY DEF Still
<1>2. InOrder => InOrder'
  BY <1>1 DEF InOrder
<1>3. \A R : InFlight(R) => InFlight(R)'
  BY <1>1 DEF InFlight
<1>4. Held' = Held
  BY <1>1 DEF Held
<1>5. Plain => Plain'
  BY <1>1, <1>3, <1>4 DEF Plain, PlainAt, Unfenced
<1>6. Printed => Printed'
  BY <1>1 DEF Printed
<1>7. \A G : CaptureSent(G) => CaptureSent(G)'
  BY <1>1 DEF CaptureSent
<1>8. Armed => Armed'
  BY <1>1, <1>3, <1>7 DEF Armed, ArmedAt
<1>9. Capturing => Capturing'
  BY <1>1, <1>7 DEF Capturing, CapturingAt
<1>10. Captured => Captured'
  BY <1>1, <1>3, <1>4 DEF Captured, CapturedAt
<1>11. QED
  BY <1>1, <1>2, <1>5, <1>6, <1>8, <1>9, <1>10 DEF Streaming

\* The stream of a request is accounted for in every step.
LEMMA StreamingStep ==
    ASSUME TypeInv, Handled, Sent, Marked, Opened, Quiet, Streaming, Next
    PROVE  Streaming'
<1>1. CASE wpc' # "read"
  BY <1>1 DEF Streaming
<1>2. CASE wpc # "read" /\ wpc' = "read"
  BY <1>2, ReadingStarts, WriteStreams
<1>3. CASE wpc = "read" /\ wpc' = "read"
  <2>1. /\ cur \in Requests /\ cur \in 1..made /\ dispatching /\ fence[1] = "A" /\ fence[2] = "B"
        /\ InOrder /\ pendingFirst \in {NoFrame, Mark(cur, "A")}
        /\ kind[cur] # "capture" => Plain
        /\ kind[cur] = "capture" => Caught
    BY <1>3, AtRead
  <2>2. Still \/ TmuxExecutes \/ Moving \/ CollectFrame \/ TakeCapture \/ CaptureLine \/ CaptureEnds
    BY <1>3, <2>1, WhileReading
  <2>3. capturing \in {"no", "armed", "started"}
    BY DEF TypeInv, ReaderTypes
  <2>4. CASE Still
    BY <1>3, <2>4, StillStreams
  <2>5. CASE TmuxExecutes
    <3>1. Len(stdin) <= 4
      BY <2>1, <2>5, InputIsShort DEF TmuxExecutes
    <3>2. InOrder'
      BY <2>1, <2>5, <3>1, OrderExecutes
    <3>3. UNCHANGED <<cur, kind, pendingFirst>>
      BY <2>5 DEF TmuxExecutes, callerVars, workerVars
    <3>4. CASE kind[cur] # "capture"
      BY <2>1, <2>5, <3>2, <3>3, <3>4, PlainExecutes DEF Streaming
    <3>5. CASE kind[cur] = "capture"
      <4>1. Caught'
        BY <2>3, <2>1, <2>5, <3>5, ArmedExecutes, CapturingExecutes, CapturedExecutes
      <4>2. QED
        BY <2>1, <3>2, <3>3, <3>5, <4>1 DEF Streaming, Caught
    <3>6. QED
      BY <3>4, <3>5
  <2>6. CASE Moving
    <3>1. /\ stdin' = stdin \/ stdin' = <<>>
          /\ UNCHANGED <<cur, pendingFirst, kind>>
      BY <2>6, InputMoves DEF Moving
    <3>2. InOrder'
      BY <2>1, <3>1, OrderRests
    <3>3. CASE kind[cur] # "capture"
      <4>1. Plain'
        BY <2>1, <2>6, <3>3, PlainMoves DEF Moving
      <4>2. QED
        BY <2>1, <3>1, <3>2, <3>3, <4>1 DEF Streaming
    <3>4. CASE kind[cur] = "capture"
      <4>1. Caught'
        BY <2>3, <2>1, <2>6, <3>4, ArmedMoves, CapturingMoves, CapturedMoves DEF Moving
      <4>2. QED
        BY <2>1, <3>1, <3>2, <3>4, <4>1 DEF Streaming, Caught
    <3>5. QED
      BY <3>3, <3>4
  <2>7. CASE CollectFrame
    <3>1. UNCHANGED <<cur, kind, stdin>> /\ frames # <<>>
      BY <2>7 DEF CollectFrame, OneMoreFrame, callerVars, processVars
    <3>2. InOrder'
      BY <2>1, <3>1, OrderRests
    <3>3. CASE kind[cur] # "capture"
      <4>1. Plain' /\ pendingFirst' \in {NoFrame, Mark(cur', "A")}
        BY <2>1, <2>7, <3>3, PlainCollect
      <4>2. QED
        BY <3>1, <3>2, <3>3, <4>1 DEF Streaming
    <3>4. CASE kind[cur] = "capture"
      <4>1. capturing # "armed"
        BY <2>1, <3>1, <3>4 DEF Caught, Armed
      <4>2. Caught' /\ pendingFirst' \in {NoFrame, Mark(cur', "A")}
        BY <2>3, <2>1, <2>7, <3>4, <4>1, CapturingCollect, CapturedCollect
      <4>3. QED
        BY <3>1, <3>2, <3>4, <4>2 DEF Streaming, Caught
    <3>5. QED
      BY <3>3, <3>4
  <2>8. CASE TakeCapture
    <3>1. UNCHANGED <<cur, kind, stdin, pendingFirst>> /\ frames # <<>> /\ Head(frames).tag = "N"
      BY <2>8 DEF TakeCapture, callerVars, processVars, workerVars
    <3>2. InOrder'
      BY <2>1, <3>1, OrderRests
    <3>3. ASSUME kind[cur] # "capture" PROVE FALSE
      <4>1. PICK F, R \in Seq(Frame) : PlainAt(F, R)
        BY <2>1, <3>3 DEF Plain
      <4>2. Head(frames).own
        <5>1. Head(frames) = frames[1] /\ Len(frames) = 1
          BY <3>1, StreamTypes, Queue, RoomTaken
        <5>2. 1 \in 1..Len(frames)
          BY <5>1
        <5>3. frames[1].own \/ frames[1].tag \in Blocks
          BY <5>2 DEF Marked, OursOrBlocks
        <5>4. QED
          BY <3>1, <5>1, <5>3 DEF Blocks
      <4>3. Head(frames) \in {Mark(cur, "A"), Mark(cur, "B"), Mark(cur, "X")}
        BY <2>1, <3>1, <3>3, <4>1, <4>2, PlainNext DEF Plain
      <4>4. QED
        BY <3>1, <4>3, MarkOf
    <3>4. Caught'
      BY <2>1, <2>8, <3>3, CapturedTakes
    <3>5. QED
      BY <2>1, <3>1, <3>2, <3>3, <3>4 DEF Streaming, Caught
  <2>9. CASE CaptureLine \/ CaptureEnds
    <3>1. UNCHANGED <<cur, kind, stdin, pendingFirst>> /\ capturing = "started"
      BY <2>9 DEF CaptureLine, CaptureEnds, Captures, callerVars, processVars, workerVars
    <3>2. InOrder'
      BY <2>1, <3>1, OrderRests
    <3>3. kind[cur] = "capture"
      BY <2>1, <3>1 DEF Plain
    <3>4. Caught'
      BY <2>1, <2>9, <3>1, <3>3, CapturingLine, CaptureIsWhole
    <3>5. QED
      BY <2>1, <3>1, <3>2, <3>3, <3>4 DEF Streaming, Caught
  <2>10. QED
    BY <2>2, <2>4, <2>5, <2>6, <2>7, <2>8, <2>9
<1>4. QED
  BY <1>1, <1>2, <1>3

\* What the reader of a request reaches.
LEMMA BoundaryIsTrue ==
    ASSUME TypeInv, Handled, Sent, Opened, Streaming, BoundaryReached
    PROVE  AllSaid /\ Ended
<1>1. wpc = "read"
  BY DEF BoundaryReached
<1>2. QED
  BY <1>1, AtRead, PlainBoundary, CaptureBoundary

\* The stream ends under a request: what was collected is the start of what tmux said.
LEMMA FailureIsTrue ==
    ASSUME TypeInv, Handled, Opened, Streaming, ReadFails
    PROVE  IsPrefix(results, emitted[cur])
<1>1. wpc = "read"
  BY DEF ReadFails
<1>2. QED
  BY <1>1, AtRead, PlainFails, CaptureFails

\* The initial state.
LEMMA InitTypes ==
    ASSUME Init
    PROVE  TypeInv
<1>1. /\ MaxRequests \in Nat /\ MaxForeign \in Nat /\ 0 \in 0..MaxRequests /\ 0 \in 0..MaxForeign
  BY Bounds
<1>2. CallerTypes
  BY <1>1, ReplyTypes DEF Init, CallerTypes
<1>3. RequestTypes
  <2>1. \A r \in Requests : response[r] = <<>> /\ Len(response[r]) = 0
    BY DEF Init
  <2>2. response \in [Requests -> Seq(Replies)]
    BY DEF Init
  <2>3. QED
    BY <2>1, <2>2 DEF Init, RequestTypes
<1>4. WorkerTypes
  BY <1>1, ReplyTypes DEF Init, WorkerTypes
<1>5. LifeTypes
  <2>1. fence \in [1..2 -> Tags \cup {"none"}]
    BY DEF Init
  <2>2. QED
    BY <2>1 DEF Init, LifeTypes
<1>6. ProcessTypes
  <2>1. [req |-> 0, part |-> wpc] \in Lines
    BY <1>1 DEF Init, Lines
  <2>2. stdin \in Seq(Lines)
    BY <2>1 DEF Init
  <2>3. QED
    BY <1>1, <2>2 DEF Init, ProcessTypes
<1>7. ReaderTypes
  <2>1. frames = <<>> /\ lines = <<>>
    BY DEF Init
  <2>2. frames \in Seq(Frame) /\ lines \in Seq(Frame) /\ Len(frames) <= 1
    BY <2>1
  <2>3. QED
    BY <2>2 DEF Init, ReaderTypes
<1>8. QED
  BY <1>2, <1>3, <1>4, <1>5, <1>6, <1>7 DEF TypeInv

LEMMA InitHolds ==
    ASSUME Init
    PROVE  IInv
<1>1. TypeInv
  BY InitTypes
<1>2. Asked
  <2>1. \A r \in Requests : r > made
    BY Bounds DEF Init
  <2>2. \A r \in Requests : Untouched(r)
    <3>1. \A r \in Requests : r # 0
      BY Bounds
    <3>2. QED
      BY <3>1 DEF Init, Untouched
  <2>3. QED
    BY <2>1, <2>2 DEF Init, Asked
<1>3. Handled
  <2>1. \A j \in 1..Len(<<>>) : FALSE
    OBVIOUS
  <2>2. 0 \in 0..made
    BY DEF Init
  <2>3. \A r \in Requests : \A j \in 1..Len(response[r]) : response[r][j].err # "none"
    BY <2>1 DEF Init
  <2>4. QED
    BY <2>2, <2>3 DEF Init, Handled, Handling, Opening
<1>4. Sent
  <2>1. Len(stdin) = 1 /\ stdin[1] = [req |-> 0, part |-> wpc]
    BY DEF Init
  <2>2. \A j \in 1..Len(stdin) : stdin[j].req = cur /\ stdin[j].part \in {"guard", "attach", "A", "B"}
    BY <2>1 DEF Init
  <2>3. QED
    BY <2>2 DEF Init, Sent
<1>5. Marked
  <2>1. \A j \in 1..Len(<<>>) : FALSE
    OBVIOUS
  <2>2. QED
    BY <2>1 DEF Init, Marked, OursOrBlocks
<1>6. Truthful
  <2>1. \A r : Good(r, None)
    BY NoneIsTrue
  <2>2. \A r \in Requests : result[r] = None /\ response[r] = <<>>
    BY DEF Init
  <2>3. cur = 0
    BY DEF Init
  <2>4. QED
    BY <2>1, <2>2, <2>3 DEF Truthful
<1>7. Opened
  <2>1. Len(stdin) = 1 /\ stdin[1].part \in Starting
    BY DEF Init, Starting
  <2>2. stdout = <<>> /\ frames = <<>> /\ NoOwn(stdout) /\ NoOwn(frames)
    BY NoOwnNothing DEF Init
  <2>3. QED
    BY <2>1, <2>2 DEF Init, Opened, HandedOut, Opening
<1>8. Calibrating /\ Quiet /\ Streaming
  BY DEF Init, Calibrating, Quiet, Streaming
<1>9. QED
  BY <1>1, <1>2, <1>3, <1>4, <1>5, <1>6, <1>7, <1>8 DEF IInv

\* A step that changes nothing.
LEMMA Stutters ==
    ASSUME IInv, UNCHANGED vars
    PROVE  IInv'
<1>1. /\ UNCHANGED <<pc, req, made, kind, result, ctxDone, state, response, wpc, cur, results, pendingFirst, resp>>
      /\ UNCHANGED <<openCtx, dispatching, fence, stdin, stdinOpen, alive, stdout, frames, readDone, readErr>>
      /\ UNCHANGED <<capturing, lines, closeRequested, closing, closePhase, ran, emitted, foreign>>
  BY DEF vars, callerVars, requestVars, workerVars, processVars, parserVars, readerVars, openVars,
     lifeVars
<1>2. TypeInv'
  BY <1>1 DEF IInv, TypeInv, CallerTypes, RequestTypes, WorkerTypes, LifeTypes, ProcessTypes,
     ReaderTypes
<1>3. Asked'
  BY <1>1 DEF IInv, Asked, Untouched
<1>4. Handled'
  BY <1>1 DEF IInv, Handled, Opening
<1>5. Sent'
  BY <1>1 DEF IInv, Sent
<1>6. Marked'
  BY <1>1 DEF IInv, Marked, OursOrBlocks
<1>7. Truthful'
  BY <1>1 DEF IInv, Truthful, Good, Over
<1>8. Opened'
  BY <1>1 DEF IInv, Opened, HandedOut, Opening, NoOwn
<1>9. Calibrating'
  BY <1>1 DEF IInv, Calibrating, InFlight
<1>10. Quiet'
  BY <1>1 DEF IInv, Quiet, NoOwn
<1>11. Streaming'
  <2>1. CASE wpc = "read"
    BY <1>1, <2>1, StillStreams DEF IInv, Still
  <2>2. CASE wpc # "read"
    BY <1>1, <2>2 DEF Streaming
  <2>3. QED
    BY <2>1, <2>2
<1>12. QED
  BY <1>2, <1>3, <1>4, <1>5, <1>6, <1>7, <1>8, <1>9, <1>10, <1>11 DEF IInv

\* The invariant is inductive.
LEMMA StepKeeps ==
    ASSUME IInv, [Next]_vars
    PROVE  IInv'
<1>1. CASE UNCHANGED vars
  BY <1>1, Stutters
<1>2. CASE Next
  <2>1. /\ TypeInv /\ Asked /\ Handled /\ Sent /\ Marked /\ Truthful
        /\ Opened /\ Calibrating /\ Quiet /\ Streaming
    BY DEF IInv
  <2>2. (BoundaryReached => AllSaid /\ Ended) /\ (ReadFails => IsPrefix(results, emitted[cur]))
    BY <2>1, BoundaryIsTrue, FailureIsTrue
  <2>3. TypeInv' /\ Marked'
    BY <1>2, <2>1, TypesStay, MarkedStep
  <2>4. Asked' /\ Handled'
    BY <1>2, <2>1, AskedStep, HandledStep
  <2>5. Sent'
    BY <1>2, <2>1, SentStep
  <2>6. Truthful'
    BY <1>2, <2>1, <2>2, TruthfulStep
  <2>7. Opened' /\ Calibrating'
    BY <1>2, <2>1, OpenedStep, CalibratingStep
  <2>8. Quiet'
    BY <1>2, <2>1, <2>2, QuietStep
  <2>9. Streaming'
    BY <1>2, <2>1, StreamingStep
  <2>10. QED
    BY <2>3, <2>4, <2>5, <2>6, <2>7, <2>8, <2>9 DEF IInv
<1>3. QED
  BY <1>1, <1>2

\* Whatever the callers, tmux, the reader and a close do, in every order and for
\* any bounds, the invariant holds of the control client.
THEOREM Invariance == Spec => []IInv
<1>1. Init => IInv
  BY InitHolds
<1>2. IInv /\ [Next]_vars => IInv'
  BY StepKeeps
<1>3. QED
  BY <1>1, <1>2, PTL DEF Spec

\* Every variable of the control client keeps its type, in every state it can reach.
THEOREM TypeCorrect == Spec => []TypeOK
<1>1. IInv => TypeOK
  BY TypeParts DEF IInv
<1>2. QED
  BY <1>1, Invariance, PTL

\* An answer that was told is true.
LEMMA TruthIsOwn ==
    ASSUME IInv
    PROVE  OwnReplies
<1>1. \A r \in Requests : Good(r, result[r])
  BY DEF IInv, Truthful
<1>2. QED
  BY <1>1 DEF OwnReplies, Good, TrueReply

\* A reply holds exactly the frames tmux printed for its request, whatever other
\* clients print on the stream and whoever gave up before (executeControlRequest).
THEOREM OwnRepliesHold == Spec => []OwnReplies
<1>1. IInv => OwnReplies
  BY TruthIsOwn
<1>2. QED
  BY <1>1, Invariance, PTL

\* And the stream is empty.
LEMMA QuietIsDrained ==
    ASSUME IInv
    PROVE  DrainedBetweenRequests
BY DEF IInv, Quiet, NoOwn, DrainedBetweenRequests

\* From the boundary of a request to the write of the next, no line of it is left in
\* the input and no frame of the client's own in the output.
THEOREM Drained == Spec => []DrainedBetweenRequests
<1>1. IInv => DrainedBetweenRequests
  BY QuietIsDrained
<1>2. QED
  BY <1>1, Invariance, PTL

\* The three together, for any number of callers, requests and foreign blocks.
THEOREM RepliesCorrect == Spec => []RepliesOK
<1>1. IInv => RepliesOK
  BY TypeParts, TruthIsOwn, QuietIsDrained DEF IInv, RepliesOK
<1>2. QED
  BY <1>1, Invariance, PTL

------------------------------------------------------------------------------
(* The promise.                                                            *)

\* The variables of RequestOutcome, read off the client's.
PhaseOf(k, x) == IF k = "none" THEN "none" ELSE IF x = None THEN "open" ELSE "answered"
AnswerOf(x) == IF x.err \in {"ctx", "closed", "error"} THEN "notRun" ELSE x.err

\* A step that tells nobody and runs nothing stutters there.
LEMMA OutcomeRests ==
    ASSUME UNCHANGED <<kind, result, ran>>
    PROVE  UNCHANGED Outcome!vars
BY DEF Outcome!vars

\* Who is told something makes the promise for good.
LEMMA TellAnswers ==
    ASSUME IInv, Truthful', NEW c \in Callers, pc[c] # "idle", NEW reply \in Replies, Tell(c, reply),
           reply.err # "none", UNCHANGED ran
    PROVE  Outcome!Next
<1> DEFINE r == req[c]
           a == AnswerOf(reply)
<1>1. r \in Requests /\ kind[r] # "none" /\ result[r] = None
  <2>1. r \in 1..made /\ result[r] = None
    BY DEF IInv, Asked
  <2>2. r \in Requests /\ ~(r > made)
    BY <2>1, AskedTypes DEF IInv
  <2>3. QED
    BY <2>1, <2>2 DEF IInv, Asked
<1>2. result' = [result EXCEPT ![r] = reply] /\ kind' = kind
  BY DEF Tell
<1>3. result'[r] = reply /\ reply # None
  BY <1>1, <1>2, ReplyTypes, AskedTypes, SMTT(30) DEF IInv
<1>4. (reply.err = "ok" => ran[r]) /\ (reply.err \in NotRun => ~ran[r])
  BY <1>1, <1>3 DEF Truthful, Good, TrueReply
<1>5. a \in {"ok", "notRun", "unknown"} /\ (a = "ok" => ran[r]) /\ (a = "notRun" => ~ran[r])
  <2>1. reply.err \in {"ok", "ctx", "closed", "error", "unknown"}
    BY ReplyTypes DEF Errors
  <2>2. QED
    BY <1>4, <2>1 DEF NotRun, AnswerOf
<1> DEFINE phase(q) == PhaseOf(kind[q], result[q])
<1>6. \A q \in Requests : PhaseOf(kind'[q], result'[q]) = IF q = r THEN "answered" ELSE PhaseOf(kind[q], result[q])
  BY <1>1, <1>2, <1>3, AskedTypes DEF PhaseOf, IInv
<1>7. \A q \in Requests : AnswerOf(result'[q]) = IF q = r THEN a ELSE AnswerOf(result[q])
  BY <1>1, <1>2, <1>3, AskedTypes DEF IInv
<1> HIDE DEF r, a
<1>8. Outcome!Answer(r, a)
  BY <1>1, <1>5, <1>6, <1>7 DEF Outcome!Answer, PhaseOf, AnswerOf
<1>9. QED
  BY <1>1, <1>5, <1>8 DEF Outcome!Next

\* What tmux may still run is unanswered, or answered with the doubt.
LEMMA RunIsOpen ==
    ASSUME IInv, cur \in Requests, ~Over(cur), ~ran[cur], ran' = [ran EXCEPT ![cur] = TRUE], UNCHANGED <<kind, result>>
    PROVE  Outcome!Next
<1>1. kind[cur] # "none"
  <2>1. ~(cur > made)
    <3>1. cur \in 0..made /\ made \in 0..MaxRequests
      BY AskedTypes DEF IInv, Handled
    <3>2. QED
      BY <3>1
  <2>2. QED
    BY <2>1 DEF IInv, Asked
<1>2. result[cur] \in Replies /\ Good(cur, result[cur])
  BY AskedTypes DEF IInv, Truthful
<1>3. result[cur].err \in {"none", "unknown"} /\ (result[cur].err = "none" => result[cur] = None)
  <2>1. result[cur].err \notin NotRun /\ result[cur].err # "ok"
    BY <1>2 DEF Good, TrueReply
  <2>2. result[cur].err \in {"none", "unknown"}
    BY <1>2, <2>1, ReplyTypes DEF Errors, NotRun
  <2>3. result[cur].err = "none" => result[cur].frames = <<>>
    BY <1>2 DEF Good, TrueReply
  <2>4. QED
    BY <1>2, <2>2, <2>3 DEF Replies, None
<1>4. Outcome!Run(cur)
  BY <1>1, <1>3 DEF Outcome!Run
<1>5. QED
  BY <1>4 DEF Outcome!Next

\* Every step of the client is one of the promise, or none.
LEMMA OutcomeStep ==
    ASSUME IInv, IInv', Next
    PROVE  Outcome!Next \/ UNCHANGED Outcome!vars
<1>1. Truthful'
  BY DEF IInv
<1>2. ASSUME NEW c \in Callers, Call(c) PROVE Outcome!Next
  <2> DEFINE r == made + 1
  <2>1. PICK k \in Kinds : kind' = [kind EXCEPT ![r] = k]
    BY <1>2 DEF Call
  <2>2. r \in Requests /\ r > made /\ k # "none" /\ UNCHANGED <<result, ran>>
    <3>1. made < MaxRequests /\ UNCHANGED <<result, ran>>
      BY <1>2 DEF Call, processVars
    <3>2. r \in Requests /\ r > made
      BY <3>1, AskedTypes DEF IInv
    <3>3. QED
      BY <2>1, <3>1, <3>2, Bounds
  <2> HIDE DEF r
  <2>3. kind[r] = "none" /\ result[r] = None
    BY <2>2 DEF IInv, Asked, Untouched
  <2>4. \A q \in Requests : PhaseOf(kind'[q], result'[q]) = IF q = r THEN "open" ELSE PhaseOf(kind[q], result[q])
    BY <2>1, <2>2, <2>3, AskedTypes DEF PhaseOf, IInv
  <2>5. \E q \in Requests : Outcome!Open(q)
    BY <2>2, <2>3, <2>4 DEF Outcome!Open, PhaseOf
  <2>6. QED
    BY <2>5 DEF Outcome!Next
<1>3. ASSUME NEW c \in Callers, CancelContext(c) PROVE UNCHANGED Outcome!vars
  BY <1>3, OutcomeRests DEF CancelContext, callerVars, processVars
<1>4. ASSUME NEW c \in Callers, CheckClosed(c) \/ SubmitGivesUp(c) \/ Receive(c) \/ CanceledTooLate(c)
      PROVE  Outcome!Next \/ UNCHANGED Outcome!vars
  <2>1. CASE \E e \in {"ctx", "closed", "error", "unknown"} : Tell(c, Reply(e, <<>>))
    <3>1. PICK e \in {"ctx", "closed", "error", "unknown"} : Tell(c, Reply(e, <<>>))
      BY <2>1
    <3>2. Reply(e, <<>>) \in Replies /\ Reply(e, <<>>).err # "none"
      BY ReplyTypes DEF Errors
    <3>3. pc[c] # "idle" /\ UNCHANGED ran
      BY <1>4 DEF CheckClosed, SubmitGivesUp, Receive, CanceledTooLate, processVars
    <3>4. QED
      BY <1>1, <3>1, <3>2, <3>3, TellAnswers
  <2>2. CASE UNCHANGED <<kind, result>>
    <3>1. UNCHANGED ran
      BY <1>4 DEF CheckClosed, SubmitGivesUp, Receive, CanceledTooLate, processVars
    <3>2. QED
      BY <2>2, <3>1, OutcomeRests
  <2>3. QED
    BY <1>4, <2>1, <2>2 DEF CheckClosed, SubmitGivesUp, Receive, CanceledTooLate
<1>5. ASSUME NEW c \in Callers, AwaitResponse(c) PROVE Outcome!Next
  <2>1. /\ pc[c] # "idle" /\ response[req[c]] # <<>> /\ Tell(c, Head(response[req[c]])) /\ UNCHANGED ran
    BY <1>5 DEF AwaitResponse, processVars
  <2>2. req[c] \in Requests
    BY <2>1, HandledAsked DEF IInv
  <2>3. response[req[c]] \in Seq(Replies)
    BY <2>2, AskedTypes DEF IInv
  <2>4. Head(response[req[c]]) \in Replies /\ Head(response[req[c]]) = response[req[c]][1] /\ Len(response[req[c]]) # 0
        /\ Len(response[req[c]]) \in Nat
    BY <2>1, <2>3, Queue
  <2>5. 1 \in 1..Len(response[req[c]])
    BY <2>4
  <2>6. Head(response[req[c]]).err # "none"
    BY <2>2, <2>4, <2>5 DEF IInv, Handled
  <2>7. QED
    BY <1>1, <2>1, <2>4, <2>6, TellAnswers
<1>6. ASSUME NEW c \in Callers, CancelBeforeWrite(c) PROVE Outcome!Next \/ UNCHANGED Outcome!vars
  <2>1. pc[c] # "idle" /\ UNCHANGED ran
    BY <1>6 DEF CancelBeforeWrite, processVars
  <2>2. CASE Tell(c, Reply("ctx", <<>>))
    <3>1. Reply("ctx", <<>>) \in Replies /\ Reply("ctx", <<>>).err # "none"
      BY ReplyTypes DEF Errors
    <3>2. QED
      BY <1>1, <2>1, <2>2, <3>1, TellAnswers
  <2>3. CASE UNCHANGED <<kind, result>>
    BY <2>1, <2>3, OutcomeRests
  <2>4. QED
    BY <1>6, <2>2, <2>3 DEF CancelBeforeWrite
<1>7. CASE OpenerStep \/ CancelOpen
  BY <1>7, OutcomeRests DEF OpenerStep, CancelOpen, OpenFails, AcceptGuard, AcceptAttach,
     BeginDispatching,
      WriteCalibration, FirstReply, SecondReply, Register, Took, callerVars, processVars
<1>8. CASE WriteFails
  <2>1. /\ cur \in Requests /\ ~ran[cur] /\ ~Over(cur) /\ UNCHANGED <<kind, result>>
    <3>1. wpc = "write" /\ UNCHANGED <<kind, result>>
      BY <1>8 DEF WriteFails, Finish, callerVars
    <3>2. cur # 0 /\ state[cur] = "writing"
      BY <3>1 DEF IInv, Handled, Handling
    <3>3. cur \in Requests
      BY <3>2, AskedTypes DEF IInv
    <3>4. ~ran[cur]
      BY <3>1, <3>3 DEF IInv, Sent
    <3>5. QED
      BY <3>1, <3>2, <3>3, <3>4 DEF Over
  <2>2. PICK executed \in BOOLEAN : ran' = [ran EXCEPT ![cur] = executed]
    BY <1>8 DEF WriteFails
  <2>3. CASE executed = TRUE
    BY <2>1, <2>2, <2>3, RunIsOpen
  <2>4. CASE executed = FALSE
    <3>1. ran \in [Requests -> BOOLEAN] /\ ran[cur] = FALSE
      BY <2>1, AskedTypes DEF IInv
    <3>2. ran' = ran
      BY <2>2, <2>4, <3>1
    <3>3. QED
      BY <2>1, <3>2, OutcomeRests
  <2>5. QED
    BY <2>2, <2>3, <2>4
<1>9. CASE SkipForeign \/ TakeCapture \/ Accept \/ RefuseClosed \/ CheckContext \/ ClaimWrite \/ BoundaryReached
           \/ CollectFrame \/ ReadFails \/ SendResponse \/ StopRequests \/ Write
  BY <1>9, OutcomeRests DEF SkipForeign, TakeCapture, Accept, RefuseClosed, CheckContext,
     ClaimWrite, BoundaryReached,
      CollectFrame, ReadFails, SendResponse, StopRequests, Write, Finish, callerVars, processVars
<1>10. CASE TmuxExecutes
  <2>1. /\ stdin # <<>> /\ UNCHANGED <<kind, result>> /\ Head(stdin).req = cur
        /\ ran' = [r \in Requests |-> ran[r] \/ r = cur] /\ ran \in [Requests -> BOOLEAN]
    BY <1>10, CurrentRuns, TmuxTakes, AskedTypes DEF TmuxExecutes, callerVars, IInv, TypeInv
  <2>2. CASE cur \in Requests /\ ~ran[cur]
    <3>1. ~Over(cur)
      BY <2>1 DEF Over
    <3>2. ran' = [ran EXCEPT ![cur] = TRUE]
      BY <2>1, <2>2
    <3>3. QED
      BY <2>1, <2>2, <3>1, <3>2, RunIsOpen
  <2>3. CASE ~(cur \in Requests /\ ~ran[cur])
    <3>1. ran' = ran
      BY <2>1, <2>3
    <3>2. QED
      BY <2>1, <3>1, OutcomeRests
  <2>4. QED
    BY <2>2, <2>3
<1>11. CASE TmuxForeignBlock \/ TmuxExits
  BY <1>11, OutcomeRests DEF TmuxForeignBlock, TmuxExits, callerVars
<1>12. CASE ReaderStep \/ ReaderFails
  BY <1>12, OutcomeRests DEF ReaderStep, ReaderFails, ReadFrame, CaptureLine, CaptureEnds,
     ReaderEnds, callerVars, processVars
<1>13. CASE StartClose \/ CloserStep
  BY <1>13, OutcomeRests DEF StartClose, CloserStep, BeginClosing, CloseStdin, CloseProcess,
     callerVars, processVars
<1>14. QED
  BY <1>2, <1>3, <1>4, <1>5, <1>6, <1>7, <1>8, <1>9, <1>10, <1>11, <1>12, <1>13 DEF Next, CallerStep,
     WorkerStep

\* The control client implements RequestOutcome: a request told that it did not run
\* never runs, an ok is the truth, and only a doubt leaves it open (CmdContext).
THEOREM PromiseKept == Spec => OutcomePromise
<1>1. Init => Outcome!Init
  BY DEF Init, Outcome!Init, None
<1>2. IInv /\ IInv' /\ [Next]_vars => [Outcome!Next]_Outcome!vars
  <2>1. ASSUME UNCHANGED vars PROVE UNCHANGED Outcome!vars
    BY <2>1, OutcomeRests DEF vars, callerVars, processVars
  <2>2. QED
    BY <2>1, OutcomeStep
<1>3. QED
  BY <1>1, <1>2, Invariance, PTL DEF Spec, OutcomePromise, Outcome!Spec

------------------------------------------------------------------------------
(***************************************************************************)
(* The notifications.  NoLostWakeup for any number of readers, any limit   *)
(* and any wire.  It is not inductive alone: a wake-up is one buffered     *)
(* value, so a reader that takes it must be the only one waiting, which    *)
(* the token guarantees.                                                   *)
(***************************************************************************)

Inside == {"loop", "park", "return"}

\* The token is out exactly when one reader is between acquireReader and
\* releaseReader, and never when two are.
OneReader ==
    /\ token => \A r \in Readers : readAt[r] \notin Inside
    /\ \A r, s \in Readers : readAt[r] \in Inside /\ readAt[s] \in Inside => r = s

QueueInv == QueueTypeOK /\ OneReader /\ NoLostWakeup

\* What take leaves behind is still a sequence of records.
LEMMA TailIsSeq ==
    ASSUME NEW S, NEW q \in Seq(S), NEW k \in 0..Len(q), k < Len(q)
    PROVE  SubSeq(q, k + 2, Len(q)) \in Seq(S)
<1>1. \A i \in (k + 2)..Len(q) : q[i] \in S
  OBVIOUS
<1> QED
  BY <1>1

LEMMA InitType == QueueInit => QueueTypeOK
<1> SUFFICES ASSUME QueueInit PROVE QueueTypeOK
  OBVIOUS
<1> USE QueueAssumption DEF QueueInit
<1>1. queue \in Seq(Record) /\ accepted \in Seq(1..MaxWire) /\ delivered \in Seq(1..MaxWire)
  OBVIOUS
<1>2. err \in EndErrors \cup {"none"} /\ out \in [Readers -> Outcomes]
  BY DEF EndErrors, Outcomes
<1>3. /\ readAt \in [Readers -> {"idle", "acquire", "loop", "park", "return"}]
      /\ readCtxDone \in [Readers -> BOOLEAN]
  OBVIOUS
<1>4. wireSequence \in 0..MaxWire
  OBVIOUS
<1> QED
  BY <1>1, <1>2, <1>3, <1>4, Zenon DEF QueueTypeOK

\* Every variable keeps its type in a step of the reader goroutine.
LEMMA ProducerType == QueueTypeOK /\ (Notify \/ PassOver \/ StreamEnds) => QueueTypeOK'
<1> SUFFICES ASSUME QueueTypeOK, Notify \/ PassOver \/ StreamEnds PROVE QueueTypeOK'
  OBVIOUS
<1> USE QueueAssumption
<1>1. CASE Notify
  <2>1. wireSequence' \in 1..MaxWire /\ wireSequence' \in 0..MaxWire
    BY <1>1 DEF Notify, QueueTypeOK
  <2>2. PICK len \in Lengths :
          IF finished
          THEN Refuse
          ELSE IF HeaderSize + len > Limit - Used(queue)
               THEN Overflow
               ELSE Store([seq |-> wireSequence', len |-> len])
    BY <1>1 DEF Notify
  <2>3. UNCHANGED <<closed, token, readAt, readCtxDone, out, clientCloses, clientClosing, streamDone, delivered>>
    BY <1>1 DEF Notify, readVars, closeVars
  <2>4. CASE Refuse
    BY <2>1, <2>3, <2>4 DEF Refuse, QueueTypeOK
  <2>5. CASE Overflow
    BY <2>1, <2>3, <2>5 DEF Overflow, QueueTypeOK, EndErrors
  <2>6. CASE Store([seq |-> wireSequence', len |-> len])
    <3>1. [seq |-> wireSequence', len |-> len] \in Record
      BY <2>1, <2>2 DEF Record
    <3>2. queue' \in Seq(Record) /\ accepted' \in Seq(1..MaxWire)
      BY <3>1, <2>1, <2>6 DEF Store, QueueTypeOK
    <3> QED
      BY <3>2, <2>1, <2>3, <2>6 DEF Store, QueueTypeOK
  <2> QED
    BY <2>2, <2>4, <2>5, <2>6
<1>2. CASE PassOver
  BY <1>2 DEF PassOver, QueueTypeOK, queueVars, readVars, closeVars, history
<1>3. CASE StreamEnds
  <2>1. finished' \in BOOLEAN /\ err' \in EndErrors \cup {"none"} /\ ready' \in BOOLEAN
    BY <1>3 DEF StreamEnds, QueueTypeOK, EndErrors
  <2> QED
    BY <2>1, <1>3 DEF StreamEnds, QueueTypeOK, readVars, closeVars, history
<1> QED
  BY <1>1, <1>2, <1>3

\* ... and in a step of a reader.
LEMMA ReaderType ==
    ASSUME QueueTypeOK, NEW r \in Readers, NextNotification(r) \/ CancelRead(r) \/ NotificationStep(r)
    PROVE  QueueTypeOK'
<1> USE DEF QueueTypeOK, queueVars, closeVars, history
<1>1. CASE NextNotification(r)
  BY <1>1 DEF NextNotification, Outcomes
<1>2. CASE CancelRead(r)
  BY <1>2 DEF CancelRead
<1>3. CASE AcquireReader(r)
  BY <1>3 DEF AcquireReader
<1>4. CASE AcquireCanceled(r)
  BY <1>4 DEF AcquireCanceled, Outcomes
<1>5. CASE NextCanceled(r)
  BY <1>5 DEF NextCanceled, Leave, Outcomes
<1>6. CASE TakeClosed(r)
  BY <1>6 DEF TakeClosed, Leave, Outcomes
<1>7. CASE TakeRecord(r)
  <2>1. PICK k \in 0..Len(queue) :
          /\ k < Len(queue)
          /\ queue' = SubSeq(queue, k + 2, Len(queue))
          /\ delivered' = Append(delivered, queue[k + 1].seq)
    BY <1>7 DEF TakeRecord
  <2>2. queue' \in Seq(Record)
    BY <2>1, TailIsSeq
  <2>3. queue[k + 1] \in Record
    BY <2>1
  <2>4. delivered' \in Seq(1..MaxWire)
    BY <2>1, <2>3 DEF Record
  <2>5. out' \in [Readers -> Outcomes]
    BY <1>7 DEF TakeRecord, Leave, Outcomes
  <2> QED
    BY <2>2, <2>4, <2>5, <1>7 DEF TakeRecord, Leave
<1>8. CASE TakeNothing(r)
  <2>1. out' \in [Readers -> Outcomes]
    BY <1>8 DEF TakeNothing, Leave, Outcomes
  <2>2. readAt' \in [Readers -> {"idle", "acquire", "loop", "park", "return"}]
    BY <1>8 DEF TakeNothing, Leave
  <2>3. queue' \in Seq(Record)
    BY <1>8 DEF TakeNothing
  <2> QED
    BY <2>1, <2>2, <2>3, <1>8 DEF TakeNothing
<1>9. CASE WakeReady(r)
  BY <1>9 DEF WakeReady
<1>10. CASE WakeCanceled(r)
  BY <1>10 DEF WakeCanceled, Leave, Outcomes
<1>11. CASE Return(r)
  BY <1>11 DEF Return, Outcomes
<1> QED
  BY <1>1, <1>2, <1>3, <1>4, <1>5, <1>6, <1>7, <1>8, <1>9, <1>10, <1>11 DEF NotificationStep

\* ... and when the client closes.
LEMMA CloseType == QueueTypeOK /\ (StartClientClose \/ BeginClientClosing \/ CloseQueue) => QueueTypeOK'
<1> SUFFICES ASSUME QueueTypeOK, StartClientClose \/ BeginClientClosing \/ CloseQueue PROVE QueueTypeOK'
  OBVIOUS
<1> USE DEF QueueTypeOK, queueVars, readVars, closeVars, history
<1>1. CASE StartClientClose
  BY <1>1 DEF StartClientClose
<1>2. CASE BeginClientClosing
  BY <1>2 DEF BeginClientClosing
<1>3. CASE CloseQueue
  <2>1. queue' \in Seq(Record)
    BY <1>3 DEF CloseQueue
  <2> QED
    BY <2>1, <1>3 DEF CloseQueue
<1> QED
  BY <1>1, <1>2, <1>3

LEMMA StutterType == QueueTypeOK /\ UNCHANGED notificationVars => QueueTypeOK'
BY DEF QueueTypeOK, notificationVars, queueVars, readVars, closeVars, history

LEMMA TypeStep == QueueTypeOK /\ [QueueNext]_notificationVars => QueueTypeOK'
BY ProducerType, ReaderType, CloseType, StutterType DEF QueueNext

\* The inductive step of the invariant, given the types before it.
LEMMA InvStep == QueueInv /\ [QueueNext]_notificationVars => OneReader' /\ NoLostWakeup'
<1> SUFFICES ASSUME QueueTypeOK, OneReader, NoLostWakeup, [QueueNext]_notificationVars
             PROVE  OneReader' /\ NoLostWakeup'
  BY DEF QueueInv
<1> USE DEF OneReader, NoLostWakeup, Inside
<1>1. CASE Notify
  <2>1. readAt' = readAt /\ token' = token /\ closed' = closed
    BY <1>1 DEF Notify, readVars
  <2>2. \/ ready'
        \/ UNCHANGED <<queue, finished, ready>>
    BY <1>1 DEF Notify, Refuse, Overflow, Store
  <2> QED
    BY <2>1, <2>2
<1>2. CASE PassOver
  BY <1>2 DEF PassOver, queueVars, readVars
<1>3. CASE StreamEnds
  <2>1. readAt' = readAt /\ token' = token /\ closed' = closed /\ queue' = queue
    BY <1>3 DEF StreamEnds, readVars
  <2>2. ready' \/ UNCHANGED <<finished, ready>>
    BY <1>3 DEF StreamEnds
  <2> QED
    BY <2>1, <2>2
<1>4. ASSUME NEW r \in Readers, NextNotification(r) \/ CancelRead(r) \/ NotificationStep(r)
      PROVE  OneReader' /\ NoLostWakeup'
  <2> USE DEF QueueTypeOK, queueVars
  <2>1. CASE NextNotification(r)
    BY <2>1 DEF NextNotification
  <2>2. CASE CancelRead(r)
    BY <2>2 DEF CancelRead
  <2>3. CASE AcquireReader(r)
    BY <2>3 DEF AcquireReader
  <2>4. CASE AcquireCanceled(r)
    BY <2>4 DEF AcquireCanceled
  <2>5. CASE NextCanceled(r)
    BY <2>5 DEF NextCanceled, Leave
  <2>6. CASE TakeClosed(r)
    BY <2>6 DEF TakeClosed, Leave
  <2>7. CASE TakeRecord(r)
    <3>1. readAt' = [readAt EXCEPT ![r] = "return"] /\ token' = token
      BY <2>7 DEF TakeRecord, Leave
    <3>2. readAt[r] = "loop"
      BY <2>7 DEF TakeRecord
    <3>3. \A s \in Readers : readAt'[s] # "park"
      BY <3>1, <3>2
    <3> QED
      BY <3>1, <3>2, <3>3
  <2>8. CASE TakeNothing(r)
    <3>1. CASE finished
      BY <3>1, <2>8 DEF TakeNothing, Leave
    <3>2. CASE ~finished
      <4>1. readAt' = [readAt EXCEPT ![r] = "park"] /\ token' = token /\ readAt[r] = "loop"
        BY <3>2, <2>8 DEF TakeNothing
      <4>2. queue' = <<>> /\ ~finished' /\ ~closed'
        BY <3>2, <2>8 DEF TakeNothing
      <4> QED
        BY <4>1, <4>2
    <3> QED
      BY <3>1, <3>2
  <2>9. CASE WakeReady(r)
    BY <2>9 DEF WakeReady
  <2>10. CASE WakeCanceled(r)
    BY <2>10 DEF WakeCanceled, Leave
  <2>11. CASE Return(r)
    BY <2>11 DEF Return
  <2> QED
    BY <1>4, <2>1, <2>2, <2>3, <2>4, <2>5, <2>6, <2>7, <2>8, <2>9, <2>10, <2>11 DEF NotificationStep
<1>5. CASE StartClientClose
  BY <1>5 DEF StartClientClose, queueVars, readVars
<1>6. CASE BeginClientClosing
  BY <1>6 DEF BeginClientClosing, queueVars, readVars
<1>7. CASE CloseQueue
  BY <1>7 DEF CloseQueue, readVars
<1>8. CASE UNCHANGED notificationVars
  BY <1>8 DEF notificationVars, queueVars, readVars
<1> QED
  BY <1>1, <1>2, <1>3, <1>4, <1>5, <1>6, <1>7, <1>8 DEF QueueNext

\* Type correctness of the notification path, for any readers and any limit.
THEOREM QueueTypeCorrect == QueueSpec => []QueueTypeOK
<1>1. QueueInit => QueueTypeOK
  BY InitType
<1>2. QueueTypeOK /\ [QueueNext]_notificationVars => QueueTypeOK'
  BY TypeStep
<1> QED
  BY <1>1, <1>2, PTL DEF QueueSpec

\* However many readers call NextNotification, none waits while a record or an
\* end of the stream is queued and no wake-up is on its way to it.
THEOREM WakeupNeverLost == QueueSpec => []NoLostWakeup
<1>1. QueueInit => QueueInv
  <2>1. QueueInit => OneReader /\ NoLostWakeup
    BY DEF QueueInit, OneReader, NoLostWakeup, Inside
  <2> QED
    BY <2>1, InitType DEF QueueInv
<1>2. QueueInv /\ [QueueNext]_notificationVars => QueueInv'
  BY TypeStep, InvStep DEF QueueInv
<1>3. QueueInv => NoLostWakeup
  BY DEF QueueInv
<1> QED
  BY <1>1, <1>2, <1>3, PTL DEF QueueSpec

\* append, take and the token together: the queue is always in a state its code
\* can be in and no reader of NextNotification sleeps through a record or an end.
THEOREM QueueCorrect == QueueSpec => []QueueOK
<1>1. QueueTypeOK /\ NoLostWakeup => QueueOK
  BY DEF QueueOK
<1> QED
  BY <1>1, QueueTypeCorrect, WakeupNeverLost, PTL

\* Once the queue has ended, an overflow included, nothing is stored any more
\* and the end keeps its cause, whatever the reader goroutine meets later.
THEOREM EndIsFinal == QueueSpec => NoRecordAfterEnd
<1>1. [QueueNext]_notificationVars => [finished => accepted' = accepted /\ (err' = err /\ finished')]_notificationVars
  <2> SUFFICES ASSUME QueueNext, finished
               PROVE  accepted' = accepted /\ err' = err /\ finished'
    OBVIOUS
  <2>1. CASE Notify
    BY <2>1 DEF Notify, Refuse
  <2>2. CASE PassOver
    BY <2>2 DEF PassOver, queueVars, history
  <2>3. CASE StreamEnds
    BY <2>3 DEF StreamEnds, history
  <2>4. ASSUME NEW r \in Readers, NextNotification(r) \/ CancelRead(r) \/ NotificationStep(r)
        PROVE  accepted' = accepted /\ err' = err /\ finished'
    BY <2>4 DEF NextNotification, CancelRead, NotificationStep, AcquireReader, AcquireCanceled,
       NextCanceled, TakeClosed, TakeRecord, TakeNothing, WakeReady, WakeCanceled,
       Return, queueVars, history
  <2>5. CASE StartClientClose \/ BeginClientClosing \/ CloseQueue
    BY <2>5 DEF StartClientClose, BeginClientClosing, CloseQueue, queueVars, history
  <2> QED
    BY <2>1, <2>2, <2>3, <2>4, <2>5 DEF QueueNext
<1> QED
  BY <1>1, PTL DEF QueueSpec, NoRecordAfterEnd

------------------------------------------------------------------------------
(* What the readers receive.  The records queued are the expected ones     *)
(* that nobody has received, and younger than all that was delivered.      *)

Younger == \A d \in ToSet(delivered), s \in Queued : d < s

\* The end of a file is told once everything before it was delivered.
EndedBehind == \A r \in Readers : out[r] = "eof" => finished /\ Expected \subseteq ToSet(delivered)

OrderInv ==
    /\ DeliveredInOrder
    /\ \A s \in ToSet(accepted) : s <= wireSequence
    /\ \A i, j \in DOMAIN queue : i < j => queue[i].seq < queue[j].seq
    /\ Younger /\ EndedBehind

\* Sequence numbers are numbers.
LEMMA Numbers ==
    ASSUME QueueTypeOK
    PROVE  /\ accepted \in Seq(Nat) /\ delivered \in Seq(Nat)
           /\ After \in Nat /\ wireSequence \in Nat
           /\ \A s \in ToSet(accepted) \cup ToSet(delivered) : s \in Nat
           /\ \A s \in Expected : s \in Nat /\ s > After
           /\ \A i \in DOMAIN queue : queue[i].seq \in 1..MaxWire /\ queue[i].seq \in Nat
           /\ \A s \in Queued : s \in Nat
<1>1. After \in Nat /\ MaxWire \in Nat
  BY QueueAssumption
<1>2. /\ accepted \in Seq(1..MaxWire) /\ delivered \in Seq(1..MaxWire)
      /\ queue \in Seq(Record) /\ wireSequence \in 0..MaxWire
  BY DEF QueueTypeOK
<1>3. accepted \in Seq(Nat) /\ delivered \in Seq(Nat) /\ wireSequence \in Nat
  BY ONLY <1>1, <1>2
<1>4. /\ \A i \in DOMAIN accepted : accepted[i] \in Nat
      /\ \A i \in DOMAIN delivered : delivered[i] \in Nat
  BY ONLY <1>3
<1>5. \A s \in ToSet(accepted) \cup ToSet(delivered) : s \in Nat
  BY ONLY <1>4 DEF ToSet
<1>6. \A s \in Expected : s \in Nat /\ s > After
  BY ONLY <1>5 DEF Expected
<1>7. \A i \in DOMAIN queue : queue[i] \in Record
  BY ONLY <1>2
<1>8. \A i \in DOMAIN queue : queue[i].seq \in 1..MaxWire /\ queue[i].seq \in Nat
  BY ONLY <1>7, <1>1 DEF Record
<1>9. \A s \in Queued : s \in Nat
  BY ONLY <1>8 DEF Queued
<1> QED
  BY ONLY <1>1, <1>3, <1>5, <1>6, <1>8, <1>9

LEMMA AppendedSet ==
    ASSUME NEW S, NEW q \in Seq(S), NEW x \in S
    PROVE  ToSet(Append(q, x)) = ToSet(q) \cup {x}
<1>1. /\ DOMAIN Append(q, x) = 1..Len(q) + 1 /\ DOMAIN q = 1..Len(q)
      /\ \A i \in 1..Len(q) : Append(q, x)[i] = q[i]
      /\ Append(q, x)[Len(q) + 1] = x
  OBVIOUS
<1>2. \A e : e \in ToSet(Append(q, x)) <=> \E i \in 1..Len(q) + 1 : e = Append(q, x)[i]
  BY <1>1 DEF ToSet
<1>3. \A e : e \in ToSet(q) <=> \E i \in 1..Len(q) : e = q[i]
  BY <1>1 DEF ToSet
<1>4. \A i : i \in 1..Len(q) + 1 <=> i \in 1..Len(q) \/ i = Len(q) + 1
  OBVIOUS
<1> QED
  BY <1>1, <1>2, <1>3, <1>4

LEMMA AppendedInOrder ==
    ASSUME NEW q \in Seq(Nat), NEW x \in Nat, InWireOrder(q), \A e \in ToSet(q) : e < x
    PROVE  InWireOrder(Append(q, x))
<1> SUFFICES ASSUME NEW i \in 1..Len(q) + 1, NEW j \in 1..Len(q) + 1, i < j
             PROVE  Append(q, x)[i] < Append(q, x)[j]
  BY DEF InWireOrder
<1>1. i \in 1..Len(q) /\ Append(q, x)[i] = q[i] /\ q[i] \in ToSet(q)
  BY DEF ToSet
<1>2. CASE j = Len(q) + 1
  BY <1>1, <1>2
<1>3. CASE j \in 1..Len(q)
  BY <1>1, <1>3 DEF InWireOrder
<1> QED
  BY <1>2, <1>3

LEMMA StoreKeepsOrder ==
    ASSUME QueueTypeOK, OrderInv, Notify, NEW len \in Lengths, ~finished,
           Store([seq |-> wireSequence', len |-> len])
    PROVE  OrderInv'
<1> DEFINE w == wireSequence + 1
           n == [seq |-> w, len |-> len]
<1>1. /\ w \in 1..MaxWire /\ wireSequence' = w /\ wireSequence \in Nat
      /\ queue' = Append(queue, n) /\ accepted' = Append(accepted, w)
      /\ UNCHANGED <<finished, closed, out, delivered>> /\ ~closed
  BY QueueAssumption DEF Notify, Store, QueueTypeOK, readVars
<1>2. /\ queue \in Seq(Record) /\ n \in Record
      /\ accepted \in Seq(1..MaxWire) /\ delivered \in Seq(1..MaxWire)
      /\ accepted \in Seq(Nat)
  BY <1>1, Numbers DEF QueueTypeOK, Record
<1> HIDE DEF n
<1>3. ToSet(accepted') = ToSet(accepted) \cup {w}
  <2>1. ToSet(Append(accepted, w)) = ToSet(accepted) \cup {w}
    BY ONLY <1>1, <1>2, AppendedSet
  <2> QED
    BY ONLY <1>1, <2>1
<1>4. /\ DOMAIN queue' = 1..Len(queue) + 1 /\ DOMAIN queue = 1..Len(queue)
      /\ Len(queue) \in Nat /\ queue'[Len(queue) + 1] = n
      /\ \A i \in 1..Len(queue) : queue'[i] = queue[i]
  BY <1>1, <1>2
<1>5. n.seq = w
  BY DEF n
<1>6. Queued' = Queued \cup {w}
  BY <1>4, <1>5 DEF Queued
<1>7. /\ \A s \in ToSet(accepted) : s < w
      /\ \A i \in DOMAIN queue : queue[i].seq < w
      /\ \A d \in ToSet(delivered) : d < w
  <2>1. \A s \in ToSet(accepted) : s \in Nat /\ s <= wireSequence
    BY <1>2 DEF OrderInv, ToSet
  <2>2. \A s \in ToSet(accepted) : s < w
    BY <2>1, <1>1
  <2>3. \A i \in DOMAIN queue : queue[i].seq \in ToSet(accepted)
    BY DEF OrderInv, DeliveredInOrder, Queued
  <2>4. \A d \in ToSet(delivered) : d \in ToSet(accepted)
    BY DEF OrderInv, DeliveredInOrder, Expected
  <2> QED
    BY <2>2, <2>3, <2>4
<1>8. Expected' = Expected \cup IF w > After THEN {w} ELSE {}
  BY <1>3 DEF Expected
<1>9. InWireOrder(accepted)'
  BY <1>1, <1>2, <1>7, AppendedInOrder, QueueAssumption DEF OrderInv, DeliveredInOrder
<1>10. \A s \in ToSet(accepted') : s <= wireSequence'
  <2>1. \A s \in ToSet(accepted) : s \in Nat /\ s <= wireSequence
    BY Numbers DEF OrderInv
  <2> QED
    BY <1>1, <1>3, <2>1
<1>11. \A i, j \in DOMAIN queue' : i < j => queue'[i].seq < queue'[j].seq
  BY <1>4, <1>5, <1>7 DEF OrderInv
<1>12. Younger'
  BY <1>1, <1>6, <1>7 DEF OrderInv, Younger
<1>13. EndedBehind'
  BY <1>1 DEF OrderInv, EndedBehind
<1>14. DeliveredInOrder'
  <2>1. InWireOrder(delivered)' /\ ToSet(delivered') \subseteq Expected' /\ Queued' \subseteq ToSet(accepted')
    BY <1>1, <1>3, <1>6, <1>8 DEF OrderInv, DeliveredInOrder
  <2>2. \A s \in Expected', d \in ToSet(delivered') : s < d => s \in ToSet(delivered')
    <3>1. \A d \in ToSet(delivered) : d \in Nat /\ d < w /\ w \in Nat
      BY <1>1, <1>7, Numbers
    <3>2. ToSet(delivered') = ToSet(delivered)
      BY <1>1
    <3> QED
      BY <3>1, <3>2, <1>8 DEF OrderInv, DeliveredInOrder
  <2>3. \A s \in Expected' : s \in ToSet(delivered') <=> s \notin Queued'
    <3>1. w \notin ToSet(delivered) /\ w \notin ToSet(accepted)
      BY <1>1, <1>7
    <3>2. \A s \in Expected : s \in ToSet(accepted)
      BY DEF Expected
    <3> QED
      BY <1>1, <1>6, <1>8, <3>1, <3>2 DEF OrderInv, DeliveredInOrder
  <2> QED
    BY <1>9, <2>1, <2>2, <2>3 DEF DeliveredInOrder
<1> QED
  BY <1>10, <1>11, <1>12, <1>13, <1>14 DEF OrderInv

LEMMA TakeKeepsOrder ==
    ASSUME QueueTypeOK, OrderInv, NEW r \in Readers, TakeRecord(r)
    PROVE  OrderInv'
<1>1. PICK k \in 0..Len(queue) :
        /\ SkippedBefore(queue, k)
        /\ k < Len(queue)
        /\ queue' = SubSeq(queue, k + 2, Len(queue))
        /\ delivered' = Append(delivered, queue[k + 1].seq)
  BY DEF TakeRecord
<1> DEFINE n == queue[k + 1].seq
<1>2. /\ UNCHANGED <<wireSequence, accepted, closed, finished>> /\ ~closed
      /\ out' = [out EXCEPT ![r] = "record"]
  BY DEF TakeRecord, Leave
<1>3. /\ queue \in Seq(Record) /\ Len(queue) \in Nat /\ DOMAIN queue = 1..Len(queue)
      /\ k + 1 \in DOMAIN queue /\ k \in Nat
      /\ \A i \in DOMAIN queue : queue[i].seq \in 1..MaxWire
  BY <1>1, Numbers DEF QueueTypeOK
<1>4. /\ n \in Nat /\ n \in 1..MaxWire /\ After \in Nat
      /\ delivered \in Seq(1..MaxWire) /\ delivered \in Seq(Nat)
  BY <1>3, Numbers DEF QueueTypeOK
<1>5. ToSet(delivered') = ToSet(delivered) \cup {n}
  <2>1. ToSet(Append(delivered, n)) = ToSet(delivered) \cup {n}
    BY ONLY <1>4, AppendedSet
  <2> QED
    BY ONLY <1>1, <2>1
<1>6. n > After /\ \A i \in 1..k : queue[i].seq <= After
  BY <1>1, <1>3 DEF SkippedBefore
<1>7. /\ DOMAIN queue' = 1..(Len(queue) - k - 1)
      /\ \A i \in DOMAIN queue' : queue'[i] = queue[i + k + 1] /\ i + k + 1 \in DOMAIN queue
  BY <1>1, <1>3
<1>8. Queued' = {queue[i].seq : i \in k + 2..Len(queue)}
  <2>1. \A i \in k + 2..Len(queue) : i - k - 1 \in DOMAIN queue' /\ queue'[i - k - 1] = queue[i]
    BY <1>3, <1>7
  <2>2. \A i \in DOMAIN queue' : i + k + 1 \in k + 2..Len(queue)
    BY <1>3, <1>7
  <2> QED
    <3>1. ASSUME NEW s \in Queued' PROVE s \in {queue[i].seq : i \in k + 2..Len(queue)}
      <4>1. PICK i \in DOMAIN queue' : s = queue'[i].seq
        BY <3>1 DEF Queued
      <4> QED
        BY <4>1, <1>7, <2>2
    <3>2. ASSUME NEW i \in k + 2..Len(queue) PROVE queue[i].seq \in Queued'
      BY <2>1 DEF Queued
    <3> QED
      BY <3>1, <3>2
<1>9. n \in Queued /\ n \in Expected /\ n \notin ToSet(delivered)
  <2>1. n \in Queued
    BY <1>3 DEF Queued
  <2>2. n \in Expected
    BY <2>1, <1>6 DEF OrderInv, DeliveredInOrder, Expected
  <2> QED
    BY <2>1, <2>2, <1>2 DEF OrderInv, DeliveredInOrder
<1>10. \A d \in ToSet(delivered) : d < n
  BY <1>9 DEF OrderInv, Younger
<1>11. \A s \in Queued' : s \in Queued /\ n < s
  <2>1. \A i \in k + 2..Len(queue) : i \in DOMAIN queue /\ k + 1 < i
    BY <1>3
  <2>2. \A i \in k + 2..Len(queue) : n < queue[i].seq /\ queue[i].seq \in Queued
    BY <2>1, <1>3 DEF OrderInv, Queued
  <2> QED
    BY <2>2, <1>8
<1>12. \A s \in Queued : s <= After \/ s = n \/ s \in Queued'
  <2>1. \A i \in DOMAIN queue : i \in 1..k \/ i = k + 1 \/ i \in k + 2..Len(queue)
    BY <1>3
  <2> QED
    BY <2>1, <1>6, <1>8 DEF Queued
<1>13. \A i, j \in DOMAIN queue' : i < j => queue'[i].seq < queue'[j].seq
  BY <1>3, <1>7, SMTT(30) DEF OrderInv
<1>14. Expected' = Expected
  BY <1>2 DEF Expected
<1>15. \A s \in Expected : s \in Nat /\ s > After
  BY Numbers
<1>16. DeliveredInOrder'
  <2>1. InWireOrder(delivered)'
    BY <1>1, <1>4, <1>10, AppendedInOrder DEF OrderInv, DeliveredInOrder
  <2>2. InWireOrder(accepted)' /\ ToSet(delivered') \subseteq Expected' /\ Queued' \subseteq ToSet(accepted')
    BY <1>2, <1>5, <1>9, <1>11, <1>14 DEF OrderInv, DeliveredInOrder
  <2>3. \A s \in Expected : s \in ToSet(delivered') <=> s \notin Queued'
    <3>1. ASSUME NEW s \in Expected, s \in ToSet(delivered') PROVE s \notin Queued'
      <4>1. CASE s = n
        BY <4>1, <1>4, <1>11
      <4>2. CASE s \in ToSet(delivered)
        BY <4>2, <1>2, <1>11 DEF OrderInv, DeliveredInOrder
      <4> QED
        BY <3>1, <4>1, <4>2, <1>5
    <3>2. ASSUME NEW s \in Expected, s \notin Queued' PROVE s \in ToSet(delivered')
      <4>1. CASE s \in Queued
        BY <4>1, <3>2, <1>5, <1>12, <1>15, <1>4
      <4>2. CASE s \notin Queued
        BY <4>2, <1>2, <1>5 DEF OrderInv, DeliveredInOrder
      <4> QED
        BY <4>1, <4>2
    <3> QED
      BY <3>1, <3>2
  <2>4. \A s \in Expected', d \in ToSet(delivered') : s < d => s \in ToSet(delivered')
    <3> SUFFICES ASSUME NEW s \in Expected, NEW d \in ToSet(delivered'), s < d, s \in Queued'
                 PROVE  FALSE
      BY <2>3, <1>14
    <3>1. d = n \/ d < n
      BY <1>5, <1>10
    <3>2. d \in Nat /\ s \in Nat /\ n < s
      BY <1>4, <1>5, <1>11, <1>15, Numbers
    <3> QED
      BY <3>1, <3>2, <1>4
  <2> QED
    BY <2>1, <2>2, <2>3, <2>4, <1>14 DEF DeliveredInOrder
<1>17. Younger'
  <2> SUFFICES ASSUME NEW d \in ToSet(delivered'), NEW s \in Queued' PROVE d < s
    BY DEF Younger
  <2>1. CASE d = n
    BY <2>1, <1>11
  <2>2. CASE d \in ToSet(delivered)
    BY <2>2, <1>11 DEF OrderInv, Younger
  <2> QED
    BY <2>1, <2>2, <1>5
<1>18. EndedBehind'
  BY <1>2, <1>5, <1>14 DEF OrderInv, EndedBehind, QueueTypeOK
<1>19. \A s \in ToSet(accepted') : s <= wireSequence'
  BY <1>2 DEF OrderInv
<1> QED
  BY <1>13, <1>16, <1>17, <1>18, <1>19 DEF OrderInv

\* A read that finds nothing after After drops what was queued for nobody.
LEMMA NothingKeepsOrder ==
    ASSUME QueueTypeOK, OrderInv, NEW r \in Readers, TakeNothing(r)
    PROVE  OrderInv' /\ Expected \subseteq ToSet(delivered)
<1>1. /\ queue' = <<>> /\ ~closed /\ SkippedBefore(queue, Len(queue))
      /\ UNCHANGED <<wireSequence, finished, closed, accepted, delivered>>
      /\ \A s \in Readers : out'[s] = "eof" => out[s] = "eof" \/ finished
  BY DEF TakeNothing, Leave, history, QueueTypeOK
<1>2. \A s \in Queued : s <= After /\ s \in Nat
  <2>1. \A i \in 1..Len(queue) : queue[i].seq <= After
    BY <1>1 DEF SkippedBefore
  <2>2. DOMAIN queue = 1..Len(queue)
    BY DEF QueueTypeOK
  <2> QED
    BY <2>1, <2>2, Numbers DEF Queued
<1>3. \A s \in Expected : s > After /\ s \in Nat
  BY Numbers
<1>4. Expected \subseteq ToSet(delivered)
  BY <1>1, <1>2, <1>3, QueueAssumption DEF OrderInv, DeliveredInOrder
<1>5. Queued' = {} /\ Expected' = Expected /\ DOMAIN queue' = {}
  BY <1>1 DEF Queued, Expected
<1>6. DeliveredInOrder'
  BY <1>1, <1>4, <1>5 DEF OrderInv, DeliveredInOrder
<1>7. Younger' /\ EndedBehind'
  BY <1>1, <1>4, <1>5 DEF OrderInv, Younger, EndedBehind
<1> QED
  BY <1>1, <1>4, <1>5, <1>6, <1>7 DEF OrderInv

\* Every other step leaves the records alone.
LEMMA OrderFrame ==
    ASSUME OrderInv, UNCHANGED <<queue, accepted, delivered, closed>>,
           wireSequence' \in Nat /\ wireSequence \in Nat /\ wireSequence' >= wireSequence,
           finished => finished', QueueTypeOK,
           \A r \in Readers : out'[r] = "eof" => out[r] = "eof"
    PROVE  OrderInv'
<1>1. Expected' = Expected /\ Queued' = Queued
  BY DEF Expected, Queued
<1>2. DeliveredInOrder' /\ Younger' /\ EndedBehind'
  BY <1>1 DEF OrderInv, DeliveredInOrder, Younger, EndedBehind
<1>3. \A s \in ToSet(accepted') : s <= wireSequence'
  BY Numbers DEF OrderInv
<1> QED
  BY <1>2, <1>3 DEF OrderInv

LEMMA OrderStep == QueueTypeOK /\ OrderInv /\ [QueueNext]_notificationVars => OrderInv'
<1> SUFFICES ASSUME QueueTypeOK, OrderInv, [QueueNext]_notificationVars PROVE OrderInv'
  OBVIOUS
<1> USE DEF queueVars, readVars, closeVars, history
<1>1. wireSequence \in Nat
  BY QueueAssumption DEF QueueTypeOK
<1>2. CASE Notify
  <2>1. PICK len \in Lengths :
          IF finished
          THEN Refuse
          ELSE IF HeaderSize + len > Limit - Used(queue)
               THEN Overflow
               ELSE Store([seq |-> wireSequence', len |-> len])
    BY <1>2 DEF Notify
  <2>2. /\ UNCHANGED <<closed, out, delivered>>
        /\ wireSequence' \in Nat /\ wireSequence' >= wireSequence
    BY <1>1, <1>2 DEF Notify
  <2>3. CASE Refuse \/ Overflow
    BY <1>1, <2>2, <2>3, OrderFrame DEF Refuse, Overflow
  <2>4. CASE ~finished /\ Store([seq |-> wireSequence', len |-> len])
    BY <1>2, <2>4, StoreKeepsOrder
  <2> QED
    BY <2>1, <2>3, <2>4
<1>3. CASE PassOver
  BY <1>1, <1>3, OrderFrame DEF PassOver
<1>4. CASE StreamEnds
  BY <1>1, <1>4, OrderFrame DEF StreamEnds
<1>5. ASSUME NEW r \in Readers, NextNotification(r) \/ CancelRead(r) \/ NotificationStep(r)
      PROVE  OrderInv'
  <2>1. CASE TakeRecord(r)
    BY <2>1, TakeKeepsOrder
  <2>2. CASE TakeNothing(r)
    BY <2>2, NothingKeepsOrder
  <2>3. CASE ~TakeRecord(r) /\ ~TakeNothing(r)
    <3>1. UNCHANGED <<wireSequence, queue, accepted, delivered, closed, finished>>
      BY <1>5, <2>3 DEF NextNotification, CancelRead, NotificationStep, AcquireReader, AcquireCanceled,
         NextCanceled, TakeClosed, WakeReady, WakeCanceled, Return
    <3>2. \A s \in Readers : out'[s] = "eof" => out[s] = "eof"
      BY <1>5, <2>3 DEF NextNotification, CancelRead, NotificationStep, AcquireReader, AcquireCanceled,
         NextCanceled, TakeClosed, WakeReady, WakeCanceled, Return, Leave, QueueTypeOK
    <3> QED
      BY <1>1, <3>1, <3>2, OrderFrame
  <2> QED
    BY <2>1, <2>2, <2>3
<1>6. CASE StartClientClose \/ BeginClientClosing
  BY <1>1, <1>6, OrderFrame DEF StartClientClose, BeginClientClosing
<1>7. CASE CloseQueue
  <2>1. queue' = <<>> /\ closed' /\ UNCHANGED <<wireSequence, finished, accepted, delivered, out>>
    BY <1>7 DEF CloseQueue
  <2>2. Queued' = {} /\ Expected' = Expected /\ DOMAIN queue' = {}
    BY <2>1 DEF Queued, Expected
  <2>3. DeliveredInOrder' /\ Younger' /\ EndedBehind'
    BY <2>1, <2>2 DEF OrderInv, DeliveredInOrder, Younger, EndedBehind
  <2> QED
    BY <2>1, <2>2, <2>3 DEF OrderInv
<1>8. CASE UNCHANGED notificationVars
  BY <1>1, <1>8, OrderFrame DEF notificationVars
<1> QED
  BY <1>2, <1>3, <1>4, <1>5, <1>6, <1>7, <1>8 DEF QueueNext

LEMMA OrderInit == QueueInit => OrderInv
<1> SUFFICES ASSUME QueueInit PROVE OrderInv
  OBVIOUS
<1>1. /\ accepted = <<>> /\ delivered = <<>> /\ queue = <<>>
      /\ ToSet(accepted) = {} /\ ToSet(delivered) = {} /\ DOMAIN queue = {}
  BY DEF QueueInit, ToSet
<1>2. Queued = {} /\ Expected = {}
  BY <1>1 DEF Queued, Expected
<1> QED
  BY <1>1, <1>2 DEF OrderInv, DeliveredInOrder, InWireOrder, Younger, EndedBehind, QueueInit

LEMMA Ordered == QueueSpec => [](QueueTypeOK /\ OrderInv)
<1>1. QueueInit => QueueTypeOK /\ OrderInv
  BY InitType, OrderInit
<1>2. QueueTypeOK /\ OrderInv /\ [QueueNext]_notificationVars => (QueueTypeOK /\ OrderInv)'
  BY TypeStep, OrderStep
<1> QED
  BY <1>1, <1>2, PTL DEF QueueSpec

\* However many goroutines call NextNotification, together they get exactly
\* what append stored after After, once and in wire order, until Close.
THEOREM OrderKept == QueueSpec => []DeliveredInOrder
<1>1. OrderInv => DeliveredInOrder
  BY DEF OrderInv
<1> QED
  BY <1>1, Ordered, PTL

\* No read reports an overflow, a reader error or an end before everything
\* queued in front of it was handed out, and nothing is stored behind it.
THEOREM EndComesLast == QueueSpec => EndIsLast
<1>1. QueueTypeOK /\ OrderInv /\ [QueueNext]_notificationVars =>
        [\A r \in Readers :
           out'[r] \in EndErrors \cup {"eof", "lost"} /\ out[r] # out'[r]
             => Expected \subseteq ToSet(delivered)]_notificationVars
  <2> SUFFICES ASSUME QueueTypeOK, OrderInv, QueueNext, NEW r \in Readers,
                      out'[r] \in {"overflow", "reader", "eof", "lost"}, out[r] # out'[r]
               PROVE  Expected \subseteq ToSet(delivered)
    BY DEF EndErrors
  <2> USE DEF readVars, QueueTypeOK, Leave
  <2>1. CASE Notify \/ PassOver \/ StreamEnds \/ StartClientClose \/ BeginClientClosing \/ CloseQueue
    BY <2>1 DEF Notify, PassOver, StreamEnds, StartClientClose, BeginClientClosing, CloseQueue
  <2>2. ASSUME NEW s \in Readers, TakeNothing(s) PROVE Expected \subseteq ToSet(delivered)
    BY <2>2, NothingKeepsOrder
  <2>3. ASSUME NEW s \in Readers, Return(s) PROVE Expected \subseteq ToSet(delivered)
    <3>1. out[r] = "eof"
      BY <2>3 DEF Return
    <3> QED
      BY <3>1 DEF OrderInv, EndedBehind
  <2>4. ASSUME NEW s \in Readers, ~TakeNothing(s), ~Return(s),
               NextNotification(s) \/ CancelRead(s) \/ NotificationStep(s)
        PROVE  FALSE
    BY <2>4 DEF NextNotification, CancelRead, NotificationStep, AcquireReader, AcquireCanceled,
       NextCanceled, TakeClosed, TakeRecord, WakeReady, WakeCanceled
  <2> QED
    BY <2>1, <2>2, <2>3, <2>4 DEF QueueNext, NotificationStep
<1>2. QueueSpec => EndAfterPrefix
  BY <1>1, Ordered, PTL DEF QueueSpec, EndAfterPrefix
<1> QED
  BY <1>2, EndIsFinal, PTL DEF EndIsLast
=============================================================================
