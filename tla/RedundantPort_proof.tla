-------------------------- MODULE RedundantPort_proof --------------------------
(***************************************************************************)
(* Proofs about cable redundancy, for a line of any length, a break        *)
(* anywhere, any number of attempts and any loss of frames.                *)
(***************************************************************************)
EXTENDS RedundantPort, SequenceTheorems, TLAPS

USE RedAssumption DEF RedAssumption, NoBreak, NOFRAME, Slave

--------------------------------------------------------------------------------
(* The slaves a frame meets. *)

LEMMA SpanSeq ==
    ASSUME NEW a \in 1 .. N + 1, NEW b \in 0 .. N, a <= b + 1
    PROVE  /\ Span(a, b) \in Seq(Slave)
           /\ Len(Span(a, b)) = b - a + 1
           /\ \A i \in 1 .. b - a + 1 : Span(a, b)[i] = a + i - 1
<1> DEFINE n == b - a + 1
           t == [i \in 1 .. n |-> a + i - 1]
<1>1. n \in Nat /\ \A i \in 1 .. n : a + i - 1 \in Slave
  OBVIOUS
<1>2. t \in Seq(Slave) /\ Len(t) = n
  <2> HIDE DEF n
  <2>1. QED
    BY <1>1
<1>3. Span(a, b) = t
  BY DEF Span
<1>4. QED
  BY <1>2, <1>3

LEMMA SpanHonest ==
    ASSUME NEW a \in 1 .. N + 1, NEW b \in 0 .. N, a <= b + 1
    PROVE  /\ IsInjective(Span(a, b))
           /\ ToSet(Span(a, b)) = a .. b
           /\ \A s \in Slave : Contains(Span(a, b), s) <=> a <= s /\ s <= b
<1> DEFINE t == Span(a, b)
<1>1. /\ t \in Seq(Slave) /\ Len(t) = b - a + 1
      /\ \A i \in 1 .. b - a + 1 : t[i] = a + i - 1
  BY SpanSeq
<1>2. DOMAIN t = 1 .. b - a + 1
  BY <1>1
<1>3. ASSUME NEW s \in a .. b PROVE s - a + 1 \in 1 .. b - a + 1 /\ t[s - a + 1] = s
  <2>1. s - a + 1 \in 1 .. b - a + 1
    OBVIOUS
  <2>2. t[s - a + 1] = a + (s - a + 1) - 1
    BY <1>1, <2>1
  <2>3. QED
    BY <2>1, <2>2
<1> HIDE DEF t
<1>4. IsInjective(t)
  BY <1>1, <1>2 DEF IsInjective
<1>5. ToSet(t) = a .. b
  <2>1. ASSUME NEW i \in 1 .. b - a + 1 PROVE t[i] \in a .. b
    BY <1>1
  <2>2. QED
    BY <1>2, <1>3, <2>1 DEF ToSet
<1>6. \A s \in Slave : Contains(t, s) <=> a <= s /\ s <= b
  BY <1>1, <1>3 DEF Contains
<1>7. QED
  BY <1>4, <1>5, <1>6 DEF t

\* The two halves of a broken line, one after the other, are the line.
LEMMA SpanJoin == ASSUME NEW b \in 0 .. N PROVE Span(1, b) \o Span(b + 1, N) = Span(1, N)
<1> DEFINE s1 == Span(1, b)
           s2 == Span(b + 1, N)
           s == Span(1, N)
<1>1. s1 \in Seq(Slave) /\ Len(s1) = b /\ \A i \in 1 .. b : s1[i] = i
  <2>1. 1 \in 1 .. N + 1 /\ b \in 0 .. N /\ 1 <= b + 1 /\ b - 1 + 1 = b
    OBVIOUS
  <2>2. /\ s1 \in Seq(Slave) /\ Len(s1) = b - 1 + 1
        /\ \A i \in 1 .. b - 1 + 1 : s1[i] = 1 + i - 1
    BY <2>1, SpanSeq
  <2> HIDE DEF s1
  <2>3. QED
    BY <2>1, <2>2
<1>2. s2 \in Seq(Slave) /\ Len(s2) = N - b /\ \A i \in 1 .. N - b : s2[i] = b + i
  <2>1. b + 1 \in 1 .. N + 1 /\ N \in 0 .. N /\ b + 1 <= N + 1 /\ N - (b + 1) + 1 = N - b
    OBVIOUS
  <2>2. /\ s2 \in Seq(Slave) /\ Len(s2) = N - (b + 1) + 1
        /\ \A i \in 1 .. N - (b + 1) + 1 : s2[i] = (b + 1) + i - 1
    BY <2>1, SpanSeq
  <2> HIDE DEF s2
  <2>3. QED
    BY <2>1, <2>2
<1>3. s \in Seq(Slave) /\ Len(s) = N /\ \A i \in 1 .. N : s[i] = i
  <2>1. 1 \in 1 .. N + 1 /\ N \in 0 .. N /\ 1 <= N + 1 /\ N - 1 + 1 = N
    OBVIOUS
  <2>2. /\ s \in Seq(Slave) /\ Len(s) = N - 1 + 1
        /\ \A i \in 1 .. N - 1 + 1 : s[i] = 1 + i - 1
    BY <2>1, SpanSeq
  <2> HIDE DEF s
  <2>3. QED
    BY <2>1, <2>2
<1> HIDE DEF s1, s2, s
<1>4. /\ s1 \o s2 \in Seq(Slave) /\ Len(s1 \o s2) = N
      /\ \A i \in 1 .. N : (s1 \o s2)[i] = IF i <= b THEN s1[i] ELSE s2[i - b]
  <2>1. /\ s1 \o s2 \in Seq(Slave) /\ Len(s1 \o s2) = Len(s1) + Len(s2)
        /\ \A i \in 1 .. Len(s1) + Len(s2) :
              (s1 \o s2)[i] = IF i <= Len(s1) THEN s1[i] ELSE s2[i - Len(s1)]
    BY <1>1, <1>2, ConcatProperties
  <2>2. Len(s1) + Len(s2) = N
    BY <1>1, <1>2
  <2>3. QED
    BY <1>1, <2>1, <2>2
<1>5. ASSUME NEW i \in 1 .. N PROVE (s1 \o s2)[i] = s[i]
  BY <1>1, <1>2, <1>3, <1>4
<1>6. s1 \o s2 = s
  BY <1>3, <1>4, <1>5, SeqEqual
<1>7. QED
  BY <1>6 DEF s1, s2, s

LEMMA Near ==
    ASSUME broken \in 0 .. NoBreak
    PROVE  /\ FromPrimary \in Seq(Slave)
           /\ Len(FromPrimary) = (IF broken = NoBreak THEN N ELSE broken)
           /\ IsInjective(FromPrimary)
           /\ \A s \in ToSet(FromPrimary) : s \in Slave /\ s <= broken
           /\ \A s \in Slave : Contains(FromPrimary, s) <=> s <= broken
<1>1. PICK b \in 0 .. N : FromPrimary = Span(1, b) /\ b = IF broken = NoBreak THEN N ELSE broken
  BY DEF FromPrimary
<1>2. 1 \in 1 .. N + 1 /\ 1 <= b + 1 /\ b - 1 + 1 = b
  BY <1>1
<1>3. /\ FromPrimary \in Seq(Slave) /\ Len(FromPrimary) = b - 1 + 1
      /\ IsInjective(FromPrimary) /\ ToSet(FromPrimary) = 1 .. b
      /\ \A s \in Slave : Contains(FromPrimary, s) <=> 1 <= s /\ s <= b
  BY <1>1, <1>2, SpanSeq, SpanHonest
<1>4. QED
  BY <1>1, <1>2, <1>3

LEMMA Far ==
    ASSUME broken \in 0 .. NoBreak
    PROVE  /\ FromSecondary \in Seq(Slave)
           /\ Len(FromSecondary) = (IF broken = NoBreak THEN 0 ELSE N - broken)
           /\ IsInjective(FromSecondary)
           /\ \A s \in ToSet(FromSecondary) : s \in Slave /\ s > broken
           /\ \A s \in Slave : Contains(FromSecondary, s) <=> s > broken
<1>1. CASE broken = NoBreak
  <2>1. FromSecondary = <<>>
    BY <1>1 DEF FromSecondary
  <2>2. QED
    BY <1>1, <2>1 DEF IsInjective, ToSet, Contains
<1>2. CASE broken \in 0 .. N
  <2>1. FromSecondary = Span(broken + 1, N)
    BY <1>2 DEF FromSecondary
  <2>2. broken + 1 \in 1 .. N + 1 /\ N \in 0 .. N /\ broken + 1 <= N + 1
    BY <1>2
  <2>3. /\ FromSecondary \in Seq(Slave) /\ Len(FromSecondary) = N - (broken + 1) + 1
        /\ IsInjective(FromSecondary) /\ ToSet(FromSecondary) = broken + 1 .. N
        /\ \A s \in Slave : Contains(FromSecondary, s) <=> broken + 1 <= s /\ s <= N
    BY <2>1, <2>2, SpanSeq, SpanHonest
  <2>4. QED
    BY <1>2, <2>3
<1>3. QED
  BY <1>1, <1>2

\* The datagram after both ways is the datagram in standard order.
LEMMA NearFar ==
    ASSUME broken \in 0 .. NoBreak
    PROVE  FromPrimary \o FromSecondary = Span(1, N)
<1>1. CASE broken = NoBreak
  <2>1. FromSecondary = <<>> /\ FromPrimary = Span(1, N) /\ Span(1, N) \in Seq(Slave)
    BY <1>1, Near DEF FromPrimary, FromSecondary
  <2>2. QED
    BY <2>1, ConcatEmptySeq
<1>2. CASE broken \in 0 .. N
  <2>1. FromPrimary = Span(1, broken) /\ FromSecondary = Span(broken + 1, N)
    BY <1>2 DEF FromPrimary, FromSecondary
  <2>2. QED
    BY <1>2, <2>1, SpanJoin
<1>3. QED
  BY <1>1, <1>2

--------------------------------------------------------------------------------
(* Types. *)

TypeInv == TypeOK /\ (pc = "outprim" => try < MaxTry)

LEMMA ServeType == ASSUME TypeOK, NEW slaves, Serve(slaves) PROVE served' \in [Slave -> Nat]
BY DEF TypeOK, Serve

LEMMA SentType ==
    ASSUME TypeOK, NEW kind \in {"own", "dummy"}, NEW mac \in {"PRIM", "SEC"},
           NEW n \in 0 .. MaxTry, NEW by \in Seq(Slave), NEW way \in Seq(Slave)
    PROVE  Frame(kind, mac, n, by \o way) \in FrameType
<1>1. by \o way \in Seq(Slave)
  BY ConcatProperties
<1>2. QED
  BY <1>1 DEF Frame, FrameType

LEMMA TypeStep == TypeInv /\ [Next]_vars => TypeInv'
<1> SUFFICES ASSUME TypeInv, [Next]_vars PROVE TypeInv'
  OBVIOUS
<1> USE DEF TypeInv
<1>1. CASE UNCHANGED vars
  BY <1>1 DEF vars, TypeOK
<1>2. CASE SendPrimary
  <2>1. try + 1 \in 0 .. MaxTry
    BY <1>2 DEF SendPrimary, TypeOK
  <2>2. Frame("own", "PRIM", try + 1, txbuf \o FromPrimary) \in FrameType
    BY <2>1, Near, SentType DEF TypeOK
  <2>3. prim' \subseteq FrameType /\ sec' \subseteq FrameType
    BY <1>2, <2>2 DEF SendPrimary, TravelFromPrimary, TypeOK
  <2>4. served' \in [Slave -> Nat]
    BY <1>2, ServeType DEF SendPrimary
  <2>5. QED
    BY <1>2, <2>1, <2>3, <2>4 DEF SendPrimary, TypeOK
<1>3. CASE SendDummy
  <2>1. <<>> \in Seq(Slave)
    OBVIOUS
  <2>2. Frame("dummy", "SEC", try, <<>> \o FromSecondary) \in FrameType
    BY <2>1, Far, SentType DEF TypeOK
  <2>3. prim' \subseteq FrameType /\ sec' \subseteq FrameType
    BY <1>3, <2>2 DEF SendDummy, TravelFromSecondary, TypeOK
  <2>4. QED
    BY <1>3, <2>3 DEF SendDummy, TypeOK
<1>4. CASE RecvPrimary
  <2>1. \A f \in FrameType : wkcOf(f) \in Nat
    BY DEF FrameType, wkcOf
  <2>2. QED
    BY <1>4, <2>1 DEF RecvPrimary, TypeOK
<1>5. CASE RecvSecondary
  <2>1. \A f \in FrameType : wkcOf(f) \in Nat
    BY DEF FrameType, wkcOf
  <2>2. QED
    BY <1>5, <2>1 DEF RecvSecondary, TypeOK
<1>6. CASE Crossed
  <2>1. rxprim' \in FrameType
    BY <1>6 DEF Crossed, TypeOK, FrameType
  <2>2. QED
    BY <1>6, <2>1 DEF Crossed, TypeOK
<1>7. CASE Reroute
  <2>1. txbuf' \in Seq(Slave)
    BY <1>7 DEF Reroute, TypeOK, FrameType
  <2>2. QED
    BY <1>7, <2>1 DEF Reroute, TypeOK
<1>8. CASE NoReroute
  BY <1>8 DEF NoReroute, TypeOK
<1>9. CASE Resend
  <2>1. Frame("own", "PRIM", try, txbuf \o FromSecondary) \in FrameType
    BY Far, SentType DEF TypeOK
  <2>2. prim' \subseteq FrameType /\ sec' \subseteq FrameType
    BY <1>9, <2>1 DEF Resend, TravelFromSecondary, TypeOK
  <2>3. served' \in [Slave -> Nat]
    BY <1>9, ServeType DEF Resend
  <2>4. QED
    BY <1>9, <2>2, <2>3 DEF Resend, TypeOK
<1>10. CASE RecvResend
  <2>1. PICK f \in sec : /\ sec' = sec \ {f}
                         /\ rxsec' = f
                         /\ rxprim' = [f EXCEPT !.mac = rxprim.mac]
                         /\ wkc2' = wkcOf(f)
                         /\ wkc' = wkcOf(f)
    BY <1>10 DEF RecvResend
  <2>2. f \in FrameType /\ wkcOf(f) \in Nat
    BY <2>1 DEF TypeOK, FrameType, wkcOf
  <2>3. rxprim' \in FrameType
    BY <2>1, <2>2 DEF TypeOK, FrameType
  <2>4. QED
    BY <1>10, <2>1, <2>2, <2>3 DEF RecvResend, TypeOK
<1>11. CASE ResendLost
  BY <1>11 DEF ResendLost, TypeOK
<1>12. CASE Again
  BY <1>12 DEF Again, TypeOK
<1>13. CASE Return
  BY <1>13 DEF Return, TypeOK
<1>14. CASE Timer1
  BY <1>14 DEF Timer1, TypeOK
<1>15. CASE LoseFrame
  BY <1>15 DEF LoseFrame, TypeOK
<1>16. CASE ChangeCable
  BY <1>16 DEF ChangeCable, TypeOK
<1>17. QED
  BY <1>1, <1>2, <1>3, <1>4, <1>5, <1>6, <1>7, <1>8, <1>9, <1>10, <1>11, <1>12,
     <1>13, <1>14, <1>15, <1>16 DEF Next, Thread, Done

LEMMA TypeInit == Init => TypeInv
<1>1. <<>> \in Seq(Slave) /\ NoReply \in FrameType
  BY DEF NoReply, Frame, FrameType
<1>2. ASSUME Init PROVE TypeInv
  <2>1. served \in [Slave -> Nat] /\ broken \in 0 .. NoBreak
    BY <1>2 DEF Init
  <2>2. txbuf \in Seq(Slave) /\ rxprim \in FrameType /\ rxsec \in FrameType
    BY <1>1, <1>2 DEF Init
  <2>3. /\ prim \subseteq FrameType /\ sec \subseteq FrameType
        /\ wkc \in Nat \cup {NOFRAME} /\ wkc2 \in Nat \cup {NOFRAME}
        /\ pc = "outprim" /\ try \in 0 .. MaxTry /\ try < MaxTry /\ changes \in 0 .. MaxChange
    BY <1>2 DEF Init
  <2>4. expired \in BOOLEAN /\ lost \in BOOLEAN
    BY <1>2 DEF Init
  <2>5. QED
    BY <2>1, <2>2, <2>3, <2>4 DEF TypeInv, TypeOK
<1>3. QED
  BY <1>2

LEMMA TypeInvHolds == Spec => []TypeInv
BY TypeInit, TypeStep, PTL DEF Spec

\* Every variable keeps its type: the frames on the cable and in the buffers are
\* well formed and no slave is numbered that is not in the line, however often the
\* cable changes.  (The counter has no smaller bound than a natural number: a cable
\* that changes twice has slaves counted twice.)
THEOREM TypeCorrect == Spec => []TypeOK
<1>1. TypeInv => TypeOK
  BY DEF TypeInv
<1>2. QED
  BY <1>1, TypeInvHolds, PTL

--------------------------------------------------------------------------------
(* One transaction over a cable that does not change, with timers that outlast *)
(* the travel of a frame.                                                      *)

LEMMA ServedBy ==
    ASSUME TypeOK, NEW slaves, Serve(slaves), NEW s \in Slave
    PROVE  served'[s] = IF Contains(slaves, s) THEN served[s] + 1 ELSE served[s]
BY DEF TypeOK, Serve

LEMMA SendPrimaryKeeps ==
    ASSUME TypeOK, RedInv, changes = 0, SendPrimary PROVE RedInv'
<1>1. /\ prim = {} /\ sec = {} /\ txbuf = <<>>
      /\ ~lost => \A s \in Slave : served[s] = 0
      /\ broken' = broken /\ lost' = lost /\ txbuf' = txbuf /\ try' = try + 1
      /\ pc' = "outsec"
  BY DEF RedInv, BeforeAttempt, SendPrimary
<1>2. txbuf \o FromPrimary = FromPrimary /\ FromPrimary' = FromPrimary
  BY <1>1, Near, ConcatEmptySeq DEF TypeOK, FromPrimary
<1>3. /\ prim' = IF broken \in Slave THEN {Datagram'} ELSE {}
      /\ sec' = IF broken = NoBreak THEN {Datagram'} ELSE {}
  BY <1>1, <1>2 DEF SendPrimary, TravelFromPrimary, Datagram
<1>4. Datagram' # Dummy'
  BY DEF Datagram, Dummy, Frame
<1>5. prim' = (ToPrim \ {Dummy})' /\ sec' = (ToSec \ {Dummy})'
  BY <1>1, <1>3, <1>4 DEF ToPrim, ToSec, TypeOK
<1>6. \A s \in Slave : served'[s] = IF s <= broken THEN served[s] + 1 ELSE served[s]
  BY ServedBy, Near DEF SendPrimary, TypeOK
<1>7. ServedNear' /\ UnservedFar'
  BY <1>1, <1>6 DEF ServedNear, UnservedFar, TypeOK
<1>8. QED
  BY <1>1, <1>5, <1>7 DEF RedInv, BeforeAttempt, HalfSent, Awaited, Rerouting, Concluded

LEMMA SendDummyKeeps ==
    ASSUME TypeOK, RedInv, changes = 0, SendDummy PROVE RedInv'
<1>1. /\ txbuf = <<>>
      /\ prim \subseteq ToPrim \ {Dummy} /\ sec \subseteq ToSec \ {Dummy}
      /\ ~lost => prim = ToPrim \ {Dummy} /\ sec = ToSec \ {Dummy}
      /\ ServedNear /\ UnservedFar
      /\ broken' = broken /\ lost' = lost /\ txbuf' = txbuf /\ try' = try /\ served' = served
      /\ pc' = "wait" /\ wkc' = NOFRAME /\ wkc2' = NOFRAME
  BY DEF RedInv, HalfSent, SendDummy
<1>2. <<>> \o FromSecondary = FromSecondary
  BY Far, ConcatEmptySeq DEF TypeOK
<1>3. /\ prim' = IF broken = NoBreak THEN prim \cup {Dummy} ELSE prim
      /\ sec' = IF broken \in 0 .. N - 1 THEN sec \cup {Dummy} ELSE sec
  BY <1>2 DEF SendDummy, TravelFromSecondary, Dummy
<1>4. ToPrim' = ToPrim /\ ToSec' = ToSec
  BY <1>1 DEF ToPrim, ToSec, Datagram, Dummy, FromPrimary, FromSecondary
<1>5. Datagram # Dummy
  BY DEF Datagram, Dummy, Frame
<1>6. /\ broken = NoBreak => Dummy \in ToPrim
      /\ broken \in 0 .. N - 1 => Dummy \in ToSec
      /\ broken # NoBreak => Dummy \notin ToPrim
      /\ broken \notin 0 .. N - 1 => Dummy \notin ToSec
  BY <1>5 DEF ToPrim, ToSec
<1>7. /\ prim' \subseteq ToPrim' /\ sec' \subseteq ToSec'
      /\ ~lost' => prim' = ToPrim' /\ sec' = ToSec'
  <2> HIDE DEF NoBreak
  <2>1. QED
    BY <1>1, <1>3, <1>4, <1>6
<1>8. ServedNear' /\ UnservedFar'
  BY <1>1 DEF ServedNear, UnservedFar
<1>9. QED
  BY <1>1, <1>7, <1>8 DEF RedInv, BeforeAttempt, HalfSent, Awaited, Rerouting, Concluded

LEMMA RecvPrimaryKeeps ==
    ASSUME TypeOK, RedInv, changes = 0, RecvPrimary PROVE RedInv'
<1>1. PICK f \in prim : prim' = prim \ {f} /\ rxprim' = f /\ wkc' = wkcOf(f)
  BY DEF RecvPrimary
<1>2. /\ Awaited /\ pc = "wait" /\ wkc = NOFRAME
      /\ UNCHANGED <<broken, sec, txbuf, rxsec, wkc2, pc, try, expired, served, lost, changes>>
  BY DEF RedInv, RecvPrimary
<1>3. ToPrim' = ToPrim /\ ToSec' = ToSec
  BY <1>2 DEF ToPrim, ToSec, Datagram, Dummy, FromPrimary, FromSecondary
<1>4. \A f1, f2 \in ToPrim : f1 = f2
  BY DEF ToPrim
<1>5. prim' = {} /\ rxprim' \in ToPrim /\ wkc' = wkcOf(rxprim') /\ wkc' \in Nat
  BY <1>1, <1>2, <1>4 DEF Awaited, wkcOf, TypeOK, FrameType
<1>6. ServedNear' /\ UnservedFar'
  BY <1>2 DEF Awaited, ServedNear, UnservedFar
<1>7. wkcOf(rxprim)' = wkcOf(rxprim') /\ wkcOf(rxsec)' = wkcOf(rxsec)
  BY <1>2 DEF wkcOf
<1>8. Awaited'
  BY <1>2, <1>3, <1>5, <1>6, <1>7 DEF Awaited
<1>9. QED
  BY <1>2, <1>8 DEF RedInv, BeforeAttempt, HalfSent, Rerouting, Concluded

LEMMA RecvSecondaryKeeps ==
    ASSUME TypeOK, RedInv, changes = 0, RecvSecondary PROVE RedInv'
<1>1. PICK f \in sec : sec' = sec \ {f} /\ rxsec' = f /\ wkc2' = wkcOf(f)
  BY DEF RecvSecondary
<1>2. /\ Awaited /\ pc = "wait" /\ wkc2 = NOFRAME
      /\ UNCHANGED <<broken, prim, txbuf, rxprim, wkc, pc, try, expired, served, lost, changes>>
  BY DEF RedInv, RecvSecondary
<1>3. ToPrim' = ToPrim /\ ToSec' = ToSec
  BY <1>2 DEF ToPrim, ToSec, Datagram, Dummy, FromPrimary, FromSecondary
<1>4. \A f1, f2 \in ToSec : f1 = f2
  BY DEF ToSec
<1>5. sec' = {} /\ rxsec' \in ToSec /\ wkc2' = wkcOf(rxsec') /\ wkc2' \in Nat
  BY <1>1, <1>2, <1>4 DEF Awaited, wkcOf, TypeOK, FrameType
<1>6. ServedNear' /\ UnservedFar'
  BY <1>2 DEF Awaited, ServedNear, UnservedFar
<1>7. wkcOf(rxprim)' = wkcOf(rxprim) /\ wkcOf(rxsec)' = wkcOf(rxsec')
  BY <1>2 DEF wkcOf
<1>8. Awaited'
  BY <1>2, <1>3, <1>5, <1>6, <1>7 DEF Awaited
<1>9. QED
  BY <1>2, <1>8 DEF RedInv, BeforeAttempt, HalfSent, Rerouting, Concluded

\* When the wait is over every frame of the attempt is in its buffer or lost, and
\* the MAC addresses tell which frame is where.
LEMMA WhatCameBack ==
    ASSUME Timely, TypeOK, RedInv, changes = 0, pc = "wait", WaitOver
    PROVE  /\ prim = {} /\ sec = {} /\ txbuf = <<>> /\ ServedNear /\ UnservedFar
           /\ wkc = NOFRAME => primrx = "none" /\ (~lost => ToPrim = {})
           /\ wkc2 = NOFRAME => secrx = "none" /\ (~lost => ToSec = {})
           /\ wkc # NOFRAME => /\ wkc = wkcOf(rxprim)
                               /\ \/ broken = NoBreak /\ rxprim = Dummy /\ primrx = "SEC"
                                  \/ broken \in Slave /\ rxprim = Datagram /\ primrx = "PRIM"
           /\ wkc2 # NOFRAME => /\ wkc2 = wkcOf(rxsec)
                                /\ \/ broken = NoBreak /\ rxsec = Datagram /\ secrx = "PRIM"
                                   \/ broken \in 0 .. N - 1 /\ rxsec = Dummy /\ secrx = "SEC"
<1>1. Awaited
  BY DEF RedInv
<1>2. Datagram.mac = "PRIM" /\ Dummy.mac = "SEC"
  BY DEF Datagram, Dummy, Frame
<1>3. prim = {} /\ sec = {}
  BY <1>1 DEF Awaited, WaitOver
<1>4. /\ wkc = NOFRAME => primrx = "none"
      /\ wkc2 = NOFRAME => secrx = "none"
      /\ wkc # NOFRAME => primrx = rxprim.mac
      /\ wkc2 # NOFRAME => secrx = rxsec.mac
  BY DEF primrx, secrx
<1>5. /\ ~lost /\ wkc = NOFRAME => ToPrim = {}
      /\ ~lost /\ wkc2 = NOFRAME => ToSec = {}
  BY <1>1, <1>3 DEF Awaited
<1>6. wkc # NOFRAME => /\ wkc = wkcOf(rxprim)
                       /\ \/ broken = NoBreak /\ rxprim = Dummy
                          \/ broken \in Slave /\ rxprim = Datagram
  BY <1>1 DEF Awaited, ToPrim
<1>7. wkc2 # NOFRAME => /\ wkc2 = wkcOf(rxsec)
                        /\ \/ broken = NoBreak /\ rxsec = Datagram
                           \/ broken \in 0 .. N - 1 /\ rxsec = Dummy
  BY <1>1 DEF Awaited, ToSec
<1>8. txbuf = <<>> /\ ServedNear /\ UnservedFar
  BY <1>1 DEF Awaited
<1>9. QED
  BY <1>2, <1>3, <1>4, <1>5, <1>6, <1>7, <1>8

LEMMA CrossedKeeps ==
    ASSUME Timely, TypeOK, RedInv, changes = 0, Crossed PROVE RedInv'
<1>1. /\ prim = {} /\ sec = {} /\ txbuf = <<>> /\ ServedNear
      /\ broken = NoBreak /\ rxsec = Datagram /\ wkc2 = wkcOf(rxsec)
  BY WhatCameBack DEF Crossed, TypeOK
<1>2. /\ rxprim' = [Datagram EXCEPT !.mac = rxprim.mac] /\ wkc' = wkc2 /\ pc' = "confirm"
      /\ UNCHANGED <<broken, prim, sec, txbuf, served, lost, try>>
  BY <1>1 DEF Crossed
<1>3. rxprim'.kind = "own" /\ rxprim'.by = FromPrimary /\ wkc' = Len(FromPrimary)
  BY <1>1, <1>2 DEF Datagram, Frame, wkcOf
<1>4. FromPrimary = Span(1, N) /\ Len(FromPrimary) = N /\ IsInjective(FromPrimary)
  BY <1>1, Near DEF FromPrimary, TypeOK
<1>5. \A s \in Slave : served'[s] > 0 /\ (~lost' => served'[s] = 1)
  BY <1>1, <1>2 DEF ServedNear
<1>6. \A s \in ToSet(FromPrimary) : s \in Slave
  BY Near DEF TypeOK
<1>7. HonestCount'
  BY <1>3, <1>4, <1>5, <1>6 DEF HonestCount, wkcOf
<1>8. Result'
  BY <1>3, <1>4, <1>5, <1>7 DEF Result
<1>9. Concluded'
  BY <1>1, <1>2, <1>8 DEF Concluded
<1>10. QED
  BY <1>2, <1>9 DEF RedInv, BeforeAttempt, HalfSent, Awaited, Rerouting

LEMMA RerouteKeeps ==
    ASSUME Timely, TypeOK, RedInv, changes = 0, Reroute PROVE RedInv'
<1>1. /\ prim = {} /\ sec = {} /\ txbuf = <<>> /\ ServedNear /\ UnservedFar
      /\ broken \in 0 .. N - 1
  BY WhatCameBack DEF Reroute, TypeOK
<1>2. \/ wkc = NOFRAME /\ primrx = "none" /\ (~lost => ToPrim = {})
      \/ broken \in Slave /\ rxprim = Datagram /\ primrx = "PRIM" /\ wkc = wkcOf(rxprim)
  BY <1>1, WhatCameBack DEF Reroute, TypeOK
<1>3. /\ txbuf' = (IF primrx = "PRIM" THEN rxprim.by ELSE txbuf) /\ pc' = "resend"
      /\ UNCHANGED <<broken, prim, sec, served, lost, try, rxprim, wkc, changes>>
  BY DEF Reroute
<1>4. ~lost /\ ToPrim = {} => broken = 0
  BY <1>1 DEF ToPrim
<1>5. Datagram' = Datagram /\ FromPrimary' = FromPrimary
  BY <1>3 DEF Datagram, FromPrimary
<1>6. Len(FromPrimary) = broken /\ Datagram.by = FromPrimary
  BY <1>1, Near DEF Datagram, Frame, TypeOK
<1>7. ServedNear' /\ UnservedFar'
  BY <1>1, <1>3 DEF ServedNear, UnservedFar
<1>8. \/ wkc' = NOFRAME /\ txbuf' = <<>> /\ (lost' \/ broken' = 0)
      \/ rxprim' = Datagram' /\ txbuf' = FromPrimary' /\ broken' > 0 /\ wkc' = broken'
  BY <1>1, <1>2, <1>3, <1>4, <1>5, <1>6 DEF wkcOf
<1>9. HalfDone'
  BY <1>1, <1>3, <1>7, <1>8 DEF HalfDone
<1>10. QED
  BY <1>1, <1>3, <1>7, <1>9 DEF RedInv, BeforeAttempt, HalfSent, Awaited, Rerouting, Concluded

\* The datagram alone, wherever it turned round, is an honest result.
LEMMA DatagramIsHonest ==
    ASSUME TypeOK, rxprim = Datagram, wkc = Len(FromPrimary), ServedNear PROVE HonestCount
<1>1. rxprim.kind = "own" /\ rxprim.by = FromPrimary
  BY DEF Datagram, Frame
<1>2. IsInjective(FromPrimary) /\ \A s \in ToSet(FromPrimary) : s \in Slave /\ s <= broken
  BY Near DEF TypeOK
<1>3. QED
  BY <1>1, <1>2 DEF HonestCount, wkcOf, ServedNear

LEMMA NoRerouteKeeps ==
    ASSUME Timely, TypeOK, RedInv, changes = 0, NoReroute PROVE RedInv'
<1>1. /\ prim = {} /\ sec = {} /\ txbuf = <<>> /\ ServedNear /\ UnservedFar
      /\ pc' = "confirm"
      /\ UNCHANGED <<broken, prim, sec, txbuf, rxprim, wkc, served, lost, changes, try>>
  BY WhatCameBack DEF NoReroute
<1>2. /\ wkc = NOFRAME => primrx = "none" /\ (~lost => ToPrim = {})
      /\ wkc2 = NOFRAME => secrx = "none" /\ (~lost => ToSec = {})
      /\ wkc # NOFRAME => /\ wkc = wkcOf(rxprim)
                          /\ \/ broken = NoBreak /\ rxprim = Dummy /\ primrx = "SEC"
                             \/ broken \in Slave /\ rxprim = Datagram /\ primrx = "PRIM"
      /\ wkc2 # NOFRAME => /\ \/ broken = NoBreak /\ secrx = "PRIM"
                              \/ broken \in 0 .. N - 1 /\ secrx = "SEC"
  BY WhatCameBack DEF NoReroute
<1>3. ~(primrx = "SEC" /\ secrx = "PRIM") /\ ~(primrx \in {"none", "PRIM"} /\ secrx = "SEC")
  BY DEF NoReroute
<1>4. wkcOf(Datagram) = Len(FromPrimary) /\ wkcOf(Dummy) = Len(FromSecondary)
  BY DEF wkcOf, Datagram, Dummy, Frame
<1>5. wkc > 0 => rxprim = Datagram /\ wkc = Len(FromPrimary)
  BY <1>2, <1>4, Far DEF TypeOK
<1>6. wkc > 0 => HonestCount
  BY <1>1, <1>5, DatagramIsHonest
<1>7. ASSUME ~lost PROVE broken = N /\ rxprim = Datagram /\ wkc = Len(FromPrimary)
  <2>1. ToPrim = {} => broken = 0
    <3>1. broken # 0 => Dummy \in ToPrim \/ Datagram \in ToPrim
      BY DEF ToPrim, TypeOK
    <3>2. QED
      BY <3>1
  <2>2. ToSec = {} => broken = N
    BY DEF ToSec, TypeOK
  <2>3. broken = N
    BY <1>2, <1>3, <1>7, <2>1, <2>2 DEF TypeOK
  <2>4. QED
    BY <1>2, <1>4, <1>7, <2>1, <2>3
<1>8. ASSUME ~lost PROVE wkc = N /\ rxprim.kind = "own" /\ rxprim.by = Span(1, N)
                         /\ \A s \in Slave : served[s] = 1
  <2>1. FromPrimary = Span(1, N) /\ Len(FromPrimary) = N
    BY <1>7, <1>8, Near DEF FromPrimary, TypeOK
  <2>2. QED
    BY <1>1, <1>7, <1>8, <2>1 DEF Datagram, Frame, ServedNear
<1>9. Result
  BY <1>6, <1>8 DEF Result
<1>10. Result'
  BY <1>1, <1>9 DEF Result, HonestCount, wkcOf
<1>11. QED
  BY <1>1, <1>10 DEF RedInv, BeforeAttempt, HalfSent, Awaited, Rerouting, Concluded

LEMMA ResendKeeps ==
    ASSUME Timely, TypeOK, RedInv, changes = 0, Resend PROVE RedInv'
<1>1. HalfDone /\ sec = {} /\ UnservedFar
  BY DEF RedInv, Rerouting, Resend
<1>2. /\ pc' = "waitresend"
      /\ UNCHANGED <<broken, txbuf, rxprim, wkc, lost, try, changes>>
  BY DEF Resend
<1>3. prim' = {} /\ sec' = {Rerouted}
  BY <1>1 DEF HalfDone, Resend, TravelFromSecondary, Rerouted
<1>4. Rerouted' = Rerouted /\ Datagram' = Datagram /\ FromPrimary' = FromPrimary
  BY <1>2 DEF Rerouted, Datagram, FromPrimary, FromSecondary
<1>5. \A s \in Slave : served'[s] = IF s > broken THEN served[s] + 1 ELSE served[s]
  BY ServedBy, Far DEF Resend, TypeOK
<1>6. ServedNear' /\ ServedFar'
  BY <1>1, <1>2, <1>5 DEF HalfDone, ServedNear, ServedFar, UnservedFar, TypeOK
<1>7. HalfDone'
  BY <1>1, <1>2, <1>3, <1>4, <1>6 DEF HalfDone
<1>8. QED
  BY <1>2, <1>3, <1>4, <1>6, <1>7 DEF RedInv, BeforeAttempt, HalfSent, Awaited, Rerouting, Concluded

LEMMA RecvResendKeeps ==
    ASSUME Timely, TypeOK, RedInv, changes = 0, RecvResend PROVE RedInv'
<1>1. HalfDone /\ ServedFar /\ sec \subseteq {Rerouted}
  BY DEF RedInv, Rerouting, RecvResend
<1>2. /\ sec' = {} /\ pc' = "confirm" /\ wkc' = wkcOf(Rerouted)
      /\ rxprim' = [Rerouted EXCEPT !.mac = rxprim.mac]
      /\ UNCHANGED <<broken, prim, served, lost, changes>>
  BY <1>1 DEF RecvResend
<1>3. /\ rxprim'.kind = "own" /\ rxprim'.by = txbuf \o FromSecondary
      /\ wkc' = Len(txbuf \o FromSecondary)
  BY <1>2 DEF Rerouted, Frame, wkcOf
<1>4. \A s \in Slave : served'[s] > 0 /\ (~lost' => served'[s] = 1)
  BY <1>1, <1>2 DEF HalfDone, ServedNear, ServedFar, TypeOK
<1>5. \/ txbuf \o FromSecondary = FromSecondary /\ lost
      \/ txbuf \o FromSecondary = Span(1, N)
  <2>1. CASE txbuf = <<>> /\ (lost \/ broken = 0)
    <3>1. txbuf \o FromSecondary = FromSecondary
      BY <2>1, Far, ConcatEmptySeq DEF TypeOK
    <3>2. broken = 0 => FromSecondary = Span(1, N)
      BY DEF FromSecondary
    <3>3. QED
      BY <2>1, <3>1, <3>2
  <2>2. CASE txbuf = FromPrimary
    BY <2>2, NearFar DEF TypeOK
  <2>3. QED
    BY <1>1, <2>1, <2>2 DEF HalfDone
<1>6. /\ Len(Span(1, N)) = N /\ IsInjective(Span(1, N)) /\ ToSet(Span(1, N)) = Slave
  <2>1. 1 \in 1 .. N + 1 /\ N \in 0 .. N /\ 1 <= N + 1 /\ N - 1 + 1 = N
    OBVIOUS
  <2>2. QED
    BY <2>1, SpanSeq, SpanHonest
<1>7. IsInjective(FromSecondary) /\ \A s \in ToSet(FromSecondary) : s \in Slave
  BY Far DEF TypeOK
<1>8. HonestCount'
  BY <1>3, <1>4, <1>5, <1>6, <1>7 DEF HonestCount, wkcOf
<1>9. ~lost' => wkc' = N /\ rxprim'.by = Span(1, N)
  BY <1>2, <1>3, <1>5, <1>6
<1>10. Result'
  BY <1>3, <1>4, <1>8, <1>9 DEF Result
<1>11. wkc' \in Nat /\ prim' = {}
  BY <1>1, <1>2, <1>3, <1>5, <1>6, Far DEF HalfDone, TypeOK
<1>12. QED
  BY <1>2, <1>10, <1>11 DEF RedInv, BeforeAttempt, HalfSent, Awaited, Rerouting, Concluded

LEMMA ResendLostKeeps ==
    ASSUME Timely, TypeOK, RedInv, changes = 0, ResendLost PROVE RedInv'
<1>1. HalfDone /\ sec = {} /\ lost
  BY DEF RedInv, Rerouting, ResendLost
<1>2. /\ pc' = "confirm"
      /\ UNCHANGED <<broken, prim, sec, txbuf, rxprim, wkc, served, lost, changes>>
  BY DEF ResendLost
<1>3. wkc > 0 => HonestCount
  BY <1>1, Near, DatagramIsHonest DEF HalfDone, TypeOK
<1>4. Result'
  BY <1>1, <1>2, <1>3 DEF Result, HonestCount, wkcOf
<1>5. wkc = NOFRAME => txbuf = <<>>
  BY <1>1 DEF HalfDone
<1>6. Concluded'
  BY <1>1, <1>2, <1>4, <1>5 DEF Concluded, HalfDone
<1>7. QED
  BY <1>2, <1>6 DEF RedInv, BeforeAttempt, HalfSent, Awaited, Rerouting

\* A step that leaves the line and the result alone, after the wait.
LEMMA ResultKept ==
    ASSUME Result, UNCHANGED <<rxprim, wkc, served>>, lost => lost' PROVE Result'
BY DEF Result, HonestCount, wkcOf

LEMMA AgainKeeps ==
    ASSUME TypeOK, RedInv, changes = 0, Again PROVE RedInv'
<1>1. Result /\ prim = {} /\ sec = {} /\ wkc = NOFRAME /\ txbuf = <<>> /\ try < MaxTry
  BY DEF RedInv, Concluded, Again, TypeOK
<1>2. lost
  BY <1>1 DEF Result
<1>3. BeforeAttempt'
  BY <1>1, <1>2 DEF BeforeAttempt, Again
<1>4. QED
  BY <1>1, <1>3 DEF Again, RedInv, HalfSent, Awaited, Rerouting, Concluded

LEMMA LoseFrameKeeps ==
    ASSUME TypeOK, RedInv, changes = 0, LoseFrame PROVE RedInv'
<1>1. /\ prim' \subseteq prim /\ sec' \subseteq sec /\ lost' = TRUE
      /\ UNCHANGED <<broken, txbuf, rxprim, rxsec, wkc, wkc2, pc, try, served, changes>>
  BY DEF LoseFrame
<1>2. ToPrim' = ToPrim /\ ToSec' = ToSec /\ Dummy' = Dummy /\ Datagram' = Datagram
      /\ Rerouted' = Rerouted /\ FromPrimary' = FromPrimary
  BY <1>1 DEF ToPrim, ToSec, Datagram, Dummy, Rerouted, FromPrimary, FromSecondary
<1>3. (ServedNear => ServedNear') /\ (ServedFar => ServedFar') /\ UnservedFar'
  BY <1>1 DEF ServedNear, ServedFar, UnservedFar
<1>4. wkcOf(rxprim)' = wkcOf(rxprim) /\ wkcOf(rxsec)' = wkcOf(rxsec)
  BY <1>1 DEF wkcOf
<1>5. BeforeAttempt'
  BY <1>1 DEF RedInv, BeforeAttempt
<1>6. HalfSent'
  BY <1>1, <1>2, <1>3 DEF RedInv, HalfSent
<1>7. Awaited'
  BY <1>1, <1>2, <1>3, <1>4 DEF RedInv, Awaited
<1>8. HalfDone => HalfDone'
  BY <1>1, <1>2, <1>3 DEF HalfDone
<1>9. Rerouting'
  BY <1>1, <1>2, <1>3, <1>8 DEF RedInv, Rerouting
<1>10. Concluded'
  BY <1>1, ResultKept DEF RedInv, Concluded
<1>11. QED
  BY <1>1, <1>5, <1>6, <1>7, <1>9, <1>10 DEF RedInv

\* A step that changes neither the line nor the buffers nor the place of the thread.
LEMMA NothingMoves ==
    ASSUME RedInv,
           UNCHANGED <<broken, prim, sec, txbuf, rxprim, rxsec, wkc, wkc2, pc, try, served, lost, changes>>
    PROVE  RedInv'
<1>1. ToPrim' = ToPrim /\ ToSec' = ToSec /\ Dummy' = Dummy /\ Datagram' = Datagram
      /\ Rerouted' = Rerouted /\ FromPrimary' = FromPrimary
  BY DEF ToPrim, ToSec, Datagram, Dummy, Rerouted, FromPrimary, FromSecondary
<1>2. (ServedNear => ServedNear') /\ (ServedFar => ServedFar') /\ (UnservedFar => UnservedFar')
  BY DEF ServedNear, ServedFar, UnservedFar
<1>3. wkcOf(rxprim)' = wkcOf(rxprim) /\ wkcOf(rxsec)' = wkcOf(rxsec)
  BY DEF wkcOf
<1>4. HalfDone => HalfDone'
  BY <1>1, <1>2 DEF HalfDone
<1>5. Concluded => Concluded'
  BY ResultKept DEF Concluded
<1>6. (Awaited => Awaited') /\ (HalfSent => HalfSent')
  BY <1>1, <1>2, <1>3 DEF Awaited, HalfSent
<1>7. (BeforeAttempt => BeforeAttempt') /\ (Rerouting => Rerouting')
  BY <1>1, <1>2, <1>4 DEF BeforeAttempt, Rerouting
<1>8. QED
  BY <1>5, <1>6, <1>7 DEF RedInv

LEMMA RedInvStep == ASSUME Timely PROVE TypeInv /\ RedInv /\ [Next]_vars => RedInv'
<1> SUFFICES ASSUME TypeInv, RedInv, [Next]_vars PROVE RedInv'
  OBVIOUS
<1> USE DEF TypeInv
<1>1. TypeInv'
  BY TypeStep
<1>2. CASE changes # 0
  <2>1. changes' # 0
    BY <1>2 DEF TypeOK, Next, Thread, vars, Done, SendPrimary, SendDummy, RecvPrimary, RecvSecondary,
       Crossed, Reroute, NoReroute, Resend, RecvResend, ResendLost, Again, Return, Timer1,
       LoseFrame, ChangeCable
  <2>2. QED
    BY <1>1, <2>1 DEF RedInv
<1>3. CASE changes = 0 /\ ChangeCable
  <2>1. changes' # 0
    BY <1>3 DEF ChangeCable
  <2>2. QED
    BY <1>1, <2>1 DEF RedInv
<1>4. CASE changes = 0 /\ Return
  <2>1. Result /\ pc' = "done" /\ UNCHANGED <<rxprim, wkc, served, lost>>
    BY <1>4 DEF RedInv, Concluded, Return
  <2>2. QED
    BY <2>1, ResultKept DEF RedInv, BeforeAttempt, HalfSent, Awaited, Rerouting, Concluded
<1>5. CASE changes = 0 /\ (Timer1 \/ Done \/ UNCHANGED vars)
  BY <1>5, NothingMoves DEF Timer1, Done, vars
<1>6. CASE changes = 0 /\ Thread
  BY <1>4, <1>6, SendPrimaryKeeps, SendDummyKeeps, RecvPrimaryKeeps, RecvSecondaryKeeps, CrossedKeeps,
     RerouteKeeps, NoRerouteKeeps, ResendKeeps, RecvResendKeeps, ResendLostKeeps, AgainKeeps
     DEF Thread
<1>7. CASE changes = 0 /\ LoseFrame
  BY <1>7, LoseFrameKeeps
<1>8. QED
  BY <1>2, <1>3, <1>5, <1>6, <1>7 DEF Next

LEMMA RedInvInit == Init => RedInv
BY DEF Init, RedInv, BeforeAttempt, HalfSent, Awaited, Rerouting, Concluded

LEMMA RedInvHolds == ASSUME Timely PROVE Spec => []RedInv
BY RedInvInit, RedInvStep, TypeInvHolds, PTL DEF Spec

\* "Any one of the connections (also an interconnect) can be removed and the slaves
\* are still serviced with packets": however long the line and wherever its one
\* break, each slave processes the datagram exactly once, in the standard order,
\* and the primary buffer holds the result of all, unless a frame is lost.
THEOREM EverySlaveIsServiced == ASSUME Timely PROVE Spec => []Serviced
<1>1. RedInv => Serviced
  BY DEF RedInv, Concluded, Result, Serviced
<1>2. QED
  BY <1>1, RedInvHolds, PTL

\* However many frames are lost, and over any number of attempts: a positive
\* working counter belongs to the datagram and counts slaves that have served it,
\* each once.
THEOREM CounterIsHonest == ASSUME Timely PROVE Spec => []WkcIsHonest
<1>1. RedInv => WkcIsHonest
  BY DEF RedInv, Concluded, Result, WkcIsHonest
<1>2. QED
  BY <1>1, RedInvHolds, PTL
================================================================================
