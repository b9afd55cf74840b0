---------------------------- MODULE MotorApp_proof ----------------------------
(***************************************************************************)
(* Proofs about the motor controller, for any commands, values and number  *)
(* of samples, any interleaving of its two threads, any cut of the stream  *)
(* of commands into reads and any number of lost frames and faults.        *)
(***************************************************************************)
EXTENDS MotorApp, SequenceTheorems, TLAPS

USE AppAssumption DEF AppAssumption

Drives == [state : States, ack : BOOLEAN, setpoint : BOOLEAN, follows : Modes \X Velocities]
Statuses == [state : States, ack : BOOLEAN, place : Place]

--------------------------------------------------------------------------------
(* Types. *)

LEMMA DriveType == ASSUME TypeOK, DriveTakes PROVE drive' \in Drives
<1> DEFINE s == NextState(drive.state, rx.control_word)
           bit == rx.control_word = "NEW_SETPOINT"
           taken == s = "enabled" /\ rx.mode_of_operation = "PPM" /\ bit /\ ~drive.setpoint
           follows == CASE s # "enabled" -> <<"none", Zero>>
                        [] s = "enabled" /\ rx.mode_of_operation = "CSV" -> <<"CSV", rx.target_velocity>>
                        [] s = "enabled" /\ rx.mode_of_operation = "CST" -> <<"CST", rx.target_torque>>
                        [] taken -> <<"PPM", rx.target_position>>
                        [] OTHER -> drive.follows
<1>1. s \in States
  BY DEF TypeOK, NextState, States, Ladder
<1>2. follows \in Modes \X Velocities
  <2>1. /\ rx.target_velocity \in Velocities /\ rx.target_torque \in Velocities
        /\ rx.target_position \in Velocities
    BY DEF TypeOK, Outputs, Velocities
  <2>2. drive.follows \in Modes \X Velocities
    BY DEF TypeOK
  <2>3. Zero \in Velocities /\ {"none", "CSV", "CST", "PPM"} \subseteq Modes
    BY DEF Velocities, Numbers, Modes
  <2>4. QED
    BY <2>1, <2>2, <2>3
<1>3. drive' = [state |-> s, setpoint |-> bit,
                ack |-> s = "enabled" /\ bit /\ (taken \/ drive.ack), follows |-> follows]
  BY DEF DriveTakes
<1>4. bit \in BOOLEAN /\ (s = "enabled" /\ bit /\ (taken \/ drive.ack)) \in BOOLEAN
  OBVIOUS
<1> HIDE DEF s, bit, taken, follows
<1>5. QED
  BY <1>1, <1>2, <1>3, <1>4 DEF Drives

LEMMA StartType == NoInput \in Inputs /\ NoOutput \in Outputs /\ NoStatus \in Statuses
BY DEF NoInput, NoOutput, NoStatus, Status, Inputs, Outputs, Statuses, Controls, Modes, Velocities,
   Numbers, States, Ladder, Place

--------------------------------------------------------------------------------
(* The stream. *)

LEMMA SeqOfMore == ASSUME NEW S, NEW T, S \subseteq T, NEW s \in Seq(S) PROVE s \in Seq(T)
OBVIOUS

LEMMA UnitsType ==
    ASSUME NEW n, NEW c
    PROVE  /\ Len(Units(n, c)) = (IF c.mode \in WithValue THEN 5 ELSE 3)
           /\ DOMAIN Units(n, c) = 1 .. Len(Units(n, c))
           /\ \A k \in DOMAIN Units(n, c) : Units(n, c)[k] = <<n, k>>
           /\ Units(n, c) \in Seq({<<n, k>> : k \in 1 .. 5})
<1> DEFINE m == IF c.mode \in WithValue THEN 5 ELSE 3
           f == [k \in 1 .. m |-> <<n, k>>]
<1>1. m \in Nat /\ m <= 5
  OBVIOUS
<1>2. Units(n, c) = f
  BY DEF Units
<1> HIDE DEF m
<1>3. f \in [1 .. m -> {<<n, k>> : k \in 1 .. 5}]
  BY <1>1
<1>4. f \in Seq({<<n, k>> : k \in 1 .. 5}) /\ Len(f) = m
  BY <1>1, <1>3
<1>5. QED
  BY <1>2, <1>4 DEF m

LEMMA UnitsSent ==
    ASSUME NEW wire_ \in Seq(SentUnits), NEW j \in DOMAIN wire_
    PROVE  /\ wire_[j] = <<wire_[j][1], wire_[j][2]>>
           /\ wire_[j][1] \in DOMAIN sent /\ wire_[j][2] \in 1 .. 5
<1>1. wire_[j] \in SentUnits
  OBVIOUS
<1>2. QED
  BY <1>1 DEF SentUnits

LEMMA ReceivedType ==
    ASSUME TypeOK, NEW n \in DOMAIN wire
    PROVE  /\ Received(n) \in Seq(SentUnits)
           /\ SubSeq(wire, n + 1, Len(wire)) \in Seq(SentUnits)
           /\ \A j \in 1 .. n : j \in DOMAIN Received(n) /\ Received(n)[j] = wire[j]
<1>1. wire \in Seq(SentUnits) /\ buffer \in Seq(SentUnits) /\ n \in 1 .. Len(wire)
  BY DEF TypeOK
<1>2. /\ SubSeq(wire, 1, n) \in Seq(SentUnits) /\ Len(SubSeq(wire, 1, n)) = n
      /\ \A j \in 1 .. n : SubSeq(wire, 1, n)[j] = wire[j]
  BY <1>1
<1>3. SubSeq(buffer, n + 1, Len(buffer)) \in Seq(SentUnits)
  BY <1>1
<1>4. SubSeq(wire, n + 1, Len(wire)) \in Seq(SentUnits)
  BY <1>1
<1>5. QED
  BY <1>1, <1>2, <1>3, <1>4 DEF Received

\* What is decoded has a mode and a value.
LEMMA DecodedType ==
    ASSUME TypeOK, NEW b \in Seq(SentUnits), NEW p \in Decoded(b)
    PROVE  p \in [mode : Headings, value : Numbers]
<1>0. /\ \A c \in Cmd : c.mode \in Headings /\ c.value \in Numbers
      /\ Junk \subseteq Headings /\ Zero \in Numbers /\ Torn \in Numbers
  BY DEF Headings, Numbers
<1>1. ASSUME NEW d \in Seq(SentUnits), NEW j, NEW q \in DecodedAt(d, j)
      PROVE  q \in [mode : Headings, value : Numbers]
  <2>1. \A i, k : IsUnit(d, i, k) => d[i][1] \in DOMAIN sent
    BY UnitsSent DEF IsUnit
  <2>2. \A i \in DOMAIN sent : sent[i] \in Cmd
    BY DEF TypeOK
  <2>3. Headers(d, j) \subseteq Headings
    BY <1>0, <2>1, <2>2 DEF Headers
  <2>4. ValueAt(d, j + 1) \in Numbers
    BY <1>0, <2>1, <2>2 DEF ValueAt
  <2>5. PICK h \in Headers(d, j) : q = [mode |-> h, value |-> IF h \in WithValue THEN ValueAt(d, j + 1) ELSE Zero]
    BY DEF DecodedAt
  <2>6. (IF h \in WithValue THEN ValueAt(d, j + 1) ELSE Zero) \in Numbers
    BY <1>0, <2>4
  <2>7. QED
    BY <2>3, <2>5, <2>6
<1>2. <<>> \in Seq(SentUnits)
  OBVIOUS
<1>3. QED
  BY <1>1, <1>2 DEF Decoded, TypeOK

\* A whole packet at the start of the buffer is what is decoded.
LEMMA WholeIsDecoded ==
    ASSUME TypeOK, NEW b \in Seq(SentUnits), NEW i \in DOMAIN sent,
           \A k \in DOMAIN Packet(i) : k \in DOMAIN b /\ b[k] = <<i, k>>,
           NEW p \in Decoded(b)
    PROVE  p = sent[i]
<1>1. sent[i] \in Cmd
  BY DEF TypeOK
<1>2. DOMAIN Packet(i) = 1 .. (IF sent[i].mode \in WithValue THEN 5 ELSE 3)
  BY UnitsType DEF Packet
<1>3. IsUnit(b, 1, CR) /\ IsUnit(b, 2, LF) /\ IsUnit(b, 3, Header)
  BY <1>2 DEF IsUnit, CR, LF, Header
<1>4. 1 \in Marked(b) /\ \A j \in Marked(b) : j \in Nat /\ 1 <= j
  <2>1. \A j \in DOMAIN b : j \in Nat /\ 1 <= j
    OBVIOUS
  <2>2. Marked(b) \subseteq DOMAIN b
    BY DEF Marked
  <2>3. 1 \in DOMAIN b /\ 1 + 1 = 2
    BY <1>3 DEF IsUnit
  <2>4. 1 \in Marked(b)
    BY <1>3, <2>3 DEF Marked
  <2>5. QED
    BY <2>1, <2>2, <2>4
<1>5. FirstMark(b) = 1
  <2>1. \E j \in Marked(b) : \A l \in Marked(b) : j <= l
    BY <1>4
  <2>2. FirstMark(b) \in Marked(b) /\ \A l \in Marked(b) : FirstMark(b) <= l
    BY <2>1 DEF FirstMark
  <2>3. QED
    BY <1>4, <2>2
<1>6. Decoded(b) = DecodedAt(b, 3)
  BY <1>4, <1>5 DEF Decoded
<1>7. Headers(b, 3) = {sent[i].mode}
  BY <1>2, <1>3 DEF Headers
<1>8. sent[i].mode \in WithValue => ValueAt(b, 4) = sent[i].value
  BY <1>2 DEF ValueAt, IsUnit, Low, High
<1>9. sent[i].mode \notin WithValue => sent[i].value = Zero
  BY <1>1
<1>10. sent[i] = [mode |-> sent[i].mode, value |-> sent[i].value]
  BY <1>1
<1>11. p = [mode |-> sent[i].mode, value |-> IF sent[i].mode \in WithValue THEN ValueAt(b, 4) ELSE Zero]
  BY <1>6, <1>7 DEF DecodedAt
<1>12. QED
  BY <1>8, <1>9, <1>10, <1>11

\* A read that returns just one packet.
LEMMA JustOne ==
    ASSUME TypeOK, NEW n \in DOMAIN wire, JustPacket(n) # 0
    PROVE  /\ JustPacket(n) \in DOMAIN sent
           /\ \A k \in DOMAIN Packet(JustPacket(n)) : k \in 1 .. n /\ wire[k] = <<JustPacket(n), k>>
<1>1. wire \in Seq(SentUnits) /\ n \in 1 .. Len(wire)
  BY DEF TypeOK
<1>2. PICK i \in DOMAIN sent : SubSeq(wire, 1, n) = Packet(i)
  BY DEF JustPacket
<1>3. Len(SubSeq(wire, 1, n)) = n /\ \A j \in 1 .. n : SubSeq(wire, 1, n)[j] = wire[j]
  BY <1>1
<1>4. DOMAIN Packet(i) = 1 .. n /\ \A k \in DOMAIN Packet(i) : Packet(i)[k] = <<i, k>>
  <2>1. /\ DOMAIN Packet(i) = 1 .. Len(Packet(i))
        /\ \A k \in DOMAIN Packet(i) : Packet(i)[k] = <<i, k>>
    BY UnitsType DEF Packet
  <2>2. Len(Packet(i)) = n
    BY <1>2, <1>3
  <2>3. QED
    BY <2>1, <2>2
<1>5. wire[1] = <<i, 1>>
  <2>1. 1 \in 1 .. n
    BY <1>1
  <2>2. QED
    BY <1>2, <1>3, <1>4, <2>1
<1>6. JustPacket(n) = i
  BY <1>2, <1>5 DEF JustPacket
<1>7. QED
  BY <1>2, <1>3, <1>4, <1>6

--------------------------------------------------------------------------------
(* The type invariant. *)

LEMMA TypeStep == TypeOK /\ [Next]_vars => TypeOK'
<1> SUFFICES ASSUME TypeOK, [Next]_vars PROVE TypeOK'
  OBVIOUS
<1> USE DEF guiVars, tcpVars, readVars, sharedVars, rtVars
<1>0. sent' = sent => SentUnits' = SentUnits
  BY DEF SentUnits
<1>1. CASE UNCHANGED vars
  BY <1>0, <1>1 DEF vars, TypeOK
<1>2. CASE GuiSend
  <2>1. PICK c \in Cmd : sent' = Append(sent, c) /\ wire' = wire \o Units(Len(sent) + 1, c)
    BY <1>2 DEF GuiSend
  <2>2. sent \in Seq(Cmd) /\ wire \in Seq(SentUnits) /\ buffer \in Seq(SentUnits)
    BY DEF TypeOK
  <2>3. sent' \in Seq(Cmd) /\ DOMAIN sent' = DOMAIN sent \cup {Len(sent) + 1}
    BY <2>1, <2>2
  <2>4. SentUnits \subseteq SentUnits' /\ {<<Len(sent) + 1, k>> : k \in 1 .. 5} \subseteq SentUnits'
    <3>1. \A i \in DOMAIN sent, k \in 1 .. 5 : <<i, k>> \in SentUnits'
      BY <2>3 DEF SentUnits
    <3>2. \A k \in 1 .. 5 : <<Len(sent) + 1, k>> \in SentUnits'
      BY <2>3 DEF SentUnits
    <3>3. QED
      BY <3>1, <3>2 DEF SentUnits
  <2>5. Units(Len(sent) + 1, c) \in Seq(SentUnits')
    <3>1. Units(Len(sent) + 1, c) \in Seq({<<Len(sent) + 1, k>> : k \in 1 .. 5})
      BY UnitsType
    <3>2. QED
      BY <2>4, <3>1, SeqOfMore
  <2>6. wire \in Seq(SentUnits') /\ buffer \in Seq(SentUnits')
    BY <2>2, <2>4, SeqOfMore
  <2>7. wire' \in Seq(SentUnits')
    BY <2>1, <2>5, <2>6
  <2>8. QED
    BY <1>2, <2>3, <2>6, <2>7 DEF GuiSend, TypeOK
<1>3. CASE ReadPacket
  <2>1. PICK n \in DOMAIN wire : ReadUnits(n) /\ packet' \in Decoded(Received(n))
    BY <1>3 DEF ReadPacket
  <2>2. packet' \in [mode : Headings, value : Numbers]
    BY <2>1, ReceivedType, DecodedType
  <2>3. packet' # NoPacket
    <3>1. "none" \notin Headings
      BY DEF Headings, WithValue, WithoutValue
    <3>2. QED
      BY <2>2, <3>1 DEF NoPacket
  <2>4. whole' \in {0} \cup DOMAIN sent
    BY <2>1, JustOne DEF ReadUnits
  <2>5. buffer' \in Seq(SentUnits) /\ wire' \in Seq(SentUnits)
    BY <2>1, ReceivedType DEF ReadUnits
  <2>6. troubles' \in 0 .. MaxTrouble /\ cut' \in BOOLEAN
    BY <2>1 DEF ReadUnits, TypeOK, EndsInside
  <2>7. QED
    BY <1>0, <2>1, <2>2, <2>3, <2>4, <2>5, <2>6 DEF ReadUnits, TypeOK
<1>4. CASE StoreMode
  <2>1. packet.mode \in Headings /\ packet # NoPacket
    BY <1>4 DEF StoreMode, TypeOK
  <2>2. zeroed' \in BOOLEAN
    BY <1>4 DEF StoreMode, TypeOK
  <2>3. QED
    BY <1>0, <1>4, <2>1, <2>2 DEF StoreMode, TypeOK
<1>5. CASE StoreValue
  <2>1. packet.value \in Numbers /\ packet # NoPacket
    BY <1>5 DEF StoreValue, TypeOK
  <2>2. input' \in Inputs
    BY <1>5, <2>1 DEF StoreValue, TypeOK, Inputs
  <2>3. QED
    BY <1>0, <1>5, <2>1, <2>2 DEF StoreValue, TypeOK
<1>6. CASE ReadEnd
  <2>1. NoInput \in Inputs /\ NoOutput \in Outputs /\ NoStatus \in Statuses
    BY StartType
  <2>2. "STOP_MOTOR" \in Headings
    BY DEF Headings, WithoutValue
  <2>3. 0 \in 0 .. Samples + 4
    OBVIOUS
  <2>4. wire' \in Seq(SentUnits') /\ buffer' \in Seq(SentUnits')
    BY <1>6 DEF ReadEnd
  <2>5. QED
    BY <1>0, <1>6, <2>1, <2>2, <2>3, <2>4 DEF ReadEnd, TypeOK, Statuses
<1>7. CASE DriveFault
  <2>1. drive' \in Drives
    BY <1>7 DEF DriveFault, TypeOK, Drives, States, Ladder, Modes, Velocities, Numbers
  <2>2. troubles' \in 0 .. MaxTrouble
    BY <1>7 DEF DriveFault, TypeOK
  <2>3. QED
    BY <1>0, <1>7, <2>1, <2>2 DEF DriveFault, TypeOK, Drives
<1>8. CASE Exchange
  <2>1. tx' \in Statuses
    BY <1>8 DEF Exchange, Status, TypeOK, Place, Statuses
  <2>2. drive' \in Drives
    BY <1>8, DriveType DEF Exchange
  <2>3. QED
    BY <1>0, <1>8, <2>1, <2>2 DEF Exchange, TypeOK, Drives, Statuses
<1>9. CASE ExchangeLost
  <2>1. drive' \in Drives
    BY <1>9, DriveType DEF ExchangeLost, TypeOK, Drives
  <2>2. troubles' \in 0 .. MaxTrouble
    BY <1>9 DEF ExchangeLost, TypeOK
  <2>3. QED
    BY <1>0, <1>9, <2>1, <2>2 DEF ExchangeLost, TypeOK, Drives
<1>10. CASE UserCode
  <2>0. Zero \in Numbers
    BY DEF Numbers
  <2>1. {Zero, Wave, Homing, input.velocity} \subseteq Velocities
    BY <2>0 DEF TypeOK, Inputs, Velocities
  <2>2. input.torque \in Numbers /\ input.position \in Numbers
    BY DEF TypeOK, Inputs
  <2>3. {"CSV", "CST", "PPM"} \subseteq Modes /\ {"NEW_SETPOINT", "SWITCH_ON_ENABLE"} \subseteq Controls
    BY DEF Modes, Controls
  <2>4. rx \in Outputs
    BY DEF TypeOK
  <2>5. CASE Enable
    <3>1. Ladder[tx.state] \in Controls
      BY <1>10, <2>5 DEF Enable, TypeOK, States, Ladder, Controls
    <3>2. rx' \in Outputs
      BY <2>4, <2>5, <3>1 DEF Enable, Outputs
    <3>3. QED
      BY <1>0, <2>5, <3>2 DEF Enable, TypeOK
  <2>6. CASE ReadMode
    BY <1>0, <2>6 DEF ReadMode, TypeOK
  <2>7. ASSUME NEW m, NEW v \in Velocities, Velocity(m, v) PROVE TypeOK'
    <3>1. rx' \in Outputs
      BY <2>3, <2>4, <2>7 DEF Velocity, Outputs
    <3>2. QED
      BY <1>0, <2>7, <3>1 DEF Velocity, Applied, Chosen, NotTouched, TypeOK
  <2>8. CASE ApplyStop \/ ApplyCSV \/ ApplyBackAndForth
    BY <2>1, <2>7, <2>8 DEF ApplyStop, ApplyCSV, ApplyBackAndForth
  <2>9. CASE ApplyCST
    <3>1. rx' \in Outputs
      BY <2>2, <2>3, <2>4, <2>9 DEF ApplyCST, Outputs
    <3>2. QED
      BY <1>0, <2>9, <3>1 DEF ApplyCST, Applied, Chosen, NotTouched, TypeOK
  <2>10. CASE ApplySinusoidal
    <3>1. rx' \in Outputs
      BY <2>1, <2>3, <2>4, <2>10 DEF ApplySinusoidal, Outputs
    <3>2. cnt' \in 0 .. Samples + 4
      BY <2>10 DEF ApplySinusoidal, TypeOK
    <3>3. QED
      BY <1>0, <2>10, <3>1, <3>2 DEF ApplySinusoidal, Applied, Chosen, NotTouched, TypeOK
  <2>11. CASE ApplyPPM
    <3>1. rx' \in Outputs
      BY <2>2, <2>3, <2>4, <2>11 DEF ApplyPPM, Outputs
    <3>2. cnt' \in 0 .. Samples + 4
      BY <2>11 DEF ApplyPPM, NextCnt, TypeOK
    <3>3. QED
      BY <1>0, <2>11, <3>1, <3>2 DEF ApplyPPM, Applied, Chosen, NotTouched, TypeOK
  <2>12. CASE ApplySetZero
    <3>1. rx' \in Outputs
      BY <2>1, <2>3, <2>4, <2>12 DEF ApplySetZero, Outputs
    <3>2. rpc' \in {"cycle", "hand"} /\ hand' \in {hand, {"mode", "position"}}
      BY <2>12 DEF ApplySetZero
    <3>3. QED
      BY <1>0, <2>12, <3>1, <3>2 DEF ApplySetZero, Chosen, NotTouched, TypeOK
  <2>13. CASE HandOver
    <3>1. PICK x \in hand : /\ hand' = hand \ {x}
                            /\ mode' = IF x = "mode" THEN "PPM" ELSE mode
                            /\ input' = IF x = "position" THEN [input EXCEPT !.position = Zero] ELSE input
      BY <2>13 DEF HandOver
    <3>2. mode' \in {mode, "PPM"} /\ "PPM" \in Headings
      BY <3>1 DEF Headings, WithValue
    <3>3. input' \in Inputs
      BY <2>0, <3>1 DEF TypeOK, Inputs
    <3>4. QED
      BY <1>0, <2>13, <3>1, <3>2, <3>3 DEF HandOver, NotTouched, TypeOK
  <2>14. CASE ApplyNothing
    BY <1>0, <2>14 DEF ApplyNothing, Applied, Chosen, NotTouched, TypeOK
  <2>15. QED
    BY <1>10, <2>5, <2>6, <2>8, <2>9, <2>10, <2>11, <2>12, <2>13, <2>14 DEF UserCode
<1>11. CASE Exited
  BY <1>0, <1>11 DEF Exited, vars, TypeOK
<1>12. QED
  BY <1>1, <1>2, <1>3, <1>4, <1>5, <1>6, <1>7, <1>8, <1>9, <1>10, <1>11 DEF Next, Acyclic

LEMMA TypeInit == Init => TypeOK
<1> SUFFICES ASSUME Init PROVE TypeOK
  OBVIOUS
<1>1. NoInput \in Inputs /\ NoOutput \in Outputs /\ NoStatus \in Statuses
  BY StartType
<1>2. drive \in Drives
  BY DEF Init, Drives, States, Ladder, Modes, Velocities, Numbers
<1>3. sent \in Seq(Cmd) /\ wire \in Seq(SentUnits) /\ buffer \in Seq(SentUnits)
  BY DEF Init
<1>4. 0 \in 0 .. Samples + 4 /\ 0 \in 0 .. MaxTrouble
  OBVIOUS
<1>5. "STOP_MOTOR" \in Headings
  BY DEF Headings, WithoutValue
<1>6. QED
  BY <1>1, <1>2, <1>3, <1>4, <1>5 DEF Init, TypeOK, Drives, Statuses

\* The type invariant.
THEOREM TypeCorrect == Spec => []TypeOK
BY TypeInit, TypeStep, PTL DEF Spec

--------------------------------------------------------------------------------
(* What has been sent. *)

LEMMA SentGrows ==
    ASSUME TypeOK, GuiSend
    PROVE  \E c \in Cmd : /\ sent' = Append(sent, c)
                          /\ wire' = wire \o Units(Len(sent) + 1, c)
                          /\ Last' = c
                          /\ DOMAIN sent' = DOMAIN sent \cup {Len(sent) + 1}
                          /\ sent'[Len(sent) + 1] = c
                          /\ \A i \in DOMAIN sent : sent'[i] = sent[i]
<1>1. PICK c \in Cmd : sent' = Append(sent, c) /\ wire' = wire \o Units(Len(sent) + 1, c)
  BY DEF GuiSend
<1>2. sent \in Seq(Cmd)
  BY DEF TypeOK
<1>3. Len(sent') = Len(sent) + 1 /\ sent'[Len(sent) + 1] = c /\ Len(sent) \in Nat
  BY <1>1, <1>2
<1>4. Last' = c
  <2>1. sent' # <<>>
    BY <1>1, <1>2
  <2>2. QED
    BY <1>3, <2>1 DEF Last
<1>5. /\ DOMAIN sent' = DOMAIN sent \cup {Len(sent) + 1}
      /\ \A i \in DOMAIN sent : sent'[i] = sent[i]
  BY <1>1, <1>2
<1>6. QED
  BY <1>1, <1>3, <1>4, <1>5

LEMMA OnlyTheGuiSends == ASSUME [Next]_vars, ~GuiSend PROVE sent' = sent
BY DEF Next, vars, guiVars, Acyclic, ReadPacket, ReadUnits, StoreMode, StoreValue, ReadEnd, DriveFault,
       Exchange, ExchangeLost, UserCode, Enable, ReadMode, Velocity, ApplyStop, ApplyCSV,
       ApplyBackAndForth, ApplyCST, ApplySinusoidal, ApplyPPM, ApplySetZero, HandOver, ApplyNothing, NotTouched, Exited

\* No step takes back what has been sent, and a cut has been made for good.
LEMMA SentStays ==
    ASSUME TypeOK, [Next]_vars
    PROVE  /\ \A m \in WithValue : Sent(m) \subseteq Sent(m)'
           /\ \A c : (\E j \in DOMAIN sent : c = sent[j]) => \E j \in DOMAIN sent' : c = sent'[j]
           /\ ~cut' => ~cut
<1>1. ~cut' => ~cut
  BY DEF TypeOK, Next, vars, tcpVars, readVars, Acyclic, ReadPacket, ReadUnits, StoreMode, StoreValue, ReadEnd, DriveFault,
       GuiSend, Exchange, ExchangeLost, UserCode, Enable, ReadMode, Velocity, ApplyStop, ApplyCSV,
       ApplyBackAndForth, ApplyCST, ApplySinusoidal, ApplyPPM, ApplySetZero, HandOver, ApplyNothing, NotTouched, Exited
<1>2. CASE GuiSend
  BY <1>1, <1>2, SentGrows DEF Sent
<1>3. CASE ~GuiSend
  <2>1. sent' = sent
    BY <1>3, OnlyTheGuiSends
  <2>2. QED
    BY <1>1, <2>1 DEF Sent
<1>4. QED
  BY <1>2, <1>3

\* As long as packets come whole, a whole packet is taken.
LEMMA ReadsWhole ==
    ASSUME AppInv, ~cut', NEW n \in DOMAIN wire, ReadUnits(n), packet' \in Decoded(Received(n))
    PROVE  \E i \in DOMAIN sent : packet' = sent[i]
<1> USE DEF AppInv
<1>1. ~cut /\ ~EndsInside(n)
  BY DEF ReadUnits, TypeOK
<1>2. wire \in Seq(SentUnits) /\ n \in 1 .. Len(wire) /\ 1 \in DOMAIN wire
  BY DEF TypeOK
<1>3. PICK i \in DOMAIN sent : i = wire[1][1]
  BY <1>2, UnitsSent
<1>4. \A k \in DOMAIN Packet(i) : 1 + k - 1 \in DOMAIN wire /\ wire[1 + k - 1] = <<i, k>>
  BY <1>1, <1>2, <1>3 DEF WholePackets
<1>5. DOMAIN Packet(i) = 1 .. Len(Packet(i)) /\ Len(Packet(i)) \in Nat
  BY UnitsType DEF Packet
<1>6. \A k \in DOMAIN Packet(i) : k \in DOMAIN wire /\ wire[k] = <<i, k>>
  BY <1>4, <1>5
<1>7. \A k \in DOMAIN Packet(i) : k \in 1 .. n
  <2> SUFFICES ASSUME NEW k \in DOMAIN Packet(i), k > n PROVE FALSE
    BY <1>2, <1>5
  <2>1. n + 1 \in DOMAIN Packet(i) /\ n + 1 # CR
    BY <1>2, <1>5 DEF CR
  <2>2. n < Len(wire) /\ wire[n + 1][2] = n + 1
    BY <1>2, <1>6, <2>1
  <2>3. QED
    BY <1>1, <2>1, <2>2 DEF EndsInside
<1>8. Received(n) \in Seq(SentUnits) /\ \A k \in DOMAIN Packet(i) : k \in DOMAIN Received(n) /\ Received(n)[k] = <<i, k>>
  BY <1>6, <1>7, ReceivedType
<1>9. QED
  BY <1>8, WholeIsDecoded

LEMMA PacketStep == ASSUME AppInv, [Next]_vars PROVE PacketIsSent'
<1> USE DEF AppInv
<1> SUFFICES ASSUME ~cut' PROVE (packet = NoPacket \/ \E i \in DOMAIN sent : packet = sent[i])'
  BY DEF PacketIsSent
<1>1. /\ ~cut
      /\ \A c : (\E j \in DOMAIN sent : c = sent[j]) => \E j \in DOMAIN sent' : c = sent'[j]
  BY SentStays
<1>2. CASE ReadPacket
  <2>1. PICK n \in DOMAIN wire : ReadUnits(n) /\ packet' \in Decoded(Received(n))
    BY <1>2 DEF ReadPacket
  <2>2. \E i \in DOMAIN sent : packet' = sent[i]
    BY <2>1, ReadsWhole
  <2>3. sent' = sent
    BY <2>1 DEF ReadUnits
  <2>4. QED
    BY <2>2, <2>3
<1>3. CASE ~ReadPacket
  <2>1. packet' \in {packet, NoPacket}
    BY <1>3 DEF Next, vars, tcpVars, readVars, Acyclic, StoreMode, StoreValue, ReadEnd, DriveFault,
       GuiSend, Exchange, ExchangeLost, UserCode, Enable, ReadMode, Velocity, ApplyStop, ApplyCSV,
       ApplyBackAndForth, ApplyCST, ApplySinusoidal, ApplyPPM, ApplySetZero, HandOver, ApplyNothing, NotTouched, Exited
  <2>2. QED
    BY <1>1, <2>1 DEF PacketIsSent
<1>4. QED
  BY <1>2, <1>3

--------------------------------------------------------------------------------
(* Whole packets in the socket. *)

LEMMA WholeAppend ==
    ASSUME NEW S, NEW w \in Seq(S), NEW T, NEW u \in Seq(T), NEW j \in DOMAIN (w \o u)
    PROVE  \/ j \in DOMAIN w /\ (w \o u)[j] = w[j]
           \/ j > Len(w) /\ j - Len(w) \in DOMAIN u /\ (w \o u)[j] = u[j - Len(w)]
OBVIOUS

LEMMA WholeSend == ASSUME TypeOK, WholePackets, GuiSend, ~cut PROVE WholePackets'
<1>1. PICK c \in Cmd : /\ wire' = wire \o Units(Len(sent) + 1, c)
                       /\ sent'[Len(sent) + 1] = c
                       /\ \A i \in DOMAIN sent : sent'[i] = sent[i]
  BY SentGrows
<1> DEFINE l == Len(wire)
<1>m. PICK m : m = Len(sent) + 1
  OBVIOUS
<1>u. PICK u : u = Units(m, c)
  OBVIOUS
<1>2. /\ u \in Seq({<<m, k>> : k \in 1 .. 5}) /\ Len(u) >= 3 /\ DOMAIN u = 1 .. Len(u) /\ Len(u) \in Nat
      /\ \A k \in DOMAIN u : u[k] = <<m, k>>
  <2>1. /\ u \in Seq({<<m, k>> : k \in 1 .. 5}) /\ DOMAIN u = 1 .. Len(u)
        /\ \A k \in DOMAIN u : u[k] = <<m, k>>
    BY <1>u, UnitsType
  <2>2. Len(u) = (IF c.mode \in WithValue THEN 5 ELSE 3)
    BY <1>u, UnitsType
  <2>3. QED
    BY <2>1, <2>2
<1>3. wire \in Seq(SentUnits) /\ l \in Nat /\ DOMAIN wire = 1 .. l
  BY DEF TypeOK
<1>4. Units(m, sent'[m]) = u /\ \A i \in DOMAIN sent : Units(i, sent'[i]) = Packet(i)
  BY <1>1, <1>m, <1>u DEF Packet
<1>5. wire' = wire \o u
  BY <1>1, <1>m, <1>u
<1> HIDE DEF l
<1>6. DOMAIN wire' = 1 .. l + Len(u) /\ (\A j \in DOMAIN wire : j \in DOMAIN wire' /\ wire'[j] = wire[j])
  BY <1>2, <1>3, <1>5 DEF l
<1>7. \A k \in DOMAIN u : l + k \in DOMAIN wire' /\ wire'[l + k] = <<m, k>>
  <2> TAKE k \in DOMAIN u
  <2>1. k \in 1 .. Len(u) /\ l + k \in DOMAIN wire'
    BY <1>2, <1>3, <1>6
  <2>2. wire'[l + k] = u[k]
    BY <1>2, <1>3, <1>5, <2>1 DEF l
  <2>3. QED
    BY <1>2, <2>1, <2>2
<1>8. wire'[1][2] = CR
  <2>1. CASE wire = <<>>
    <3>1. l = 0 /\ 1 \in DOMAIN u
      BY <1>2, <2>1 DEF l
    <3>2. wire'[1] = <<m, 1>>
      BY <1>7, <3>1
    <3>3. QED
      BY <3>2 DEF CR
  <2>2. CASE wire # <<>>
    <3>1. 1 \in DOMAIN wire
      BY <1>3, <2>2
    <3>2. QED
      BY <1>6, <2>2, <3>1 DEF WholePackets
  <2>3. QED
    BY <2>1, <2>2
<1>9. ASSUME NEW j \in DOMAIN wire', wire'[j][2] = CR, NEW k \in DOMAIN Units(wire'[j][1], sent'[wire'[j][1]])
      PROVE  j + k - 1 \in DOMAIN wire' /\ wire'[j + k - 1] = <<wire'[j][1], k>>
  <2>1. CASE j \in DOMAIN wire
    <3>1. wire'[j] = wire[j] /\ wire[j][1] \in DOMAIN sent
      BY <1>3, <1>6, <2>1, UnitsSent
    <3>2. k \in DOMAIN Packet(wire[j][1])
      BY <1>4, <1>9, <3>1
    <3>3. j + k - 1 \in DOMAIN wire /\ wire[j + k - 1] = <<wire[j][1], k>>
      BY <1>9, <2>1, <3>1, <3>2 DEF WholePackets
    <3>4. QED
      BY <1>6, <3>1, <3>3
  <2>2. CASE j \notin DOMAIN wire
    <3>1. j \in Nat /\ j > l /\ j - l \in DOMAIN u
      BY <1>2, <1>3, <1>6, <1>9, <2>2
    <3>2. wire'[l + (j - l)] = <<m, j - l>>
      BY <1>7, <3>1
    <3>3. wire'[j] = <<m, j - l>>
      <4>1. l + (j - l) = j
        BY <1>3, <3>1
      <4>2. QED
        BY <3>2, <4>1
    <3>4. j - l = 1
      BY <1>9, <3>3 DEF CR
    <3>5. k \in DOMAIN u
      BY <1>4, <1>9, <3>3
    <3>6. j + k - 1 = l + k
      BY <1>2, <1>3, <3>1, <3>4, <3>5
    <3>7. QED
      BY <1>7, <3>3, <3>5, <3>6
  <2>3. QED
    BY <2>1, <2>2
<1>10. QED
  BY <1>8, <1>9 DEF WholePackets, Packet

LEMMA WholeRead ==
    ASSUME TypeOK, WholePackets, NEW n \in DOMAIN wire, ReadUnits(n), ~cut' PROVE WholePackets'
<1>1. ~cut /\ ~EndsInside(n)
  BY DEF ReadUnits, TypeOK
<1> DEFINE l == Len(wire)
<1>2. wire \in Seq(SentUnits) /\ l \in Nat /\ DOMAIN wire = 1 .. l /\ n \in 1 .. l
  BY DEF TypeOK
<1>3. wire' = SubSeq(wire, n + 1, l) /\ sent' = sent
  BY DEF ReadUnits
<1>4. /\ DOMAIN wire' = 1 .. l - n
      /\ \A j \in DOMAIN wire' : n + j \in DOMAIN wire /\ wire'[j] = wire[n + j]
  BY <1>2, <1>3
<1> HIDE DEF l
<1>5. wire' # <<>> => wire'[1][2] = CR
  <2> SUFFICES ASSUME wire' # <<>> PROVE wire'[1][2] = CR
    OBVIOUS
  <2>1. n < l
    <3> SUFFICES ASSUME n = l PROVE FALSE
      BY <1>2
    <3>1. wire' = <<>>
      BY <1>2, <1>3 DEF l
    <3>2. QED
      BY <3>1
  <2>2. wire[n + 1][2] = CR
    BY <1>1, <2>1 DEF EndsInside, l
  <2>3. 1 \in DOMAIN wire'
    BY <1>2, <1>4, <2>1
  <2>4. QED
    BY <1>4, <2>2, <2>3
<1>6. ASSUME NEW j \in DOMAIN wire', wire'[j][2] = CR, NEW k \in DOMAIN Units(wire'[j][1], sent'[wire'[j][1]])
      PROVE  j + k - 1 \in DOMAIN wire' /\ wire'[j + k - 1] = <<wire'[j][1], k>>
  <2>1. n + j \in DOMAIN wire /\ wire'[j] = wire[n + j] /\ j \in 1 .. l - n
    BY <1>4
  <2>2. k \in DOMAIN Packet(wire[n + j][1])
    BY <1>3, <1>6, <2>1 DEF Packet
  <2>3. n + j + k - 1 \in DOMAIN wire /\ wire[n + j + k - 1] = <<wire[n + j][1], k>>
    BY <1>1, <1>6, <2>1, <2>2 DEF WholePackets
  <2>4. k \in Nat /\ k >= 1
    <3>1. DOMAIN Packet(wire[n + j][1]) = 1 .. Len(Packet(wire[n + j][1]))
      BY UnitsType DEF Packet
    <3>2. QED
      BY <2>2, <3>1
  <2>5. j + k - 1 \in DOMAIN wire' /\ n + (j + k - 1) = n + j + k - 1
    BY <1>2, <1>4, <2>1, <2>3, <2>4
  <2>6. wire'[j + k - 1] = wire[n + (j + k - 1)]
    BY <1>4, <2>5
  <2>7. QED
    BY <2>1, <2>3, <2>5, <2>6
<1>7. QED
  BY <1>5, <1>6 DEF WholePackets, Packet

LEMMA WholeStep == ASSUME AppInv, [Next]_vars PROVE WholePackets'
<1> USE DEF AppInv
<1> SUFFICES ASSUME ~cut' PROVE WholePackets'
  BY DEF WholePackets
<1>1. ~cut
  BY SentStays
<1>2. CASE GuiSend
  BY <1>1, <1>2, WholeSend
<1>3. CASE ReadPacket
  BY <1>3, WholeRead DEF ReadPacket
<1>4. CASE ~(GuiSend \/ ReadPacket)
  <2>1. sent' = sent
    BY <1>4, OnlyTheGuiSends
  <2>2. wire' \in {wire, <<>>}
    BY <1>4 DEF Next, vars, guiVars, Acyclic, StoreMode, StoreValue, ReadEnd, DriveFault,
       Exchange, ExchangeLost, UserCode, Enable, ReadMode, Velocity, ApplyStop, ApplyCSV,
       ApplyBackAndForth, ApplyCST, ApplySinusoidal, ApplyPPM, ApplySetZero, HandOver, ApplyNothing, NotTouched, Exited
  <2>3. CASE wire' = wire
    BY <1>1, <2>1, <2>3 DEF WholePackets, Packet
  <2>4. CASE wire' = <<>>
    BY <2>4 DEF WholePackets
  <2>5. QED
    BY <2>2, <2>3, <2>4
<1>5. QED
  BY <1>2, <1>3, <1>4

--------------------------------------------------------------------------------
(* The values. *)

\* The value in the buffer has been sent for the mode in it.
LEMMA ValueIsSent ==
    ASSUME TypeOK, PacketIsSent, ~cut, packet.mode \in WithValue
    PROVE  packet.value \in Sent(packet.mode)
BY DEF PacketIsSent, Sent, NoPacket, WithValue

LEMMA DriveFollows ==
    ASSUME TypeOK, ValuesAreSent, FollowsCommands, DriveTakes, sent' = sent, cut' = cut
    PROVE  FollowsCommands'
<1> DEFINE s == NextState(drive.state, rx.control_word)
<1>1. drive'.follows \in {<<"none", Zero>>, <<"CSV", rx.target_velocity>>, <<"CST", rx.target_torque>>,
                         <<"PPM", rx.target_position>>, drive.follows}
  BY DEF DriveTakes
<1>2. \A m \in WithValue : Sent(m)' = Sent(m)
  BY DEF Sent
<1>3. QED
  BY <1>1, <1>2 DEF FollowsCommands, ValuesAreSent, WithValue

LEMMA ValuesStep ==
    ASSUME AppInv, [Next]_vars, ~cut' PROVE ValuesAreSent' /\ FollowsCommands'
<1> USE DEF AppInv
<1>0. ~cut
  BY SentStays
<1>1. \A m \in {"CSV", "CST", "PPM"} : Sent(m) \subseteq Sent(m)'
  BY SentStays DEF WithValue
<1>2. ASSUME input' = input, rx' = rx PROVE ValuesAreSent'
  BY <1>0, <1>1, <1>2 DEF ValuesAreSent
<1>3. ASSUME drive' = drive PROVE FollowsCommands'
  BY <1>0, <1>1, <1>3 DEF FollowsCommands
<1>4. CASE StoreValue
  <2>1. /\ packet.mode = "CSV" => packet.value \in Sent("CSV")
        /\ packet.mode = "CST" => packet.value \in Sent("CST")
        /\ packet.mode = "PPM" => packet.value \in Sent("PPM")
    BY <1>0, ValueIsSent DEF WithValue
  <2>2. /\ input'.velocity = IF packet.mode = "CSV" THEN packet.value ELSE input.velocity
        /\ input'.torque = IF packet.mode = "CST" THEN packet.value ELSE input.torque
        /\ input'.position = IF packet.mode = "PPM" THEN packet.value ELSE input.position
    BY <1>4 DEF StoreValue, TypeOK, Inputs
  <2>3. rx' = rx /\ drive' = drive
    BY <1>4 DEF StoreValue, rtVars
  <2>4. ValuesAreSent'
    BY <1>0, <1>1, <2>1, <2>2, <2>3 DEF ValuesAreSent
  <2>5. QED
    BY <1>3, <2>3, <2>4
<1>5. CASE DriveFault
  <2>1. drive'.follows = <<"none", Zero>> /\ input' = input /\ rx' = rx
    BY <1>5 DEF DriveFault, TypeOK, sharedVars, rtVars
  <2>2. QED
    BY <1>2, <2>1 DEF FollowsCommands
<1>6. CASE Exchange \/ ExchangeLost
  <2>1. /\ input' = input /\ rx' = rx /\ sent' = sent /\ cut' = cut
        /\ DriveTakes \/ drive' = drive
    BY <1>6 DEF Exchange, ExchangeLost, sharedVars, guiVars, tcpVars, readVars
  <2>2. QED
    BY <1>2, <1>3, <2>1, DriveFollows
<1>7. CASE UserCode
  <2>1. drive' = drive
    BY <1>7 DEF UserCode, Enable, ReadMode, Velocity, ApplyStop, ApplyCSV,
       ApplyBackAndForth, ApplyCST, ApplySinusoidal, ApplyPPM, ApplySetZero, HandOver, ApplyNothing, NotTouched
  <2>2. /\ input'.velocity = input.velocity /\ input'.torque = input.torque
        /\ input'.position \in {input.position, Zero}
    BY <1>7 DEF UserCode, Enable, ReadMode, Velocity, ApplyStop, ApplyCSV,
       ApplyBackAndForth, ApplyCST, ApplySinusoidal, ApplyPPM, ApplySetZero, HandOver, ApplyNothing, NotTouched, sharedVars, TypeOK, Inputs
  <2>3. /\ rx'.target_velocity \in {rx.target_velocity, Zero, input.velocity, Wave, Homing}
        /\ rx'.target_torque \in {rx.target_torque, input.torque}
        /\ rx'.target_position \in {rx.target_position, input.position}
    <3>1. rx \in Outputs
      BY DEF TypeOK
    <3>2. CASE Enable \/ ReadMode \/ ApplyNothing \/ HandOver
      BY <3>1, <3>2 DEF Enable, ReadMode, ApplyNothing, HandOver, Outputs
    <3>3. CASE ApplyStop \/ ApplyCSV \/ ApplyBackAndForth \/ ApplyCST
      BY <3>1, <3>3 DEF ApplyStop, ApplyCSV, ApplyBackAndForth, ApplyCST, Velocity, Outputs
    <3>4. CASE ApplySinusoidal \/ ApplyPPM \/ ApplySetZero
      BY <3>1, <3>4 DEF ApplySinusoidal, ApplyPPM, ApplySetZero, Outputs
    <3>5. QED
      BY <1>7, <3>2, <3>3, <3>4 DEF UserCode
  <2>4. ValuesAreSent'
    BY <1>0, <1>1, <2>2, <2>3 DEF ValuesAreSent
  <2>5. QED
    BY <1>3, <2>1, <2>4
<1>8. CASE ReadEnd
  <2>1. input' = NoInput /\ rx' = NoOutput /\ drive' = drive
    BY <1>8 DEF ReadEnd
  <2>2. ValuesAreSent'
    BY <2>1 DEF ValuesAreSent, NoInput, NoOutput
  <2>3. QED
    BY <1>3, <2>1, <2>2
<1>9. CASE GuiSend \/ ReadPacket \/ StoreMode \/ Exited \/ UNCHANGED vars
  <2>1. input' = input /\ rx' = rx /\ drive' = drive
    BY <1>9 DEF GuiSend, ReadPacket, ReadUnits, StoreMode, Exited, vars, sharedVars, rtVars
  <2>2. QED
    BY <1>2, <1>3, <2>1
<1>10. QED
  BY <1>4, <1>5, <1>6, <1>7, <1>8, <1>9 DEF Next, Acyclic

--------------------------------------------------------------------------------
(* The way of a command. *)

LEMMA WayStep == ASSUME AppInv, [Next]_vars PROVE OnItsWay'
<1> USE DEF AppInv
<1>0. "PPM" # "SET_ZERO" /\ packet.mode = "none" => packet.mode # "SET_ZERO"
  OBVIOUS
<1>1. CASE GuiSend
  <2>1. /\ sent' # <<>> /\ \A i \in DOMAIN sent : sent'[i] = sent[i]
        /\ UNCHANGED <<mode, sel, hand, zeroed, packet, whole, todo, input>>
    <3>1. /\ DOMAIN sent' = DOMAIN sent \cup {Len(sent) + 1}
          /\ \A i \in DOMAIN sent : sent'[i] = sent[i]
      BY <1>1, SentGrows
    <3>2. sent' # <<>>
      <4>1. DOMAIN sent' # {} /\ DOMAIN <<>> = {}
        BY <3>1
      <4>2. QED
        BY <4>1
    <3>3. QED
      BY <1>1, <3>1, <3>2 DEF GuiSend, tcpVars, readVars, sharedVars, rtVars
  <2>2. whole # 0 => sent'[whole] = sent[whole]
    BY <2>1 DEF TypeOK
  <2>3. QED
    BY <2>1, <2>2 DEF OnItsWay
<1>2. CASE ReadPacket
  <2>1. PICK n \in DOMAIN wire : ReadUnits(n) /\ packet' \in Decoded(Received(n))
    BY <1>2 DEF ReadPacket
  <2>2. /\ whole' = JustPacket(n) /\ todo' = {"mode", "value"}
        /\ UNCHANGED <<sent, mode, sel, hand, zeroed, input>>
    BY <2>1 DEF ReadUnits, sharedVars, rtVars
  <2>3. sent # <<>>
    <3>1. wire[n][1] \in DOMAIN sent
      BY UnitsSent DEF TypeOK
    <3>2. QED
      BY <3>1
  <2>4. packet' # NoPacket
    <3>1. "none" \notin Headings
      BY DEF Headings, WithValue, WithoutValue
    <3>2. packet' \in [mode : Headings, value : Numbers]
      BY <2>1, ReceivedType, DecodedType
    <3>3. QED
      BY <3>1, <3>2 DEF NoPacket
  <2>5. whole' # 0 => packet' = sent[whole']
    <3> SUFFICES ASSUME JustPacket(n) # 0 PROVE packet' = sent[JustPacket(n)]
      BY <2>2
    <3> DEFINE i == JustPacket(n)
    <3>1. i \in DOMAIN sent /\ \A k \in DOMAIN Packet(i) : k \in 1 .. n /\ wire[k] = <<i, k>>
      BY JustOne
    <3> HIDE DEF i
    <3>2. /\ Received(n) \in Seq(SentUnits)
          /\ \A k \in DOMAIN Packet(i) : k \in DOMAIN Received(n) /\ Received(n)[k] = <<i, k>>
      BY <3>1, ReceivedType
    <3>3. packet' = sent[i]
      BY <2>1, <3>1, <3>2, WholeIsDecoded
    <3>4. QED
      BY <3>3 DEF i
  <2>6. QED
    BY <2>2, <2>3, <2>4, <2>5 DEF OnItsWay
<1>3. CASE StoreMode
  <2>1. /\ mode' = packet.mode /\ zeroed' = (zeroed \/ packet.mode = "SET_ZERO")
        /\ "mode" \in todo /\ todo' = todo \ {"mode"}
        /\ UNCHANGED <<sent, sel, hand, packet, whole, input>>
    BY <1>3 DEF StoreMode, guiVars, readVars, rtVars
  <2>2. packet # NoPacket
    BY <2>1 DEF TypeOK
  <2>3. QED
    BY <2>1, <2>2 DEF OnItsWay
<1>4. CASE StoreValue
  <2>1. /\ input'.velocity = IF packet.mode = "CSV" THEN packet.value ELSE input.velocity
        /\ input'.torque = IF packet.mode = "CST" THEN packet.value ELSE input.torque
        /\ input'.position = IF packet.mode = "PPM" THEN packet.value ELSE input.position
    BY <1>4 DEF StoreValue, TypeOK, Inputs
  <2>2. /\ todo' = todo \ {"value"}
        /\ UNCHANGED <<sent, mode, sel, hand, zeroed, packet, whole>>
    BY <1>4 DEF StoreValue, guiVars, readVars, rtVars
  <2>3. QED
    BY <2>1, <2>2 DEF OnItsWay
<1>5. CASE ReadEnd
  <2>1. /\ mode' = "STOP_MOTOR" /\ sel' = "STOP_MOTOR" /\ hand' = {} /\ whole' = 0 /\ packet' = NoPacket
    BY <1>5 DEF ReadEnd
  <2>2. QED
    BY <2>1 DEF OnItsWay
<1>6. CASE ReadMode
  <2>1. sel' = mode /\ UNCHANGED <<sent, mode, hand, zeroed, packet, whole, todo, input>>
    BY <1>6 DEF ReadMode, guiVars, tcpVars, readVars, sharedVars
  <2>2. QED
    BY <2>1 DEF OnItsWay
<1>7. CASE ApplySetZero
  <2>1. /\ sel = "SET_ZERO"
        /\ UNCHANGED <<sent, mode, sel, zeroed, packet, whole, todo, input>>
    BY <1>7 DEF ApplySetZero, Chosen, NotTouched, guiVars, tcpVars, readVars, sharedVars
  <2>2. QED
    BY <2>1 DEF OnItsWay
<1>8. CASE HandOver
  <2>1. PICK x \in hand : /\ hand' = hand \ {x}
                          /\ mode' = IF x = "mode" THEN "PPM" ELSE mode
                          /\ input' = IF x = "position" THEN [input EXCEPT !.position = Zero] ELSE input
    BY <1>8 DEF HandOver
  <2>2. UNCHANGED <<sent, sel, zeroed, packet, whole, todo>>
    BY <1>8 DEF HandOver, NotTouched, guiVars, tcpVars, readVars
  <2>3. zeroed
    BY <2>1 DEF OnItsWay
  <2>4. mode' = mode \/ mode' = "PPM"
    BY <2>1
  <2>5. /\ input'.velocity = input.velocity /\ input'.torque = input.torque
        /\ input'.position = input.position \/ input'.position = Zero
    BY <2>1 DEF TypeOK, Inputs
  <2>6. QED
    BY <2>2, <2>3, <2>4, <2>5 DEF OnItsWay
<1>9. CASE ~(\/ GuiSend \/ ReadPacket \/ StoreMode \/ StoreValue \/ ReadEnd \/ ReadMode
            \/ ApplySetZero \/ HandOver)
  <2>1. UNCHANGED <<sent, packet, whole, todo, mode, sel, hand, zeroed, input>>
    BY <1>9 DEF Next, vars, guiVars, tcpVars, readVars, sharedVars, rtVars, Acyclic, DriveFault,
       Exchange, ExchangeLost, UserCode, Enable, Velocity, Applied, ApplyStop, ApplyCSV,
       ApplyBackAndForth, ApplyCST, ApplySinusoidal, ApplyPPM, ApplyNothing, NotTouched, Exited
  <2>2. QED
    BY <2>1 DEF OnItsWay
<1>10. QED
  BY <1>1, <1>2, <1>3, <1>4, <1>5, <1>6, <1>7, <1>8, <1>9

--------------------------------------------------------------------------------
(* The theorems. *)

LEMMA AppInvHolds == Spec => []AppInv
<1>1. Init => AppInv
  <2> SUFFICES ASSUME Init PROVE AppInv
    OBVIOUS
  <2>1. ValuesAreSent
    BY DEF Init, ValuesAreSent, NoInput, NoOutput
  <2>2. FollowsCommands
    BY DEF Init, FollowsCommands
  <2>3. WholePackets /\ PacketIsSent
    BY DEF Init, WholePackets, PacketIsSent
  <2>4. OnItsWay
    BY DEF Init, OnItsWay
  <2>5. QED
    BY <2>1, <2>2, <2>3, <2>4, TypeInit DEF AppInv
<1>2. AppInv /\ [Next]_vars => AppInv'
  <2> SUFFICES ASSUME AppInv, [Next]_vars PROVE AppInv'
    OBVIOUS
  <2>1. TypeOK' /\ WholePackets' /\ PacketIsSent' /\ OnItsWay'
    BY TypeStep, WholeStep, PacketStep, WayStep DEF AppInv
  <2>2. ValuesAreSent' /\ FollowsCommands'
    <3>1. CASE cut'
      BY <3>1 DEF ValuesAreSent, FollowsCommands
    <3>2. CASE ~cut'
      BY <3>2, ValuesStep
    <3>3. QED
      BY <3>1, <3>2
  <2>3. QED
    BY <2>1, <2>2 DEF AppInv
<1>3. QED
  BY <1>1, <1>2, PTL DEF Spec

\* As long as no read ends inside a packet, however the two threads interleave, whatever
\* frame is lost and whenever the drive faults: it follows in each mode of operation only
\* what the GUI sent for that mode, a velocity the program makes itself, or 0.
THEOREM DriveFollowsCommands == Spec => []FollowsCommands
<1>1. AppInv => FollowsCommands
  BY DEF AppInv
<1>2. QED
  BY <1>1, AppInvHolds, PTL

\* Once the last command has been read by itself it is in force with its value, however the
\* commands before it came: cut in pieces, several in one read, over what they left in the
\* buffer.  Only the end of a set zero may have replaced it.
THEOREM LastCommandIsInForce == Spec => []CommandInForce
<1>1. ASSUME AppInv, TakenAlone PROVE InForce
  <2>1. sent \in Seq(Cmd) /\ todo = {} /\ whole = Len(sent)
    BY <1>1 DEF AppInv, TypeOK, TakenAlone, TakenUp
  <2>2. CASE sent = <<>>
    <3>1. mode = "STOP_MOTOR" \/ (zeroed /\ mode = "PPM")
      BY <1>1, <2>2 DEF AppInv, OnItsWay
    <3>2. QED
      BY <2>2, <3>1 DEF InForce, Last, NoCmd
  <2>3. CASE sent # <<>>
    <3>1. whole # 0 /\ packet = Last
      BY <1>1, <2>1, <2>3 DEF AppInv, OnItsWay, Last
    <3>2. QED
      BY <1>1, <2>1, <3>1 DEF AppInv, OnItsWay, InForce
  <2>4. QED
    BY <2>2, <2>3
<1>2. AppInv => CommandInForce
  BY <1>1 DEF CommandInForce
<1>3. QED
  BY <1>2, AppInvHolds, PTL
================================================================================
