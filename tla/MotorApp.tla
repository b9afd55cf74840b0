-------------------------------- MODULE MotorApp --------------------------------
(***************************************************************************)
(* The motor controller (test/EPOS4/src/main.cpp): the acyclic loop that   *)
(* takes commands from the GUI over TCP, the real time thread that         *)
(* exchanges the process image with the EPOS4 drive every cycle and turns  *)
(* the command in force into outputs, and the drive with its CiA 402 state *)
(* machine.  The two threads share mode and input without a lock.          *)
(*                                                                         *)
(* A velocity, torque or position is a model value.  TCP is a stream: a    *)
(* packet is a sequence of units, the two bytes of its marker, its header  *)
(* and two halves of its value, and a read may end behind any of them.     *)
(* The drive, the network and the GUI are external: the drive is what the  *)
(* status bits the code tests and the control words it writes presume.     *)
(***************************************************************************)
EXTENDS Naturals, Sequences, FiniteSets

CONSTANTS Values,    \* velocities, torques, positions the GUI sends
          Cmd,       \* commands it sends
          Junk,      \* modes that bytes which are no header may read as
          Zero,      \* 0
          Wave,      \* a velocity of the sinusoidal or the back and forth mode
          Homing,    \* a velocity of the set zero mode
          Samples,   \* 20000: samples of a round of the sinusoidal mode
          Torn,      \* a number put together from bytes of different numbers
          MaxCmd,    \* bound: commands of one run
          MaxTrouble \* bound: reads that end inside a packet, cycles that lose
                     \* a frame and faults of the drive, together

NoCmd == [mode |-> "STOP_MOTOR", value |-> Zero]
\* The amplitude and frequency of the sinusoidal mode are not modelled.
WithValue == {"CSV", "CST", "PPM"}
WithoutValue == {"STOP_MOTOR", "SINUSOIDAL_VELOCITY", "BACK_AND_FORTH_VELOCITY", "SET_ZERO"}
Headings == WithValue \cup WithoutValue \cup {"unknown"}

ASSUME AppAssumption ==
    /\ Cmd \subseteq [mode : WithValue, value : Values] \cup [mode : WithoutValue, value : {Zero}]
    /\ Junk \subseteq Headings /\ Junk # {}
    /\ {Zero, Wave, Homing, Torn} \cap Values = {}
    /\ Samples \in Nat /\ Samples % 4 = 0
    /\ MaxCmd \in Nat /\ MaxTrouble \in Nat
    /\ Zero \notin {Wave, Homing, Torn} /\ Wave # Homing

VARIABLES sent,    \* commands the GUI has sent
          wire,    \* units that wait in the socket
          buffer,  \* rxBuffer: what a read leaves untouched stays
          packet,  \* packetBuffer, decoded
          whole,   \* n when the last read returned just the packet of the n-th command, else 0
          cut,     \* a read has ended inside a packet
          todo,    \* stores the acyclic loop still has to do
          mode,    \* shared: the command in force
          input,   \* shared: the values received
          rpc,     \* where the real time thread is
          sel,     \* mode as its switch read it
          hand,    \* stores to the shared variables it still has to do
          cnt,     \* counts samples and, past them, modulo 4
          rx,      \* rxPDO: outputs of the image
          tx,      \* txPDO: inputs of the image
          drive,   \* the EPOS4
          zeroed,  \* SET_ZERO has been in force
          ended,   \* the process has exited
          troubles

guiVars == <<sent, wire>>
readVars == <<buffer, packet, whole, cut>>
tcpVars == <<readVars, todo>>
sharedVars == <<mode, input, zeroed>>
rtVars == <<rpc, sel, hand, cnt, rx, tx>>
vars == <<guiVars, tcpVars, sharedVars, rtVars, drive, ended, troubles>>

\* The motor is away from zero, within 200000 of it, or there and no longer moving.
Place == {"away", "near", "still"}
Status(state, ack, place) == [state |-> state, ack |-> ack, place |-> place]

\* packetBuffer before the first packet: no number the program put there.
NoPacket == [mode |-> "none", value |-> Torn]

\* Globals, and the process image, start as zeros.
NoInput == [velocity |-> Zero, torque |-> Zero, position |-> Zero]
NoOutput == [control_word |-> "DISABLE_VOLTAGE", mode_of_operation |-> "none",
             target_velocity |-> Zero, target_torque |-> Zero, target_position |-> Zero]
NoStatus == Status("disabled", FALSE, "still")

Init == /\ sent = <<>> /\ wire = <<>>
        /\ buffer = <<>> /\ packet = NoPacket /\ whole = 0 /\ cut = FALSE /\ todo = {}
        /\ mode = "STOP_MOTOR"
        /\ input = NoInput /\ zeroed = FALSE
        /\ rpc = "cycle" /\ sel = "STOP_MOTOR" /\ hand = {} /\ cnt = 0
        /\ rx = NoOutput /\ tx = NoStatus
        /\ drive = [state |-> "disabled", ack |-> FALSE, setpoint |-> FALSE,
                    follows |-> <<"none", Zero>>]
        /\ ended = FALSE /\ troubles = 0

--------------------------------------------------------------------------------
(* The GUI (external). *)

\* The units of the packet of the n-th command c.
Units(n, c) == [k \in 1 .. (IF c.mode \in WithValue THEN 5 ELSE 3) |-> <<n, k>>]
Packet(n) == Units(n, sent[n])

GuiSend ==
    /\ Len(sent) < MaxCmd
    /\ \E c \in Cmd :
         /\ sent' = Append(sent, c)
         /\ wire' = wire \o Units(Len(sent) + 1, c)
    /\ UNCHANGED <<tcpVars, sharedVars, rtVars, drive, ended, troubles>>

--------------------------------------------------------------------------------
(* The acyclic loop of simpletest with TCP_Packet::readPacket. *)

CR == 1  LF == 2  Header == 3  Low == 4  High == 5
IsUnit(b, j, k) == j \in DOMAIN b /\ b[j][2] = k
Marked(b) == {j \in DOMAIN b : IsUnit(b, j, CR) /\ IsUnit(b, j + 1, LF)}
FirstMark(b) == CHOOSE j \in Marked(b) : \A i \in Marked(b) : j <= i

\* What a header and a value read at place j of the buffer may be.
Headers(b, j) == IF IsUnit(b, j, Header) THEN {sent[b[j][1]].mode} ELSE Junk
ValueAt(b, j) == IF IsUnit(b, j, Low) /\ IsUnit(b, j + 1, High) /\ sent[b[j][1]].value = sent[b[j + 1][1]].value
                   THEN sent[b[j][1]].value ELSE Torn
DecodedAt(b, j) == {[mode |-> h, value |-> IF h \in WithValue THEN ValueAt(b, j + 1) ELSE Zero] : h \in Headers(b, j)}

\* Of all that is in the buffer the first marker counts; without one the packet
\* taken before is decoded again.
Decoded(b) ==
    IF Marked(b) # {} THEN DecodedAt(b, FirstMark(b) + 2)
    ELSE IF packet # NoPacket THEN {packet}
    ELSE DecodedAt(<<>>, 1)

\* read() returns the first n units that wait, over what the buffer held.
Received(n) == SubSeq(wire, 1, n) \o SubSeq(buffer, n + 1, Len(buffer))
EndsInside(n) == n < Len(wire) /\ wire[n + 1][2] # CR
JustPacket(n) == IF \E i \in DOMAIN sent : SubSeq(wire, 1, n) = Packet(i) THEN wire[1][1] ELSE 0

ReadUnits(n) ==
    /\ ~ended /\ todo = {}
    /\ EndsInside(n) => troubles < MaxTrouble
    /\ buffer' = Received(n)
    /\ whole' = JustPacket(n)
    /\ cut' = (cut \/ EndsInside(n))
    /\ troubles' = IF EndsInside(n) THEN troubles + 1 ELSE troubles
    /\ wire' = SubSeq(wire, n + 1, Len(wire))
    /\ todo' = {"mode", "value"}
    /\ UNCHANGED <<sent, sharedVars, rtVars, drive, ended>>

\* Mutant: the packet is not copied out of the receive buffer.
ReadPacketNoCopy ==
    \E n \in DOMAIN wire :
      /\ ReadUnits(n)
      /\ packet' = IF packet = NoPacket THEN NoCmd ELSE packet

ReadPacket ==
    \E n \in DOMAIN wire :
      /\ ReadUnits(n)
      /\ packet' \in Decoded(Received(n))

\* read() fails, or returns 0 because the GUI has closed: errorHandling calls exit(1)
\* and nothing of the process is left.
ReadEnd ==
    /\ ~ended /\ todo = {}
    /\ ended' = TRUE
    /\ wire' = <<>> /\ buffer' = <<>> /\ packet' = NoPacket /\ whole' = 0 /\ todo' = {}
    /\ mode' = "STOP_MOTOR" /\ input' = NoInput /\ zeroed' = FALSE
    /\ rpc' = "cycle" /\ sel' = "STOP_MOTOR" /\ hand' = {} /\ cnt' = 0
    /\ rx' = NoOutput /\ tx' = NoStatus
    /\ UNCHANGED <<sent, cut, drive, troubles>>

\* "mode = getHeader()" and the decode into input are two plain stores, which
\* the other core may see in either order.
StoreMode ==
    /\ ~ended /\ "mode" \in todo
    /\ mode' = packet.mode
    /\ zeroed' = (zeroed \/ packet.mode = "SET_ZERO")
    /\ todo' = todo \ {"mode"}
    /\ UNCHANGED <<guiVars, readVars, input, rtVars, drive, ended, troubles>>

\* Mutant: the velocity is stored for every mode that has a value.
StoreValueAsVelocity ==
    /\ ~ended /\ "value" \in todo
    /\ input' = [input EXCEPT !.velocity = IF packet.mode \in WithValue THEN packet.value ELSE @]
    /\ todo' = todo \ {"value"}
    /\ UNCHANGED <<guiVars, readVars, mode, zeroed, rtVars, drive, ended, troubles>>

StoreValue ==
    /\ ~ended /\ "value" \in todo
    /\ input' = [input EXCEPT
                    !.velocity = IF packet.mode = "CSV" THEN packet.value ELSE @,
                    !.torque = IF packet.mode = "CST" THEN packet.value ELSE @,
                    !.position = IF packet.mode = "PPM" THEN packet.value ELSE @]
    /\ todo' = todo \ {"value"}
    /\ UNCHANGED <<guiVars, readVars, mode, zeroed, rtVars, drive, ended, troubles>>

--------------------------------------------------------------------------------
(* The drive (external): the CiA 402 states in the bits of Macro.h. *)

NextState(s, control) ==
    CASE s = "fault" /\ control = "FAULT_RESET" -> "disabled"
      [] s = "disabled" /\ control = "SHUTDOWN" -> "ready"
      [] s = "ready" /\ control = "SWITCH_ON" -> "on"
      [] s = "on" /\ control \in {"SWITCH_ON_ENABLE", "NEW_SETPOINT"} -> "enabled"
      [] s = "on" /\ control = "SHUTDOWN" -> "ready"
      [] s = "enabled" /\ control = "SWITCH_ON" -> "on"
      [] s = "enabled" /\ control = "SHUTDOWN" -> "ready"
      [] OTHER -> s

\* A position is taken with the rising edge of the setpoint bit and acknowledged
\* until the bit falls; a velocity or a torque is followed as it comes.
DriveTakes ==
    LET s == NextState(drive.state, rx.control_word)
        bit == rx.control_word = "NEW_SETPOINT"
        taken == s = "enabled" /\ rx.mode_of_operation = "PPM" /\ bit /\ ~drive.setpoint
    IN drive' = [state |-> s, setpoint |-> bit,
                 ack |-> s = "enabled" /\ bit /\ (taken \/ drive.ack),
                 follows |-> CASE s # "enabled" -> <<"none", Zero>>
                               [] s = "enabled" /\ rx.mode_of_operation = "CSV" -> <<"CSV", rx.target_velocity>>
                               [] s = "enabled" /\ rx.mode_of_operation = "CST" -> <<"CST", rx.target_torque>>
                               [] taken -> <<"PPM", rx.target_position>>
                               [] OTHER -> drive.follows]

DriveFault ==
    /\ ~ended
    /\ troubles < MaxTrouble
    /\ troubles' = troubles + 1
    /\ drive' = [drive EXCEPT !.state = "fault", !.ack = FALSE, !.follows = <<"none", Zero>>]
    /\ UNCHANGED <<guiVars, tcpVars, sharedVars, rtVars, ended>>

--------------------------------------------------------------------------------
(* ecatthread *)

\* ec_send_processdata, ec_receive_processdata: the inputs are the state before
\* the drive acts on the outputs.  Where the motor is matters for SET_ZERO only.
Exchange ==
    /\ ~ended /\ rpc = "cycle"
    /\ \E place \in IF zeroed THEN Place ELSE {"still"} :
         tx' = Status(drive.state, drive.ack, place)
    /\ DriveTakes
    /\ rpc' = "command"
    /\ UNCHANGED <<guiVars, tcpVars, sharedVars, sel, hand, cnt, rx, ended, troubles>>

\* The frame is lost before or behind the drive: the thread, which does not look
\* at wkc, goes on with the inputs of an earlier cycle.
ExchangeLost ==
    /\ ~ended /\ rpc = "cycle"
    /\ troubles < MaxTrouble
    /\ troubles' = troubles + 1
    /\ DriveTakes \/ UNCHANGED drive
    /\ rpc' = "command"
    /\ UNCHANGED <<guiVars, tcpVars, sharedVars, sel, hand, cnt, rx, tx, ended>>

Ladder == [fault |-> "FAULT_RESET", disabled |-> "SHUTDOWN",
           ready |-> "SWITCH_ON", on |-> "SWITCH_ON_ENABLE"]

\* The drive is led to operation enabled one state at a time.
Enable ==
    /\ ~ended /\ rpc = "command"
    /\ tx.state # "enabled"
    /\ rx' = [rx EXCEPT !.control_word = Ladder[tx.state]]
    /\ rpc' = "cycle"
    /\ UNCHANGED <<guiVars, tcpVars, sharedVars, sel, hand, cnt, tx, drive, ended, troubles>>

\* "switch (mode)"
ReadMode ==
    /\ ~ended /\ rpc = "command"
    /\ tx.state = "enabled"
    /\ sel' = mode
    /\ rpc' = "apply"
    /\ UNCHANGED <<guiVars, tcpVars, sharedVars, hand, cnt, rx, tx, drive, ended, troubles>>

Chosen(m) == ~ended /\ rpc = "apply" /\ sel = m
Applied(m) == Chosen(m) /\ rpc' = "cycle" /\ UNCHANGED hand
NotTouched == UNCHANGED <<guiVars, tcpVars, sel, tx, drive, ended, troubles>>

Velocity(m, v) ==
    /\ Applied(m)
    /\ rx' = [rx EXCEPT !.mode_of_operation = "CSV", !.target_velocity = v]
    /\ UNCHANGED <<sharedVars, cnt>>
    /\ NotTouched

ApplyStop == Velocity("STOP_MOTOR", Zero)
ApplyCSV == Velocity("CSV", input.velocity)
ApplyBackAndForth == Velocity("BACK_AND_FORTH_VELOCITY", Wave)

ApplyCST ==
    /\ Applied("CST")
    /\ rx' = [rx EXCEPT !.mode_of_operation = "CST", !.target_torque = input.torque]
    /\ UNCHANGED <<sharedVars, cnt>>
    /\ NotTouched

\* cnt counts the samples here and restarts after them.
ApplySinusoidal ==
    /\ Applied("SINUSOIDAL_VELOCITY")
    /\ IF cnt <= Samples
         THEN /\ rx' = [rx EXCEPT !.mode_of_operation = "CSV", !.target_velocity = Wave]
              /\ cnt' = cnt + 1
         ELSE cnt' = 0 /\ UNCHANGED rx
    /\ UNCHANGED sharedVars
    /\ NotTouched

\* PPM looks at cnt % 4 only.
NextCnt == IF cnt = Samples + 4 THEN Samples + 1 ELSE cnt + 1

\* Mutant: the setpoint bit is never taken back.
ApplyPPMKeepsBit ==
    /\ Applied("PPM")
    /\ rx' = IF cnt % 4 = 0
             THEN [rx EXCEPT !.mode_of_operation = "PPM", !.target_position = input.position,
                             !.control_word = "NEW_SETPOINT"]
             ELSE rx
    /\ cnt' = NextCnt
    /\ UNCHANGED sharedVars
    /\ NotTouched

\* Every fourth cycle: a new setpoint, or the bit back once it is acknowledged.
ApplyPPM ==
    /\ Applied("PPM")
    /\ rx' = IF cnt % 4 = 0
             THEN [rx EXCEPT !.mode_of_operation = "PPM", !.target_position = input.position,
                             !.control_word = IF tx.ack THEN "SWITCH_ON_ENABLE" ELSE "NEW_SETPOINT"]
             ELSE rx
    /\ cnt' = NextCnt
    /\ UNCHANGED sharedVars
    /\ NotTouched

\* Drive to within 200000 of zero, brake there, then hand over to PPM with target
\* 0.  The last two branches leave mode_of_operation as it was.
ApplySetZero ==
    /\ Chosen("SET_ZERO")
    /\ rx' = IF tx.place = "away"
             THEN [rx EXCEPT !.mode_of_operation = "CSV", !.target_velocity = Homing]
             ELSE [rx EXCEPT !.target_velocity = Homing]
    /\ IF tx.place = "still" THEN rpc' = "hand" /\ hand' = {"mode", "position"}
                             ELSE rpc' = "cycle" /\ UNCHANGED hand
    /\ UNCHANGED <<sharedVars, cnt>>
    /\ NotTouched

\* "input.position = 0; mode = COMMAND_MODE_PPM": two plain stores again.
HandOver ==
    /\ ~ended /\ rpc = "hand"
    /\ \E s \in hand :
         /\ hand' = hand \ {s}
         /\ mode' = IF s = "mode" THEN "PPM" ELSE mode
         /\ input' = IF s = "position" THEN [input EXCEPT !.position = Zero] ELSE input
    /\ rpc' = IF hand' = {} THEN "cycle" ELSE "hand"
    /\ UNCHANGED <<zeroed, cnt, rx>>
    /\ NotTouched

\* A header without a case.
ApplyNothing ==
    /\ Applied("unknown")
    /\ UNCHANGED <<sharedVars, cnt, rx>>
    /\ NotTouched

UserCode == \/ Enable \/ ReadMode \/ ApplyStop \/ ApplyCSV \/ ApplyCST \/ ApplyPPM
            \/ ApplySinusoidal \/ ApplyBackAndForth \/ ApplySetZero \/ HandOver \/ ApplyNothing
Acyclic == ReadPacket \/ StoreMode \/ StoreValue

\* Nothing happens any more.
Exited == ended /\ UNCHANGED vars

Next == \/ GuiSend \/ Acyclic \/ ReadEnd \/ DriveFault
        \/ Exchange \/ ExchangeLost \/ UserCode \/ Exited

Spec == Init /\ [][Next]_vars
\* Both loops run for ever: the real time thread by its deadline, the acyclic
\* one after every sleep.
FairSpec == Spec /\ WF_vars(Exchange \/ UserCode) /\ WF_vars(Acyclic)

--------------------------------------------------------------------------------
(* Properties. *)

States == {"enabled"} \cup DOMAIN Ladder
Controls == {"DISABLE_VOLTAGE", "FAULT_RESET", "SHUTDOWN", "SWITCH_ON", "SWITCH_ON_ENABLE", "NEW_SETPOINT"}
Modes == {"none", "CSV", "CST", "PPM"}
Numbers == Values \cup {Zero, Torn}
Velocities == Numbers \cup {Wave, Homing}
Inputs == [velocity : Numbers, torque : Numbers, position : Numbers]
Outputs == [control_word : Controls, mode_of_operation : Modes, target_velocity : Velocities,
            target_torque : Numbers, target_position : Numbers]
\* Units of the packets sent so far.
SentUnits == {<<i, k>> : i \in DOMAIN sent, k \in 1 .. 5}

TypeOK ==
    /\ sent \in Seq(Cmd)
    /\ wire \in Seq(SentUnits) /\ buffer \in Seq(SentUnits)
    /\ packet \in [mode : Headings, value : Numbers] \cup {NoPacket}
    /\ packet = NoPacket => todo = {}
    /\ whole \in {0} \cup DOMAIN sent
    /\ todo \subseteq {"mode", "value"}
    /\ {mode, sel} \subseteq Headings
    /\ input \in Inputs
    /\ zeroed \in BOOLEAN
    /\ rpc \in {"cycle", "command", "apply", "hand"}
    /\ hand \subseteq {"mode", "position"}
    /\ cnt \in 0 .. Samples + 4
    /\ rx \in Outputs
    /\ tx \in [state : States, ack : BOOLEAN, place : Place]
    /\ drive \in [state : States, ack : BOOLEAN, setpoint : BOOLEAN, follows : Modes \X Velocities]
    /\ ended \in BOOLEAN /\ troubles \in 0 .. MaxTrouble /\ cut \in BOOLEAN

Last == IF sent = <<>> THEN NoCmd ELSE sent[Len(sent)]
Sent(m) == {sent[i].value : i \in {j \in DOMAIN sent : sent[j].mode = m}}

\* As long as no read ends inside a packet: whatever the threads do to mode and
\* input, the drive follows in every mode of operation only values that the GUI has
\* sent for that mode, the velocities the program makes itself, or 0.
FollowsCommands ==
    LET v == drive.follows[2]
    IN ~cut =>
       CASE drive.follows[1] = "CSV" -> v \in Sent("CSV") \cup {Zero, Wave, Homing}
         [] drive.follows[1] = "CST" -> v \in Sent("CST") \cup {Zero}
         [] drive.follows[1] = "PPM" -> v \in Sent("PPM") \cup {Zero}
         [] OTHER -> v = Zero

\* What waits in the socket are whole packets.
WholePackets ==
    ~cut => /\ wire # <<>> => wire[1][2] = CR
            /\ \A j \in DOMAIN wire : wire[j][2] = CR =>
                 \A k \in DOMAIN Packet(wire[j][1]) : j + k - 1 \in DOMAIN wire /\ wire[j + k - 1] = <<wire[j][1], k>>

\* The packet taken has been sent, and so has every value on its way to the drive,
\* for the mode it is used in.
PacketIsSent == ~cut => packet = NoPacket \/ \E i \in DOMAIN sent : packet = sent[i]
ValuesAreSent ==
    ~cut => /\ input.velocity \in Sent("CSV") \cup {Zero}
            /\ input.torque \in Sent("CST") \cup {Zero}
            /\ input.position \in Sent("PPM") \cup {Zero}
            /\ rx.target_velocity \in Sent("CSV") \cup {Zero, Wave, Homing}
            /\ rx.target_torque \in Sent("CST") \cup {Zero}
            /\ rx.target_position \in Sent("PPM") \cup {Zero}

\* The acyclic loop has taken all there is, and the last command by itself: a command
\* that comes with another one, or in pieces, is lost or misread by design.
TakenUp == ~ended /\ wire = <<>> /\ todo = {}
TakenAlone == TakenUp /\ whole = Len(sent)

InForce ==
    /\ mode = Last.mode \/ (zeroed /\ mode = "PPM")
    /\ Last.mode = "CSV" => input.velocity = Last.value
    /\ Last.mode = "CST" => input.torque = Last.value
    /\ Last.mode = "PPM" => input.position = Last.value \/ (zeroed /\ input.position = Zero)

\* The command in force is the last one of the GUI ("GUI PC ----> RPI", Macro.h), with
\* its value, whatever came before it: packets in pieces, several in one read, what
\* they left in rxBuffer.  Only the end of a set zero may replace it.
CommandInForce == TakenAlone => InForce

\* The way of the packet last taken, if it came by itself, to the shared variables.
OnItsWay ==
    /\ "SET_ZERO" \in {mode, sel} \/ hand # {} => zeroed
    /\ sent = <<>> => packet = NoPacket
    /\ packet = NoPacket => mode = "STOP_MOTOR" \/ (zeroed /\ mode = "PPM")
    /\ whole # 0 => packet = sent[whole]
    /\ whole # 0 /\ "mode" \notin todo => mode = packet.mode \/ (zeroed /\ mode = "PPM")
    /\ whole # 0 /\ "value" \notin todo =>
         /\ packet.mode = "CSV" => input.velocity = packet.value
         /\ packet.mode = "CST" => input.torque = packet.value
         /\ packet.mode = "PPM" => input.position = packet.value \/ (zeroed /\ input.position = Zero)

\* The inductive invariant.
AppInv == TypeOK /\ WholePackets /\ PacketIsSent /\ ValuesAreSent /\ FollowsCommands /\ OnItsWay

\* Also when set zero has been in force, and however the commands came.
AnyCommandInForce == TakenUp /\ Last.mode # "SET_ZERO" => mode = Last.mode
CommandOrZero == TakenAlone /\ Last.mode # "SET_ZERO" => mode = Last.mode

\* The drive never follows a number put together from pieces of two packets.
NothingTorn == drive.follows[2] # Torn

\* A move to a position is one the GUI asked for: the drive is never sent to 0
\* because the position of a PPM command is not there yet.
MovesAreCommanded ==
    drive.follows[1] = "PPM" => drive.follows[2] \in Sent("PPM")

Obeys ==
    /\ drive.state = "enabled"
    /\ drive.follows =
         CASE Last.mode = "STOP_MOTOR" -> <<"CSV", Zero>>
           [] Last.mode \in {"CSV", "CST", "PPM"} -> <<Last.mode, Last.value>>
           [] Last.mode \in {"SINUSOIDAL_VELOCITY", "BACK_AND_FORTH_VELOCITY"} -> <<"CSV", Wave>>
           [] Last.mode = "SET_ZERO" -> <<"PPM", Zero>>

\* A set zero that is on its way, or whose end came after the last command.
ZeroInstead == zeroed /\ (Last.mode = "SET_ZERO" \/ drive.follows[1] = "PPM")

\* After the last command, the last lost frame and the last fault the drive comes
\* to operation enabled and follows that command, if it was read by itself, and
\* nothing else any more but the end of a set zero.
ObeysLast == <>[](Obeys \/ ZeroInstead \/ whole # Len(sent) \/ ended)

\* When the program ends, the drive is not left moving ("Request safe operational
\* state for all slaves", main.cpp).
QuietWhenEnded == ended => drive.follows[2] = Zero
================================================================================
