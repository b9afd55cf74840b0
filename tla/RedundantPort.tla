------------------------------ MODULE RedundantPort ------------------------------
(***************************************************************************)
(* Cable redundancy (oshw/nicdrv.c: ecx_outframe_red, ecx_waitinframe_red, *)
(* ecx_srconfirm with redstate = ECT_RED_DOUBLE).  The slaves 1 .. N lie    *)
(* in a line between two NICs of the master.  Every datagram leaves by the *)
(* primary NIC, and a dummy (a BRD) by the secondary one; where the two    *)
(* come back, and with which source MAC, tells the master what is broken.  *)
(*                                                                         *)
(* A slave processes a frame that travels away from the primary NIC, and   *)
(* only passes on a frame that travels towards it; a slave whose           *)
(* neighbour is gone turns the frame around.  One transaction is followed; *)
(* the competition for buffers is the subject of NicDrv.                   *)
(***************************************************************************)
EXTENDS Integers, Sequences, FiniteSets, SequencesExt

CONSTANTS N,         \* slaves in the line
          MaxTry,    \* bound: attempts of ecx_srconfirm
          MaxChange, \* bound: breaks and repairs of the cable
          Timely     \* TRUE: a receive timer outlasts the travel of a frame

ASSUME RedAssumption == /\ N \in Nat \ {0}
                        /\ MaxTry \in Nat \ {0}
                        /\ MaxChange \in Nat
                        /\ Timely \in BOOLEAN

Slave == 1 .. N
NoBreak == N + 1    \* the cable is whole; b \in 0 .. N: broken behind slave b
NOFRAME == -1       \* EC_NOFRAME

\* A frame: its datagram or the dummy, the MAC address it was sent with, the
\* attempt it belongs to, and the slaves that have processed it, in their order
\* (its working counter).
Frame(kind, mac, try, by) == [kind |-> kind, mac |-> mac, try |-> try, by |-> by]
FrameType == [kind : {"own", "dummy", "none"}, mac : {"PRIM", "SEC", "none"},
              try : 0 .. MaxTry, by : Seq(Slave)]
NoReply == Frame("none", "none", 0, <<>>)
wkcOf(f) == Len(f.by)

VARIABLES broken,  \* where the cable is broken
          prim,    \* frames that have come back to the primary socket
          sec,     \* frames that have come back to the secondary socket
          txbuf,   \* txbuf[idx]: the slaves that have processed what it holds
          rxprim,  \* rxbuf[idx] and rxsa[idx] of the primary stack
          rxsec,   \* rxbuf[idx] and rxsa[idx] of the secondary stack
          wkc,     \* wkc of ecx_waitinframe_red
          wkc2,    \* its wkc2
          pc,      \* where the thread is
          try,     \* attempts so far
          expired, \* timer1 of ecx_srconfirm has expired
          served,  \* how often each slave has processed the datagram
          lost,    \* some frame has been lost
          changes  \* changes of the cable so far

vars == <<broken, prim, sec, txbuf, rxprim, rxsec, wkc, wkc2, pc, try, expired, served, lost, changes>>

TypeOK == /\ broken \in 0 .. NoBreak
          /\ prim \subseteq FrameType /\ sec \subseteq FrameType
          /\ rxprim \in FrameType /\ rxsec \in FrameType
          /\ txbuf \in Seq(Slave)
          /\ wkc \in Nat \cup {NOFRAME} /\ wkc2 \in Nat \cup {NOFRAME}
          /\ pc \in {"outprim", "outsec", "wait", "resend", "waitresend", "confirm", "done"}
          /\ try \in 0 .. MaxTry
          /\ expired \in BOOLEAN
          /\ served \in [Slave -> Nat]
          /\ lost \in BOOLEAN
          /\ changes \in 0 .. MaxChange

Init == /\ broken \in 0 .. NoBreak
        /\ prim = {} /\ sec = {}
        /\ txbuf = <<>>
        /\ rxprim = NoReply /\ rxsec = NoReply
        /\ wkc = NOFRAME /\ wkc2 = NOFRAME
        /\ pc = "outprim"
        /\ try = 0
        /\ expired = FALSE
        /\ served = [s \in Slave |-> 0]
        /\ lost = FALSE
        /\ changes = 0

--------------------------------------------------------------------------------
(* The line of slaves. *)

Span(a, b) == [i \in 1 .. b - a + 1 |-> a + i - 1]

\* Who processes a frame sent by the primary NIC, by the secondary NIC.
FromPrimary == IF broken = NoBreak THEN Span(1, N) ELSE Span(1, broken)
FromSecondary == IF broken = NoBreak THEN <<>> ELSE Span(broken + 1, N)

Serve(slaves) == served' = [s \in Slave |-> served[s] + (IF Contains(slaves, s) THEN 1 ELSE 0)]

\* A frame that leaves by the primary NIC comes back at the other end of the
\* cable, or where it left, or not at all when the NIC itself is cut off.
TravelFromPrimary(kind, mac, n, by) ==
    LET f == Frame(kind, mac, n, by \o FromPrimary)
    IN /\ prim' = IF broken \in Slave THEN prim \cup {f} ELSE prim
       /\ sec' = IF broken = NoBreak THEN sec \cup {f} ELSE sec

TravelFromSecondary(kind, mac, n, by) ==
    LET f == Frame(kind, mac, n, by \o FromSecondary)
    IN /\ prim' = IF broken = NoBreak THEN prim \cup {f} ELSE prim
       /\ sec' = IF broken \in 0 .. N - 1 THEN sec \cup {f} ELSE sec

--------------------------------------------------------------------------------
\* ecx_outframe_red, first half: the datagram, with the primary MAC.
SendPrimary ==
    /\ pc = "outprim"
    /\ TravelFromPrimary("own", "PRIM", try + 1, txbuf)
    /\ Serve(FromPrimary)
    /\ try' = try + 1
    /\ pc' = "outsec"
    /\ UNCHANGED <<broken, txbuf, rxprim, rxsec, wkc, wkc2, expired, lost, changes>>

\* ecx_outframe_red, second half: the dummy, with the secondary MAC; the
\* receive timer starts and ecx_waitinframe_red begins.
SendDummy ==
    /\ pc = "outsec"
    /\ TravelFromSecondary("dummy", "SEC", try, <<>>)
    /\ wkc' = NOFRAME
    /\ wkc2' = NOFRAME
    /\ pc' = "wait"
    /\ UNCHANGED <<broken, txbuf, rxprim, rxsec, try, expired, served, lost, changes>>

\* ecx_inframe on the primary stack: "only read frame if not already in"
RecvPrimary ==
    /\ pc = "wait"
    /\ wkc = NOFRAME
    /\ \E f \in prim : /\ prim' = prim \ {f}
                       /\ rxprim' = f
                       /\ wkc' = wkcOf(f)
    /\ UNCHANGED <<broken, sec, txbuf, rxsec, wkc2, pc, try, expired, served, lost, changes>>

\* ecx_inframe on the secondary stack.
RecvSecondary ==
    /\ pc = "wait"
    /\ wkc2 = NOFRAME
    /\ \E f \in sec : /\ sec' = sec \ {f}
                      /\ rxsec' = f
                      /\ wkc2' = wkcOf(f)
    /\ UNCHANGED <<broken, prim, txbuf, rxprim, wkc, pc, try, expired, served, lost, changes>>

\* The loop ends with both frames, or with the timer.
WaitOver == \/ wkc # NOFRAME /\ wkc2 # NOFRAME
            \/ Timely => /\ wkc = NOFRAME => prim = {}
                         /\ wkc2 = NOFRAME => sec = {}

primrx == IF wkc # NOFRAME THEN rxprim.mac ELSE "none"
secrx == IF wkc2 # NOFRAME THEN rxsec.mac ELSE "none"

\* Mutant: the crossed frames are taken for the result without the copy.
CrossedNoCopy ==
    /\ pc = "wait"
    /\ WaitOver
    /\ primrx = "SEC" /\ secrx = "PRIM"
    /\ wkc' = wkc2
    /\ pc' = "confirm"
    /\ UNCHANGED <<broken, prim, sec, txbuf, rxprim, rxsec, wkc2, try, expired, served, lost, changes>>

\* "normal situation in redundant mode": the frames have changed places.
Crossed ==
    /\ pc = "wait"
    /\ WaitOver
    /\ primrx = "SEC" /\ secrx = "PRIM"
    /\ rxprim' = [rxsec EXCEPT !.mac = rxprim.mac]
    /\ wkc' = wkc2
    /\ pc' = "confirm"
    /\ UNCHANGED <<broken, prim, sec, txbuf, rxsec, wkc2, try, expired, served, lost, changes>>

\* Mutant: the partial result is not carried over to the second half of the line.
RerouteFresh ==
    /\ pc = "wait"
    /\ WaitOver
    /\ primrx \in {"none", "PRIM"} /\ secrx = "SEC"
    /\ pc' = "resend"
    /\ UNCHANGED <<broken, prim, sec, txbuf, rxprim, rxsec, wkc, wkc2, try, expired, served, lost, changes>>

\* "primary socket got nothing or primary frame, and secondary socket got
\* secondary frame; we need to resend TX packet"
Reroute ==
    /\ pc = "wait"
    /\ WaitOver
    /\ primrx \in {"none", "PRIM"} /\ secrx = "SEC"
    /\ txbuf' = IF primrx = "PRIM" THEN rxprim.by ELSE txbuf
    /\ pc' = "resend"
    /\ UNCHANGED <<broken, prim, sec, rxprim, rxsec, wkc, wkc2, try, expired, served, lost, changes>>

\* Every other combination leaves the primary result as it is.
NoReroute ==
    /\ pc = "wait"
    /\ WaitOver
    /\ ~(primrx = "SEC" /\ secrx = "PRIM")
    /\ ~(primrx \in {"none", "PRIM"} /\ secrx = "SEC")
    /\ pc' = "confirm"
    /\ UNCHANGED <<broken, prim, sec, txbuf, rxprim, rxsec, wkc, wkc2, try, expired, served, lost, changes>>

\* "resend secondary tx": the tx buffer still carries the primary MAC.
Resend ==
    /\ pc = "resend"
    /\ TravelFromSecondary("own", "PRIM", try, txbuf)
    /\ Serve(FromSecondary)
    /\ wkc2' = NOFRAME
    /\ pc' = "waitresend"
    /\ UNCHANGED <<broken, txbuf, rxprim, rxsec, wkc, try, expired, lost, changes>>

\* The rerouted frame is the result, "copy secondary result to primary rx buffer".
RecvResend ==
    /\ pc = "waitresend"
    /\ \E f \in sec : /\ sec' = sec \ {f}
                      /\ rxsec' = f
                      /\ rxprim' = [f EXCEPT !.mac = rxprim.mac]
                      /\ wkc2' = wkcOf(f)
                      /\ wkc' = wkcOf(f)
    /\ pc' = "confirm"
    /\ UNCHANGED <<broken, prim, txbuf, try, expired, served, lost, changes>>

\* The rerouted frame does not come back in time.
ResendLost ==
    /\ pc = "waitresend"
    /\ Timely => sec = {}
    /\ pc' = "confirm"
    /\ UNCHANGED <<broken, prim, sec, txbuf, rxprim, rxsec, wkc, wkc2, try, expired, served, lost, changes>>

\* ecx_srconfirm: "or otherwise retry until timeout"
Again ==
    /\ pc = "confirm"
    /\ wkc <= NOFRAME
    /\ ~expired
    /\ try < MaxTry
    /\ pc' = "outprim"
    /\ UNCHANGED <<broken, prim, sec, txbuf, rxprim, rxsec, wkc, wkc2, try, expired, served, lost, changes>>

Return ==
    /\ pc = "confirm"
    /\ wkc > NOFRAME \/ expired
    /\ pc' = "done"
    /\ UNCHANGED <<broken, prim, sec, txbuf, rxprim, rxsec, wkc, wkc2, try, expired, served, lost, changes>>

Timer1 ==
    /\ ~expired
    /\ pc # "done"
    /\ expired' = TRUE
    /\ UNCHANGED <<broken, prim, sec, txbuf, rxprim, rxsec, wkc, wkc2, pc, try, served, lost, changes>>

--------------------------------------------------------------------------------
\* A frame that would have come back is lost on the cable.
LoseFrame ==
    /\ pc # "done"
    /\ \/ \E f \in prim : prim' = prim \ {f} /\ sec' = sec
       \/ \E f \in sec : sec' = sec \ {f} /\ prim' = prim
    /\ lost' = TRUE
    /\ UNCHANGED <<broken, txbuf, rxprim, rxsec, wkc, wkc2, pc, try, expired, served, changes>>

\* The cable breaks somewhere, or is repaired: never two breaks at a time.
ChangeCable ==
    /\ changes < MaxChange
    /\ pc # "done"
    /\ broken' \in IF broken = NoBreak THEN 0 .. N ELSE {NoBreak}
    /\ changes' = changes + 1
    /\ UNCHANGED <<prim, sec, txbuf, rxprim, rxsec, wkc, wkc2, pc, try, expired, served, lost>>

Done == pc = "done" /\ UNCHANGED vars

Thread == \/ SendPrimary \/ SendDummy \/ RecvPrimary \/ RecvSecondary
          \/ Crossed \/ Reroute \/ NoReroute \/ Resend \/ RecvResend \/ ResendLost
          \/ Again \/ Return

Next == Thread \/ Timer1 \/ LoseFrame \/ ChangeCable \/ Done

Spec == Init /\ [][Next]_vars
--------------------------------------------------------------------------------
\* "Any one of the connections (also an interconnect) can be removed and the
\* slaves are still serviced with packets" (nicdrv.c): wherever one cable is
\* missing, each slave processes the datagram once, in the standard order, and
\* the result of all of them is in the primary buffer.
Serviced == (pc = "done" /\ ~lost /\ changes = 0) =>
                /\ wkc = N
                /\ rxprim.kind = "own"
                /\ rxprim.by = Span(1, N)
                /\ \A s \in Slave : served[s] = 1

\* The counter speaks of the datagram in the buffer and not of the dummy, counts
\* no slave twice, and counts only slaves that have processed the datagram.
HonestCount == /\ rxprim.kind = "own"
               /\ wkc = wkcOf(rxprim)
               /\ IsInjective(rxprim.by)
               /\ \A s \in ToSet(rxprim.by) : served[s] > 0

\* Whatever frames are lost on the way, a positive working counter is honest while
\* the cable stays as it is: the decision tree of ecx_waitinframe_red never puts
\* the two frames together wrongly.
WkcIsHonest == (pc = "done" /\ changes = 0 /\ wkc > 0) => HonestCount

\* The same when the cable breaks or heals during the transaction: the result is
\* "a combined frame that traversed all slaves in standard order" (nicdrv.c).
WkcSurvivesBreak == (pc = "done" /\ wkc > 0) => HonestCount

\* "The function retries if time is left and the result is WKC=0 or no frame
\* received" (nicdrv.c, ecx_srconfirm).
RetriesWhileTimeIsLeft == (pc = "done" /\ wkc <= 0) => expired
--------------------------------------------------------------------------------
(* Why the first two hold with timers that outlast a frame's travel, as an     *)
(* inductive invariant about a cable that has not changed yet.                 *)

Datagram == Frame("own", "PRIM", try, FromPrimary)
Dummy == Frame("dummy", "SEC", try, FromSecondary)
Rerouted == Frame("own", "PRIM", try, txbuf \o FromSecondary)

\* Where the datagram and the dummy of this attempt come back.
ToPrim == IF broken = NoBreak THEN {Dummy} ELSE IF broken \in Slave THEN {Datagram} ELSE {}
ToSec == IF broken = NoBreak THEN {Datagram} ELSE IF broken \in 0 .. N - 1 THEN {Dummy} ELSE {}

\* The slaves this side of the break have processed the datagram, those beyond
\* it have too: at least once, and exactly once when no frame was lost.
ServedNear == \A s \in Slave : s <= broken => served[s] > 0 /\ (~lost => served[s] = 1)
ServedFar == \A s \in Slave : s > broken => served[s] > 0 /\ (~lost => served[s] = 1)
UnservedFar == \A s \in Slave : s > broken => (~lost => served[s] = 0)

\* Before an attempt nothing is on its way, and a second attempt means a loss.
BeforeAttempt ==
    pc = "outprim" => /\ prim = {} /\ sec = {} /\ txbuf = <<>>
                      /\ ~lost => \A s \in Slave : served[s] = 0

\* The datagram is out, the dummy is not.
HalfSent ==
    pc = "outsec" => /\ txbuf = <<>>
                     /\ prim \subseteq ToPrim \ {Dummy} /\ sec \subseteq ToSec \ {Dummy}
                     /\ ~lost => prim = ToPrim \ {Dummy} /\ sec = ToSec \ {Dummy}
                     /\ ServedNear /\ UnservedFar

\* Each socket has its frame of this attempt, or the frame is still to come, or
\* it is lost.
Awaited ==
    pc = "wait" => /\ txbuf = <<>>
                   /\ prim \subseteq ToPrim /\ sec \subseteq ToSec
                   /\ wkc # NOFRAME => prim = {} /\ rxprim \in ToPrim /\ wkc = wkcOf(rxprim)
                   /\ wkc2 # NOFRAME => sec = {} /\ rxsec \in ToSec /\ wkc2 = wkcOf(rxsec)
                   /\ ~lost /\ wkc = NOFRAME => prim = ToPrim
                   /\ ~lost /\ wkc2 = NOFRAME => sec = ToSec
                   /\ ServedNear /\ UnservedFar

\* The dummy came back where it was sent; what the datagram has seen so far is in
\* the tx buffer and in the primary buffer, or it has seen nothing.
HalfDone == /\ broken \in 0 .. N - 1
            /\ prim = {}
            /\ ServedNear
            /\ \/ wkc = NOFRAME /\ txbuf = <<>> /\ (lost \/ broken = 0)
               \/ /\ rxprim = Datagram /\ txbuf = FromPrimary
                  /\ broken > 0 /\ wkc = broken

Rerouting == /\ pc = "resend" => HalfDone /\ sec = {} /\ UnservedFar
             /\ pc = "waitresend" => /\ HalfDone /\ ServedFar
                                     /\ sec \subseteq {Rerouted}
                                     /\ ~lost => sec = {Rerouted}

\* A missing result is a lost frame, and leaves the tx buffer as it was.
Result == /\ wkc > 0 => HonestCount
          /\ ~lost => /\ wkc = N
                      /\ rxprim.kind = "own"
                      /\ rxprim.by = Span(1, N)
                      /\ \A s \in Slave : served[s] = 1

Concluded == /\ pc \in {"confirm", "done"} => Result
             /\ pc = "confirm" => /\ prim = {} /\ sec = {}
                                  /\ wkc = NOFRAME => txbuf = <<>>

RedInv == /\ pc = "outprim" => try < MaxTry
          /\ changes = 0 => BeforeAttempt /\ HalfSent /\ Awaited /\ Rerouting /\ Concluded
================================================================================
