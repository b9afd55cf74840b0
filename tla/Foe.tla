----------------------------------- MODULE Foe ----------------------------------
(***************************************************************************)
(* File transfers: ecx_FOEread and ecx_FOEwrite (ethercatfoe.c) over the   *)
(* mailbox, and the file server of the slave.  A packet of less than its   *)
(* full size ends a file.                                                  *)
(***************************************************************************)
EXTENDS Coe

CONSTANT rxdata   \* pieces in a data packet of the slave
ASSUME FoeAssumption == rxdata \in Nat \ {0}

FoeMessage(op, key, no, data) == Message("FoE", 0, op, key, no, data)

--------------------------------------------------------------------------------
(* The file server (external). *)

ServeRead(m) ==
    /\ m.op = "READ"
    /\ Answer(FoeMessage("DATA", m.key, 1, Pieces(m.key, 0, rxdata)), Server("READ", m.key, 1, 0, <<>>))

\* The next packet, unless the one that is acknowledged was the last.
ServeAck(m) ==
    LET pos == server.pos + rxdata
    IN /\ m.op = "ACK"
       /\ IF server.op = "READ" /\ server.no = m.no
            THEN IF pos > size[server.key]
                   THEN Take(<<>>, Idle, {})
                   ELSE Answer(FoeMessage("DATA", server.key, m.no + 1, Pieces(server.key, pos, rxdata)),
                               [server EXCEPT !.no = m.no + 1, !.pos = pos])
            ELSE Answer(FoeMessage("ERROR", m.key, 0, <<>>), Idle)
   
ServeWrite(m) ==
    /\ m.op = "WRITE"
    /\ Answer(FoeMessage("ACK", m.key, 0, <<>>), Server("WRITE", m.key, 0, 0, <<>>))

ServeData(m) ==
    LET got == server.data \o m.data
    IN /\ m.op = "DATA"
       /\ IF server.op = "WRITE" /\ m.no = server.no + 1
            THEN IF Len(m.data) < maxdata
                   THEN Take(<<FoeMessage("ACK", server.key, m.no, <<>>)>>, Idle,
                             IF got = Whole(server.key) THEN {server.key} ELSE {})
                   ELSE Answer(FoeMessage("ACK", server.key, m.no, <<>>),
                               [server EXCEPT !.no = m.no, !.data = got])
            ELSE Answer(FoeMessage("ERROR", m.key, 0, <<>>), Idle)
   
\* "BUSY": the packet was not taken.
ServeBusy(m) ==
    /\ m.op = "DATA"
    /\ troubles < MaxTrouble
    /\ troubles' = troubles + 1
    /\ Process(<<FoeMessage("BUSY", m.key, 0, <<>>)>>, server, {})

ServeFoe == /\ inbox # NoMail /\ inbox.type = "FoE"
            /\ \/ ServeRead(inbox) \/ ServeAck(inbox) \/ ServeWrite(inbox)
               \/ ServeData(inbox) \/ ServeBusy(inbox)

--------------------------------------------------------------------------------
(* ecx_FOEread *)

FOEread == At("FOEread", "flushed") /\ SendAs("sent", FoeMessage("READ", call.key, 0, <<>>), call)
FOEreadWaits == Sent("FOEread", "sent", "data")
FOEreadNotSent == NotSent("FOEread", "sent")

\* The acknowledge is sent, then the loop goes on if the packet was a full one.
FOEreadData ==
    LET read == [call EXCEPT !.no = @ + 1, !.data = @ \o MbxIn.data]
    IN /\ At("FOEread", "data")
       /\ IF /\ wkc > 0 /\ MbxIn.type = "FoE" /\ MbxIn.op = "DATA"
             /\ MbxIn.no = call.no + 1 /\ Len(read.data) <= psize
            THEN SendAs(IF Len(MbxIn.data) = maxdata THEN "sent" ELSE "lastsent",
                        FoeMessage("ACK", call.key, MbxIn.no, <<>>), read)
            ELSE Fail

FOEreadEnds == At("FOEread", "lastsent") /\ End(IF wkc > 0 THEN "ok" ELSE "failed", call)

ReadFoe == FOEread \/ FOEreadWaits \/ FOEreadNotSent \/ FOEreadData \/ FOEreadEnds

--------------------------------------------------------------------------------
(* ecx_FOEwrite *)

FOEwrite == At("FOEwrite", "flushed") /\ SendAs("sent", FoeMessage("WRITE", call.key, 0, <<>>), call)
FOEwriteWaits == Sent("FOEwrite", "sent", "answer")
FOEwriteNotSent == NotSent("FOEwrite", "sent")

\* Mutant: no final packet of size zero.
NoFinalZero == FALSE

\* "dofinalzero": "if last packet was full size, add a zero size packet as final".
FinalZero == call.no > 0 /\ call.pos = size[call.key] /\ call.no * maxdata = size[call.key]

SendPacket ==
    LET packet == Pieces(call.key, call.pos, maxdata)
    IN SendAs("sent", FoeMessage("DATA", call.key, call.no + 1, packet),
              [call EXCEPT !.no = @ + 1, !.pos = @ + Len(packet)])

FOEwriteAck ==
    /\ At("FOEwrite", "answer")
    /\ wkc > 0 /\ MbxIn.type = "FoE" /\ MbxIn.op = "ACK"
    /\ CASE MbxIn.no # call.no -> Fail
         [] MbxIn.no = call.no /\ (call.pos < size[call.key] \/ FinalZero) -> SendPacket
         [] OTHER -> End("ok", call)

\* "resend if data has been send before, otherwise ignore": the counters go back by a
\* packet, and the loop ends as nothing sets worktodo.
FOEwriteBusy ==
    /\ At("FOEwrite", "answer")
    /\ wkc > 0 /\ MbxIn.type = "FoE" /\ MbxIn.op = "BUSY"
    /\ End("ok", IF call.no > 0 THEN [call EXCEPT !.no = @ - 1] ELSE call)

FOEwriteFails ==
    /\ At("FOEwrite", "answer")
    /\ wkc > 0 => ~(MbxIn.type = "FoE" /\ MbxIn.op \in {"ACK", "BUSY"})
    /\ Fail

WriteFoe == FOEwrite \/ FOEwriteWaits \/ FOEwriteNotSent \/ FOEwriteAck \/ FOEwriteBusy \/ FOEwriteFails

================================================================================
