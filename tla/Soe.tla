----------------------------------- MODULE Soe ----------------------------------
(***************************************************************************)
(* Servo drive parameters (IDNs): ecx_SoEread and ecx_SoEwrite             *)
(* (ethercatsoe.c) over the mailbox, and the drive.                        *)
(*                                                                         *)
(* A fragment that is not the last is marked "incomplete".  The number of  *)
(* fragments left stands in the place of the IDN, so only the last one of  *)
(* a write says what is written; nobody compares the numbers.              *)
(***************************************************************************)
EXTENDS Coe

Soe(op, key, data) == Message("SoE", 0, op, key, 0, data)
Cut(data) == SubSeq(data, 1, IF Len(data) <= psize THEN Len(data) ELSE psize)

--------------------------------------------------------------------------------
(* The drive (external). *)

SoeFragment(k, n) ==
    LET part == Pieces(k, n * maxdata, maxdata)
    IN Soe(IF n * maxdata + Len(part) = size[k] THEN "readres" ELSE "incomplete", k, part)

ServeReadReq(m) ==
    /\ m.op = "readreq"
    /\ Take([i \in 1 .. (size[m.key] + maxdata - 1) \div maxdata |-> SoeFragment(m.key, i - 1)], Idle, {})

\* Fragments are put together until the last; a value of another length is refused.
ServeWriteReq(m) ==
    LET data == (IF server.op = "SoE" THEN server.data ELSE <<>>) \o m.data
    IN CASE m.op = "writemore" -> Take(<<>>, Server("SoE", "none", 0, 0, data), {})
         [] m.op = "writereq" /\ Len(data) = size[m.key] -> Finish(Soe("writeres", m.key, <<>>), m.key)
         [] m.op = "writereq" /\ Len(data) # size[m.key] -> Answer(Soe("writeerror", m.key, <<>>), Idle)
         [] OTHER -> FALSE

ServeSoe == /\ inbox # NoMail /\ inbox.type = "SoE"
            /\ ServeReadReq(inbox) \/ ServeWriteReq(inbox)

--------------------------------------------------------------------------------
(* ecx_SoEread *)

SoEread == At("SoEread", "flushed") /\ SendAs("sent", Soe("readreq", call.key, <<>>), call)
SoEreadSent == Sent("SoEread", "sent", "answer")
SoEreadNotSent == NotSent("SoEread", "sent")

\* "NotLast": fragments are read until one is not "incomplete", and what does not fit
\* into the buffer is dropped.
SoEreadFragment ==
    LET read == [call EXCEPT !.data = Cut(@ \o MbxIn.data)]
    IN /\ At("SoEread", "answer")
       /\ CASE wkc > 0 /\ MbxIn.type = "SoE" /\ MbxIn.op = "incomplete" ->
                 Receive(1) /\ call' = read /\ UNCHANGED calls
            [] wkc > 0 /\ MbxIn.type = "SoE" /\ MbxIn.op = "readres" -> End("ok", read)
            [] OTHER -> Fail

ReadSoe == SoEread \/ SoEreadSent \/ SoEreadNotSent \/ SoEreadFragment

--------------------------------------------------------------------------------
(* ecx_SoEwrite *)

NotLast == call.pos < size[call.key]

\* The next fragment; the session handle is a new one each time.
SendPart ==
    LET part == Pieces(call.key, call.pos, maxdata)
        last == call.pos + Len(part) = size[call.key]
    IN SendAs("sent", Soe(IF last THEN "writereq" ELSE "writemore", IF last THEN call.key ELSE "none", part),
              [call EXCEPT !.pos = @ + Len(part)])

SoEwrite == At("SoEwrite", "flushed") /\ SendPart

\* A fragment that could not be sent is given up, but not the write.
SoEwriteNotSent ==
    /\ At("SoEwrite", "sent")
    /\ wkc <= 0
    /\ IF NotLast THEN SendPart ELSE Fail

\* "!NotLast || !ecx_mbxempty(...)"
SoEwriteSent ==
    /\ At("SoEwrite", "sent")
    /\ wkc > 0
    /\ IF NotLast THEN Probe /\ call' = [call EXCEPT !.step = "probed"] /\ UNCHANGED calls
                  ELSE ReceiveAs("answer")

\* Fragments follow one another as long as the slave takes them.
SoEwriteProbed ==
    /\ At("SoEwrite", "probed")
    /\ IF wkc > 0 THEN SendPart ELSE ReceiveAs("answer")

\* Any answer ends the loop; without one it goes on if fragments are left.
SoEwriteAnswer ==
    /\ At("SoEwrite", "answer")
    /\ CASE wkc > 0 /\ MbxIn.type = "SoE" /\ MbxIn.op = "writeres" -> End("ok", call)
         [] wkc <= 0 /\ NotLast -> SendPart
         [] OTHER -> Fail

WriteSoe == SoEwrite \/ SoEwriteNotSent \/ SoEwriteSent \/ SoEwriteProbed \/ SoEwriteAnswer

================================================================================
