-------------------------------- MODULE CoeObjects ------------------------------
(***************************************************************************)
(* The other services of CoE (ethercatcoe.c): ecx_RxPDO, ecx_TxPDO, and    *)
(* the object dictionary with ecx_readODlist, ecx_readODdescription,       *)
(* ecx_readOE and ecx_readOEsingle.                                        *)
(*                                                                         *)
(* The pieces of a list are its indexes, the pieces of an object its       *)
(* subindexes.  No answer is compared with the index it was asked for.     *)
(***************************************************************************)
EXTENDS Soe

Ask(op, m) == At(op, "flushed") /\ SendAs("sent", m, call)
Answered(op) == wkc > 0 /\ MbxIn.type = "CoE" /\ MbxIn.op = op

--------------------------------------------------------------------------------
(* The slave (external). *)

ServePdo(m) ==
    \/ m.op = "rxpdo" /\ Take(<<>>, server, IF m.data = Whole(m.key) THEN {m.key} ELSE {})
    \/ m.op = "txpdorr" /\ Answer(Coe("txpdo", m.key, 0, Whole(m.key)), server)

\* "no" of a part of the list is the number of fragments left.
ListPart(k, n) ==
    LET parts == (size[k] + maxdata - 1) \div maxdata
    IN Coe("odlist", k, parts - n, Pieces(k, (n - 1) * maxdata, maxdata))

ServeInfo(m) ==
    \/ /\ m.op = "odlistreq"
       /\ Take([n \in 1 .. (size[m.key] + maxdata - 1) \div maxdata |-> ListPart(m.key, n)], server, {})
    \/ m.op = "odreq" /\ Answer(Coe("od", m.key, 0, Whole(m.key)), server)
    \/ m.op = "oereq" /\ Answer(Coe("oe", m.key, m.no, Pieces(m.key, m.no, 1)), server)

ServeObjects == /\ inbox # NoMail /\ inbox.type = "CoE"
                /\ ServePdo(inbox) \/ ServeInfo(inbox)

--------------------------------------------------------------------------------
(* ecx_RxPDO: "limit transfer" to the mailbox; there is no answer. *)

RxPDO == Ask("RxPDO", Coe("rxpdo", call.key, 0, Pieces(call.key, 0, maxdata)))
RxPDOEnds == At("RxPDO", "sent") /\ End(IF wkc > 0 THEN "ok" ELSE "failed", call)

(* ecx_TxPDO *)

TxPDO == Ask("TxPDO", Coe("txpdorr", call.key, 0, <<>>))
TxPDOSent == Sent("TxPDO", "sent", "answer")
TxPDONotSent == NotSent("TxPDO", "sent")
TxPDOAnswer ==
    /\ At("TxPDO", "answer")
    /\ IF Answered("txpdo") /\ Len(MbxIn.data) <= psize
         THEN End("ok", [call EXCEPT !.data = MbxIn.data])
         ELSE Fail

Pdo == RxPDO \/ RxPDOEnds \/ TxPDO \/ TxPDOSent \/ TxPDONotSent \/ TxPDOAnswer

--------------------------------------------------------------------------------
(* ecx_readODlist *)

readODlist == Ask("readODlist", Coe("odlistreq", call.key, 0, <<>>))
readODlistSent == Sent("readODlist", "sent", "answer")
readODlistNotSent == NotSent("readODlist", "sent")

\* "check if indexes fit in buffer structure"; the parts that do not fit are read, too.
readODlistPart ==
    LET read == [call EXCEPT !.data = Cut(@ \o MbxIn.data)]
    IN /\ At("readODlist", "answer")
       /\ CASE ~Answered("odlist") -> Fail
            [] Answered("odlist") /\ MbxIn.no > 0 -> Receive(1) /\ call' = read /\ UNCHANGED calls
            [] OTHER -> End("ok", read)

--------------------------------------------------------------------------------
(* ecx_readODdescription *)

readODdescription == Ask("readODdescription", Coe("odreq", call.key, 0, <<>>))
readODdescriptionSent == Sent("readODdescription", "sent", "answer")
readODdescriptionNotSent == NotSent("readODdescription", "sent")
readODdescriptionAnswer ==
    /\ At("readODdescription", "answer")
    /\ IF Answered("od") THEN End("ok", [call EXCEPT !.data = MbxIn.data]) ELSE Fail

--------------------------------------------------------------------------------
(* ecx_readOE: ecx_readOEsingle for every subindex. *)

readOEsingle == Ask("readOE", Coe("oereq", call.key, call.no, <<>>))
readOEsingleSent == Sent("readOE", "sent", "answer")

\* Whatever became of one entry, the next is read; the result is that of the last.
NextEntry(result, read) ==
    IF call.no + 1 < size[call.key]
      THEN Receive(0) /\ call' = [read EXCEPT !.step = "flushed", !.no = @ + 1] /\ UNCHANGED calls
      ELSE End(result, read)

readOEsingleNotSent == At("readOE", "sent") /\ wkc <= 0 /\ NextEntry("failed", call)
readOEsingleAnswer ==
    /\ At("readOE", "answer")
    /\ IF Answered("oe") THEN NextEntry("ok", [call EXCEPT !.data = @ \o MbxIn.data])
                         ELSE NextEntry("failed", call)

Info == \/ readODlist \/ readODlistSent \/ readODlistNotSent \/ readODlistPart
        \/ readODdescription \/ readODdescriptionSent \/ readODdescriptionNotSent \/ readODdescriptionAnswer
        \/ readOEsingle \/ readOEsingleSent \/ readOEsingleNotSent \/ readOEsingleAnswer

================================================================================
