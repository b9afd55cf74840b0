----------------------------------- MODULE Coe ----------------------------------
(***************************************************************************)
(* SDO transfers: ecx_SDOread and ecx_SDOwrite (ethercatcoe.c) over the    *)
(* mailbox, and the SDO server of the slave.                               *)
(*                                                                         *)
(* Data is counted in pieces: one piece fits into an expedited message,    *)
(* maxdata pieces into the first of a normal transfer, maxdata + more into *)
(* a segment.                                                              *)
(***************************************************************************)
EXTENDS Mailbox, SequencesExt

CONSTANTS more,   \* pieces a segment holds above maxdata ("maxdata += 7")
          index   \* the object of which a key is a subindex
ASSUME CoeAssumption == more \in Nat /\ DOMAIN index = Key

\* The pieces of k from the one at offset "from" on, n at most.
Pieces(k, from, n) == [i \in 1 .. (IF from + n <= size[k] THEN n ELSE size[k] - from) |-> <<k, from + i>>]
Whole(k) == Pieces(k, 0, size[k])

\* A function of the master: what it is to do, where it stands, how often its
\* toggle bit or packet number has changed, the offset of its pointer into the
\* buffer and what it has read.
Call(op, key) == [op |-> op, key |-> key, step |-> "flushed", no |-> 0, pos |-> 0, data |-> <<>>]
NoCall == [Call("none", "none") EXCEPT !.step = "done"]

At(op, step) == call.op = op /\ call.step = step /\ link = "idle"
SendAs(step, m, next) == Send(m) /\ call' = [next EXCEPT !.step = step] /\ UNCHANGED calls
ReceiveAs(step) == Receive(1) /\ call' = [call EXCEPT !.step = step] /\ UNCHANGED calls

\* What needs no mailbox.
Local == UNCHANGED <<slaveVars, troubles, link, SMstat, MbxOut, MbxIn, wkc, expired, mbx_cnt, elist, hook>>
End(result, next) == call' = [next EXCEPT !.step = result] /\ Local /\ UNCHANGED calls
Fail == End("failed", call)

\* The common turn of all functions: what was placed in the mailbox is answered.
Sent(op, step, next) == At(op, step) /\ wkc > 0 /\ ReceiveAs(next)
NotSent(op, step) == At(op, step) /\ wkc <= 0 /\ Fail

Coe(op, key, no, data) == Message("CoE", 0, op, key, no, data)
\* Responses to an upload or download request; a segment has data in place of the index.
SdoResponse(m) == m.type = "CoE" /\ m.op \in {"expedited", "normal", "downloaded"}
\* "CoE, SDO response and the correct index", and "correct index and subindex".
IndexAnswered(m) == SdoResponse(m) /\ index[m.key] = index[call.key]
SubindexAnswered(m) == SdoResponse(m) /\ m.key = call.key

--------------------------------------------------------------------------------
(* The SDO server (external). *)

Server(op, key, no, pos, data) == [op |-> op, key |-> key, no |-> no, pos |-> pos, data |-> data]
Idle == Server("idle", "none", 0, 0, <<>>)
Answer(m, next) == Take(<<m>>, next, {})
Finish(m, key) == Take(<<m>>, Idle, {key})
Abort(m) == Answer(Coe("abort", m.key, 0, <<>>), Idle)

\* "no" of an initiating message is the size it announces.
ServeUpload(m) ==
    LET first == Pieces(m.key, 0, maxdata)
        whole == Len(first) = size[m.key]
    IN /\ m.op = "upload"
       /\ IF size[m.key] <= 1
            THEN Answer(Coe("expedited", m.key, size[m.key], first), Idle)
            ELSE Answer(Coe("normal", m.key, size[m.key], first),
                        IF whole THEN Idle ELSE Server("upload", m.key, 0, maxdata, <<>>))

\* A segment request does not name the object.
ServeSegment(m) ==
    /\ m.op = "uploadseg"
    /\ IF server.op = "upload" /\ server.no = m.no
         THEN LET part == Pieces(server.key, server.pos, maxdata + more)
                  end == server.pos + Len(part)
              IN IF end = size[server.key]
                   THEN Answer(Coe("lastsegment", server.key, m.no, part), Idle)
                   ELSE Answer(Coe("segment", server.key, m.no, part),
                               [server EXCEPT !.no = 1 - @, !.pos = end])
         ELSE Abort(m)

ServeDownload(m) ==
    LET answer == Coe("downloaded", m.key, 0, <<>>)
    IN /\ m.op = "download"
       /\ IF Len(m.data) = m.no THEN Finish(answer, m.key)
                               ELSE Answer(answer, Server("download", m.key, 0, m.no, m.data))

\* A transfer that ends with another length than announced is refused.
ServeDownloadSegment(m) ==
    LET answer == Coe("segdownloaded", server.key, m.no, <<>>)
        got == server.data \o m.data
        last == m.op = "lastdownloadseg"
        refused == \/ server.op # "download" \/ server.no # m.no
                   \/ last /\ Len(got) # server.pos
    IN /\ m.op \in {"downloadseg", "lastdownloadseg"}
       /\ CASE refused -> Abort(m)
            [] ~refused /\ last -> Finish(answer, server.key)
            [] OTHER -> Answer(answer, [server EXCEPT !.no = 1 - @, !.data = got])

ServeCoe == \/ /\ inbox # NoMail /\ inbox.type = "CoE"
               /\ \/ ServeUpload(inbox) \/ ServeSegment(inbox)
                  \/ ServeDownload(inbox) \/ ServeDownloadSegment(inbox)

--------------------------------------------------------------------------------
(* ecx_SDOread *)

SDOread == At("SDOread", "flushed") /\ SendAs("sent", Coe("upload", call.key, 0, <<>>), call)
SDOreadAnswered == Sent("SDOread", "sent", "answer")
SDOreadNotSent == NotSent("SDOread", "sent")

RequestSegment(next) == SendAs("segmentsent", Coe("uploadseg", call.key, next.no, <<>>), next)

SDOreadResponse ==
    /\ At("SDOread", "answer")
    /\ IF wkc > 0 /\ IndexAnswered(MbxIn) /\ MbxIn.no <= psize
         THEN LET read == [call EXCEPT !.data = MbxIn.data]
              IN IF MbxIn.op = "expedited" \/ Len(MbxIn.data) >= MbxIn.no
                   THEN End("ok", read)
                   ELSE RequestSegment(read)
         ELSE Fail

\* Mutant: the toggle bit never changes.
NotToggled(c) == c

\* "toggle bit for segment request"; NotLast stays set when nothing came.
Toggled(c) == [c EXCEPT !.no = 1 - @]

SDOreadSegmentSent == Sent("SDOread", "segmentsent", "segment")
\* Nothing sent or nothing received: the loop goes on with the next segment.
SDOreadNoSegment ==
    /\ \E step \in {"segmentsent", "segment"} : At("SDOread", step)
    /\ wkc <= 0
    /\ RequestSegment(Toggled(call))

SDOreadSegment ==
    LET read == [call EXCEPT !.data = @ \o MbxIn.data]
    IN /\ At("SDOread", "segment")
       /\ wkc > 0
       /\ CASE MbxIn.type = "CoE" /\ MbxIn.op = "segment" -> RequestSegment(Toggled(read))
            [] MbxIn.type = "CoE" /\ MbxIn.op = "lastsegment" -> End("ok", read)
            [] OTHER -> Fail

ReadSdo == \/ SDOread \/ SDOreadAnswered \/ SDOreadNotSent \/ SDOreadResponse \/ SDOreadSegmentSent
           \/ SDOreadNoSegment \/ SDOreadSegment

--------------------------------------------------------------------------------
(* ecx_SDOwrite *)

SDOwrite ==
    LET first == Pieces(call.key, 0, maxdata)
    IN /\ At("SDOwrite", "flushed")
       /\ SendAs("sent", Coe("download", call.key, size[call.key], first), [call EXCEPT !.pos = Len(first)])
SDOwriteAnswered == Sent("SDOwrite", "sent", "answer")
SDOwriteNotSent == NotSent("SDOwrite", "sent")

\* "repeat while segments left": whatever became of the last one.
NextSegment(no) ==
    LET part == Pieces(call.key, call.pos, maxdata + more)
        end == call.pos + Len(part)
        op == IF end = size[call.key] THEN "lastdownloadseg" ELSE "downloadseg"
    IN SendAs("segmentsent", Coe(op, "none", no, part), [call EXCEPT !.pos = end, !.no = no])

SDOwriteResponse ==
    /\ At("SDOwrite", "answer")
    /\ IF wkc > 0 /\ SubindexAnswered(MbxIn)
         THEN IF call.pos = size[call.key] THEN End("ok", call) ELSE NextSegment(0)
         ELSE Fail

SegmentTaken == MbxIn.type = "CoE" /\ MbxIn.op = "segdownloaded"

SDOwriteSegmentSent == Sent("SDOwrite", "segmentsent", "segment")
SDOwriteSegmentNotSent ==
    /\ At("SDOwrite", "segmentsent")
    /\ wkc <= 0
    /\ IF call.pos = size[call.key] THEN Fail ELSE NextSegment(1 - call.no)

SDOwriteSegment ==
    /\ At("SDOwrite", "segment")
    /\ CASE wkc > 0 /\ ~SegmentTaken -> Fail
         [] (wkc > 0 => SegmentTaken) /\ call.pos < size[call.key] -> NextSegment(1 - call.no)
         [] OTHER -> End(IF wkc > 0 THEN "ok" ELSE "failed", call)

WriteSdo == \/ SDOwrite \/ SDOwriteAnswered \/ SDOwriteNotSent \/ SDOwriteResponse
            \/ SDOwriteSegmentSent \/ SDOwriteSegmentNotSent \/ SDOwriteSegment

================================================================================
