------------------------------- MODULE ProcessData -------------------------------
(***************************************************************************)
(* The cyclic exchange of the process image (ethercatmain.c:               *)
(* ecx_main_send_processdata, ecx_receive_processdata_group and the stack  *)
(* of datagrams between them) over the map that module IoMap builds.       *)
(*                                                                         *)
(* Send puts every segment of the image into a datagram of its own and     *)
(* remembers on the index stack where its answer belongs; receive takes    *)
(* the datagrams in that order, copies what came back and adds up the work *)
(* counters.  The programs compare the sum with                            *)
(* expectedWKC = outputsWKC * 2 + inputsWKC.                               *)
(*                                                                         *)
(* A frame may be lost on its way, and each slave may fail to answer in    *)
(* each of them.  Bytes are not modelled by their values but by their      *)
(* origin: the logical byte and the slaves that had processed it.          *)
(***************************************************************************)
EXTENDS IoMap

CONSTANTS MaxBuf,    \* EC_MAXBUF: places of the index stack
          MaxCycle   \* bound: exchanges of one run

ASSUME BufAssumption == MaxBuf \in Nat \ {0} /\ MaxCycle \in Nat

VARIABLES hasdc,    \* grouplist[0].hasdc: the first frame carries a FRMW, too
          stage,    \* "idle" or "sent": between send and the end of receive
          cycle,    \* exchanges so far
          frames,   \* the datagrams sent in this cycle
          pulled,   \* idxstack.pulled
          wkc,      \* sum so far, the result when idle
          valid,    \* valid_wkc
          busy,     \* frame indices in use
          image,    \* origin of each byte that receive stored in the IOmap
          carried   \* output bytes and the slaves that took them

exchangeVars == <<stage, cycle, frames, pulled, wkc, valid, busy, image, carried>>
allVars == <<vars, hasdc, exchangeVars>>

NoByte == <<>>
NoFrame == -1
\* Twice the image: room to see a copy that leaves it.
ImageBytes == 0 .. 2 * (group.Obytes + group.Ibytes)
expectedWKC == 2 * group.outputsWKC + group.inputsWKC

ExchangeInit == /\ Init
                /\ hasdc \in BOOLEAN
                /\ stage = "idle"
                /\ cycle = 0
                /\ frames = <<>>
                /\ pulled = 0
                /\ wkc = 0
                /\ valid = FALSE
                /\ busy = 0
                /\ image = <<>>
                /\ carried = {}

--------------------------------------------------------------------------------
(* ecx_main_send_processdata *)

\* How many segments the loop "while (length && (currentsegment < nsegments))" of
\* LRD and LRW takes: at least one, and no more once length is 0. A segment longer
\* than what is left makes length negative, and the loop takes the others too.
Turns(sizes, length) ==
    CHOOSE n \in 1 .. Len(sizes) :
        /\ n = Len(sizes) \/ Total(SubSeq(sizes, 1, n)) = length
        /\ \A m \in 1 .. n - 1 : Total(SubSeq(sizes, 1, m)) # length

\* The loop of LWR cuts such a segment ("if ((length - sublength) < 0)") and ends.
CutTurns(sizes, length) ==
    CHOOSE n \in 1 .. Len(sizes) :
        /\ n = Len(sizes) \/ Total(SubSeq(sizes, 1, n)) >= length
        /\ \A m \in 1 .. n - 1 : Total(SubSeq(sizes, 1, m)) < length

\* One datagram per turn: "LogAdr += sublength; data += sublength".
Datagrams(cmd, sizes, length, log, from, to) ==
    [i \in 1 .. Turns(sizes, length) |->
        LET off == Total(SubSeq(sizes, 1, i - 1))
        IN [cmd |-> cmd, log |-> log + off, from |-> from + off, to |-> to + off, len |-> sizes[i]]]

\* Mutant: every input segment starts at the first input byte.
InputDatagramsRestart ==
    IF group.Ibytes = 0 THEN <<>>
    ELSE LET rest == SubSeq(group.IOsegment, group.Isegment + 1, Len(group.IOsegment))
         IN Datagrams("LRD", [rest EXCEPT ![1] = @ - group.Ioffset], group.Ibytes,
                      0, group.inputs, group.inputs)

\* Mutant: the segment that outputs and inputs share is read as a whole.
InputDatagramsWhole ==
    IF group.Ibytes = 0 THEN <<>>
    ELSE LET rest == SubSeq(group.IOsegment, group.Isegment + 1, Len(group.IOsegment))
         IN Datagrams("LRD", rest, group.Ibytes, group.Obytes, group.inputs, group.inputs)

\* blockLRW: LRD over the inputs, from the byte Ioffset of segment Isegment on.
InputDatagrams ==
    IF group.Ibytes = 0 THEN <<>>
    ELSE LET rest == SubSeq(group.IOsegment, group.Isegment + 1, Len(group.IOsegment))
         IN Datagrams("LRD", [rest EXCEPT ![1] = @ - group.Ioffset], group.Ibytes,
                      group.Obytes, group.inputs, group.inputs)

\* blockLRW: LWR over the outputs, the last one cut where they end.
OutputDatagrams ==
    IF group.Obytes = 0 THEN <<>>
    ELSE LET n == CutTurns(group.IOsegment, group.Obytes)
             sizes == [SubSeq(group.IOsegment, 1, n) EXCEPT
                          ![n] = group.Obytes - Total(SubSeq(group.IOsegment, 1, n - 1))]
         IN Datagrams("LWR", sizes, group.Obytes, 0, 0, 0)

bigger == IF group.Obytes > group.Ibytes THEN group.Obytes ELSE group.Ibytes

\* iomapinputoffset: with overlap the answer goes behind the outputs, "don't
\* compensate for overlapping IOmap if we only got inputs".
LrwDatagrams ==
    LET length == IF overlap THEN bigger ELSE group.Obytes + group.Ibytes
        data == IF group.Obytes > 0 THEN 0 ELSE group.inputs
        iomapinputoffset == IF overlap /\ group.Obytes > 0 THEN group.Obytes ELSE 0
    IN Datagrams("LRW", group.IOsegment, length, 0, data, data + iomapinputoffset)

AllDatagrams ==
    IF group.Obytes + group.Ibytes = 0 THEN <<>>
    ELSE IF group.blockLRW THEN InputDatagrams \o OutputDatagrams ELSE LrwDatagrams

SendProcessData ==
    /\ phase = "mapped"
    /\ stage = "idle"
    /\ cycle < MaxCycle
    /\ frames' = AllDatagrams
    /\ busy' = busy + Len(frames')
    /\ stage' = "sent"
    /\ cycle' = cycle + 1
    /\ pulled' = 0
    /\ wkc' = 0
    /\ valid' = FALSE
    /\ image' = [b \in ImageBytes |-> NoByte]
    /\ carried' = {}
    /\ UNCHANGED <<vars, hasdc>>

--------------------------------------------------------------------------------
(* What the slaves do with a datagram (external). *)

BytesOf(f) == f.log .. f.log + f.len - 1
FmmuBytes(s, d) == UNION {f.LogStart .. f.LogStart + f.LogLength - 1 : f \in ToSet(fmmu[s][d])}
Reached(f, S, d) == {s \in S : FmmuBytes(s, d) \cap BytesOf(f) # {}}

\* A slave counts a datagram once for reading and, in an LRW, twice for writing.
WorkCounter(f, S) ==
    LET reads == Cardinality(Reached(f, S, "in"))
        writes == Cardinality(Reached(f, S, "out"))
    IN CASE f.cmd = "LRD" -> reads
         [] f.cmd = "LWR" -> writes
         [] f.cmd = "LRW" -> reads + 2 * writes

--------------------------------------------------------------------------------
(* ecx_receive_processdata_group *)

\* ecx_pushindex drops what does not fit on the stack.
pushed == IF Len(frames) < MaxBuf THEN Len(frames) ELSE MaxBuf
isDc(pos) == hasdc /\ pos = 1
\* "output WKC counts 2 times when using LRW, emulate the same for LWR"
Counted(f, S) == IF f.cmd = "LWR" THEN 2 * WorkCounter(f, S) ELSE WorkCounter(f, S)

CopyBack(f, S) ==
    IF f.cmd = "LWR" THEN image
    ELSE [b \in DOMAIN image |-> IF b \in f.to .. f.to + f.len - 1
                                 THEN <<f.log + b - f.to, S>> ELSE image[b]]

Taken(f, S) == IF f.cmd = "LRD" THEN {}
                ELSE {<<f.from + i, f.log + i, S>> : i \in 0 .. f.len - 1}

\* The datagram at pulled comes back, processed by the slaves S.
FrameBack ==
    /\ stage = "sent"
    /\ pulled < pushed
    /\ LET f == frames[pulled + 1]
       IN \E S \in SUBSET Slave :
            /\ wkc' = Counted(f, S) + IF isDc(pulled + 1) THEN 0 ELSE wkc
            /\ image' = CopyBack(f, S)
            /\ carried' = carried \cup Taken(f, S)
    /\ valid' = TRUE
    /\ pulled' = pulled + 1
    /\ busy' = busy - 1
    /\ UNCHANGED <<vars, hasdc, stage, cycle, frames>>

\* ecx_waitinframe returns EC_NOFRAME; the buffer is released all the same.
FrameMissing ==
    /\ stage = "sent"
    /\ pulled < pushed
    /\ pulled' = pulled + 1
    /\ busy' = busy - 1
    /\ UNCHANGED <<vars, hasdc, stage, cycle, frames, wkc, valid, image, carried>>

\* The stack is empty: ecx_clearindex, and EC_NOFRAME if nothing came.
ReceiveDone ==
    /\ stage = "sent"
    /\ pulled = pushed
    /\ stage' = "idle"
    /\ pulled' = 0
    /\ wkc' = IF valid THEN wkc ELSE NoFrame
    /\ UNCHANGED <<vars, hasdc, cycle, frames, valid, busy, image, carried>>

Exchange == SendProcessData \/ FrameBack \/ FrameMissing \/ ReceiveDone

MapFirst == MapStep /\ UNCHANGED <<hasdc, exchangeVars>>

\* The program ends after its last exchange.
Ended == phase = "mapped" /\ stage = "idle" /\ cycle = MaxCycle /\ UNCHANGED allVars

ExchangeNext == MapFirst \/ Exchange \/ Ended

ExchangeSpec == ExchangeInit /\ [][ExchangeNext]_allVars

--------------------------------------------------------------------------------
(* Properties. *)

ExchangeTypeOK ==
    /\ hasdc \in BOOLEAN
    /\ stage \in {"idle", "sent"}
    /\ cycle \in 0 .. MaxCycle
    /\ \A i \in DOMAIN frames : /\ frames[i].cmd \in {"LRD", "LWR", "LRW"}
                               /\ frames[i].len \in 0 .. MaxSegment
                               /\ frames[i].log \in 0 .. LogAddr
    /\ pulled \in 0 .. MaxBuf
    /\ wkc \in Int
    /\ valid \in BOOLEAN
    /\ busy \in Nat

Received == stage = "idle" /\ cycle > 0
LogicalByte(s, d, k) == {l \div 8 : l \in LogicalOf(s, d, k)}
PointerByte(s, d, k) == (PointerBit(s, d) + k) \div 8

InputFresh(s, k) ==
    LET m == PointerByte(s, "in", k)
    IN m \in DOMAIN image /\ image[m] # NoByte
         /\ LogicalByte(s, "in", k) = {image[m][1]} /\ s \in image[m][2]
OutputTaken(s, k) ==
    {c \in carried : c[2] \in LogicalByte(s, "out", k) /\ s \in c[3]} \in
        {{c} : c \in {d \in carried : d[1] = PointerByte(s, "out", k)}}

\* A work counter that reaches expectedWKC, the only thing the programs look at,
\* proves the exchange: every input at its pointer is what the slave has just
\* sent and every slave has taken the outputs the program stored for it.
WkcProvesExchange ==
    Received /\ wkc >= expectedWKC =>
        \A s \in Slave : /\ \A k \in DataBits(s, "in") : InputFresh(s, k)
                         /\ \A k \in DataBits(s, "out") : OutputTaken(s, k)

\* A slave "can only contribute once" for its inputs and once for its outputs
\* (ethercatconfig.c): the sum of the work counters is never more than expected.
CountsOnce == Received => wkc <= expectedWKC

\* Receive writes nothing but the Obytes + Ibytes that config_map returned as the
\* size of the IOmap.
StaysInImage ==
    \A b \in DOMAIN image : image[b] # NoByte => b < group.Obytes + group.Ibytes
================================================================================
