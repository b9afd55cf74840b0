---------------------------------- MODULE IoMap ----------------------------------
(***************************************************************************)
(* The process image (ethercatconfig.c: ecx_config_map_group and           *)
(* ecx_config_overlap_map_group with the two functions that map one slave, *)
(* ecx_config_create_output_mappings and ..._input_mappings).  The slaves  *)
(* are mapped one after the other: each gets FMMUs that tie logical bytes  *)
(* to the memory of its sync managers, and pointers into the IOmap of the  *)
(* program; the logical bytes are divided into segments of one frame each. *)
(*                                                                         *)
(* One group whose logical addresses start at 0, as group 0 does; a sync   *)
(* manager is its start address and its length in bytes.  The request for  *)
(* SAFE_OP and the release of the EEPROM that the same loops send belong   *)
(* to the state machine of the slaves and not to the map.                  *)
(***************************************************************************)
EXTENDS Naturals, Sequences, FiniteSets, SequencesExt

CONSTANTS Networks,      \* process data of the slaves in their order, after
                         \* ecx_map_sm, and which of the two maps is called
          MaxSegment,    \* EC_MAXLRWDATA - EC_FIRSTDCDATAGRAM
          MAXIOSEGMENTS  \* EC_MAXIOSEGMENTS (64 in the code)

ASSUME IoAssumption == /\ \A n \in Networks : n.slaves # <<>> /\ n.overlap \in BOOLEAN
                       /\ MaxSegment \in Nat \ {0}
                       /\ MAXIOSEGMENTS \in Nat \ {0}

Dirs == {"out", "in"}
NoFmmu == <<>>

VARIABLES slavelist,   \* the process data of each slave: bits and sync managers
          overlap,     \* TRUE: ecx_config_overlap_map_group
          fmmu,        \* FMMUs programmed in each slave for each direction
          phase,       \* which loop of the function runs
          cur,         \* the slave it is at
          LogAddr,     \* next logical byte, with overlap that of the whole group
          BitPos,      \* bits of it that are in use
          closed,      \* segments that are full: IOsegment[0 .. currentsegment-1]
          segmentsize, \* bytes in the present segment
          group        \* grouplist[0]: what send and receive work with

vars == <<slavelist, overlap, fmmu, phase, cur, LogAddr, BitPos, closed, segmentsize, group>>

Slaves == Len(slavelist)   \* *context->slavecount
Slave == 1 .. Slaves

NoGroup == [Obytes |-> 0, Ibytes |-> 0, inputs |-> 0, IOsegment |-> <<>>,
            Isegment |-> 0, Ioffset |-> 0, outputsWKC |-> 0, inputsWKC |-> 0,
            blockLRW |-> FALSE]

Init == /\ \E n \in Networks : slavelist = n.slaves /\ overlap = n.overlap
        /\ fmmu = [s \in Slave |-> [d \in Dirs |-> NoFmmu]]
        /\ phase = IF overlap THEN "overlap" ELSE "out"
        /\ cur = 1
        /\ LogAddr = 0
        /\ BitPos = 0
        /\ closed = <<>>
        /\ segmentsize = 0
        /\ group = NoGroup

--------------------------------------------------------------------------------
(* One slave, one direction. *)

bitsOf(s, d) == slavelist[s][d].bits
smOf(s, d) == slavelist[s][d].sm
\* "if Obits > 7": a slave with fewer bits is bit oriented and has no bytes.
bytesOf(bits) == IF bits > 7 THEN (bits + 7) \div 8 ELSE 0
EndAddr(m) == m.start + m.len

SumLen(sm, i, j) == FoldLeft(LAMBDA n, m : n + m.len, 0, SubSeq(sm, i, j))

\* The inner loop: the sync managers from the i-th on that share one FMMU, as
\* long as bits are missing and "addresses from more SM connect".
RunEnd(sm, i, bits) ==
    CHOOSE j \in i .. Len(sm) :
        /\ \A k \in i .. j - 1 : sm[k + 1].start <= EndAddr(sm[k]) /\ 8 * SumLen(sm, 1, k) < bits
        /\ j = Len(sm) \/ 8 * SumLen(sm, 1, j) >= bits \/ sm[j + 1].start > EndAddr(sm[j])

Carry(log, bit) == IF bit > 7 THEN <<log + 1, bit - 8>> ELSE <<log, bit>>

\* Mutant: an FMMU that ends inside a byte does not carry over to the next one.
BitFmmuNoCarry(log, bit, phys, bits) ==
    [fmmu |-> [LogStart |-> log, LogStartbit |-> bit, LogLength |-> 1,
               LogEndbit |-> (bit + bits - 1) % 8, PhysStart |-> phys],
     LogAddr |-> log, BitPos |-> (bit + bits) % 8]

\* "bit oriented slave": the bits go right behind those of the slave before.
BitFmmu(log, bit, phys, bits) ==
    LET last == Carry(log, bit + bits - 1)
        next == Carry(last[1], last[2] + 1)
    IN [fmmu |-> [LogStart |-> log, LogStartbit |-> bit, LogLength |-> last[1] - log + 1,
                  LogEndbit |-> last[2], PhysStart |-> phys],
        LogAddr |-> next[1], BitPos |-> next[2]]

\* "byte oriented slave": the FMMU starts with a fresh byte.
ByteFmmu(log, bit, phys, size) ==
    LET start == IF bit > 0 THEN log + 1 ELSE log
    IN [fmmu |-> [LogStart |-> start, LogStartbit |-> 0, LogLength |-> size,
                  LogEndbit |-> 7, PhysStart |-> phys],
        LogAddr |-> start + size, BitPos |-> 0]

SizeOf(bytes, count, done) == IF count + done > bytes THEN bytes - done ELSE count

\* One turn of the outer loop: SMc stands at sync manager st.smc; ByteCount has
\* counted every sync manager of the FMMUs before, too.
MapFmmu(sm, bits, st) ==
    LET bytes == bytesOf(bits)
        last == RunEnd(sm, st.smc, bits)
        size == SizeOf(bytes, SumLen(sm, 1, last), st.done)
        f == IF bytes = 0 THEN BitFmmu(st.LogAddr, st.BitPos, sm[st.smc].start, bits)
             ELSE ByteFmmu(st.LogAddr, st.BitPos, sm[st.smc].start, size)
    IN [fmmus |-> Append(st.fmmus, f.fmmu), done |-> st.done + f.fmmu.LogLength,
        smc |-> last + 1, LogAddr |-> f.LogAddr, BitPos |-> f.BitPos]

\* ecx_config_create_output_mappings, ecx_config_create_input_mappings
CreateMappings(sm, bits, log, bit) ==
    FoldLeft(LAMBDA st, m : IF st.done < (bits + 7) \div 8 THEN MapFmmu(sm, bits, st) ELSE st,
             [fmmus |-> <<>>, done |-> 0, smc |-> 1, LogAddr |-> log, BitPos |-> bit], sm)

--------------------------------------------------------------------------------
(* Segments: diff bytes join the present one or open the next. *)

\* Mutant: a new segment starts empty instead of with the bytes that opened it.
AccountEmpty(diff) ==
    IF segmentsize + diff > MaxSegment
      THEN IF Len(closed) < MAXIOSEGMENTS - 1
             THEN closed' = Append(closed, segmentsize) /\ segmentsize' = 0
             ELSE UNCHANGED <<closed, segmentsize>>
      ELSE segmentsize' = segmentsize + diff /\ UNCHANGED closed

Account(diff) ==
    IF segmentsize + diff > MaxSegment
      THEN IF Len(closed) < MAXIOSEGMENTS - 1
             THEN closed' = Append(closed, segmentsize) /\ segmentsize' = diff
             ELSE UNCHANGED <<closed, segmentsize>>
      ELSE segmentsize' = segmentsize + diff /\ UNCHANGED closed

\* "if (BitPos)": the byte begun by bit oriented slaves is complete.
CloseByte ==
    IF BitPos > 0
      THEN LogAddr' = LogAddr + 1 /\ BitPos' = 0 /\ Account(1)
      ELSE UNCHANGED <<LogAddr, BitPos, closed, segmentsize>>

--------------------------------------------------------------------------------
(* ecx_config_map_group *)

MapSlave(d, counter, blocked) ==
    /\ cur <= Slaves
    /\ cur' = cur + 1
    /\ IF bitsOf(cur, d) > 0
         THEN LET m == CreateMappings(smOf(cur, d), bitsOf(cur, d), LogAddr, BitPos)
              IN /\ fmmu' = [fmmu EXCEPT ![cur][d] = m.fmmus]
                 /\ LogAddr' = m.LogAddr
                 /\ BitPos' = m.BitPos
                 /\ Account(m.LogAddr - LogAddr)
         ELSE UNCHANGED <<fmmu, LogAddr, BitPos, closed, segmentsize>>
    /\ group' = [group EXCEPT ![counter] = IF bitsOf(cur, d) > 0 THEN @ + 1 ELSE @,
                              !.blockLRW = @ \/ blocked]
    /\ UNCHANGED <<slavelist, overlap, phase>>

MapOutput == phase = "out" /\ MapSlave("out", "outputsWKC", FALSE)

\* The outputs are complete; inputs go on in the same segment.
CloseOutputs ==
    /\ phase = "out"
    /\ cur > Slaves
    /\ CloseByte
    /\ group' = [group EXCEPT !.Obytes = LogAddr', !.Isegment = Len(closed'), !.Ioffset = segmentsize']
    /\ phase' = "in"
    /\ cur' = 1
    /\ UNCHANGED <<slavelist, overlap, fmmu>>

MapInput == phase = "in" /\ MapSlave("in", "inputsWKC", slavelist[cur].blockLRW)

CloseInputs ==
    /\ phase = "in"
    /\ cur > Slaves
    /\ CloseByte
    /\ group' = [group EXCEPT !.IOsegment = Append(closed', segmentsize'),
                              !.inputs = group.Obytes,
                              !.Ibytes = LogAddr' - group.Obytes]
    /\ phase' = "mapped"
    /\ UNCHANGED <<slavelist, overlap, fmmu, cur>>

--------------------------------------------------------------------------------
(* ecx_config_overlap_map_group *)

\* A slave without process data of that direction leaves the address alone.
MapFrom(s, d) ==
    IF bitsOf(s, d) = 0 THEN [fmmus |-> NoFmmu, LogAddr |-> LogAddr, BitPos |-> 0]
    ELSE CreateMappings(smOf(s, d), bitsOf(s, d), LogAddr, 0)

\* Outputs and inputs of a slave start at the same logical address; the next
\* slave starts behind the longer of the two.
MapOverlap ==
    /\ phase = "overlap"
    /\ cur <= Slaves
    /\ LET o == MapFrom(cur, "out")
           i == MapFrom(cur, "in")
           soLogAddr == IF o.BitPos > 0 THEN o.LogAddr + 1 ELSE o.LogAddr
           siLogAddr == IF i.BitPos > 0 THEN i.LogAddr + 1 ELSE i.LogAddr
           mLogAddr == IF siLogAddr > soLogAddr THEN siLogAddr ELSE soLogAddr
       IN /\ fmmu' = [fmmu EXCEPT ![cur] = [d \in Dirs |-> IF d = "out" THEN o.fmmus ELSE i.fmmus]]
          /\ LogAddr' = mLogAddr
          /\ Account(mLogAddr - LogAddr)
          /\ group' = [group EXCEPT !.Obytes = soLogAddr, !.Ibytes = siLogAddr,
                         !.outputsWKC = IF bitsOf(cur, "out") > 0 THEN @ + 1 ELSE @,
                         !.inputsWKC = IF bitsOf(cur, "in") > 0 THEN @ + 1 ELSE @,
                         !.blockLRW = @ \/ slavelist[cur].blockLRW]
    /\ cur' = cur + 1
    /\ UNCHANGED <<slavelist, overlap, phase, BitPos>>

\* Isegment and Ioffset stay 0; the inputs of the IOmap lie behind the outputs.
CloseOverlap ==
    /\ phase = "overlap"
    /\ cur > Slaves
    /\ group' = [group EXCEPT !.IOsegment = Append(closed, segmentsize), !.inputs = group.Obytes]
    /\ phase' = "mapped"
    /\ UNCHANGED <<slavelist, overlap, fmmu, cur, LogAddr, BitPos, closed, segmentsize>>

MapStep == \/ MapOutput \/ CloseOutputs \/ MapInput \/ CloseInputs
           \/ MapOverlap \/ CloseOverlap

\* The image is mapped and the program goes on to exchange it.
Mapped == phase = "mapped" /\ UNCHANGED vars

Next == MapStep \/ Mapped

Spec == Init /\ [][Next]_vars

--------------------------------------------------------------------------------
(* What the map means. *)

\* slavelist[s].outputs with Ostartbit, slavelist[s].inputs with Istartbit: the
\* bit of the IOmap the program finds the first process data bit at.
PointerBit(s, d) ==
    LET f == fmmu[s][d][1]
        moved == IF overlap /\ d = "in" THEN group.Obytes ELSE 0
    IN 8 * (moved + f.LogStart) + f.LogStartbit

LogBits(f) == 8 * f.LogStart + f.LogStartbit .. 8 * (f.LogStart + f.LogLength - 1) + f.LogEndbit
\* The bit of the slave's memory that an FMMU ties to logical bit l.
PhysBit(f, l) == 8 * f.PhysStart + l - (8 * f.LogStart + f.LogStartbit)

\* The k-th process data bit of a slave, counted through its sync managers.
DataBit(s, d, k) ==
    LET sm == smOf(s, d)
        i == CHOOSE i \in DOMAIN sm : 8 * SumLen(sm, 1, i - 1) <= k /\ k < 8 * SumLen(sm, 1, i)
    IN 8 * sm[i].start + k - 8 * SumLen(sm, 1, i - 1)

DataBits(s, d) == 0 .. bitsOf(s, d) - 1

\* The logical bits that read or write the k-th process data bit.
LogicalOf(s, d, k) ==
    {l \in UNION {LogBits(fmmu[s][d][i]) : i \in DOMAIN fmmu[s][d]} :
        \E i \in DOMAIN fmmu[s][d] : /\ l \in LogBits(fmmu[s][d][i])
                                     /\ PhysBit(fmmu[s][d][i], l) = DataBit(s, d, k)}

\* What the program reads and writes at its pointer is the process data of the
\* slave in the order of its sync managers, also when they need several FMMUs
\* ("if addresses from more SM connect use one FMMU otherwise break up in
\* multiple FMMU", ethercatconfig.c).
PointerMeetsData ==
    phase = "mapped" =>
        \A s \in Slave, d \in Dirs : \A k \in DataBits(s, d) :
            LogicalOf(s, d, k) = {PointerBit(s, d) + k - IF overlap /\ d = "in" THEN 8 * group.Obytes ELSE 0}

Bits(s, d) == UNION {LogBits(fmmu[s][d][i]) : i \in DOMAIN fmmu[s][d]}

\* No two slaves share a bit of the outputs or of the inputs, and unless the map
\* overlaps on purpose no output shares one with an input.
NoSharedBit ==
    \A s, t \in Slave, d, e \in Dirs :
        (<<s, d>> # <<t, e>> /\ (overlap => s # t)) =>
            Bits(s, d) \cap Bits(t, e) = {}

Total(seq) == FoldLeft(LAMBDA a, b : a + b, 0, seq)

\* The segments are exactly the logical bytes of the group, each fits in a frame
\* if every slave does, and the inputs start where Isegment and Ioffset say.
SegmentsCover ==
    phase = "mapped" =>
        /\ Total(group.IOsegment) = LogAddr
        /\ \A i \in DOMAIN group.IOsegment : group.IOsegment[i] <= MaxSegment
        /\ ~overlap => Total(SubSeq(group.IOsegment, 1, group.Isegment)) + group.Ioffset = group.Obytes
================================================================================
